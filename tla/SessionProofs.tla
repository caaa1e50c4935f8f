--------------------------- MODULE SessionProofs ---------------------------
(***************************************************************************)
(* The steps of deliveries, workers, reconciliation and the environment    *)
(* keep the inductive invariant and settle Turns only; the others admit,   *)
(* start and complete Turns as TurnQueue does. From these follow type      *)
(* correctness, the ownership of running Turns and the implementation of   *)
(* TurnQueue by Session, for every value of the constants.                 *)
(***************************************************************************)
EXTENDS SessionStepProofs

USE BoundAssumption

\* Replacing one Turn of a row.
LEMMA OneTurnFields ==
    ASSUME NEW r \in Row, NEW n \in TurnIds, NEW t \in Turn
    PROVE  LET q == [r EXCEPT !.turn = [r.turn EXCEPT ![n] = t]] IN
           /\ q \in Row
           /\ q.process = r.process /\ q.status = r.status /\ q.executing = r.executing
           /\ q.next_turn_seq = r.next_turn_seq
           /\ \A m \in TurnIds : q.turn[m] = IF m = n THEN t ELSE r.turn[m]
<1> DEFINE f == [r.turn EXCEPT ![n] = t]
<1>1. f \in [TurnIds -> Turn] /\ \A m \in TurnIds : f[m] = IF m = n THEN t ELSE r.turn[m]
    BY DEF Row
<1> HIDE DEF f
<1>2. [r EXCEPT !.turn = f] \in Row
    BY <1>1 DEF Row
<1> QED BY <1>1, <1>2 DEF Row, f

\* A Turn that keeps its status and process changes nothing that matters.
LEMMA SameTurnIsFine ==
    ASSUME NEW c, NEW r, Fine(r, c), NEW n \in TurnIds, NEW t \in Turn,
           t.status = r.turn[n].status, t.process_epoch = r.turn[n].process_epoch
    PROVE  LET q == [r EXCEPT !.turn = [r.turn EXCEPT ![n] = t]] IN Fine(q, c) /\ Settles(r, q)
<1> DEFINE q == [r EXCEPT !.turn = [r.turn EXCEPT ![n] = t]]
<1>1. /\ q \in Row
      /\ q.process = r.process /\ q.status = r.status /\ q.executing = r.executing
      /\ q.next_turn_seq = r.next_turn_seq
      /\ \A m \in TurnIds : q.turn[m] = IF m = n THEN t ELSE r.turn[m]
    BY OneTurnFields DEF Fine
<1> HIDE DEF q
<1>2. \A m \in TurnIds : q.turn[m].status = r.turn[m].status /\ q.turn[m].process_epoch = r.turn[m].process_epoch
    BY <1>1
<1>3. Running(q) = Running(r)
    BY <1>2 DEF Running, TurnsIn
<1>4. Settles(r, q) /\ Numbered(q) /\ Ceasing(q) /\ Healthy(q)
    BY <1>1, <1>2, <1>3 DEF Fine, Settles, Numbered, Ceasing, Healthy, LiveProcess
<1>5. Owned(q, c)
    <2>1. \A m \in Running(r) : m \in TurnIds
        BY DEF Running, TurnsIn
    <2>2. Owned(r, c)
        BY DEF Fine
    <2> QED BY <1>1, <1>2, <1>3, <2>1, <2>2, SMTT(60) DEF Owned, Accepting, LiveProcess
<1> QED BY <1>1, <1>4, <1>5 DEF Fine, q

\* The delivery of controls.
LEMMA DeliverySteps ==
    ASSUME SessionInv, NEW s \in Sessions,
           \/ AcquireRuntimeAttachment(s)
           \/ PrepareSessionDelivery(s)
           \/ \E failed \in BOOLEAN : AcknowledgeSessionDelivery(s, failed)
           \/ ObserveSessionReady(s)
    PROVE  Stepped
<1> DEFINE r == session[s]
<1>1. Fine(r, computer) /\ r \in Row
    BY DEF SessionInv, AllFine
<1>2. CASE AcquireRuntimeAttachment(s)
    <2> DEFINE q == [r EXCEPT !.process.attached = TRUE, !.process.current = FALSE, !.idle = FALSE]
    <2>1. q \in Row /\ Alike(r, q)
        BY <1>1, ZenonT(60) DEF Row, Process, Alike
    <2>2. Fine(q, computer) /\ Settles(r, q)
        BY <1>1, <2>1, AlikeIsFine
    <2>3. /\ session' = [session EXCEPT ![s] = q] /\ computer' = computer /\ controls' = controls
          /\ faults' \in Nat
        BY <1>2 DEF AcquireRuntimeAttachment, UpdateRow, SessionInv
    <2> QED BY <2>2, <2>3, RowSteps, ZenonT(60)
<1>3. CASE PrepareSessionDelivery(s)
    <2> DEFINE kind == DesiredControl(session, s)
               q == [r EXCEPT !.process.control_kind = kind, !.process.current = TRUE,
                       !.process.acknowledged = FALSE, !.process.control_error = FALSE, !.idle = FALSE]
    <2>1. kind \in {"resume", "suspend", "shutdown"}
        BY DEF DesiredControl
    <2>2. /\ session' = [session EXCEPT ![s] = q] /\ computer' = computer /\ controls' = controls
          /\ faults' \in Nat
        BY <1>3 DEF PrepareSessionDelivery, UpdateRow, SessionInv
    <2> HIDE DEF kind
    <2>3. q \in Row /\ Alike(r, q)
        BY <1>1, <2>1, ZenonT(60) DEF Row, Process, Alike
    <2>4. Fine(q, computer) /\ Settles(r, q)
        BY <1>1, <2>3, AlikeIsFine
    <2> QED BY <2>2, <2>4, RowSteps, ZenonT(60)
<1>4. ASSUME NEW failed \in BOOLEAN, AcknowledgeSessionDelivery(s, failed) PROVE Stepped
    <2> DEFINE p == r.process
               stopsTurn == ~failed /\ p.control_kind # "shutdown" /\ p.stop = "turn"
               controlled == [p EXCEPT !.acknowledged = @ \/ ~failed,
                                       !.control_error = IF p.acknowledged THEN @ ELSE failed,
                                       !.stop = IF stopsTurn THEN "none" ELSE @]
               e == IF stopsTurn THEN 0 ELSE r.executing
               q == [r EXCEPT !.process = controlled, !.executing = e]
    <2>1. /\ session' = [session EXCEPT ![s] = q] /\ computer' = computer /\ controls' = controls
          /\ faults' \in Nat
        <3>1. UpdateRow(s, q)
            BY <1>4, ZenonT(60) DEF AcknowledgeSessionDelivery
        <3>2. faults' \in Nat
            <4>1. faults' = IF failed THEN faults + 1 ELSE faults
                BY <1>4, ZenonT(60) DEF AcknowledgeSessionDelivery
            <4> QED BY <4>1 DEF SessionInv
        <3> HIDE DEF q
        <3> QED BY <3>1, <3>2 DEF UpdateRow
    <2>2. p \in Process
        BY <1>1 DEF Row
    <2>3. /\ controlled \in Process
          /\ controlled.epoch = p.epoch /\ controlled.fenced = p.fenced /\ controlled.status = p.status
          /\ controlled.lease = p.lease /\ controlled.failure = p.failure
          /\ controlled.stop = IF stopsTurn THEN "none" ELSE p.stop
        BY <2>2, ZenonT(60) DEF Process
    <2>4. stopsTurn => Running(r) = {}
        BY <1>1 DEF Fine, Owned
    <2>5. e \in 0..MaxTurns
        BY <1>1 DEF Row
    <2> HIDE DEF controlled, stopsTurn, e
    <2>6. /\ q \in Row /\ q.process = controlled /\ q.turn = r.turn /\ q.status = r.status
          /\ q.next_turn_seq = r.next_turn_seq /\ q.executing = IF stopsTurn THEN 0 ELSE r.executing
        BY <1>1, <2>3, <2>5, ZenonT(60) DEF Row, e
    <2> HIDE DEF q
    <2>7. Running(q) = Running(r)
        BY <2>6 DEF Running, TurnsIn
    <2>8. Settles(r, q) /\ Numbered(q) /\ Healthy(q) /\ Ceasing(q)
        BY <1>1, <2>3, <2>6, <2>7 DEF Fine, Settles, Numbered, Healthy, Ceasing, LiveProcess
    <2>9. Owned(q, computer)
        <3>1. Owned(r, computer)
            BY <1>1 DEF Fine
        <3>2. CASE Running(r) = {}
            BY <2>7, <3>2 DEF Owned
        <3>3. CASE ~stopsTurn
            <4>1. /\ q.process.epoch = r.process.epoch /\ q.process.fenced = r.process.fenced
                  /\ q.process.status = r.process.status /\ q.process.lease = r.process.lease
                  /\ q.process.failure = r.process.failure /\ q.process.stop = r.process.stop
                BY <2>3, <2>6, <3>3
            <4> QED BY <2>6, <2>7, <3>1, <3>3, <4>1 DEF Owned, Accepting, LiveProcess
        <3> QED BY <2>4, <3>2, <3>3
    <2>10. Fine(q, computer)
        BY <2>6, <2>8, <2>9 DEF Fine
    <2> QED BY <2>1, <2>8, <2>10, RowSteps, ZenonT(60)
<1>5. CASE ObserveSessionReady(s)
    <2> DEFINE q == [r EXCEPT !.process.status = "ready"]
    <2>1. /\ session' = [session EXCEPT ![s] = q] /\ computer' = computer /\ controls' = controls
          /\ faults' \in Nat /\ r.process.status = "starting"
        BY <1>5 DEF ObserveSessionReady, UpdateRow, SessionInv
    <2>2. /\ q \in Row /\ q.turn = r.turn /\ q.status = r.status /\ q.executing = r.executing
          /\ q.next_turn_seq = r.next_turn_seq
          /\ q.process.epoch = r.process.epoch /\ q.process.fenced = r.process.fenced
          /\ q.process.status = "ready" /\ q.process.stop = r.process.stop
          /\ q.process.failure = r.process.failure
        BY <1>1 DEF Row, Process
    <2> HIDE DEF q
    <2>3. Running(r) = {}
        BY <1>1, <2>1 DEF Fine, Owned
    <2>4. Running(q) = {} /\ Settles(r, q) /\ Numbered(q) /\ Healthy(q) /\ Ceasing(q)
        BY <1>1, <2>1, <2>2, <2>3 DEF Fine, Running, TurnsIn, Settles, Numbered, Healthy, Ceasing, LiveProcess
    <2>5. Fine(q, computer)
        BY <2>2, <2>4, QuietIsFine
    <2> QED BY <2>1, <2>4, <2>5, RowSteps, ZenonT(60)
<1> QED BY <1>2, <1>3, <1>4, <1>5

\* Fencing keeps the epoch of the lease.
LEMMA FenceLeaseFields ==
    ASSUME NEW c \in Computer, NEW rows
    PROVE  FenceLease(rows, c) \in Computer /\ FenceLease(rows, c).lease.epoch = c.lease.epoch
<1> DEFINE fenced == [c EXCEPT !.lease.status = "lost", !.lease.fenced = TRUE]
           armed == IF c.deadline = "none" /\ RunnableDemand(rows)
                    THEN [fenced EXCEPT !.deadline = "pending"] ELSE fenced
<1>1. fenced \in Computer /\ fenced.lease.epoch = c.lease.epoch
    BY ZenonT(60) DEF Computer, Lease
<1> HIDE DEF fenced
<1>2. armed \in Computer /\ armed.lease.epoch = c.lease.epoch
    BY <1>1 DEF Computer
<1>3. FenceLease(rows, c) = RetireUnusedExecutionAdmission(rows, armed)
    BY DEF FenceLease, fenced
<1> HIDE DEF armed
<1> QED BY <1>2, <1>3, AdmissionFields

\* Only the Computer changes, and its lease stays live if it was.
LEMMA ComputerSteps ==
    ASSUME SessionInv, NEW d \in Computer, d.lease.epoch = computer.lease.epoch,
           LeaseLive(computer) => LeaseLive(d),
           NEW rows, AllFine(rows, computer), AllSettle(session, rows),
           session' = rows, computer' = d, controls' = controls, faults' = faults
    PROVE  Stepped
<1>1. AllFine(rows, d)
    BY SameLeaseIsFine
<1> QED BY <1>1 DEF Stepped, SessionInv

\* A failure observed on a live process.
LEMMA FailureSteps ==
    ASSUME SessionInv, NEW s \in Sessions, LiveProcess(session[s]),
           UpdateRow(s, ObserveFailure(session[s])), faults' \in Nat
    PROVE  Stepped
<1> DEFINE q == ObserveFailure(session[s])
<1>1. Fine(session[s], computer)
    BY DEF SessionInv, AllFine
<1>2. Fine(q, computer) /\ Settles(session[s], q)
    BY <1>1, FailureIsFine, ZenonT(60) DEF ObserveFailure
<1>3. session' = [session EXCEPT ![s] = q] /\ computer' = computer /\ controls' = controls
    BY DEF UpdateRow
<1> HIDE DEF q
<1> QED BY <1>2, <1>3, RowSteps, ZenonT(60)

\* The worker's observations of the lease and of processes.
LEMMA WorkerSteps ==
    ASSUME SessionInv, Worker PROVE Stepped
<1>1. CASE ObserveFreshLeaseReady
    <2> DEFINE d == [computer EXCEPT !.lease.status = "active", !.lease.initialized = TRUE,
                                     !.initialized = TRUE, !.deadline = "none"]
    <2>1. d \in Computer /\ d.lease.epoch = computer.lease.epoch /\ ~LeaseLive(computer)
        BY <1>1, ZenonT(60) DEF SessionInv, Computer, Lease, LeaseLive, ObserveFreshLeaseReady
    <2>2. AllSettle(session, session)
        BY DEF AllSettle, Settles
    <2>3. session' = session /\ computer' = d /\ controls' = controls /\ faults' = faults
        BY <1>1 DEF ObserveFreshLeaseReady
    <2> HIDE DEF d
    <2> QED BY <2>1, <2>2, <2>3, ComputerSteps DEF SessionInv
<1>2. CASE ObserveLeaseStopped
    <2> DEFINE f == FenceLease(session, computer)
               d == [f EXCEPT !.lease.pressure = "none"]
    <2>1. f \in Computer /\ f.lease.epoch = computer.lease.epoch
        BY FenceLeaseFields DEF SessionInv
    <2>2. /\ Allocated(computer)
          /\ session' = LoseLeaseProcesses(RecordComputerRecoveryGap(
                            SettleLostSaves(session, computer.lease.epoch), computer.lease.epoch), d, TRUE)
          /\ computer' = d /\ controls' = controls /\ faults' \in {faults, faults + 1}
        BY <1>2 DEF ObserveLeaseStopped
    <2> HIDE DEF f
    <2>3. d \in Computer /\ d.lease.epoch = computer.lease.epoch
        BY <2>1 DEF Computer, Lease
    <2> HIDE DEF d
    <2>4. faults' \in Nat
        BY <2>2 DEF SessionInv
    <2> QED BY <2>2, <2>3, <2>4, LossSteps, ZenonT(60)
<1>3. ASSUME NEW active \in BOOLEAN, ReportStoragePressure(active) PROVE Stepped
    <2> DEFINE level == IF ~active THEN "none" ELSE IF computer.lease.pressure = "none" THEN "reported"
                        ELSE computer.lease.pressure
               d == [computer EXCEPT !.lease.pressure = level]
    <2>1. level \in {"none", "reported", "prolonged", "exhausted"}
        BY DEF SessionInv, Computer, Lease
    <2>2. computer' = d
        BY <1>3 DEF ReportStoragePressure
    <2>3. session' = ReconcileStoragePressure(session, computer') /\ controls' = controls /\ faults' = faults
        BY <1>3 DEF ReportStoragePressure
    <2> HIDE DEF level
    <2>4. d \in Computer /\ d.lease.epoch = computer.lease.epoch /\ (LeaseLive(computer) => LeaseLive(d))
        BY <2>1 DEF SessionInv, Computer, Lease, LeaseLive, Allocated
    <2> HIDE DEF d
    <2> DEFINE rows == ReconcileStoragePressure(session, computer')
    <2>5. AllFine(rows, computer) /\ AllSettle(session, rows)
        BY StoragePressureIsFine DEF SessionInv
    <2>6. session' = rows
        BY <2>3
    <2> HIDE DEF rows
    <2> QED BY <2>2, <2>3, <2>4, <2>5, <2>6, ComputerSteps
<1>4. ASSUME NEW s \in Sessions, NEW n \in TurnIds, Publish(s, n) PROVE Stepped
    <2> DEFINE r == session[s]
               t == [r.turn[n] EXCEPT !.save = "published"]
               q == [r EXCEPT !.turn = [r.turn EXCEPT ![n] = t]]
               rows == [session EXCEPT ![s] = q]
               d == [computer EXCEPT !.saved = TRUE]
    <2>1. Fine(r, computer) /\ r \in Row /\ session \in [Sessions -> Row]
        BY DEF SessionInv, AllFine
    <2>2. r.turn[n] \in Turn
        BY <2>1 DEF Row
    <2>3. t \in Turn /\ t.status = r.turn[n].status /\ t.process_epoch = r.turn[n].process_epoch
        BY <2>2 DEF Turn
    <2>4. session' = rows /\ computer' = d /\ controls' = controls /\ faults' = faults
        BY <1>4, <2>1 DEF Publish
    <2> HIDE DEF t
    <2>5. Fine(q, computer) /\ Settles(r, q)
        BY <2>1, <2>3, SameTurnIsFine
    <2> HIDE DEF q
    <2>6. AllFine(rows, computer) /\ AllSettle(session, rows)
        BY <2>5, OneRowIsFine DEF SessionInv
    <2>7. d \in Computer /\ d.lease.epoch = computer.lease.epoch /\ (LeaseLive(computer) => LeaseLive(d))
        BY ZenonT(60) DEF SessionInv, Computer, LeaseLive, Allocated
    <2> HIDE DEF d, rows
    <2> QED BY <2>4, <2>6, <2>7, ComputerSteps
<1>5. ASSUME NEW s \in Sessions, ObserveSessionStopped(s) PROVE Stepped
    <2> DEFINE r == session[s]
               asked == DesiredControl(session, s) = "shutdown"
               settled == InterruptRunningSessionTurn(r)
               q == ProcessGone(IF asked THEN settled ELSE RecordSessionFailure(settled, TRUE), "stopped")
    <2>1. /\ LiveProcess(r) /\ UpdateRow(s, q) /\ faults' = IF asked THEN faults ELSE faults + 1
        BY <1>5, ZenonT(60) DEF ObserveSessionStopped, Hosted
    <2>2. Fine(r, computer)
        BY DEF SessionInv, AllFine
    <2>3. asked \in BOOLEAN
        OBVIOUS
    <2> HIDE DEF asked
    <2>4. Fine(q, computer) /\ Settles(r, q)
        BY <2>1, <2>2, <2>3, StoppedIsFine, ZenonT(60)
    <2> HIDE DEF q
    <2>5. faults' \in Nat
        BY <2>1, <2>3 DEF SessionInv
    <2> QED BY <2>1, <2>4, <2>5, RowSteps, ZenonT(60) DEF UpdateRow
<1>6. ASSUME NEW s \in Sessions, ObserveSessionFailure(s) PROVE Stepped
    <2>1. LiveProcess(session[s]) /\ UpdateRow(s, ObserveFailure(session[s]))
        BY <1>6, ZenonT(60) DEF ObserveSessionFailure, RuntimeAuthority, Hosted
    <2>2. faults' \in Nat
        BY <1>6 DEF ObserveSessionFailure, SessionInv
    <2> QED BY <2>1, <2>2, FailureSteps
<1>7. ASSUME NEW s \in Sessions,
             \/ AcquireRuntimeAttachment(s)
             \/ PrepareSessionDelivery(s)
             \/ \E failed \in BOOLEAN : AcknowledgeSessionDelivery(s, failed)
             \/ ObserveSessionReady(s)
      PROVE Stepped
    BY <1>7, DeliverySteps
<1> QED BY <1>1, <1>2, <1>3, <1>4, <1>5, <1>6, <1>7, ZenonT(60) DEF Worker

\* The reconcilers of the control plane.
LEMMA ReconcileSteps ==
    ASSUME SessionInv, Reconcile PROVE Stepped
<1>1. ASSUME NEW s \in Sessions, ExpireSessionDeadline(s) PROVE Stepped
    <2> DEFINE q == AdvanceControlAuthority(ProcessStops(RequestProcessStop(
                        SettleTurns(session[s], Running(session[s]), "interrupted"), "process")))
    <2>1. Fine(session[s], computer)
        BY DEF SessionInv, AllFine
    <2>2. Fine(q, computer) /\ Settles(session[s], q)
        BY <2>1, DeadlineIsFine
    <2>3. UpdateRow(s, q) /\ faults' = faults
        BY <1>1, ZenonT(60) DEF ExpireSessionDeadline
    <2> HIDE DEF q
    <2> QED BY <2>2, <2>3, RowSteps, ZenonT(60) DEF UpdateRow, SessionInv
<1>2. ASSUME NEW s \in Sessions, ReconcileProcessStopDeadline(s) PROVE Stepped
    BY <1>2, FailureSteps DEF ReconcileProcessStopDeadline, SessionInv
<1>3. ASSUME NEW s \in Sessions, ReconcileSessionIdle(s) PROVE Stepped
    <2>1. Fine(session[s], computer) /\ session[s] \in Row /\ session \in [Sessions -> Row]
        BY DEF SessionInv, AllFine
    <2>2. ASSUME NEW b \in BOOLEAN, session' = [session EXCEPT ![s].idle = b] PROVE Stepped
        <3> DEFINE q == [session[s] EXCEPT !.idle = b]
        <3>1. q \in Row /\ Alike(session[s], q)
            BY <2>1 DEF Row, Alike
        <3>2. Fine(q, computer) /\ Settles(session[s], q)
            BY <2>1, <3>1, AlikeIsFine
        <3>3. session' = [session EXCEPT ![s] = q]
            BY <2>1, <2>2
        <3>4. computer' = computer /\ controls' = controls /\ faults' = faults
            BY <1>3 DEF ReconcileSessionIdle
        <3> HIDE DEF q
        <3> QED BY <3>2, <3>3, <3>4, RowSteps, ZenonT(60) DEF SessionInv
    <2>3. CASE session' = BeginClose(session, Tree(s))
        <3> DEFINE rows == BeginClose(session, Tree(s))
        <3>1. AllFine(rows, computer) /\ AllSettle(session, rows)
            BY BeginCloseIsFine DEF SessionInv
        <3> QED BY <1>3, <2>3, <3>1 DEF ReconcileSessionIdle, Stepped, SessionInv
    <2> QED BY <1>3, <2>2, <2>3, ZenonT(60) DEF ReconcileSessionIdle
<1>4. ASSUME NEW s \in Sessions, ReconcileSessionClosure(s) PROVE Stepped
    <2> DEFINE rows == DrainClosingSessions(session, Tree(Root(s)))
    <2>1. AllFine(rows, computer) /\ AllSettle(session, rows)
        BY DrainIsFine DEF SessionInv
    <2> QED BY <1>4, <2>1 DEF ReconcileSessionClosure, Stepped, SessionInv
<1>5. CASE ReconcileSessionStoragePressure
    <2> DEFINE rows == ReconcileStoragePressure(session, computer)
    <2>1. AllFine(rows, computer) /\ AllSettle(session, rows)
        BY StoragePressureIsFine DEF SessionInv
    <2> QED BY <1>5, <2>1 DEF ReconcileSessionStoragePressure, Stepped, SessionInv
<1>6. CASE ExpireExecutionAdmission
    <2> DEFINE rows == [s \in Sessions |-> IF Held(session, s) THEN session[s] ELSE FailQueuedTurns(session[s])]
    <2>1. \A s \in Sessions : Fine(session[s], computer) /\ Settles(session[s], session[s])
        BY DEF SessionInv, AllFine, Settles
    <2>2. \A s \in Sessions : Fine(rows[s], computer) /\ Settles(session[s], rows[s])
        BY <2>1, FailQueuedIsFine
    <2>3. AllFine(rows, computer) /\ AllSettle(session, rows)
        BY <2>2, RowwiseIsFine
    <2>4. /\ session' = rows /\ computer' = RetireUnusedExecutionAdmission(session', computer)
          /\ controls' = controls /\ faults' = faults
        BY <1>6 DEF ExpireExecutionAdmission
    <2> HIDE DEF rows
    <2>5. computer' \in Computer /\ computer'.lease = computer.lease
        BY <2>4, AdmissionFields DEF SessionInv
    <2>6. LeaseLive(computer) => LeaseLive(computer')
        BY <2>5 DEF LeaseLive, Allocated
    <2> QED BY <2>3, <2>4, <2>5, <2>6, ComputerSteps
<1>7. CASE ExpireImageWaiter
    <2> DEFINE failed == [s \in Sessions |-> FailQueuedTurns(session[s])]
               rows == BeginClose(failed, Sessions)
               d == [computer EXCEPT !.preparation = "failed"]
    <2>1. \A s \in Sessions : Fine(failed[s], computer) /\ Settles(session[s], failed[s])
        BY FailQueuedIsFine DEF SessionInv, AllFine
    <2>2. AllFine(failed, computer) /\ AllSettle(session, failed)
        BY <2>1, RowwiseIsFine
    <2>3. session' = rows /\ computer' = d /\ controls' = controls /\ faults' = faults
        BY <1>7 DEF ExpireImageWaiter
    <2> HIDE DEF failed
    <2>4. AllFine(rows, computer) /\ AllSettle(failed, rows)
        BY <2>2, BeginCloseIsFine
    <2> HIDE DEF rows
    <2>5. AllSettle(session, rows)
        BY <2>2, <2>4, AllSettleTransitive
    <2>6. d \in Computer /\ d.lease.epoch = computer.lease.epoch /\ (LeaseLive(computer) => LeaseLive(d))
        BY DEF SessionInv, Computer, LeaseLive, Allocated
    <2> HIDE DEF d
    <2> QED BY <2>3, <2>4, <2>5, <2>6, ComputerSteps
<1> QED BY <1>1, <1>2, <1>3, <1>4, <1>5, <1>6, <1>7 DEF Reconcile

\* The clocks and the outside world.
LEMMA EnvironmentSteps ==
    ASSUME SessionInv, Environment PROVE Stepped
<1>1. AllSettle(session, session)
    BY DEF AllSettle, Settles
<1>2. ASSUME NEW d \in Computer, d.lease.epoch = computer.lease.epoch, LeaseLive(computer) => LeaseLive(d),
             computer' = d, UNCHANGED <<session, controls, faults>>
      PROVE  Stepped
    BY <1>1, <1>2, ComputerSteps DEF SessionInv
<1>3. CASE StoragePressureElapses
    <2> DEFINE level == IF computer.lease.pressure = "reported" THEN "prolonged" ELSE "exhausted"
               d == [computer EXCEPT !.lease.pressure = level]
    <2>1. d \in Computer /\ d.lease.epoch = computer.lease.epoch /\ (LeaseLive(computer) => LeaseLive(d))
        BY DEF SessionInv, Computer, Lease, LeaseLive, Allocated
    <2>2. computer' = d /\ UNCHANGED <<session, controls, faults>>
        BY <1>3 DEF StoragePressureElapses
    <2> QED BY <1>2, <2>1, <2>2, ZenonT(60)
<1>4. CASE ExecutionDeadlineElapses
    <2> DEFINE d == [computer EXCEPT !.deadline = "elapsed"]
    <2>1. d \in Computer /\ d.lease.epoch = computer.lease.epoch /\ (LeaseLive(computer) => LeaseLive(d))
        BY DEF SessionInv, Computer, LeaseLive, Allocated
    <2> QED BY <1>2, <1>4, <2>1, ZenonT(60) DEF ExecutionDeadlineElapses
<1>5. CASE PreparationReady
    <2> DEFINE d == [computer EXCEPT !.preparation = "ready"]
    <2>1. d \in Computer /\ d.lease.epoch = computer.lease.epoch /\ (LeaseLive(computer) => LeaseLive(d))
        BY DEF SessionInv, Computer, LeaseLive, Allocated
    <2> QED BY <1>2, <1>5, <2>1, ZenonT(60) DEF PreparationReady
<1>6. CASE ComputerFaulted
    <2> DEFINE d == [computer EXCEPT !.faulted = TRUE]
    <2>1. d \in Computer /\ d.lease.epoch = computer.lease.epoch /\ (LeaseLive(computer) => LeaseLive(d))
        BY ZenonT(60) DEF SessionInv, Computer, LeaseLive, Allocated
    <2> QED BY <1>2, <1>6, <2>1, ZenonT(60) DEF ComputerFaulted
<1> QED BY <1>3, <1>4, <1>5, <1>6 DEF Environment

-----------------------------------------------------------------------------

\* What TurnQueue sees of the rows.
Seen(rows) == [s \in Sessions |-> [n \in TurnIds |-> rows[s].turn[n].status]]
Executing(rows) == [s \in Sessions |-> rows[s].executing]

\* The statuses and handlers of typed rows.
LEMMA SeenFields ==
    ASSUME NEW rows, rows \in [Sessions -> Row]
    PROVE  /\ Seen(rows) \in [Sessions -> [TurnIds -> {"queued", "running"} \cup Ended \cup {"none"}]]
           /\ Executing(rows) \in [Sessions -> TurnIds \cup {0}]
           /\ \A s \in Sessions, n \in TurnIds : Seen(rows)[s][n] = rows[s].turn[n].status
           /\ \A s \in Sessions : Executing(rows)[s] = rows[s].executing
<1>1. ASSUME NEW s \in Sessions
      PROVE  /\ \A n \in TurnIds : rows[s].turn[n].status \in {"queued", "running"} \cup Ended \cup {"none"}
             /\ rows[s].executing \in TurnIds \cup {0}
    <2>1. rows[s] \in Row
        OBVIOUS
    <2>2. \A n \in TurnIds : rows[s].turn[n] \in Turn
        BY <2>1 DEF Row
    <2> QED BY <2>1, <2>2, SMTT(60) DEF Row, Turn, Ended, TurnIds
<1> QED BY <1>1 DEF Seen, Executing

\* What a row may do in a Settle step.
RowSettles(r, q) ==
    /\ \A n \in TurnIds : \/ q.turn[n].status = r.turn[n].status
                          \/ /\ r.turn[n].status \in {"queued", "running"}
                             /\ q.turn[n].status \in Ended
                             /\ q.turn[n].status = "completed" => r.turn[n].status = "running"
    /\ q.executing \in {r.executing, 0}
    /\ \A n \in TurnIds : q.turn[n].status = "running" => q.executing = n

\* If every row settles, TurnQueue takes a Settle step.
LEMMA SettleRefines ==
    ASSUME session \in [Sessions -> Row], session' \in [Sessions -> Row],
           \A s \in Sessions : RowSettles(session[s], session'[s])
    PROVE  Queue!Settle
<1> DEFINE a == Seen(session)
           b == Seen(session')
           x == Executing(session)
           y == Executing(session')
<1>1. /\ b \in [Sessions -> [TurnIds -> {"queued", "running"} \cup Ended \cup {"none"}]]
      /\ y \in [Sessions -> TurnIds \cup {0}]
      /\ \A s \in Sessions, n \in TurnIds : a[s][n] = session[s].turn[n].status /\ b[s][n] = session'[s].turn[n].status
      /\ \A s \in Sessions : x[s] = session[s].executing /\ y[s] = session'[s].executing
    BY SeenFields
<1> HIDE DEF a, b, x, y
<1>2. ASSUME NEW s \in Sessions
      PROVE  /\ \A n \in TurnIds : \/ b[s][n] = a[s][n]
                                   \/ /\ a[s][n] \in {"queued", "running"}
                                      /\ b[s][n] \in Ended
                                      /\ b[s][n] = "completed" => a[s][n] = "running"
             /\ y[s] \in {x[s], 0}
             /\ \A n \in TurnIds : b[s][n] = "running" => y[s] = n
    <2>1. /\ x[s] = session[s].executing /\ y[s] = session'[s].executing
          /\ \A n \in TurnIds : a[s][n] = session[s].turn[n].status /\ b[s][n] = session'[s].turn[n].status
        BY <1>1
    <2> QED BY <2>1 DEF RowSettles
<1> QED BY <1>1, <1>2, ZenonT(60) DEF Queue!Settle, Queue!Ids, Queue!Live, Queue!Settled, Ended, TurnIds, a, b, x, y, Seen, Executing

\* A step that admits, starts and completes nothing is a Settle step.
LEMMA SteppedRefines ==
    ASSUME SessionInv, Stepped
    PROVE  SessionInv' /\ Queue!Settle
<1>1. \A s \in Sessions : Unborn(session'[s])
    BY DEF SessionInv, Stepped, AllSettle, Settles, Unborn
<1>2. SessionInv'
    BY <1>1 DEF SessionInv, Stepped
<1>3. session \in [Sessions -> Row] /\ session' \in [Sessions -> Row]
    BY DEF SessionInv, Stepped, AllFine
<1>4. ASSUME NEW s \in Sessions
      PROVE  RowSettles(session[s], session'[s])
    <2>1. Fine(session'[s], computer') /\ Settles(session[s], session'[s])
        BY DEF Stepped, AllFine, AllSettle
    <2> QED BY <2>1, ZenonT(60) DEF Fine, Owned, Running, TurnsIn, Settles, RowSettles
<1> QED BY <1>2, <1>3, <1>4, SettleRefines

\* Replacing one Turn and the executing handler.
WithTurn(r, n, t, e) == [r EXCEPT !.turn = [r.turn EXCEPT ![n] = t], !.executing = e]

\* The row keeps its type and everything else.
LEMMA OneTurnAndHandlerFields ==
    ASSUME NEW r \in Row, NEW n \in TurnIds, NEW t \in Turn, NEW e \in 0..MaxTurns
    PROVE  LET q == WithTurn(r, n, t, e) IN
           /\ q \in Row
           /\ q.process = r.process /\ q.status = r.status /\ q.executing = e
           /\ q.next_turn_seq = r.next_turn_seq
           /\ \A m \in TurnIds : q.turn[m] = IF m = n THEN t ELSE r.turn[m]
<1> DEFINE f == [r.turn EXCEPT ![n] = t]
<1>1. f \in [TurnIds -> Turn] /\ \A m \in TurnIds : f[m] = IF m = n THEN t ELSE r.turn[m]
    BY DEF Row
<1> HIDE DEF f
<1>2. [r EXCEPT !.turn = f, !.executing = e] \in Row
    BY <1>1, ZenonT(60) DEF Row
<1> QED BY <1>1, <1>2 DEF Row, f, WithTurn

\* The running Turn of the ready process ends with its handler.
LEMMA FinishIsFine ==
    ASSUME NEW c, NEW r, Fine(r, c), NEW n \in TurnIds, r.turn[n].status = "running",
           NEW t \in Turn, t.status \in Ended
    PROVE  LET q == WithTurn(r, n, t, 0) IN
           /\ Fine(q, c)
           /\ q.executing = 0 /\ q.status = r.status /\ q.next_turn_seq = r.next_turn_seq
           /\ \A m \in TurnIds : q.turn[m] = IF m = n THEN t ELSE r.turn[m]
<1> DEFINE q == WithTurn(r, n, t, 0)
<1>1. /\ q \in Row
      /\ q.process = r.process /\ q.status = r.status /\ q.executing = 0
      /\ q.next_turn_seq = r.next_turn_seq
      /\ \A m \in TurnIds : q.turn[m] = IF m = n THEN t ELSE r.turn[m]
    <2>1. 0 \in 0..MaxTurns
        OBVIOUS
    <2> QED BY <2>1, OneTurnAndHandlerFields, SMTT(60) DEF Fine
<1> HIDE DEF q
<1>2. Running(q) = {}
    BY <1>1 DEF Fine, Owned, Running, TurnsIn, Ended
<1>3. Numbered(q) /\ Ceasing(q) /\ Healthy(q)
    BY <1>1 DEF Fine, Numbered, Ceasing, Healthy, Ended
<1>4. Fine(q, c)
    BY <1>1, <1>2, <1>3, QuietIsFine
<1> QED BY <1>1, <1>4 DEF q

\* RuntimeCloseProcessing and RuntimeFail.
LEMMA CloseAndFailSteps ==
    ASSUME SessionInv, NEW s \in Sessions, NEW n \in TurnIds,
           RuntimeCloseProcessing(s, n) \/ RuntimeFail(s, n)
    PROVE  Stepped
<1> DEFINE r == session[s]
<1>1. Fine(r, computer) /\ r \in Row
    BY DEF SessionInv, AllFine
<1>2. r.turn[n] \in Turn
    BY <1>1 DEF Row
<1>3. CASE RuntimeCloseProcessing(s, n)
    <2> DEFINE t == [r.turn[n] EXCEPT !.processing_closed = TRUE]
               q == [r EXCEPT !.turn = [r.turn EXCEPT ![n] = t]]
    <2>1. t \in Turn /\ t.status = r.turn[n].status /\ t.process_epoch = r.turn[n].process_epoch
        BY <1>2, ZenonT(60) DEF Turn
    <2>2. UpdateRow(s, q) /\ faults' = faults
        BY <1>3, <1>1 DEF RuntimeCloseProcessing
    <2> HIDE DEF t
    <2>3. Fine(q, computer) /\ Settles(r, q)
        BY <1>1, <2>1, SameTurnIsFine
    <2> HIDE DEF q
    <2> QED BY <2>2, <2>3, RowSteps, ZenonT(60) DEF UpdateRow, SessionInv
<1>4. CASE RuntimeFail(s, n)
    <2> DEFINE t == [r.turn[n] EXCEPT !.status = "failed"]
               q == WithTurn(r, n, t, 0)
    <2>1. t \in Turn /\ t.status = "failed"
        BY <1>2 DEF Turn
    <2>2. r.turn[n].status = "running"
        BY <1>4 DEF RuntimeFail, MayFinishTurn, RunningOfProcess, Running, TurnsIn
    <2>3. UpdateRow(s, q) /\ faults' = faults
        BY <1>4, <1>1 DEF RuntimeFail, WithTurn
    <2> HIDE DEF t
    <2>4. /\ Fine(q, computer)
          /\ q.executing = 0 /\ q.status = r.status /\ q.next_turn_seq = r.next_turn_seq
          /\ \A m \in TurnIds : q.turn[m] = IF m = n THEN t ELSE r.turn[m]
        BY <1>1, <2>1, <2>2, FinishIsFine, SMTT(60) DEF Ended
    <2> HIDE DEF q
    <2>5. Settles(r, q)
        BY <2>1, <2>2, <2>4 DEF Settles, Ended
    <2> QED BY <2>3, <2>4, <2>5, RowSteps, ZenonT(60) DEF UpdateRow, SessionInv
<1> QED BY <1>3, <1>4

\* One row changes into another fine one.
LEMMA RowKeeps ==
    ASSUME SessionInv, NEW s \in Sessions, NEW q, NEW d \in Computer, d.lease = computer.lease,
           Fine(q, computer), Unborn(q), session' = [session EXCEPT ![s] = q],
           computer' = d, controls' = controls, faults' = faults
    PROVE  SessionInv'
<1>1. q \in Row /\ session \in [Sessions -> Row] /\ \A t \in Sessions : Fine(session[t], computer) /\ Unborn(session[t])
    BY DEF SessionInv, AllFine, Fine
<1>2. session' \in [Sessions -> Row]
    BY <1>1
<1>3. \A t \in Sessions : session'[t] = IF t = s THEN q ELSE session[t]
    BY <1>1
<1>4. AllFine(session', computer) /\ \A t \in Sessions : Unborn(session'[t])
    BY <1>1, <1>2, <1>3 DEF AllFine
<1>5. LeaseLive(computer) => LeaseLive(d)
    BY DEF LeaseLive, Allocated
<1>6. AllFine(session', d)
    BY <1>4, <1>5, SameLeaseIsFine
<1> QED BY <1>4, <1>6 DEF SessionInv

\* One Turn becomes queued after all earlier ones were admitted.
LEMMA AdmitRefines ==
    ASSUME session \in [Sessions -> Row], session' \in [Sessions -> Row],
           NEW s \in Sessions, NEW n \in TurnIds,
           session[s].turn[n].status = "none",
           \A m \in TurnIds : m < n => session[s].turn[m].status # "none",
           \A t \in Sessions, m \in TurnIds :
               session'[t].turn[m].status = IF t = s /\ m = n THEN "queued" ELSE session[t].turn[m].status,
           \A t \in Sessions : session'[t].executing = session[t].executing
    PROVE  Queue!Admit(s, n)
<1> DEFINE a == Seen(session)
           b == Seen(session')
<1>1. /\ a \in [Sessions -> [TurnIds -> {"queued", "running"} \cup Ended \cup {"none"}]]
      /\ b \in [Sessions -> [TurnIds -> {"queued", "running"} \cup Ended \cup {"none"}]]
      /\ \A t \in Sessions, m \in TurnIds : a[t][m] = session[t].turn[m].status /\ b[t][m] = session'[t].turn[m].status
    <2>1. /\ a \in [Sessions -> [TurnIds -> {"queued", "running"} \cup Ended \cup {"none"}]]
          /\ \A t \in Sessions, m \in TurnIds : a[t][m] = session[t].turn[m].status
        BY SeenFields, ZenonT(60)
    <2>2. /\ b \in [Sessions -> [TurnIds -> {"queued", "running"} \cup Ended \cup {"none"}]]
          /\ \A t \in Sessions, m \in TurnIds : b[t][m] = session'[t].turn[m].status
        BY SeenFields, ZenonT(60)
    <2> HIDE DEF a, b
    <2> QED BY <2>1, <2>2
<1> HIDE DEF a, b
<1>2. b = [a EXCEPT ![s][n] = "queued"]
    BY <1>1
<1>3. a[s][n] = "none" /\ \A m \in TurnIds : m < n => a[s][m] # "none"
    BY <1>1, ZenonT(60)
<1>4. Executing(session') = Executing(session)
    BY DEF Executing
<1> QED BY <1>2, <1>3, <1>4, ZenonT(60) DEF Queue!Admit, Queue!Ids, TurnIds, a, b, Seen, Executing

\* The oldest unsettled Turn starts while no handler executes.
LEMMA StartRefines ==
    ASSUME session \in [Sessions -> Row], session' \in [Sessions -> Row],
           NEW s \in Sessions, NEW n \in TurnIds,
           session[s].turn[n].status = "queued",
           \A m \in TurnIds : m < n => session[s].turn[m].status \in Ended,
           session[s].executing = 0,
           \A t \in Sessions, m \in TurnIds :
               session'[t].turn[m].status = IF t = s /\ m = n THEN "running" ELSE session[t].turn[m].status,
           \A t \in Sessions : session'[t].executing = IF t = s THEN n ELSE session[t].executing
    PROVE  Queue!Start(s, n)
<1> DEFINE a == Seen(session)
           b == Seen(session')
           x == Executing(session)
           y == Executing(session')
<1>1. /\ a \in [Sessions -> [TurnIds -> {"queued", "running"} \cup Ended \cup {"none"}]]
      /\ b \in [Sessions -> [TurnIds -> {"queued", "running"} \cup Ended \cup {"none"}]]
      /\ \A t \in Sessions, m \in TurnIds : a[t][m] = session[t].turn[m].status /\ b[t][m] = session'[t].turn[m].status
      /\ x \in [Sessions -> TurnIds \cup {0}] /\ y \in [Sessions -> TurnIds \cup {0}]
      /\ \A t \in Sessions : x[t] = session[t].executing /\ y[t] = session'[t].executing
    <2>1. /\ a \in [Sessions -> [TurnIds -> {"queued", "running"} \cup Ended \cup {"none"}]]
          /\ x \in [Sessions -> TurnIds \cup {0}]
          /\ \A t \in Sessions, m \in TurnIds : a[t][m] = session[t].turn[m].status
          /\ \A t \in Sessions : x[t] = session[t].executing
        BY SeenFields, ZenonT(60)
    <2>2. /\ b \in [Sessions -> [TurnIds -> {"queued", "running"} \cup Ended \cup {"none"}]]
          /\ y \in [Sessions -> TurnIds \cup {0}]
          /\ \A t \in Sessions, m \in TurnIds : b[t][m] = session'[t].turn[m].status
          /\ \A t \in Sessions : y[t] = session'[t].executing
        BY SeenFields, ZenonT(60)
    <2> HIDE DEF a, b, x, y
    <2> QED BY <2>1, <2>2, ZenonT(60)
<1> HIDE DEF a, b, x, y
<1>2. b = [a EXCEPT ![s][n] = "running"]
    BY <1>1, SMTT(60)
<1>3. y = [x EXCEPT ![s] = n]
    <2>1. \A t \in Sessions : y[t] = IF t = s THEN n ELSE x[t]
        <3>1. \A t \in Sessions : x[t] = session[t].executing /\ y[t] = session'[t].executing
            BY <1>1
        <3> QED BY <3>1, ZenonT(60)
    <2>2. y = [t \in Sessions |-> y[t]] /\ x = [t \in Sessions |-> x[t]]
        BY <1>1
    <2> QED BY <2>1, <2>2
<1>4. a[s][n] = "queued" /\ (\A m \in TurnIds : m < n => a[s][m] \in Ended) /\ x[s] = 0
    BY <1>1, ZenonT(60)
<1> QED BY <1>2, <1>3, <1>4, ZenonT(60) DEF Queue!Start, Queue!Ids, Queue!Settled, Ended, TurnIds, a, b, x, y, Seen, Executing

\* The rows after one of them was replaced.
LEMMA OneRowFields ==
    ASSUME NEW rows \in [Sessions -> Row], NEW s \in Sessions, NEW q \in Row
    PROVE  /\ [rows EXCEPT ![s] = q] \in [Sessions -> Row]
           /\ \A t \in Sessions : [rows EXCEPT ![s] = q][t] = IF t = s THEN q ELSE rows[t]
OBVIOUS

\* DispatchRuntimeTurn starts the oldest queued Turn on a process that
\* acknowledged its last stop, so no handler executes.
LEMMA DispatchRefines ==
    ASSUME SessionInv, NEW s \in Sessions, NEW n \in TurnIds, DispatchRuntimeTurn(s, n)
    PROVE  SessionInv' /\ Queue!Start(s, n)
<1> DEFINE r == session[s]
           t == [r.turn[n] EXCEPT !.status = "running", !.process_epoch = r.process.epoch]
           q == WithTurn(r, n, t, n)
<1>1. Fine(r, computer) /\ r \in Row /\ session \in [Sessions -> Row] /\ Unborn(r)
    BY DEF SessionInv, AllFine
<1>2. r.turn[n] \in Turn /\ r.process \in Process
    BY <1>1 DEF Row
<1>3. t \in Turn /\ t.status = "running" /\ t.process_epoch = r.process.epoch
    BY <1>2, ZenonT(60) DEF Turn, Process
<1>4. /\ r.process.status = "ready" /\ LiveProcess(r) /\ r.process.stop = "none"
      /\ r.process.lease = computer.lease.epoch /\ LeaseLive(computer)
      /\ Accepting(r) /\ Running(r) = {} /\ r.turn[n].status = "queued"
      /\ \A m \in TurnIds : r.turn[m].status = "queued" => n <= m
    BY DEF DispatchRuntimeTurn, ExecutionPhysical, RuntimeAuthority, Hosted, LeaseLive, RunControlApplied, Queued, TurnsIn
<1>5. UpdateRow(s, q) /\ faults' = faults
    BY <1>1, ZenonT(60) DEF DispatchRuntimeTurn, WithTurn
<1>6. r.executing = 0 /\ ~r.process.failure
    BY <1>1, <1>4, ZenonT(60) DEF Fine, Ceasing, Healthy
<1> HIDE DEF t
<1>7. /\ q \in Row
      /\ q.process = r.process /\ q.status = r.status /\ q.executing = n
      /\ q.next_turn_seq = r.next_turn_seq
      /\ \A m \in TurnIds : q.turn[m] = IF m = n THEN t ELSE r.turn[m]
    <2>1. n \in 0..MaxTurns
        BY DEF TurnIds
    <2> HIDE DEF r
    <2> QED BY <1>1, <1>3, <2>1, OneTurnAndHandlerFields, SMTT(60)
<1> HIDE DEF q
<1>8. Running(q) = {n}
    BY <1>3, <1>4, <1>7, ZenonT(60) DEF Running, TurnsIn
<1>9. Owned(q, computer) /\ Ceasing(q) /\ Healthy(q)
    BY <1>3, <1>4, <1>6, <1>7, <1>8, ZenonT(60) DEF Owned, Ceasing, Healthy, Accepting, LiveProcess
<1>10. Numbered(q) /\ Unborn(q)
    BY <1>1, <1>3, <1>4, <1>7, ZenonT(60) DEF Fine, Numbered, Unborn, Accepting
<1>11. Fine(q, computer)
    BY <1>7, <1>9, <1>10 DEF Fine
<1>12. session' = [session EXCEPT ![s] = q] /\ computer' = computer /\ controls' = controls
    BY <1>5 DEF UpdateRow
<1>13. SessionInv'
    BY <1>5, <1>10, <1>11, <1>12, RowKeeps, ZenonT(60) DEF SessionInv
<1>14. session' \in [Sessions -> Row] /\ \A u \in Sessions : session'[u] = IF u = s THEN q ELSE session[u]
    BY <1>1, <1>7, <1>12, OneRowFields
<1>15. \A m \in TurnIds : m < n => r.turn[m].status \in Ended
    <2> SUFFICES ASSUME NEW m \in TurnIds, m < n PROVE r.turn[m].status \in Ended
        OBVIOUS
    <2>1. r.turn[m] \in Turn
        BY <1>1 DEF Row
    <2>2. r.turn[m].status # "queued"
        BY <1>4 DEF TurnIds
    <2>3. r.turn[m].status # "running"
        BY <1>4 DEF Running, TurnsIn
    <2>4. r.turn[m].status # "none"
        <3>1. n < r.next_turn_seq
            BY <1>1, <1>4 DEF Fine, Numbered
        <3>2. m < r.next_turn_seq
            BY <1>1, <3>1 DEF Row, TurnIds
        <3> QED BY <1>1, <3>2 DEF Fine, Numbered
    <2> QED BY <2>1, <2>2, <2>3, <2>4 DEF Turn, Ended
<1>16. \A u \in Sessions, m \in TurnIds :
          session'[u].turn[m].status = IF u = s /\ m = n THEN "running" ELSE session[u].turn[m].status
    BY <1>3, <1>7, <1>14
<1>17. \A u \in Sessions : session'[u].executing = IF u = s THEN n ELSE session[u].executing
    BY <1>7, <1>14
<1> HIDE DEF r
<1>18. Queue!Start(s, n)
    BY <1>1, <1>4, <1>6, <1>14, <1>15, <1>16, <1>17, StartRefines, ZenonT(60) DEF r
<1> QED BY <1>13, <1>18

\* RuntimeFinalize completes the running Turn, whose handler returned.
LEMMA FinalizeRefines ==
    ASSUME SessionInv, NEW s \in Sessions, NEW n \in TurnIds, RuntimeFinalize(s, n)
    PROVE  SessionInv' /\ Queue!Settle
<1> DEFINE r == session[s]
           t == [r.turn[n] EXCEPT !.status = "completed", !.save = "requested", !.save_lease = computer.lease.epoch]
           q == WithTurn(r, n, t, 0)
<1>1. Fine(r, computer) /\ r \in Row /\ session \in [Sessions -> Row] /\ Unborn(r)
    BY DEF SessionInv, AllFine
<1>2. r.turn[n] \in Turn /\ computer.lease.epoch \in 0..MaxLeases
    BY <1>1 DEF Row, SessionInv, Computer, Lease
<1>3. t \in Turn /\ t.status = "completed"
    BY <1>2, ZenonT(60) DEF Turn
<1>4. r.turn[n].status = "running" /\ RuntimeAuthority(r, computer)
    BY DEF RuntimeFinalize, MayFinishTurn, ExecutionPhysical, RunningOfProcess, Running, TurnsIn
<1>5. UpdateRow(s, q) /\ faults' = faults
    <2>1. q = [r EXCEPT !.turn[n].status = "completed", !.turn[n].save = "requested",
                        !.turn[n].save_lease = computer.lease.epoch, !.executing = 0]
        BY <1>1, <1>2, ZenonT(60) DEF WithTurn, Row, Turn
    <2> QED BY <2>1 DEF RuntimeFinalize
<1> HIDE DEF t
<1>6. /\ Fine(q, computer)
      /\ q.executing = 0 /\ q.status = r.status /\ q.next_turn_seq = r.next_turn_seq
      /\ \A m \in TurnIds : q.turn[m] = IF m = n THEN t ELSE r.turn[m]
    <2>1. t.status \in Ended
        BY <1>3 DEF Ended
    <2> HIDE DEF r
    <2> QED BY <1>1, <1>3, <1>4, <2>1, FinishIsFine, SMTT(60)
<1> HIDE DEF q
<1>7. Unborn(q) /\ q \in Row
    BY <1>1, <1>6 DEF Unborn, Fine
<1>8. session' = [session EXCEPT ![s] = q] /\ computer' = computer /\ controls' = controls
    BY <1>5 DEF UpdateRow
<1>9. SessionInv'
    BY <1>5, <1>6, <1>7, <1>8, RowKeeps, ZenonT(60) DEF SessionInv
<1>10. session' \in [Sessions -> Row] /\ \A u \in Sessions : session'[u] = IF u = s THEN q ELSE session[u]
    BY <1>1, <1>7, <1>8, OneRowFields
<1>11. RowSettles(r, q)
    <2>1. \A m \in TurnIds : m # n => r.turn[m].status # "running"
        BY <1>1, <1>4, ZenonT(60) DEF Fine, Owned, Running, TurnsIn
    <2> QED BY <1>3, <1>4, <1>6, <2>1, ZenonT(60) DEF RowSettles, Ended
<1>12. \A u \in Sessions : RowSettles(session[u], session[u])
    <2>1. TAKE u \in Sessions
    <2>2. Owned(session[u], computer)
        BY DEF SessionInv, AllFine, Fine
    <2> QED BY <2>2, ZenonT(60) DEF Owned, Running, TurnsIn, RowSettles
<1>13. \A u \in Sessions : RowSettles(session[u], session'[u])
    BY <1>10, <1>11, <1>12
<1>14. Queue!Settle
    BY <1>1, <1>10, <1>13, SettleRefines
<1> QED BY <1>9, <1>14

\* Enqueue gives the next number to a new queued Turn.
LEMMA EnqueueRefines ==
    ASSUME SessionInv, NEW s \in Sessions, Enqueue(s)
    PROVE  SessionInv' /\ \E n \in TurnIds : Queue!Admit(s, n)
<1> DEFINE r == session[s]
<1> PICK n \in TurnIds : n = r.next_turn_seq
    BY DEF Enqueue
<1> DEFINE f == [r.turn EXCEPT ![n] = NewTurn]
           q == [r EXCEPT !.turn = f, !.next_turn_seq = n + 1, !.idle = FALSE]
<1>1. Fine(r, computer) /\ r \in Row /\ session \in [Sessions -> Row] /\ Unborn(r)
    BY DEF SessionInv, AllFine
<1>2. n \in TurnIds /\ r.status = "open" /\ controls' = controls /\ faults' = faults
    BY DEF Enqueue
<1>3. computer' \in Computer /\ computer'.lease = computer.lease
    BY AdmissionFields DEF Enqueue, SessionInv
<1>4. session' = [session EXCEPT ![s] = q]
    BY <1>1, ZenonT(60) DEF Enqueue
<1>5. NewTurn \in Turn /\ NewTurn.status = "queued"
    BY DEF NewTurn, Turn
<1>6. n + 1 \in 1..(MaxTurns + 1)
    BY <1>2 DEF TurnIds
<1>7. f \in [TurnIds -> Turn] /\ \A m \in TurnIds : f[m] = IF m = n THEN NewTurn ELSE r.turn[m]
    BY <1>1, <1>2, <1>5, ZenonT(60) DEF Row
<1> HIDE DEF f
<1>8. /\ q \in Row /\ q.turn = f /\ q.next_turn_seq = n + 1 /\ q.status = "open"
      /\ q.executing = r.executing /\ q.process = r.process
    BY <1>1, <1>2, <1>6, <1>7, ZenonT(60) DEF Row
<1>9. r.turn[n].status = "none" /\ \A m \in TurnIds : m < n => r.turn[m].status # "none"
    BY <1>1, <1>2 DEF Fine, Numbered, TurnIds
<1> HIDE DEF q
<1>10. Running(q) = Running(r)
    BY <1>2, <1>5, <1>7, <1>8, <1>9 DEF Running, TurnsIn
<1>11. Numbered(q)
    <2>1. \A m \in TurnIds : (m < n + 1) <=> (m = n \/ m < n)
        BY <1>2 DEF TurnIds
    <2> QED BY <1>1, <1>5, <1>7, <1>8, <2>1, ZenonT(60) DEF Fine, Numbered
<1>12. Ceasing(q) /\ Healthy(q) /\ Unborn(q)
    BY <1>1, <1>8, <1>10, ZenonT(60) DEF Fine, Ceasing, Healthy, LiveProcess, Unborn
<1>13. Owned(q, computer)
    <2>1. \A m \in Running(r) : m \in TurnIds /\ m # n
        BY <1>9 DEF Running, TurnsIn
    <2>2. \A m \in Running(r) : q.turn[m] = r.turn[m]
        BY <1>7, <1>8, <2>1
    <2>3. Owned(r, computer)
        BY <1>1 DEF Fine
    <2> HIDE DEF r
    <2> QED BY <1>2, <1>8, <1>10, <2>2, <2>3, SMTT(60) DEF Owned, Accepting, LiveProcess
<1>14. Fine(q, computer)
    BY <1>8, <1>11, <1>12, <1>13 DEF Fine
<1>15. SessionInv'
    BY <1>2, <1>3, <1>4, <1>12, <1>14, RowKeeps, ZenonT(60)
<1>16. session' \in [Sessions -> Row] /\ \A u \in Sessions : session'[u] = IF u = s THEN q ELSE session[u]
    BY <1>1, <1>4, <1>8, OneRowFields
<1>17. \A u \in Sessions, m \in TurnIds :
          session'[u].turn[m].status = IF u = s /\ m = n THEN "queued" ELSE session[u].turn[m].status
    BY <1>5, <1>7, <1>8, <1>16
<1>18. \A u \in Sessions : session'[u].executing = session[u].executing
    BY <1>8, <1>16
<1> HIDE DEF r
<1>19. Queue!Admit(s, n)
    BY <1>1, <1>2, <1>9, <1>16, <1>17, <1>18, AdmitRefines, ZenonT(60) DEF r
<1> QED BY <1>2, <1>15, <1>19

\* The rows a Session starts from.
LEMMA NewRowFields ==
    /\ NewRow("none") \in Row /\ NewRow("open") \in Row
    /\ \A st \in {"none", "open"} :
          /\ NewRow(st).status = st /\ NewRow(st).executing = 0 /\ NewRow(st).next_turn_seq = 1
          /\ NewRow(st).process.status = "none"
          /\ \A n \in TurnIds : NewRow(st).turn[n].status = "none"
<1> DEFINE none == [NewTurn EXCEPT !.status = "none"]
           f == [n \in TurnIds |-> none]
           p == NewProcess(0, 0, "none")
<1>1. none \in Turn /\ none.status = "none"
    <2>1. NewTurn \in Turn
        BY DEF NewTurn, Turn
    <2> QED BY <2>1 DEF Turn
<1>2. p \in Process /\ p.status = "none"
    BY SMTT(30) DEF NewProcess, Process
<1> HIDE DEF none, p
<1>3. f \in [TurnIds -> Turn] /\ \A n \in TurnIds : f[n].status = "none"
    BY <1>1
<1> HIDE DEF f
<1>4. ASSUME NEW st \in {"none", "open"}
      PROVE  /\ NewRow(st) \in Row /\ NewRow(st).status = st /\ NewRow(st).executing = 0
             /\ NewRow(st).next_turn_seq = 1 /\ NewRow(st).process = p /\ NewRow(st).turn = f
    <2>1. NewRow(st) = [status |-> st, idle |-> FALSE, next_turn_seq |-> 1, turn |-> f, process |-> p,
                        interrupts |-> 0, holds |-> {}, failures |-> {}, gaps |-> {}, executing |-> 0]
        BY DEF NewRow, f, none, p
    <2> QED BY <1>2, <1>3, <2>1, SMTT(60) DEF Row
<1> QED BY <1>2, <1>3, <1>4, ZenonT(60)

\* AdmitStart creates the row, with its first Turn if it has input.
LEMMA AdmitStartRefines ==
    ASSUME SessionInv, NEW s \in Sessions, NEW hasInput \in BOOLEAN, AdmitStart(s, hasInput)
    PROVE  SessionInv' /\ (Queue!Settle \/ \E n \in TurnIds : Queue!Admit(s, n))
<1> DEFINE g == InheritedGaps(session)
           fresh == [NewRow("open") EXCEPT !.gaps = g, !.idle = ~hasInput]
           f == [fresh.turn EXCEPT ![1] = NewTurn]
           first == [fresh EXCEPT !.turn = f, !.next_turn_seq = 2]
           row == IF hasInput THEN first ELSE fresh
           old(t) == [session[t] EXCEPT !.idle = FALSE]
<1>1. session \in [Sessions -> Row] /\ \A t \in Sessions : Fine(session[t], computer) /\ Unborn(session[t])
    BY DEF SessionInv, AllFine
<1>2. g \in SUBSET (1..MaxLeases)
    <2>1. \A t \in Sessions : session[t].gaps \in SUBSET (1..MaxLeases)
        BY <1>1 DEF Row
    <2> QED BY <2>1 DEF InheritedGaps
<1> HIDE DEF g
<1>3. /\ fresh \in Row /\ fresh.status = "open" /\ fresh.executing = 0 /\ fresh.next_turn_seq = 1
      /\ fresh.process.status = "none" /\ \A n \in TurnIds : fresh.turn[n].status = "none"
    <2> DEFINE r == NewRow("open")
    <2>1. /\ r \in Row /\ r.status = "open" /\ r.executing = 0 /\ r.next_turn_seq = 1
          /\ r.process.status = "none" /\ \A n \in TurnIds : r.turn[n].status = "none"
        BY NewRowFields
    <2> HIDE DEF r
    <2>2. [r EXCEPT !.gaps = g, !.idle = ~hasInput] \in Row
        BY <1>2, <2>1, ZenonT(60) DEF Row
    <2> QED BY <2>1, <2>2 DEF r, Row
<1>4. /\ session' = [t \in Sessions |-> IF t = s THEN row ELSE IF t = Parent[s] THEN old(t) ELSE session[t]]
      /\ session[s].status = "none" /\ computer' = NoteExecutionDemand(computer)
      /\ controls' = controls /\ faults' = faults
    <2>1. first = [fresh EXCEPT !.turn[1] = NewTurn, !.next_turn_seq = 2]
        BY <1>3 DEF Row
    <2> QED BY <2>1, ZenonT(60) DEF AdmitStart, g
<1>5. hasInput => 1 \in TurnIds
    BY DEF AdmitStart, TurnIds
<1> HIDE DEF fresh
<1>6. hasInput => /\ first \in Row /\ first.status = "open" /\ first.executing = 0 /\ first.next_turn_seq = 2
                  /\ first.process.status = "none"
                  /\ \A n \in TurnIds : first.turn[n].status = IF n = 1 THEN "queued" ELSE "none"
    <2> SUFFICES ASSUME hasInput PROVE /\ first \in Row /\ first.status = "open" /\ first.executing = 0
                                       /\ first.next_turn_seq = 2 /\ first.process.status = "none"
                                       /\ \A n \in TurnIds : first.turn[n].status = IF n = 1 THEN "queued" ELSE "none"
        OBVIOUS
    <2>1. NewTurn \in Turn /\ NewTurn.status = "queued"
        BY DEF NewTurn, Turn
    <2>2. f \in [TurnIds -> Turn] /\ \A n \in TurnIds : f[n].status = IF n = 1 THEN "queued" ELSE "none"
        BY <1>3, <1>5, <2>1 DEF Row
    <2>3. 2 \in 1..(MaxTurns + 1)
        BY <1>5 DEF TurnIds
    <2> HIDE DEF f
    <2>4. first \in Row /\ first.turn = f
        BY <1>3, <2>2, <2>3, ZenonT(60) DEF Row
    <2> QED BY <1>3, <2>2, <2>4 DEF Row
<1> HIDE DEF first
<1>7. /\ row \in Row /\ row.status = "open" /\ row.executing = 0
      /\ row.next_turn_seq = IF hasInput THEN 2 ELSE 1
      /\ row.process.status = "none"
      /\ \A n \in TurnIds : row.turn[n].status = IF hasInput /\ n = 1 THEN "queued" ELSE "none"
    BY <1>3, <1>6
<1> HIDE DEF row
<1>8. Running(row) = {} /\ Ceasing(row) /\ Numbered(row) /\ Healthy(row) /\ Unborn(row)
    BY <1>7 DEF Running, TurnsIn, Ceasing, Numbered, Healthy, Unborn, TurnIds
<1>9. Fine(row, computer)
    BY <1>7, <1>8, QuietIsFine
<1>10. ASSUME NEW t \in Sessions
       PROVE  /\ Fine(old(t), computer) /\ Unborn(old(t)) /\ old(t) \in Row
              /\ old(t).turn = session[t].turn /\ old(t).executing = session[t].executing
    <2>1. old(t) \in Row /\ Alike(session[t], old(t))
        BY <1>1, ZenonT(60) DEF Row, Alike
    <2> HIDE DEF old
    <2> QED BY <1>1, <2>1, AlikeIsFine, ZenonT(60) DEF Alike, Unborn
<1>11. \A t \in Sessions : session'[t] = IF t = s THEN row ELSE IF t = Parent[s] THEN old(t) ELSE session[t]
    BY <1>4
<1> HIDE DEF old
<1>12. \A t \in Sessions : Fine(session'[t], computer) /\ Unborn(session'[t]) /\ session'[t] \in Row
    BY <1>1, <1>7, <1>8, <1>9, <1>10, <1>11, ZenonT(60)
<1>13. session' \in [Sessions -> Row]
    BY <1>4, <1>12, ZenonT(60)
<1>14. computer' \in Computer /\ computer'.lease = computer.lease
    BY <1>4, AdmissionFields DEF SessionInv
<1>15. SessionInv'
    <2>1. LeaseLive(computer) => LeaseLive(computer')
        BY <1>14 DEF LeaseLive, Allocated
    <2>2. AllFine(session', computer)
        BY <1>12, <1>13 DEF AllFine
    <2>3. AllFine(session', computer')
        BY <1>14, <2>1, <2>2, SameLeaseIsFine
    <2> QED BY <1>4, <1>12, <1>14, <2>3 DEF SessionInv
<1>16. session[s].executing = 0 /\ \A n \in TurnIds : session[s].turn[n].status = "none"
    BY <1>1, <1>4, SMTT(30) DEF Unborn, Fine, Numbered, TurnIds
<1>17. \A t \in Sessions : session'[t].executing = session[t].executing
    BY <1>7, <1>10, <1>11, <1>16, ZenonT(60)
<1>18. \A t \in Sessions, m \in TurnIds :
          session'[t].turn[m].status = IF t = s /\ m = 1 /\ hasInput THEN "queued" ELSE session[t].turn[m].status
    BY <1>7, <1>10, <1>11, <1>16, ZenonT(60)
<1>19. CASE hasInput
    <2>1. Queue!Admit(s, 1)
        BY <1>1, <1>5, <1>13, <1>16, <1>17, <1>18, <1>19, AdmitRefines, SMTT(60) DEF TurnIds
    <2> QED BY <1>5, <1>15, <1>19, <2>1
<1>20. CASE ~hasInput
    <2>1. \A t \in Sessions, n \in TurnIds : session[t].turn[n].status = "running" => session[t].executing = n
        BY <1>1, ZenonT(60) DEF Fine, Owned, Running, TurnsIn
    <2>2. \A t \in Sessions, n \in TurnIds : session'[t].turn[n].status = session[t].turn[n].status
        BY <1>18, <1>20
    <2>3. \A t \in Sessions : RowSettles(session[t], session'[t])
        BY <1>17, <2>1, <2>2, ZenonT(60) DEF RowSettles
    <2> QED BY <1>1, <1>13, <1>15, <2>3, SettleRefines
<1> QED BY <1>19, <1>20

\* Every step keeps the invariant and is a step of TurnQueue.
LEMMA StepRefines ==
    ASSUME SessionInv, [Next]_vars
    PROVE  SessionInv' /\ [Queue!QueueNext]_(Queue!queueVars)
<1>1. ASSUME Stepped PROVE SessionInv' /\ Queue!QueueNext
    BY <1>1, SteppedRefines DEF Queue!QueueNext
<1>2. ASSUME NEW s \in Sessions, NEW n \in TurnIds, Queue!Admit(s, n) \/ Queue!Start(s, n)
      PROVE  Queue!QueueNext
    BY <1>2 DEF Queue!QueueNext, Queue!Ids, TurnIds
<1>3. ASSUME Queue!Settle PROVE Queue!QueueNext
    BY <1>3 DEF Queue!QueueNext
<1>4. CASE Caller
    <2>1. ASSUME NEW s \in Sessions, NEW hasInput \in BOOLEAN, AdmitStart(s, hasInput)
          PROVE  SessionInv' /\ Queue!QueueNext
        BY <1>2, <1>3, <2>1, AdmitStartRefines
    <2>2. ASSUME NEW s \in Sessions, Enqueue(s)
          PROVE  SessionInv' /\ Queue!QueueNext
        BY <1>2, <2>2, EnqueueRefines
    <2>3. ASSUME NEW s \in Sessions,
                 \/ \E n \in TurnIds : TurnInterrupt(s, n)
                 \/ \E interruptQueued \in BOOLEAN : Interrupt(s, interruptQueued)
                 \/ \E kind \in {"interrupt", "process_failed", "recovery_gap"} : Resume(s, kind)
                 \/ Cancel(s)
                 \/ Close(s)
          PROVE  Stepped
        BY <2>3, TurnInterruptSteps, InterruptSteps, ResumeSteps, CancelSteps, CloseSteps
    <2> QED BY <1>1, <1>4, <2>1, <2>2, <2>3, ZenonT(60) DEF Caller
<1>5. CASE Guest
    <2>1. ASSUME NEW s \in Sessions, NEW n \in TurnIds, DispatchRuntimeTurn(s, n)
          PROVE  SessionInv' /\ Queue!QueueNext
        BY <1>2, <2>1, DispatchRefines
    <2>2. ASSUME NEW s \in Sessions, NEW n \in TurnIds, RuntimeFinalize(s, n)
          PROVE  SessionInv' /\ Queue!QueueNext
        BY <1>3, <2>2, FinalizeRefines
    <2>3. ASSUME NEW s \in Sessions, NEW n \in TurnIds, RuntimeCloseProcessing(s, n) \/ RuntimeFail(s, n)
          PROVE  Stepped
        BY <2>3, CloseAndFailSteps
    <2> QED BY <1>1, <1>5, <2>1, <2>2, <2>3, ZenonT(60) DEF Guest
<1>6. CASE Dispatch \/ Worker \/ Reconcile \/ Environment
    BY <1>1, <1>6, DispatchSteps, WorkerSteps, ReconcileSteps, EnvironmentSteps
<1>7. CASE UNCHANGED vars
    <2>1. SessionInv'
        BY <1>7 DEF SessionInv, vars, AllFine
    <2>2. UNCHANGED Queue!queueVars
        BY <1>7 DEF vars, Queue!queueVars
    <2> QED BY <2>1, <2>2
<1> QED BY <1>4, <1>5, <1>6, <1>7 DEF Next

\* The initial rows satisfy the invariant and are an empty queue.
LEMMA InitRefines ==
    ASSUME Init PROVE SessionInv /\ Queue!QueueInit
<1> DEFINE r == NewRow("none")
<1>1. /\ r \in Row /\ r.status = "none" /\ r.executing = 0 /\ r.next_turn_seq = 1
      /\ r.process.status = "none" /\ \A n \in TurnIds : r.turn[n].status = "none"
    BY NewRowFields
<1>2. session = [s \in Sessions |-> r]
    BY DEF Init
<1> HIDE DEF r
<1>3. Running(r) = {} /\ Ceasing(r) /\ Numbered(r) /\ Healthy(r) /\ Unborn(r)
    BY <1>1 DEF Running, TurnsIn, Ceasing, Numbered, Healthy, Unborn, TurnIds
<1>4. Fine(r, computer)
    BY <1>1, <1>3, QuietIsFine
<1>5. computer \in Computer
    <2>1. NewLease(0, "none", FALSE) \in Lease
        BY DEF NewLease, Lease
    <2> QED BY <2>1, ZenonT(60) DEF Init, Computer
<1>6. SessionInv
    BY <1>1, <1>2, <1>3, <1>4, <1>5, ZenonT(60) DEF SessionInv, AllFine, Init
<1>7. Queue!QueueInit
    BY <1>1, <1>2 DEF Queue!QueueInit, Queue!Ids, TurnIds
<1> QED BY <1>6, <1>7

\* The invariant holds in every reachable state.
LEMMA Invariance == Spec => []SessionInv
<1>1. Init => SessionInv
    BY InitRefines
<1>2. SessionInv /\ [Next]_vars => SessionInv'
    BY StepRefines
<1> QED BY <1>1, <1>2, PTL DEF Spec

\* The rows stay within the columns' domains, whatever the order of handlers.
THEOREM TypeCorrectness == Spec => []TypeOK
<1>1. SessionInv => TypeOK
    BY DEF SessionInv, AllFine, TypeOK
<1> QED BY <1>1, Invariance, PTL

\* A running Turn is owned: it is the only one of its Session and runs on the
\* ready, unfenced, unstopped process of the latest epoch on a live lease.
THEOREM RunningTurnsAreOwned == Spec => []RunningTurnOwned
<1>1. SessionInv => RunningTurnOwned
    <2> SUFFICES ASSUME SessionInv, NEW s \in Sessions, NEW n \in Running(session[s])
                 PROVE  LET r == session[s] IN
                        /\ Running(r) = {n}
                        /\ Accepting(r)
                        /\ r.turn[n].process_epoch = r.process.epoch
                        /\ LiveProcess(r) /\ r.process.status = "ready"
                        /\ ~r.process.failure /\ r.process.stop = "none"
                        /\ r.process.lease = computer.lease.epoch /\ LeaseLive(computer)
                        /\ r.executing = n
        BY ZenonT(60) DEF RunningTurnOwned
    <2>1. Owned(session[s], computer)
        BY DEF SessionInv, AllFine, Fine
    <2> QED BY <2>1, ZenonT(60) DEF Owned
<1> QED BY <1>1, Invariance, PTL

\* Session implements TurnQueue: Turns start in order of admission, one at a
\* time, each once, and only after the handler of the previous one ended.
THEOREM SessionImplementsTurnQueue == Spec => ImplementsTurnQueue
<1>1. Init => Queue!QueueInit
    BY InitRefines
<1>2. SessionInv /\ [Next]_vars => [Queue!QueueNext]_(Queue!queueVars)
    BY StepRefines
<1> QED BY <1>1, <1>2, Invariance, PTL DEF Spec, ImplementsTurnQueue, Queue!QueueSpec

=============================================================================
