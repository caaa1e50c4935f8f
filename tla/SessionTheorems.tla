-------------------------- MODULE SessionTheorems --------------------------
(***************************************************************************)
(* The remaining handlers keep HoldInv: those that start or finish a Turn, *)
(* those of many rows and those that end a lease. From the two invariants  *)
(* follow the properties of holds: failures, lost work, closing and the    *)
(* delivered control are as the holds say. Last, Turns run in order        *)
(* because Session implements TurnQueue.                                   *)
(***************************************************************************)
EXTENDS SessionProofs, SessionHoldProofs

USE BoundAssumption

\* DispatchRuntimeTurn: a Session held for lost work starts nothing.
LEMMA DispatchHolds ==
    ASSUME Counts, SessionInv, HoldInv, NEW s \in Sessions, NEW n \in TurnIds, DispatchRuntimeTurn(s, n)
    PROVE  HoldInv'
<1> DEFINE r == session[s]
           t == [r.turn[n] EXCEPT !.status = "running", !.process_epoch = r.process.epoch]
           q == WithTurn(r, n, t, n)
<1>1. session \in [Sessions -> Row] /\ r \in Row /\ r.turn[n] \in Turn
    BY DEF SessionInv, AllFine, Row
<1>2. /\ Accepting(r) /\ ~Held(session, s) /\ r.turn[n].status = "queued"
      /\ computer' = computer
    BY ZenonT(60) DEF DispatchRuntimeTurn, UpdateRow, Queued, TurnsIn
<1>3. session' = [session EXCEPT ![s] = q]
    <2>1. UpdateRow(s, q)
        BY <1>1, ZenonT(60) DEF DispatchRuntimeTurn, WithTurn
    <2> QED BY <2>1 DEF UpdateRow
<1>4. t.status = "running" /\ t.save = r.turn[n].save
    BY <1>1 DEF Turn
<1>5. t.save # "requested" /\ "recovery_gap" \notin r.holds
    BY <1>2, <1>4 DEF HoldInv, HoldRows, Books, Saving, Held
<1> HIDE DEF t
<1>6. /\ SameRecord(r, q) /\ SameHolds(r, q) /\ q.process = r.process /\ q.turn = [r.turn EXCEPT ![n] = t]
    BY <1>1 DEF Row, SameRecord, SameHolds, WithTurn
<1> HIDE DEF q
<1>7. \A m \in TurnIds : q.turn[m] = IF m = n THEN t ELSE r.turn[m]
    BY <1>1, <1>6 DEF Row
<1>8. TurnChanges(r, q, n, t, computer)
    BY <1>2, <1>4, <1>5, <1>6, <1>7 DEF TurnChanges
<1> QED BY <1>2, <1>3, <1>8, TurnRow, ZenonT(60)

\* RuntimeFinalize and RuntimeFail.
LEMMA FinishHolds ==
    ASSUME Counts, SessionInv, HoldInv, NEW s \in Sessions, NEW n \in TurnIds,
           RuntimeFinalize(s, n) \/ RuntimeFail(s, n)
    PROVE  HoldInv'
<1> DEFINE r == session[s]
           t == [r.turn[n] EXCEPT !.status = "completed", !.save = "requested", !.save_lease = computer.lease.epoch]
           u == [r.turn[n] EXCEPT !.status = "failed"]
<1>1. session \in [Sessions -> Row] /\ r \in Row /\ r.turn[n] \in Turn /\ Owned(r, computer)
    BY DEF SessionInv, AllFine, Fine, Row
<1>2. n \in Running(r) /\ r.turn[n].status = "running"
    BY ZenonT(60) DEF RuntimeFinalize, RuntimeFail, MayFinishTurn, RunningOfProcess, Running, TurnsIn
<1>3. Accepting(r) /\ LeaseLive(computer)
    BY <1>1, <1>2 DEF Owned
<1>4. "recovery_gap" \notin r.holds /\ r.turn[n].save # "requested"
    BY <1>2 DEF HoldInv, HoldRows, Books, Saving
<1>5. ASSUME NEW v, session' = [session EXCEPT ![s] = WithTurn(r, n, v, 0)], computer' = computer,
             v.status \in {"completed", "failed"}, v.status = "completed" => v.save # "failed",
             v.save = "requested" => v.status = "completed" /\ v.save_lease = computer.lease.epoch
      PROVE  HoldInv'
    <2> DEFINE q == WithTurn(r, n, v, 0)
    <2>1. /\ SameRecord(r, q) /\ SameHolds(r, q) /\ q.process = r.process /\ q.turn = [r.turn EXCEPT ![n] = v]
        BY <1>1 DEF Row, SameRecord, SameHolds, WithTurn
    <2>2. session' = [session EXCEPT ![s] = q]
        BY <1>5
    <2> HIDE DEF q
    <2>3. \A m \in TurnIds : q.turn[m] = IF m = n THEN v ELSE r.turn[m]
        BY <1>1, <2>1 DEF Row
    <2>4. TurnChanges(r, q, n, v, computer)
        BY <1>2, <1>3, <1>4, <1>5, <2>1, <2>3 DEF TurnChanges
    <2> QED BY <1>5, <2>2, <2>4, TurnRow, ZenonT(60)
<1>6. CASE RuntimeFinalize(s, n)
    <2>1. /\ session' = [session EXCEPT ![s] =
                 [r EXCEPT !.turn[n].status = "completed", !.turn[n].save = "requested",
                           !.turn[n].save_lease = computer.lease.epoch, !.executing = 0]]
          /\ computer' = computer
        BY <1>6, ZenonT(60) DEF RuntimeFinalize, UpdateRow
    <2>2. session' = [session EXCEPT ![s] = WithTurn(r, n, t, 0)]
        <3>1. WithTurn(r, n, t, 0) =
                 [r EXCEPT !.turn[n].status = "completed", !.turn[n].save = "requested",
                           !.turn[n].save_lease = computer.lease.epoch, !.executing = 0]
            BY <1>1, ZenonT(60) DEF WithTurn, Row, Turn
        <3> QED BY <2>1, <3>1, ZenonT(60)
    <2>3. t.status = "completed" /\ t.save = "requested" /\ t.save_lease = computer.lease.epoch
        BY <1>1 DEF Turn
    <2> HIDE DEF t, r
    <2> QED BY <1>5, <2>1, <2>2, <2>3, ZenonT(60)
<1>7. CASE RuntimeFail(s, n)
    <2>1. /\ session' = [session EXCEPT ![s] = [r EXCEPT !.turn[n].status = "failed", !.executing = 0]]
          /\ computer' = computer
        BY <1>7, ZenonT(60) DEF RuntimeFail, UpdateRow
    <2>2. session' = [session EXCEPT ![s] = WithTurn(r, n, u, 0)]
        BY <1>1, <2>1 DEF WithTurn, Row
    <2>3. u.status = "failed" /\ u.save = r.turn[n].save
        BY <1>1 DEF Turn
    <2> HIDE DEF u, r
    <2> QED BY <1>4, <1>5, <2>1, <2>2, <2>3, ZenonT(60)
<1> QED BY <1>6, <1>7

-----------------------------------------------------------------------------

\* Handlers of many rows.
LEMMA RowsHold ==
    ASSUME HoldInv, \A s \in Sessions : Ordinary(session[s], session'[s]),
           LeaseLive(computer) => LeaseLive(computer') /\ computer'.lease.epoch = computer.lease.epoch
    PROVE  HoldInv'
BY OrdinaryRows, ZenonT(60) DEF HoldInv

\* A lease left alone stays live.
LEMMA SameLeaseIsLive ==
    ASSUME computer'.lease = computer.lease
    PROVE  LeaseLive(computer) => LeaseLive(computer') /\ computer'.lease.epoch = computer.lease.epoch
BY DEF LeaseLive, Allocated

LEMMA LeftAlone ==
    ASSUME SessionInv, NEW s \in Sessions PROVE session[s] \in Row /\ Ordinary(session[s], session[s])
<1>1. session[s] \in Row
    BY DEF SessionInv, AllFine
<1> QED BY <1>1, PlainReflexive, PlainIsOrdinary

\* Placement on a Computer without a VM: nobody waits for a save.
LEMMA AllocateLeaseHolds ==
    ASSUME SessionInv, HoldInv, NEW denied, NEW restored, ~Allocated(computer), AllocateLease(denied, restored)
    PROVE  HoldInv'
<1> DEFINE initial == {s \in Sessions : Accepting(session[s])}
           settled == [s \in Sessions |-> IF s \in denied THEN FailQueuedTurns(session[s]) ELSE session[s]]
           placed == [computer EXCEPT !.lease = NewLease(computer.lease.epoch + 1, "acquiring", restored)]
           assigned == [s \in Sessions |->
               IF s \in initial \ denied /\ MayAssignProcess(settled, placed, s)
               THEN AssignProcess(settled[s], placed.lease.epoch) ELSE settled[s]]
<1>1. session' \in {settled, assigned}
    BY DEF AllocateLease
<1>2. ASSUME NEW s \in Sessions PROVE settled[s] \in Row /\ Ordinary(session[s], settled[s])
    <2>1. session[s] \in Row /\ Ordinary(session[s], session[s])
        BY LeftAlone
    <2>2. FailQueuedTurns(session[s]) \in Row /\ Ordinary(session[s], FailQueuedTurns(session[s]))
        BY <2>1, FailQueuedIsPlain, PlainIsOrdinary
    <2> QED BY <2>1, <2>2
<1> HIDE DEF settled
<1>3. ASSUME NEW s \in Sessions PROVE Ordinary(session[s], assigned[s])
    <2> DEFINE q == AssignProcess(settled[s], placed.lease.epoch)
    <2>1. Ordinary(settled[s], q)
        BY <1>2, AssignIsPlain, PlainIsOrdinary
    <2>2. assigned[s] \in {settled[s], q}
        OBVIOUS
    <2> HIDE DEF q, assigned
    <2> QED BY <1>2, <2>1, <2>2, OrdinaryTransitive
<1> HIDE DEF assigned
<1>4. \A s \in Sessions : Ordinary(session[s], session'[s])
    BY <1>1, <1>2, <1>3
<1>5. ~LeaseLive(computer)
    BY DEF LeaseLive
<1> QED BY <1>4, <1>5, RowsHold

\* A process is assigned on the live lease, or refused.
LEMMA AssignHolds ==
    ASSUME SessionInv, HoldInv, NEW s \in Sessions, AllocateSessionProcess(s) \/ RefuseRevokedSessionStart(s)
    PROVE  HoldInv'
<1>1. session[s] \in Row
    BY LeftAlone
<1> DEFINE assigned == AssignProcess(session[s], computer.lease.epoch)
           failed == FailQueuedTurns(session[s])
           f == RecordSessionFailure(failed, FALSE)
           refused == [f EXCEPT !.process.status = "stopping"]
<1>2. Ordinary(session[s], assigned)
    BY <1>1, AssignIsPlain, PlainIsOrdinary
<1>3. failed \in Row /\ Ordinary(session[s], failed)
    BY <1>1, FailQueuedIsPlain, PlainIsOrdinary
<1>4. CASE AllocateSessionProcess(s)
    <2>1. session' \in {[session EXCEPT ![s] = assigned], [session EXCEPT ![s] = failed]} /\ computer' = computer
        BY <1>4, ZenonT(60) DEF AllocateSessionProcess
    <2> HIDE DEF assigned, failed
    <2> QED BY <1>2, <1>3, <2>1, OrdinaryRow, ZenonT(60)
<1>5. CASE RefuseRevokedSessionStart(s)
    <2>1. LiveProcess(session[s]) /\ session' = [session EXCEPT ![s] = refused] /\ computer' = computer
        BY <1>5, ZenonT(60) DEF RefuseRevokedSessionStart
    <2>2. LiveProcess(failed)
        BY <1>1, <2>1, SettleTurnsFields DEF FailQueuedTurns, LiveProcess, Ended
    <2> HIDE DEF failed
    <2>3. f \in Row /\ Ordinary(failed, f)
        BY <1>3, <2>2, FailureIsOrdinary, ZenonT(60)
    <2> HIDE DEF f
    <2>4. Ordinary(f, refused)
        BY <2>3, StatusIsPlain, PlainIsOrdinary
    <2> HIDE DEF refused
    <2>5. Ordinary(session[s], refused)
        BY <1>3, <2>3, <2>4, OrdinaryTransitive
    <2> QED BY <2>1, <2>5, OrdinaryRow, ZenonT(60)
<1> QED BY <1>4, <1>5

\* Storage pressure, for all Sessions.
LEMMA PressureHolds ==
    ASSUME SessionInv, HoldInv, NEW d, session' = ReconcileStoragePressure(session, d),
           LeaseLive(computer) => LeaseLive(computer') /\ computer'.lease.epoch = computer.lease.epoch
    PROVE  HoldInv'
<1>1. ASSUME NEW s \in Sessions PROVE Ordinary(session[s], session'[s])
    <2> DEFINE q == ReconcilePressureRow(session[s], d.lease.pressure)
    <2>1. session'[s] = session[s] \/ (Accepting(session[s]) /\ session'[s] = q)
        <3>1. ReconcileStoragePressure(session, d)[s] =
                 IF Accepting(session[s]) /\ (d.lease.pressure = "none" \/ LeaseLive(d)) THEN q ELSE session[s]
            BY DEF ReconcileStoragePressure
        <3> HIDE DEF q
        <3> QED BY <3>1, ZenonT(60)
    <2>2. session[s] \in Row /\ Ordinary(session[s], session[s])
        BY LeftAlone
    <2>3. Accepting(session[s]) => Ordinary(session[s], q)
        BY <2>2, PressureIsOrdinary
    <2> HIDE DEF q
    <2> QED BY <2>1, <2>2, <2>3
<1> QED BY <1>1, RowsHold

\* The Computer changes and its lease stays live if it was.
LEMMA ComputerHolds ==
    ASSUME SessionInv, HoldInv, session' = session,
           LeaseLive(computer) => LeaseLive(computer') /\ computer'.lease.epoch = computer.lease.epoch
    PROVE  HoldInv'
<1>1. \A s \in Sessions : Ordinary(session[s], session'[s])
    BY LeftAlone
<1> QED BY <1>1, RowsHold

LEMMA TreesAreClosed ==
    ASSUME NEW s \in Sessions PROVE \A t \in Sessions \cap Tree(s) : Tree(t) \subseteq Tree(s)
<1>1. \A t \in Sessions : \A e \in Tree(t) : e \in Sessions
    BY DEF Tree
<1> QED BY <1>1, TreeTransitive

\* Close, and idle Sessions that are closed.
LEMMA CloseHolds ==
    ASSUME SessionInv, HoldInv, NEW s \in Sessions, session' = BeginClose(session, Tree(s)),
           computer'.lease = computer.lease
    PROVE  HoldInv'
<1>1. HoldRows(BeginClose(session, Tree(s)), computer)
    BY TreesAreClosed, BeginCloseKeeps DEF SessionInv, HoldInv
<1> QED BY <1>1, SameLeaseHolds DEF HoldInv

\* ReconcileSessionIdle.
LEMMA IdleHolds ==
    ASSUME SessionInv, HoldInv, NEW s \in Sessions, ReconcileSessionIdle(s) PROVE HoldInv'
<1>1. session[s] \in Row /\ session \in [Sessions -> Row]
    BY DEF SessionInv, AllFine
<1>2. computer' = computer
    BY DEF ReconcileSessionIdle
<1>3. ASSUME NEW b \in BOOLEAN, session' = [session EXCEPT ![s].idle = b] PROVE HoldInv'
    <2> DEFINE q == [session[s] EXCEPT !.idle = b]
    <2>1. SameRecord(session[s], q) /\ SameHolds(session[s], q) /\ q.turn = session[s].turn /\ q.process = session[s].process
        BY <1>1 DEF Row, SameRecord, SameHolds
    <2>2. session' = [session EXCEPT ![s] = q]
        BY <1>1, <1>3
    <2> HIDE DEF q
    <2>3. Ordinary(session[s], q)
        BY <1>1, <2>1, ProcessIsPlain, PlainIsOrdinary DEF SameControl
    <2> QED BY <1>2, <2>2, <2>3, OrdinaryRow, ZenonT(60)
<1>4. CASE session' = BeginClose(session, Tree(s))
    BY <1>2, <1>4, CloseHolds
<1> QED BY <1>3, <1>4, ZenonT(60) DEF ReconcileSessionIdle

\* ReconcileSessionClosure.
LEMMA ClosureHolds ==
    ASSUME SessionInv, HoldInv, NEW s \in Sessions, ReconcileSessionClosure(s) PROVE HoldInv'
<1>1. Root(s) \in Sessions
    BY TreeAssumption DEF Root
<1>2. session \in [Sessions -> Row]
    BY DEF SessionInv, AllFine
<1>3. HoldRows(DrainClosingSessions(session, Tree(Root(s))), computer)
    BY <1>1, <1>2, TreesAreClosed, DrainKeeps DEF HoldInv
<1> QED BY <1>3 DEF ReconcileSessionClosure, HoldInv

\* ExpireExecutionAdmission.
LEMMA AdmissionHolds ==
    ASSUME SessionInv, HoldInv, ExpireExecutionAdmission PROVE HoldInv'
<1>1. ASSUME NEW s \in Sessions PROVE Ordinary(session[s], session'[s])
    <2>1. session'[s] \in {session[s], FailQueuedTurns(session[s])}
        BY DEF ExpireExecutionAdmission
    <2>2. session[s] \in Row /\ Ordinary(session[s], session[s])
        BY LeftAlone
    <2> QED BY <2>1, <2>2, FailQueuedIsPlain, PlainIsOrdinary
<1>2. computer'.lease = computer.lease
    BY AdmissionFields DEF SessionInv, ExpireExecutionAdmission
<1> QED BY <1>1, <1>2, SameLeaseIsLive, RowsHold

\* ExpireImageWaiter fails what waits and closes everything.
LEMMA ImageHolds ==
    ASSUME SessionInv, HoldInv, ExpireImageWaiter PROVE HoldInv'
<1> DEFINE failed == [s \in Sessions |-> FailQueuedTurns(session[s])]
<1>1. ASSUME NEW s \in Sessions PROVE Fine(failed[s], computer) /\ Settles(session[s], failed[s]) /\ Ordinary(session[s], failed[s])
    <2>1. session[s] \in Row /\ Fine(session[s], computer)
        BY DEF SessionInv, AllFine
    <2> QED BY <2>1, FailQueuedIsFine, FailQueuedIsPlain, PlainIsOrdinary
<1>2. AllFine(failed, computer)
    BY <1>1, RowwiseIsFine
<1>3. session' = BeginClose(failed, Sessions) /\ computer'.lease = computer.lease
    BY DEF ExpireImageWaiter, SessionInv, Computer
<1> HIDE DEF failed
<1>4. HoldRows(failed, computer)
    BY <1>1, OrdinaryRows DEF HoldInv
<1>5. \A s \in Sessions \cap Sessions : Tree(s) \subseteq Sessions
    BY DEF Tree
<1>6. HoldRows(BeginClose(failed, Sessions), computer)
    BY <1>2, <1>4, <1>5, BeginCloseKeeps
<1> QED BY <1>3, <1>6, SameLeaseHolds DEF HoldInv

\* The clocks and the outside world, and the first report of a VM.
LEMMA EnvironmentHolds ==
    ASSUME SessionInv, HoldInv, Environment \/ ObserveFreshLeaseReady PROVE HoldInv'
<1>1. session' = session
    BY DEF Environment, StoragePressureElapses, ExecutionDeadlineElapses, PreparationReady, ComputerFaulted,
           ObserveFreshLeaseReady
<1>2. computer \in Computer /\ computer.lease \in Lease
    BY DEF SessionInv, Computer
<1>3. CASE ObserveFreshLeaseReady
    <2>1. ~LeaseLive(computer)
        BY <1>3 DEF ObserveFreshLeaseReady, LeaseLive
    <2> QED BY <1>1, <2>1, ComputerHolds
<1>4. CASE StoragePressureElapses
    <2>1. /\ computer'.lease.epoch = computer.lease.epoch /\ computer'.lease.status = computer.lease.status
          /\ computer'.lease.fenced = computer.lease.fenced
        BY <1>2, <1>4 DEF StoragePressureElapses, Computer, Lease
    <2> QED BY <1>1, <2>1, ComputerHolds DEF LeaseLive, Allocated
<1>5. CASE ExecutionDeadlineElapses \/ PreparationReady \/ ComputerFaulted
    <2>1. computer'.lease = computer.lease
        BY <1>2, <1>5 DEF ExecutionDeadlineElapses, PreparationReady, ComputerFaulted, Computer
    <2> QED BY <1>1, <2>1, SameLeaseIsLive, ComputerHolds
<1> QED BY <1>3, <1>4, <1>5 DEF Environment

\* AdmitStart: a fresh row below an open parent.
LEMMA StartHolds ==
    ASSUME Counts, SessionInv, HoldInv, NEW s \in Sessions, NEW hasInput \in BOOLEAN, AdmitStart(s, hasInput)
    PROVE  HoldInv'
<1> DEFINE fresh == [NewRow("open") EXCEPT !.gaps = InheritedGaps(session), !.idle = ~hasInput]
           row == IF hasInput THEN [fresh EXCEPT !.turn[1] = NewTurn, !.next_turn_seq = 2] ELSE fresh
           next == [t \in Sessions |->
               IF t = s THEN row
               ELSE IF t = Parent[s] THEN [session[t] EXCEPT !.idle = FALSE] ELSE session[t]]
<1>1. /\ session[s].status = "none" /\ session' = next /\ computer' = NoteExecutionDemand(computer)
      /\ Parent[s] # NoSession => session[Parent[s]].status = "open"
    BY ZenonT(60) DEF AdmitStart
<1>2. /\ fresh.status = "open" /\ fresh.interrupts = 0 /\ fresh.holds = {} /\ fresh.failures = {}
      /\ fresh.process = NewProcess(0, 0, "none") /\ fresh.turn = [n \in TurnIds |-> [NewTurn EXCEPT !.status = "none"]]
      /\ LET f == [fresh EXCEPT !.turn[1] = NewTurn, !.next_turn_seq = 2] IN
            /\ f.status = "open" /\ f.interrupts = 0 /\ f.holds = {} /\ f.failures = {}
            /\ f.process = fresh.process /\ f.turn = [fresh.turn EXCEPT ![1] = NewTurn]
    <2> DEFINE g == InheritedGaps(session)
               b == ~hasInput
               r == NewRow("open")
    <2>1. g \in SUBSET (1..MaxLeases) /\ b \in BOOLEAN
        <3>1. \A t \in Sessions : session[t].gaps \in SUBSET (1..MaxLeases)
            BY DEF SessionInv, AllFine, Row
        <3> QED BY <3>1 DEF InheritedGaps
    <2> HIDE DEF g, b
    <2>2. r \in Row
        BY NewRowFields
    <2>3. /\ r.status = "open" /\ r.interrupts = 0 /\ r.holds = {} /\ r.failures = {}
          /\ r.process = NewProcess(0, 0, "none") /\ r.turn = [n \in TurnIds |-> [NewTurn EXCEPT !.status = "none"]]
        BY DEF NewRow
    <2> HIDE DEF r
    <2>4. fresh = [r EXCEPT !.gaps = g, !.idle = b]
        BY DEF r, g, b
    <2>5. /\ fresh \in Row /\ fresh.status = r.status /\ fresh.interrupts = r.interrupts /\ fresh.holds = r.holds
          /\ fresh.failures = r.failures /\ fresh.process = r.process /\ fresh.turn = r.turn
        BY <2>1, <2>2, <2>4, ZenonT(60) DEF Row
    <2> HIDE DEF fresh
    <2> DEFINE f == [fresh EXCEPT !.turn[1] = NewTurn, !.next_turn_seq = 2]
    <2>6. /\ f.status = fresh.status /\ f.interrupts = fresh.interrupts /\ f.holds = fresh.holds
          /\ f.failures = fresh.failures /\ f.process = fresh.process /\ f.turn = [fresh.turn EXCEPT ![1] = NewTurn]
        BY <2>5, ZenonT(60) DEF Row
    <2> QED BY <2>3, <2>5, <2>6
<1> HIDE DEF fresh
<1>3. \A n \in TurnIds : row.turn[n].status \in {"none", "queued"} /\ row.turn[n].process_epoch = 0 /\ row.turn[n].save = "none"
    <2>1. row.turn = IF hasInput THEN [fresh.turn EXCEPT ![1] = NewTurn] ELSE fresh.turn
        BY <1>2
    <2> HIDE DEF row
    <2> QED BY <1>2, <2>1 DEF NewTurn
<1>4. row.status = "open" /\ row.interrupts = 0 /\ row.holds = {} /\ row.failures = {} /\ row.process.current = FALSE
    <2>1. NewProcess(0, 0, "none").current = FALSE
        BY DEF NewProcess
    <2> QED BY <1>2, <2>1
<1> HIDE DEF row
<1>5. Ledger(row) /\ Saving(row, computer)
    <2>1. Counted(row)
        BY <1>4, FreshCount DEF Counted
    <2>2. Unstarted(row) /\ Reported(row) /\ Cleared(row)
        BY <1>3, <1>4 DEF Unstarted, Reported, Cleared
    <2>3. Saving(row, computer)
        BY <1>3, <1>4 DEF Saving
    <2> QED BY <2>1, <2>2, <2>3 DEF Ledger
<1>6. ASSUME NEW t \in Sessions, t # s
      PROVE  /\ Ledger(next[t]) /\ Saving(next[t], computer) /\ Steady(session[t], next[t])
             /\ next[t].holds = session[t].holds
    <2> DEFINE q == [session[t] EXCEPT !.idle = FALSE]
    <2>1. session[t] \in Row /\ Ledger(session[t]) /\ Saving(session[t], computer)
        BY DEF SessionInv, AllFine, HoldInv, HoldRows, Books
    <2>2. SameRecord(session[t], q) /\ SameHolds(session[t], q) /\ q.turn = session[t].turn /\ q.process = session[t].process
        BY <2>1 DEF Row, SameRecord, SameHolds
    <2>3. next[t] \in {session[t], q}
        BY <1>6
    <2> HIDE DEF q, next
    <2>4. Plain(session[t], q)
        BY <2>1, <2>2, ProcessIsPlain DEF SameControl
    <2>5. Plain(session[t], next[t])
        BY <2>3, <2>4, PlainReflexive
    <2>6. Ordinary(session[t], next[t])
        BY <2>1, <2>5, PlainIsOrdinary
    <2> QED BY <2>1, <2>5, <2>6, LedgerKept, SavingKept DEF Plain, SameRecord, SameHolds, Steady
<1>7. next[s] = row
    OBVIOUS
<1> HIDE DEF next
<1>8. Books(next, computer)
    BY <1>5, <1>6, <1>7 DEF Books
<1>9. Nested(next)
    <2> SUFFICES ASSUME NEW d \in Sessions, Parent[d] \in Sessions
                 PROVE  /\ next[Parent[d]].status = "closed" => next[d].status \in {"none", "closed"}
                        /\ next[Parent[d]].status = "closing" => next[d].status # "open"
        BY DEF Nested
    <2>1. \A t \in Sessions : t # s => next[t].status = session[t].status
        BY <1>6 DEF Steady
    <2>2. next[s].status = "open"
        BY <1>4, <1>7
    <2>3. CASE d = s
        <3>1. Parent[s] # NoSession
            BY <2>3, TreeAssumption
        <3> QED BY <1>1, <2>1, <2>2, <2>3, <3>1
    <2>4. CASE d # s
        <3>1. /\ session[Parent[d]].status = "closed" => session[d].status \in {"none", "closed"}
              /\ session[Parent[d]].status = "closing" => session[d].status # "open"
            BY DEF HoldInv, HoldRows, Nested
        <3> QED BY <2>1, <2>2, <2>4, <3>1
    <2> QED BY <2>3, <2>4
<1>10. Matched(next)
    <2> SUFFICES ASSUME NEW t \in Sessions, Accepting(next[t]), next[t].process.current
                 PROVE  /\ next[t].process.control_kind = "resume" => ~Held(next, t)
                        /\ next[t].process.control_kind = "suspend" => Held(next, t)
        BY DEF Matched
    <2>1. t # s
        BY <1>4, <1>7
    <2>2. session[s].interrupts = 0
        BY <1>1 DEF HoldInv, HoldRows, Books, Ledger, Cleared
    <2>3. \A a \in Sessions : next[a].interrupts = session[a].interrupts
        BY <1>4, <1>6, <1>7, <2>2 DEF Steady
    <2>4. next[t].holds = session[t].holds /\ Steady(session[t], next[t])
        BY <1>6, <2>1
    <2>5. Held(next, t) <=> Held(session, t)
        BY <2>3, <2>4, HeldInTree
    <2> QED BY <2>4, <2>5 DEF HoldInv, HoldRows, Matched, Steady, SameControl, Accepting
<1>11. HoldRows(next, computer)
    BY <1>8, <1>9, <1>10 DEF HoldRows
<1>12. computer'.lease = computer.lease
    BY <1>1, AdmissionFields DEF SessionInv
<1> QED BY <1>1, <1>11, <1>12, SameLeaseHolds DEF HoldInv

-----------------------------------------------------------------------------

\* Ledger, but for what a lost lease has yet to report.
Sound(r) == Unstarted(r) /\ Counted(r) /\ Cleared(r)

NoSaves(r) == \A n \in TurnIds : r.turn[n].save # "requested"

\* The saves of lease e fail and nothing else changes.
LosesSaves(r, a, e) ==
    /\ SameRecord(r, a) /\ SameHolds(r, a) /\ a.process = r.process
    /\ \A n \in TurnIds :
          /\ a.turn[n].status = r.turn[n].status /\ a.turn[n].process_epoch = r.turn[n].process_epoch
          /\ a.turn[n].save_lease = r.turn[n].save_lease
          /\ a.turn[n].save = IF r.turn[n].save = "requested" /\ r.turn[n].save_lease = e
                              THEN "failed" ELSE r.turn[n].save

LEMMA LostSaves ==
    ASSUME NEW rows, NEW s \in Sessions, rows[s] \in Row, NEW e
    PROVE  LosesSaves(rows[s], SettleLostSaves(rows, e)[s], e)
<1> DEFINE r == rows[s]
           f == [n \in TurnIds |-> IF r.turn[n].save = "requested" /\ r.turn[n].save_lease = e
                                   THEN [r.turn[n] EXCEPT !.save = "failed"] ELSE r.turn[n]]
           q == [r EXCEPT !.turn = f]
<1>1. ASSUME NEW n \in TurnIds
      PROVE  /\ f[n].status = r.turn[n].status /\ f[n].process_epoch = r.turn[n].process_epoch
             /\ f[n].save_lease = r.turn[n].save_lease
             /\ f[n].save = IF r.turn[n].save = "requested" /\ r.turn[n].save_lease = e
                            THEN "failed" ELSE r.turn[n].save
    <2>1. r.turn[n] \in Turn
        BY DEF Row
    <2> QED BY <2>1 DEF Turn
<1>2. SettleLostSaves(rows, e)[s] = q
    BY DEF SettleLostSaves
<1> HIDE DEF f
<1>3. SameRecord(r, q) /\ SameHolds(r, q) /\ q.process = r.process /\ q.turn = f
    BY DEF Row, SameRecord, SameHolds
<1> HIDE DEF q
<1> QED BY <1>1, <1>2, <1>3, ZenonT(60) DEF LosesSaves

LEMMA LostSavesSound ==
    ASSUME Counts, NEW r \in Row, NEW a, NEW c, LosesSaves(r, a, c.lease.epoch), Ledger(r), Saving(r, c)
    PROVE  Sound(a) /\ NoSaves(a)
<1>1. \A n \in TurnIds : a.turn[n].status = r.turn[n].status /\ a.turn[n].process_epoch = r.turn[n].process_epoch
    BY DEF LosesSaves
<1>2. SameRecord(r, a) /\ SameHolds(r, a)
    BY DEF LosesSaves
<1>3. Unstarted(a) /\ Cleared(a)
    BY <1>1, <1>2 DEF Ledger, Unstarted, Cleared, Unsettled, TurnsIn, SameRecord, SameHolds
<1>4. ConsecutiveFailures(a) >= processFailureHoldThreshold => ConsecutiveFailures(r) >= processFailureHoldThreshold
    <2>1. a.failures = r.failures
        BY <1>2 DEF SameHolds
    <2> QED BY <1>1, <2>1, FewerFailures
<1>5. Counted(a)
    BY <1>2, <1>4 DEF Ledger, Counted, Accepting, SameRecord, SameHolds
<1>6. NoSaves(a)
    BY DEF LosesSaves, Saving, NoSaves
<1> QED BY <1>3, <1>5, <1>6 DEF Sound

\* Ordinary handlers keep it.
LEMMA SoundKept ==
    ASSUME NEW r, NEW q, Ordinary(r, q), Sound(r), NoSaves(r) PROVE Sound(q) /\ NoSaves(q)
<1>1. SameWork(r, q) /\ SameRecord(r, q) /\ Unstarted(r) /\ Counted(r) /\ Cleared(r)
    BY DEF Ordinary, Sound
<1>2. Unstarted(q) /\ Counted(q)
    BY <1>1, UnstartedKept DEF Ordinary
<1>3. Cleared(q)
    <2>1. r.status = "closed" => q.holds \subseteq r.holds
        BY DEF Ordinary
    <2> QED BY <1>1, <2>1 DEF Cleared, SameWork, SameRecord, Unsettled, TurnsIn
<1>4. NoSaves(q)
    BY <1>1 DEF SameWork, NoSaves
<1> QED BY <1>2, <1>3, <1>4 DEF Sound

\* A gap of the Computer is noticed, and perhaps held for.
Notices(r, q, e) ==
    /\ q.status = r.status /\ q.interrupts = r.interrupts /\ q.turn = r.turn
    /\ q.gaps = r.gaps \cup {e} /\ q.failures = r.failures
    /\ r.holds \subseteq q.holds
    /\ SameControl(r, q) /\ (q.process.current => q.holds = r.holds)

LEMMA NoticeFields ==
    ASSUME NEW r \in Row, NEW e \in 1..MaxLeases
    PROVE  LET n == [r EXCEPT !.gaps = r.gaps \cup {e}]
               h == [n EXCEPT !.holds = n.holds \cup {"recovery_gap"}]
           IN  Notices(r, n, e) /\ Notices(r, AdvanceControlAuthority(h), e)
<1> DEFINE n == [r EXCEPT !.gaps = r.gaps \cup {e}]
           h == [n EXCEPT !.holds = n.holds \cup {"recovery_gap"}]
           q == AdvanceControlAuthority(h)
<1>1. /\ n \in Row /\ n.status = r.status /\ n.interrupts = r.interrupts /\ n.turn = r.turn
      /\ n.gaps = r.gaps \cup {e} /\ n.holds = r.holds /\ n.failures = r.failures /\ n.process = r.process
    BY DEF Row
<1> HIDE DEF n
<1>2. Notices(r, n, e)
    BY <1>1 DEF Notices, SameControl
<1>3. /\ h \in Row /\ h.status = r.status /\ h.interrupts = r.interrupts /\ h.turn = r.turn
      /\ h.gaps = r.gaps \cup {e} /\ h.holds = r.holds \cup {"recovery_gap"} /\ h.failures = r.failures
    BY <1>1 DEF Row, LocalHolds
<1> HIDE DEF h
<1>4. Plain(h, q) /\ ~q.process.current /\ q.turn = h.turn
    BY <1>3, AdvanceIsPlain, AdvanceFields
<1> HIDE DEF q
<1>5. Notices(r, q, e)
    BY <1>3, <1>4 DEF Notices, Plain, SameRecord, SameHolds, SameControl
<1> QED BY <1>2, <1>5 DEF q, h, n

LEMMA NoticeKeeps ==
    ASSUME NEW r \in Row, NEW q, NEW e, Notices(r, q, e), Accepting(r), Sound(r), NoSaves(r)
    PROVE  Sound(q) /\ NoSaves(q)
<1>1. ConsecutiveFailures(q) = ConsecutiveFailures(r)
    BY DEF Notices, ConsecutiveFailures, TurnsIn
<1>2. Unstarted(q) /\ Counted(q) /\ Cleared(q) /\ NoSaves(q)
    BY <1>1 DEF Notices, Sound, Unstarted, Counted, Cleared, NoSaves, Accepting
<1> QED BY <1>2 DEF Sound

\* recordComputerRecoveryGap, for a Session whose saves just failed: either
\* the lease was in its gaps before, or the Session is held for it now. No
\* hold of an earlier gap can hide it, since a Session so held saves nothing.
LEMMA GapKeeps ==
    ASSUME Counts, NEW rows, NEW settled, NEW c, NEW e \in 1..MaxLeases, e = c.lease.epoch,
           NEW s \in Sessions, rows[s] \in Row, settled[s] \in Row,
           LosesSaves(rows[s], settled[s], e), Ledger(rows[s]), Saving(rows[s], c)
    PROVE  LET q == RecordComputerRecoveryGap(settled, e)[s] IN
           Ledger(q) /\ NoSaves(q) /\ Steady(rows[s], q)
<1> DEFINE r == rows[s]
           a == settled[s]
           b == IF Accepting(a) THEN ReconcilePressureRow(a, "none") ELSE a
           gap == \E t \in Sessions : AffectedTurns(settled[t], e) # {}
           recorded == "recovery_gap" \in b.holds \/ e \in b.gaps
           noticed == [b EXCEPT !.gaps = b.gaps \cup {e}]
           held == AdvanceControlAuthority([noticed EXCEPT !.holds = noticed.holds \cup {"recovery_gap"}])
           q == RecordComputerRecoveryGap(settled, e)[s]
<1>1. q = IF ~gap \/ ~Accepting(b) \/ recorded THEN b
          ELSE IF AffectedTurns(b, e) = {} THEN noticed ELSE held
    <2> DEFINE calm == [t \in Sessions |-> IF Accepting(settled[t]) THEN ReconcilePressureRow(settled[t], "none")
                                                                  ELSE settled[t]]
               Noticed(x) == [x EXCEPT !.gaps = @ \cup {e}]
               Held1(x) == AdvanceControlAuthority([Noticed(x) EXCEPT !.holds = @ \cup {"recovery_gap"}])
               Gap1(x) == IF ~gap \/ ~Accepting(x) \/ ("recovery_gap" \in x.holds \/ e \in x.gaps) THEN x
                          ELSE IF AffectedTurns(x, e) = {} THEN Noticed(x) ELSE Held1(x)
    <2>1. RecordComputerRecoveryGap(settled, e) = [t \in Sessions |-> Gap1(calm[t])]
        BY DEF RecordComputerRecoveryGap
    <2>2. calm[s] = b
        OBVIOUS
    <2>3. noticed = Noticed(b) /\ held = Held1(b)
        OBVIOUS
    <2>4. q = Gap1(calm[s])
        <3> HIDE DEF Gap1, calm
        <3> QED BY <2>1
    <2> HIDE DEF calm, b, Noticed, Held1, noticed, held, gap
    <2> QED BY <2>2, <2>3, <2>4
<1>2. Sound(a) /\ NoSaves(a)
    BY LostSavesSound
<1>3. Ordinary(a, b) /\ b \in Row
    <2>1. Ordinary(a, a)
        BY PlainReflexive, PlainIsOrdinary
    <2> QED BY <2>1, PressureIsOrdinary
<1> HIDE DEF b
<1>4. Sound(b) /\ NoSaves(b)
    BY <1>2, <1>3, SoundKept
<1>5. Notices(b, noticed, e) /\ Notices(b, held, e)
    BY <1>3, NoticeFields, ZenonT(60)
<1> HIDE DEF noticed, held, q
<1>6. q = b \/ (Accepting(b) /\ Notices(b, q, e))
    BY <1>1, <1>5
<1>7. Sound(q) /\ NoSaves(q)
    BY <1>3, <1>4, <1>6, NoticeKeeps
<1>8. Steady(r, q)
    <2>1. Steady(r, a) /\ a.holds = r.holds /\ a.process = r.process
        BY ZenonT(60) DEF LosesSaves, Steady, SameRecord, SameHolds, SameControl
    <2>2. Steady(a, b)
        BY <1>3, ZenonT(60) DEF Ordinary, SameRecord, Steady
    <2>3. Steady(b, q)
        BY <1>6 DEF Notices, Steady, SameControl
    <2> QED BY <2>1, <2>2, <2>3, ZenonT(60) DEF Steady, SameControl
<1>9. ASSUME Accepting(q), NEW n \in TurnIds, q.turn[n].status = "completed", q.turn[n].save = "failed"
      PROVE  q.turn[n].save_lease \in q.gaps
    <2>1. q.turn = b.turn /\ b.gaps \subseteq q.gaps /\ Accepting(b)
        BY <1>6, <1>9 DEF Notices, Accepting
    <2>2. /\ b.turn[n].save = a.turn[n].save /\ b.turn[n].save_lease = a.turn[n].save_lease
          /\ b.turn[n].status = a.turn[n].status /\ b.gaps = a.gaps /\ b.status = a.status
          /\ "recovery_gap" \in b.holds => "recovery_gap" \in a.holds
        BY <1>3, <1>9, <2>1, ZenonT(60) DEF Ordinary, SameWork, SameRecord
    <2>3. /\ a.turn[n].status = r.turn[n].status /\ a.turn[n].save_lease = r.turn[n].save_lease
          /\ a.gaps = r.gaps /\ a.holds = r.holds /\ a.status = r.status
          /\ a.turn[n].save = IF r.turn[n].save = "requested" /\ r.turn[n].save_lease = e
                              THEN "failed" ELSE r.turn[n].save
        BY ZenonT(60) DEF LosesSaves, SameRecord, SameHolds
    <2>4. CASE r.turn[n].save = "failed"
        <3>1. r.turn[n].status = "completed" /\ Accepting(r)
            BY <1>9, <2>1, <2>2, <2>3, ZenonT(60) DEF Accepting
        <3>2. r.turn[n].save_lease \in r.gaps
            BY <2>4, <3>1, ZenonT(60) DEF Ledger, Reported
        <3> QED BY <2>1, <2>2, <2>3, <3>2, ZenonT(60)
    <2>5. CASE r.turn[n].save = "requested" /\ r.turn[n].save_lease = e
        <3>1. "recovery_gap" \notin b.holds
            BY <2>2, <2>3, <2>5, ZenonT(60) DEF Saving
        <3>2. n \in AffectedTurns(a, e) /\ n \in AffectedTurns(b, e)
            BY <1>9, <2>1, <2>2, <2>3, <2>5, ZenonT(60) DEF AffectedTurns, TurnsIn
        <3>3. gap
            BY <3>2
        <3>4. e \in b.gaps \/ q = held
            BY <1>1, <2>1, <3>1, <3>2, <3>3
        <3>5. e \in q.gaps
            BY <1>5, <2>1, <3>4, ZenonT(60) DEF Notices
        <3> QED BY <2>1, <2>2, <2>3, <2>5, <3>5, ZenonT(60)
    <2> QED BY <1>9, <2>1, <2>2, <2>3, <2>4, <2>5, ZenonT(60)
<1>10. Ledger(q)
    BY <1>7, <1>9, ZenonT(60) DEF Sound, Ledger, Reported
<1> QED BY <1>7, <1>8, <1>10 DEF q

\* The loss of a lease, with or without evidence that the VM stopped.
LEMMA LossHolds ==
    ASSUME Counts, SessionInv, HoldInv, Allocated(computer), NEW d \in Computer, d.lease.epoch = computer.lease.epoch,
           ~LeaseLive(d), NEW physicalStopped \in BOOLEAN,
           session' = LoseLeaseProcesses(RecordComputerRecoveryGap(
                          SettleLostSaves(session, computer.lease.epoch), computer.lease.epoch), d, physicalStopped),
           computer' = d, AllFine(session', d)
    PROVE  HoldInv'
<1> DEFINE e == computer.lease.epoch
           settled == SettleLostSaves(session, e)
           gap == RecordComputerRecoveryGap(settled, e)
           next == LoseLeaseProcesses(gap, d, physicalStopped)
<1>1. e \in 1..MaxLeases
    BY DEF SessionInv, Computer, Lease, Allocated
<1>2. AllFine(settled, computer)
    BY SettleLostSavesIsFine DEF SessionInv
<1>3. \A s \in Sessions : session[s] \in Row => LosesSaves(session[s], settled[s], e)
    BY LostSaves
<1> HIDE DEF settled, e
<1>4. AllFine(gap, computer)
    BY <1>1, <1>2, RecoveryGapIsFine
<1>5. ASSUME NEW s \in Sessions PROVE Ledger(gap[s]) /\ NoSaves(gap[s]) /\ Steady(session[s], gap[s]) /\ gap[s] \in Row
    <2>1. session[s] \in Row /\ Ledger(session[s]) /\ Saving(session[s], computer)
        BY DEF SessionInv, AllFine, HoldInv, HoldRows, Books
    <2>2. settled[s] \in Row /\ gap[s] \in Row
        BY <1>2, <1>4 DEF AllFine
    <2>3. e = computer.lease.epoch
        BY DEF e
    <2> QED BY <1>1, <1>3, <2>1, <2>2, <2>3, GapKeeps, ZenonT(60)
<1> HIDE DEF gap
<1>6. session' = next
    BY DEF gap, settled, e
<1>7. ASSUME NEW s \in Sessions PROVE Steady(session[s], next[s]) /\ Ledger(next[s]) /\ Saving(next[s], d)
    <2> DEFINE q == LoseProcess(gap[s], d.lease, physicalStopped, DiskRecoveryEligible(d))
    <2>1. next[s] = q
        BY DEF LoseLeaseProcesses
    <2>2. DiskRecoveryEligible(d) \in BOOLEAN
        BY DEF DiskRecoveryEligible
    <2>3. Ordinary(gap[s], q)
        BY <1>5, <2>2, LoseProcessIsOrdinary, ZenonT(60)
    <2> HIDE DEF q
    <2>4. Ledger(q)
        BY <1>5, <2>3, LedgerKept, ZenonT(60)
    <2>5. Steady(session[s], q)
        BY <1>5, <2>3, ZenonT(60) DEF Ordinary, SameRecord, Steady, SameControl
    <2>6. NoSaves(q)
        <3>1. \A n \in TurnIds : q.turn[n].save = gap[s].turn[n].save
            BY <2>3, ZenonT(60) DEF Ordinary, SameWork
        <3> QED BY <1>5, <3>1, ZenonT(60) DEF NoSaves
    <2>7. Running(q) = {}
        <3>1. Fine(next[s], d)
            BY <1>6, ZenonT(60) DEF AllFine
        <3> QED BY <2>1, <3>1, ZenonT(60) DEF Fine, Owned
    <2>8. Saving(q, d)
        BY <2>6, <2>7 DEF Saving, NoSaves
    <2> QED BY <2>1, <2>4, <2>5, <2>8
<1> HIDE DEF next
<1>8. HoldRows(next, d)
    BY <1>7, SteadyRows DEF HoldInv
<1> QED BY <1>6, <1>8 DEF HoldInv

\* ExpireLease and ObserveLeaseStopped leave a lease that is not live.
LEMMA LeaseEndHolds ==
    ASSUME Counts, SessionInv, SessionInv', HoldInv, ExpireLease \/ ObserveLeaseStopped PROVE HoldInv'
<1> DEFINE e == computer.lease.epoch
           Ends(d, stopped) == /\ Allocated(computer)
                               /\ session' = LoseLeaseProcesses(RecordComputerRecoveryGap(
                                     SettleLostSaves(session, e), e), d, stopped)
                               /\ computer' = d
<1>1. ASSUME NEW d \in Computer, NEW stopped \in BOOLEAN, Ends(d, stopped), d.lease.epoch = e,
             d.lease.status = "lost", AllFine(session', computer')
      PROVE  HoldInv'
    <2>1. ~LeaseLive(d)
        BY <1>1 DEF LeaseLive
    <2> QED BY <1>1, <2>1, LossHolds, ZenonT(60)
<1>2. CASE ExpireLease
    <2> DEFINE d == [computer EXCEPT !.lease.status = "lost", !.lease.pressure = "none"]
    <2>1. d \in Computer /\ d.lease.epoch = e /\ d.lease.status = "lost"
        BY ZenonT(60) DEF SessionInv, Computer, Lease
    <2>2. Ends(d, FALSE)
        BY <1>2 DEF ExpireLease
    <2>3. AllFine(session', computer')
        BY DEF SessionInv
    <2> HIDE DEF d, e, Ends
    <2> QED BY <1>1, <2>1, <2>2, <2>3, ZenonT(60)
<1>3. CASE ObserveLeaseStopped
    <2> DEFINE f == FenceLease(session, computer)
               d == [f EXCEPT !.lease.pressure = "none"]
    <2>1. f \in Computer /\ f.lease.epoch = e
        BY FenceLeaseFields DEF SessionInv
    <2>2. f.lease.status = "lost"
        <3> DEFINE fenced == [computer EXCEPT !.lease.status = "lost", !.lease.fenced = TRUE]
                   armed == IF computer.deadline = "none" /\ RunnableDemand(session)
                            THEN [fenced EXCEPT !.deadline = "pending"] ELSE fenced
        <3>1. fenced \in Computer /\ fenced.lease.status = "lost"
            BY ZenonT(60) DEF SessionInv, Computer, Lease
        <3>2. f = RetireUnusedExecutionAdmission(session, armed)
            BY DEF FenceLease
        <3> HIDE DEF fenced, f
        <3>3. armed \in Computer /\ armed.lease.status = "lost"
            BY <3>1 DEF Computer
        <3> HIDE DEF armed
        <3> QED BY <3>2, <3>3, AdmissionFields
    <2>3. Ends(d, TRUE)
        BY <1>3, ZenonT(60) DEF ObserveLeaseStopped
    <2> HIDE DEF f
    <2>4. d \in Computer /\ d.lease.epoch = e /\ d.lease.status = "lost"
        BY <2>1, <2>2 DEF Computer, Lease
    <2>5. AllFine(session', computer')
        BY DEF SessionInv
    <2> HIDE DEF d, e, Ends
    <2> QED BY <1>1, <2>3, <2>4, <2>5, ZenonT(60)
<1> QED BY <1>2, <1>3

-----------------------------------------------------------------------------

\* Every action keeps the invariant.
LEMMA CallerHolds ==
    ASSUME Counts, SessionInv, HoldInv, Caller PROVE HoldInv'
<1>1. ASSUME NEW s \in Sessions, Close(s) PROVE HoldInv'
    <2>1. session' = BeginClose(session, Tree(s)) /\ computer' = RetireUnusedExecutionAdmission(session', computer)
        BY <1>1 DEF Close, Control
    <2>2. computer'.lease = computer.lease
        BY <2>1, AdmissionFields DEF SessionInv
    <2> QED BY <2>1, <2>2, CloseHolds
<1>2. ASSUME NEW s \in Sessions,
             \/ \E hasInput \in BOOLEAN : AdmitStart(s, hasInput)
             \/ Enqueue(s)
             \/ \E n \in TurnIds : TurnInterrupt(s, n)
      PROVE  HoldInv'
    BY <1>2, StartHolds, EnqueueHolds, TurnInterruptHolds
<1>3. ASSUME NEW s \in Sessions,
             \/ \E interruptQueued \in BOOLEAN : Interrupt(s, interruptQueued)
             \/ \E kind \in {"interrupt", "process_failed", "recovery_gap"} : Resume(s, kind)
             \/ Cancel(s)
      PROVE  HoldInv'
    BY <1>3, InterruptHolds, ResumeHolds, CancelHolds
<1> QED BY <1>1, <1>2, <1>3, ZenonT(60) DEF Caller

LEMMA DispatchPackageHolds ==
    ASSUME Counts, SessionInv, SessionInv', HoldInv, Dispatch PROVE HoldInv'
<1>1. CASE AllocateFreshLease
    BY <1>1, AllocateLeaseHolds, ZenonT(60) DEF AllocateFreshLease
<1>2. CASE AllocateRecoveredLease
    BY <1>2, AllocateLeaseHolds, ZenonT(60) DEF AllocateRecoveredLease
<1>3. CASE ExpireLease
    BY <1>3, LeaseEndHolds
<1>4. ASSUME NEW s \in Sessions, AllocateSessionProcess(s) \/ RefuseRevokedSessionStart(s) PROVE HoldInv'
    BY <1>4, AssignHolds
<1> QED BY <1>1, <1>2, <1>3, <1>4 DEF Dispatch

LEMMA WorkerHolds ==
    ASSUME Counts, SessionInv, SessionInv', HoldInv, Worker PROVE HoldInv'
<1>1. ASSUME NEW active \in BOOLEAN, ReportStoragePressure(active) PROVE HoldInv'
    <2> DEFINE level == IF ~active THEN "none" ELSE IF computer.lease.pressure = "none" THEN "reported"
                        ELSE computer.lease.pressure
    <2>1. computer' = [computer EXCEPT !.lease.pressure = level]
        BY <1>1 DEF ReportStoragePressure
    <2>2. session' = ReconcileStoragePressure(session, computer')
        BY <1>1 DEF ReportStoragePressure
    <2> HIDE DEF level
    <2>3. LeaseLive(computer) => LeaseLive(computer') /\ computer'.lease.epoch = computer.lease.epoch
        BY <2>1 DEF SessionInv, Computer, Lease, LeaseLive, Allocated
    <2> QED BY <2>2, <2>3, PressureHolds
<1>2. ASSUME NEW s \in Sessions, NEW n \in TurnIds, Publish(s, n) PROVE HoldInv'
    BY <1>2, PublishHolds
<1>3. ASSUME NEW s \in Sessions,
             \/ AcquireRuntimeAttachment(s)
             \/ PrepareSessionDelivery(s)
             \/ \E failed \in BOOLEAN : AcknowledgeSessionDelivery(s, failed)
             \/ ObserveSessionReady(s)
             \/ ObserveSessionStopped(s)
             \/ ObserveSessionFailure(s)
      PROVE  HoldInv'
    BY <1>3, AttachmentHolds, PrepareHolds, AcknowledgeHolds, ReadyHolds, EndedHolds
<1>4. CASE ObserveFreshLeaseReady
    BY <1>4, EnvironmentHolds
<1>5. CASE ObserveLeaseStopped
    BY <1>5, LeaseEndHolds
<1> QED BY <1>1, <1>2, <1>3, <1>4, <1>5, ZenonT(60) DEF Worker

LEMMA GuestHolds ==
    ASSUME Counts, SessionInv, HoldInv, Guest PROVE HoldInv'
BY DispatchHolds, ProcessingHolds, FinishHolds DEF Guest

LEMMA ReconcileHolds ==
    ASSUME SessionInv, HoldInv, Reconcile PROVE HoldInv'
<1>1. ASSUME NEW s \in Sessions,
             \/ ExpireSessionDeadline(s)
             \/ ReconcileProcessStopDeadline(s)
             \/ ReconcileSessionIdle(s)
             \/ ReconcileSessionClosure(s)
      PROVE  HoldInv'
    BY <1>1, DeadlineHolds, EndedHolds, IdleHolds, ClosureHolds
<1>2. CASE ReconcileSessionStoragePressure
    <2>1. session' = ReconcileStoragePressure(session, computer) /\ computer' = computer
        BY <1>2 DEF ReconcileSessionStoragePressure
    <2> QED BY <2>1, PressureHolds
<1>3. CASE ExpireExecutionAdmission \/ ExpireImageWaiter
    BY <1>3, AdmissionHolds, ImageHolds
<1> QED BY <1>1, <1>2, <1>3 DEF Reconcile

LEMMA HoldStep ==
    ASSUME Counts, SessionInv, SessionInv', HoldInv, [Next]_vars PROVE HoldInv'
<1>1. CASE UNCHANGED vars
    BY <1>1 DEF HoldInv, vars
<1> QED BY <1>1, CallerHolds, DispatchPackageHolds, WorkerHolds, GuestHolds, ReconcileHolds, EnvironmentHolds DEF Next

LEMMA HoldInit ==
    ASSUME Counts, Init PROVE HoldInv
<1> DEFINE r == NewRow("none")
<1>1. r.status = "none" /\ \A n \in TurnIds : r.turn[n].status = "none"
    BY NewRowFields
<1>2. /\ r.interrupts = 0 /\ r.holds = {} /\ r.failures = {}
      /\ r.turn = [n \in TurnIds |-> [NewTurn EXCEPT !.status = "none"]]
    BY DEF NewRow
<1>3. \A n \in TurnIds : r.turn[n].save = "none"
    BY <1>2 DEF NewTurn
<1>4. session = [s \in Sessions |-> r]
    BY DEF Init
<1> HIDE DEF r
<1>5. Ledger(r) /\ Saving(r, computer)
    <2>1. Counted(r)
        BY <1>2, FreshCount DEF Counted
    <2>2. Unstarted(r) /\ Reported(r) /\ Cleared(r)
        BY <1>1, <1>2 DEF Unstarted, Reported, Cleared
    <2>3. Saving(r, computer)
        BY <1>2, <1>3 DEF Saving
    <2> QED BY <2>1, <2>2, <2>3 DEF Ledger
<1>6. \A s \in Sessions : session[s] = r
    BY <1>4
<1>7. Books(session, computer)
    BY <1>5, <1>6 DEF Books
<1>8. Matched(session) /\ Nested(session)
    BY <1>1, <1>6 DEF Matched, Nested, Accepting
<1> QED BY <1>7, <1>8 DEF HoldInv, HoldRows

-----------------------------------------------------------------------------

INSTANCE FiniteSetTheorems

LEMMA CountsHold ==
    Counts
<1>1. IsFiniteSet(1..MaxEpochs)
    <2>1. 1 \in Int /\ MaxEpochs \in Int
        OBVIOUS
    <2> QED BY <2>1, FS_Interval
<1>2. ASSUME NEW T \in SUBSET (1..MaxEpochs) PROVE IsFiniteSet(T) /\ Cardinality(T) \in Nat
    <2>1. IsFiniteSet(T)
        BY <1>1, FS_Subset, ZenonT(60)
    <2> QED BY <2>1, FS_CardinalityType
<1>3. ASSUME NEW S \in SUBSET (1..MaxEpochs), NEW T \in SUBSET (1..MaxEpochs), S \subseteq T
      PROVE  Cardinality(S) <= Cardinality(T)
    BY <1>2, <1>3, FS_Subset, ZenonT(60)
<1> QED BY <1>2, <1>3, FS_EmptySet DEF Counts

\* Failures, holds, saves and gaps agree in every reachable state, for any
\* tree of Sessions and any bounds.
THEOREM HoldsInvariant == Spec => []HoldInv
<1>1. Init => HoldInv
    BY HoldInit, CountsHold
<1>2. SessionInv /\ SessionInv' /\ HoldInv /\ [Next]_vars => HoldInv'
    BY HoldStep, CountsHold
<1> QED BY <1>1, <1>2, Invariance, PTL DEF Spec

\* recordSessionFailure: a Session that accepts Turns and whose processes
\* failed the threshold number of times in a row is held, whatever path
\* recorded the failures and whatever released holds in between.
THEOREM FailuresAreHeld == Spec => []ConsecutiveFailuresHeld
<1>1. HoldInv => ConsecutiveFailuresHeld
    BY DEF HoldInv, HoldRows, Books, Ledger, Counted, ConsecutiveFailuresHeld
<1> QED BY <1>1, HoldsInvariant, PTL

\* RecordComputerRecoveryGap: completed work lost with a lease is in the gaps
\* of every Session that still accepts Turns.
THEOREM LostWorkReported == Spec => []LostWorkIsReported
<1>1. HoldInv => LostWorkIsReported
    BY ZenonT(60) DEF HoldInv, HoldRows, Books, Ledger, Reported, LostWorkIsReported
<1> QED BY <1>1, HoldsInvariant, PTL

\* drainClosingSessions and cancel: a closed Session has nothing unsettled,
\* holds nothing and owns only closed Sessions.
THEOREM ClosedSettled == Spec => []ClosedIsSettled
<1>1. ASSUME HoldInv PROVE ClosedIsSettled
    <2> SUFFICES ASSUME NEW s \in Sessions
                 PROVE  LET owned == {session[d].status : d \in {d \in Sessions : Parent[d] = s}} IN
                        /\ session[s].status = "closed" =>
                              /\ Unsettled(session[s]) = {}
                              /\ session[s].interrupts = 0 /\ session[s].holds = {}
                              /\ owned \subseteq {"none", "closed"}
                        /\ session[s].status = "closing" => "open" \notin owned
        BY DEF ClosedIsSettled
    <2>1. Cleared(session[s]) /\ Nested(session)
        BY <1>1 DEF HoldInv, HoldRows, Books, Ledger
    <2> QED BY <2>1 DEF Cleared, Nested
<1> QED BY <1>1, HoldsInvariant, PTL

\* advanceControlAuthority: a process whose delivered control is current never
\* keeps a resume control under a hold, nor a suspend control without one,
\* although holds are inherited from the owner.
THEOREM ControlMatchesHolds == Spec => []CurrentControlMatchesHolds
<1>1. HoldInv => CurrentControlMatchesHolds
    BY DEF HoldInv, HoldRows, Matched, CurrentControlMatchesHolds
<1> QED BY <1>1, HoldsInvariant, PTL

-----------------------------------------------------------------------------

QueueProofs == INSTANCE TurnQueueProofs WITH
    status <- [s \in Sessions |-> [n \in TurnIds |-> session[s].turn[n].status]],
    executing <- [s \in Sessions |-> session[s].executing]

\* What a caller of Enqueue may rely on: in every behaviour of Session, Turns
\* run one at a time and none overtakes an earlier one.
THEOREM TurnsRunInOrder == Spec => [](Queue!OneRunning /\ Queue!InOrder)
<1>1. MaxTurns \in Nat
    BY BoundAssumption
<1>2. QueueProofs!QueueSpec => [](QueueProofs!OneRunning /\ QueueProofs!InOrder)
    BY <1>1, QueueProofs!QueueGuarantees
<1>3. Queue!QueueInit => QueueProofs!QueueInit
    BY DEF Queue!QueueInit, QueueProofs!QueueInit, Queue!Ids, QueueProofs!Ids
<1>4. [Queue!QueueNext]_(Queue!queueVars) => [QueueProofs!QueueNext]_(QueueProofs!queueVars)
    BY ZenonT(60) DEF Queue!QueueNext, QueueProofs!QueueNext, Queue!queueVars, QueueProofs!queueVars,
           Queue!Admit, QueueProofs!Admit, Queue!Start, QueueProofs!Start,
           Queue!Settle, QueueProofs!Settle, Queue!Ids, QueueProofs!Ids,
           Queue!Live, QueueProofs!Live, Queue!Settled, QueueProofs!Settled
<1>5. QueueProofs!OneRunning /\ QueueProofs!InOrder => Queue!OneRunning /\ Queue!InOrder
    BY ZenonT(60) DEF Queue!OneRunning, QueueProofs!OneRunning, Queue!InOrder, QueueProofs!InOrder,
           Queue!Ids, QueueProofs!Ids, Queue!Settled, QueueProofs!Settled
<1> QED BY <1>2, <1>3, <1>4, <1>5, SessionImplementsTurnQueue, PTL
        DEF ImplementsTurnQueue, Queue!QueueSpec, QueueProofs!QueueSpec

=============================================================================
