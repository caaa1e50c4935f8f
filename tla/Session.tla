------------------------------ MODULE Session ------------------------------
(***************************************************************************)
(* The control plane of Helmr Sessions that share one Computer: admission  *)
(* of Turns, holds, close and cancel of an ownership tree, the process of  *)
(* each Session with its control delivery, and the Computer's leases as    *)
(* far as they start, lose and fence those processes.                      *)
(*                                                                         *)
(* Every handler runs in one PostgreSQL transaction that locks the         *)
(* ownership roots, the Computer and the Sessions it touches, so a handler *)
(* is one action and the interleaving is that of whole transactions.       *)
(*                                                                         *)
(* Abstractions.                                                           *)
(*  - A process row keeps the latest epoch only: AssignProcess requires    *)
(*    every earlier one to be fenced.                                      *)
(*  - authority_generation, attachment_sequence and control_sequence only  *)
(*    grow and are only compared for equality with their current value, so *)
(*    process.current says whether the recorded control was prepared for   *)
(*    the present generation and attachment.                               *)
(*  - stop_deadline_at and stop_turn_id become process.stop: "none" when   *)
(*    no stop is pending, "turn" when a Turn must cease, "process" when    *)
(*    the whole process must. A stop always advances the generation, so a  *)
(*    current delivery carries the current stop_sequence.                  *)
(*  - Time limits of Turns, stops and idleness may elapse at any moment;   *)
(*    the execution deadline and storage pressure, which other handlers    *)
(*    read, have explicit clock steps.                                     *)
(*  - A denied principal or a revoked Secret is a possible outcome of each *)
(*    check, since other services change it between transactions.          *)
(*  - Delivery of a lease and the guest's readiness are one step. Saves    *)
(*    are kept per Turn; their storage protocol, checkpoints, Commands,    *)
(*    questions and messages are not in this module.                       *)
(***************************************************************************)
EXTENDS Integers, FiniteSets

CONSTANTS
    Sessions,       \* Session identities; a row exists once started
    NoSession,      \* the parent of a root Session
    Parent,         \* Parent[s]: the Session that may spawn s, or NoSession
    MaxTurns,       \* bound: Turns admitted to a Session
    MaxEpochs,      \* bound: process epochs of a Session
    MaxLeases,      \* bound: lease epochs of the Computer
    MaxControls,    \* bound: accepted ControlSession requests
    MaxFaults,      \* bound: crashes, rejections, lost connections and leases
    processFailureHoldThreshold,
    Events          \* the optional events of EventKinds a run includes

EventKinds == {"turn_deadline", "close_after_idle", "storage_pressure", "revocation",
               "preparation", "integrity_fault", "execution_deadline"}

\* The schema allows one level of ownership: the parent of a Session is a root.
ASSUME TreeAssumption ==
    /\ NoSession \notin Sessions
    /\ Parent \in [Sessions -> Sessions \cup {NoSession}]
    /\ \A s \in Sessions : Parent[s] # NoSession => Parent[Parent[s]] = NoSession

ASSUME BoundAssumption ==
    /\ MaxTurns \in Nat /\ MaxEpochs \in Nat /\ MaxLeases \in Nat
    /\ MaxControls \in Nat /\ MaxFaults \in Nat
    /\ processFailureHoldThreshold \in Nat \ {0}
    /\ Events \subseteq EventKinds

VARIABLES
    session,    \* the row of each Session with its Turns, process and holds
    computer,   \* the shared Computer and its latest lease
    controls,   \* ControlSession requests accepted so far
    faults      \* crashes, rejections, lost connections and leases so far

vars == <<session, computer, controls, faults>>

TurnIds == 1..MaxTurns
LocalHolds == {"process_failed", "recovery_gap", "storage_pressure"}

Turn == [status : {"none", "queued", "running", "completed", "failed", "interrupted", "cancelled"},
         process_epoch : 0..MaxEpochs,      \* 0: never started
         processing_closed : BOOLEAN,
         save : {"none", "requested", "published", "failed"},
         save_lease : 0..MaxLeases]

Process == [epoch : 0..MaxEpochs,           \* 0: no process yet
            status : {"none", "starting", "ready", "stopping", "stopped", "lost"},
            fenced : BOOLEAN,
            lease : 0..MaxLeases,
            attached : BOOLEAN,             \* attachment_sequence > 0
            control_kind : {"none", "resume", "suspend", "shutdown"},
            current : BOOLEAN,
            acknowledged : BOOLEAN,
            control_error : BOOLEAN,
            stop : {"none", "turn", "process"},
            failure : BOOLEAN]              \* failure_recorded_at is set

Row == [status : {"none", "open", "closing", "closed"},
        idle : BOOLEAN,
        next_turn_seq : 1..(MaxTurns + 1),
        turn : [TurnIds -> Turn],
        process : Process,
        interrupts : Nat,                   \* unreleased interrupt holds
        holds : SUBSET LocalHolds,
        failures : SUBSET (1..MaxEpochs),   \* counted failures since a release
        gaps : SUBSET (1..MaxLeases),       \* lease epochs held for or noticed
        executing : 0..MaxTurns]            \* the Turn its guest is executing

Lease == [epoch : 0..MaxLeases,
          status : {"none", "acquiring", "active", "lost"},
          fenced : BOOLEAN,
          initialized : BOOLEAN,
          restored : BOOLEAN,               \* restored_from_save_id is set
          pressure : {"none", "reported", "prolonged", "exhausted"}]

Computer == [preparation : {"preparing", "ready", "failed"},
             faulted : BOOLEAN,
             saved : BOOLEAN,               \* recovery_save_id is set
             initialized : BOOLEAN,         \* some lease ever became ready
             deadline : {"none", "pending", "elapsed"},
             lease : Lease]

NewTurn == [status |-> "queued", process_epoch |-> 0, processing_closed |-> FALSE,
            save |-> "none", save_lease |-> 0]

NewProcess(epoch, lease, status) ==
    [epoch |-> epoch, status |-> status, fenced |-> FALSE, lease |-> lease,
     attached |-> FALSE, control_kind |-> "none", current |-> FALSE, acknowledged |-> FALSE,
     control_error |-> FALSE, stop |-> "none", failure |-> FALSE]

NewRow(status) ==
    [status |-> status, idle |-> FALSE, next_turn_seq |-> 1,
     turn |-> [n \in TurnIds |-> [NewTurn EXCEPT !.status = "none"]],
     process |-> NewProcess(0, 0, "none"), interrupts |-> 0, holds |-> {},
     failures |-> {}, gaps |-> {}, executing |-> 0]

NewLease(epoch, status, restored) ==
    [epoch |-> epoch, status |-> status, fenced |-> FALSE, initialized |-> FALSE,
     restored |-> restored, pressure |-> "none"]

Init ==
    /\ session = [s \in Sessions |-> NewRow("none")]
    /\ computer = [preparation |-> IF "preparation" \in Events THEN "preparing" ELSE "ready",
                   faulted |-> FALSE, saved |-> FALSE, initialized |-> FALSE,
                   deadline |-> "none", lease |-> NewLease(0, "none", FALSE)]
    /\ controls = 0
    /\ faults = 0

-----------------------------------------------------------------------------
(* Reading a Session row.                                                  *)

Ancestors(s) == {s} \cup ({Parent[s]} \cap Sessions)
\* Mutant: a control reaches only the Session it names.
Tree_alone(s) == {s}

Tree(s) == {d \in Sessions : s \in Ancestors(d)}
Root(s) == IF Parent[s] = NoSession THEN s ELSE Parent[s]

TurnsIn(r, statuses) == {n \in TurnIds : r.turn[n].status \in statuses}
Queued(r) == TurnsIn(r, {"queued"})
Running(r) == TurnsIn(r, {"running"})
Unsettled(r) == TurnsIn(r, {"queued", "running"})
Accepting(r) == r.status \in {"open", "closing"}

\* SessionHeldSQL: its own holds, and interrupts placed on any ancestor.
Held(rows, s) == rows[s].holds # {} \/ \E a \in Ancestors(s) : rows[a].interrupts > 0

\* A process row that may still own a guest process.
LiveProcess(r) == r.process.epoch > 0 /\ ~r.process.fenced

PendingSave(r, leases) ==
    \E n \in TurnIds : r.turn[n].save = "requested" /\ r.turn[n].save_lease \in leases

\* consecutiveProcessFailuresSQL: counted failures at or after the process of
\* the last Turn the harness finished.
ConsecutiveFailures(r) ==
    LET finished == {r.turn[n].process_epoch : n \in TurnsIn(r, {"completed", "failed"})}
    IN  Cardinality({e \in r.failures : \A f \in finished : e >= f})

DesiredControl(rows, s) ==
    LET r == rows[s] IN
    IF \/ r.status = "closed"
       \/ r.process.status \in {"stopping", "lost", "stopped"}
       \/ r.process.stop = "process"
    THEN "shutdown"
    ELSE IF Held(rows, s) THEN "suspend" ELSE "resume"

-----------------------------------------------------------------------------
(* What handlers do to one Session row.                                    *)

\* Mutant: the delivered control stays current.
AdvanceControlAuthority_keeps(r) == [r EXCEPT !.idle = FALSE]

AdvanceControlAuthority(r) == [r EXCEPT !.idle = FALSE, !.process.current = FALSE]

SettleTurns(r, ns, status) ==
    [r EXCEPT !.turn = [n \in TurnIds |->
        IF n \in ns THEN [r.turn[n] EXCEPT !.status = status, !.processing_closed = TRUE]
                    ELSE r.turn[n]]]

\* The first stop owns its deadline and target until it converges.
RequestProcessStop(r, target) ==
    IF LiveProcess(r) /\ r.process.stop = "none"
    THEN [r EXCEPT !.process.stop = target, !.process.acknowledged = FALSE]
    ELSE r

\* The running Turn, if any, of the latest process epoch.
RunningOfProcess(r) == {n \in Running(r) : r.turn[n].process_epoch = r.process.epoch}

InterruptControlledTurn(r) ==
    LET settled == SettleTurns(r, Running(r), "interrupted")
    IN  IF RunningOfProcess(r) = {} THEN settled ELSE RequestProcessStop(settled, "turn")

\* Mutant: the running Turn of a process that ends is left running.
InterruptRunningSessionTurn_forgets(r) == r

InterruptRunningSessionTurn(r) == SettleTurns(r, RunningOfProcess(r), "interrupted")

\* Mutant: the threshold is off by one.
FailuresDue_late(r) == ConsecutiveFailures(r) > processFailureHoldThreshold

FailuresDue(r) == ConsecutiveFailures(r) >= processFailureHoldThreshold

RecordSessionFailure(r, counted) ==
    LET marked == [r EXCEPT !.process.failure = TRUE]
        noted  == [marked EXCEPT !.failures = @ \cup {r.process.epoch}]
        held   == [noted EXCEPT !.holds = @ \cup {"process_failed"}]
    IN  IF r.process.failure THEN r
        ELSE IF ~counted THEN marked
        ELSE IF \/ r.status = "closed"
                \/ ~FailuresDue(noted)
                \/ "process_failed" \in r.holds
             THEN noted
             ELSE AdvanceControlAuthority(held)

ObserveFailure(r) ==
    [InterruptRunningSessionTurn(RecordSessionFailure(r, TRUE)) EXCEPT !.process.status = "stopping"]

ProcessStops(r) ==
    [r EXCEPT !.process.status = IF LiveProcess(r) /\ @ \in {"starting", "ready"} THEN "stopping" ELSE @]

ProcessGone(r, status) ==
    [r EXCEPT !.process.status = status, !.process.fenced = TRUE, !.executing = 0]

FinishClose(r) ==
    ProcessStops([r EXCEPT !.status = "closed", !.interrupts = 0, !.holds = {}, !.process.current = FALSE])

FailQueuedTurns(r) == SettleTurns(r, Queued(r), "failed")

LoseProcess(r, lease, physicalStopped, recoverable) ==
    LET neverStarted == /\ r.process.status \in {"starting", "stopping"}
                        /\ ~r.process.attached /\ ~r.process.failure
                        /\ ~lease.initialized /\ ~lease.restored
        lost == [InterruptRunningSessionTurn(RecordSessionFailure(r, ~recoverable))
                    EXCEPT !.process.status = "lost"]
    IN  IF ~LiveProcess(r) \/ r.process.lease # lease.epoch THEN r
        ELSE IF neverStarted /\ r.status # "closed"
             THEN IF physicalStopped THEN ProcessGone(r, "stopped") ELSE r
             ELSE IF physicalStopped THEN ProcessGone(lost, "lost") ELSE lost

-----------------------------------------------------------------------------
(* What handlers do to an ownership tree.                                  *)

\* Queued Turns a hold blocks are cancelled; then Sessions close, deepest
\* first, once their own Turns settled and every Session they own closed.
DrainClosingSessions(rows, ids) ==
    LET cancelled == [s \in Sessions |->
            IF s \in ids /\ rows[s].status = "closing" /\ Held(rows, s)
            THEN SettleTurns(rows[s], Queued(rows[s]), "cancelled") ELSE rows[s]]
        Drained(d) == \/ rows[d].status \in {"none", "closed"}
                      \/ rows[d].status = "closing" /\ Unsettled(cancelled[d]) = {}
    IN  [s \in Sessions |->
            IF s \in ids /\ rows[s].status = "closing" /\ \A d \in Tree(s) : Drained(d)
            THEN FinishClose(cancelled[s]) ELSE cancelled[s]]

BeginClose(rows, ids) ==
    DrainClosingSessions(
        [s \in Sessions |-> IF s \in ids /\ rows[s].status = "open"
                            THEN [rows[s] EXCEPT !.status = "closing"] ELSE rows[s]], ids)

-----------------------------------------------------------------------------
(* The Computer's execution admission.                                     *)

Allocated(c) == c.lease.epoch > 0 /\ ~c.lease.fenced

RunnableDemand(rows) == \E s \in Sessions : Queued(rows[s]) # {} /\ ~Held(rows, s)

\* RequireExecutionCapacity refuses while an elapsed admission is unsettled.
MayNoteExecutionDemand(rows, c) ==
    c.deadline = "elapsed" => ~Allocated(c) /\ \A s \in Sessions : Queued(rows[s]) = {}

NoteExecutionDemand(c) ==
    IF Allocated(c) \/ c.deadline = "pending" THEN c ELSE [c EXCEPT !.deadline = "pending"]

RetireUnusedExecutionAdmission(rows, c) ==
    IF RunnableDemand(rows) \/ Allocated(c) THEN c ELSE [c EXCEPT !.deadline = "none"]

FenceLease(rows, c) ==
    LET fenced == [c EXCEPT !.lease.status = "lost", !.lease.fenced = TRUE]
        armed  == IF c.deadline = "none" /\ RunnableDemand(rows)
                  THEN [fenced EXCEPT !.deadline = "pending"] ELSE fenced
    IN  RetireUnusedExecutionAdmission(rows, armed)

DiskRecoveryEligible(c) == c.preparation = "ready" /\ ~c.faulted

-----------------------------------------------------------------------------
(* Storage pressure and recovery gaps of the lease.                        *)

LeaseLive(c) == Allocated(c) /\ c.lease.status = "active"

\* One Session's share of reconcileStoragePressureTx.
ReconcilePressureRow(r, level) ==
    LET prolonged == level \in {"prolonged", "exhausted"}
        held == IF prolonged /\ "storage_pressure" \notin r.holds
                THEN AdvanceControlAuthority([r EXCEPT !.holds = @ \cup {"storage_pressure"}])
                ELSE IF ~prolonged /\ "storage_pressure" \in r.holds
                THEN AdvanceControlAuthority([r EXCEPT !.holds = @ \ {"storage_pressure"}])
                ELSE r
    IN  IF level = "exhausted" /\ Running(r) # {}
        THEN AdvanceControlAuthority(InterruptControlledTurn(held)) ELSE held

ReconcileStoragePressure(rows, c) ==
    [s \in Sessions |->
        IF Accepting(rows[s]) /\ (c.lease.pressure = "none" \/ LeaseLive(c))
        THEN ReconcilePressureRow(rows[s], c.lease.pressure) ELSE rows[s]]

\* Saves of a lease that ends unpublished fail with it.
SettleLostSaves(rows, epoch) ==
    [s \in Sessions |-> [rows[s] EXCEPT !.turn = [n \in TurnIds |->
        IF rows[s].turn[n].save = "requested" /\ rows[s].turn[n].save_lease = epoch
        THEN [rows[s].turn[n] EXCEPT !.save = "failed"] ELSE rows[s].turn[n]]]]

\* Mutant: looks for saves that were settled just before.
AffectedTurns_early(r, epoch) ==
    {n \in TurnsIn(r, {"completed"}) : r.turn[n].save = "requested" /\ r.turn[n].save_lease = epoch}

AffectedTurns(r, epoch) ==
    {n \in TurnsIn(r, {"completed"}) : r.turn[n].save = "failed" /\ r.turn[n].save_lease = epoch}

\* Pressure holds of the lost lease are released first. A Session whose
\* completed Turns lost their saves is held; its peers are only notified.
RecordComputerRecoveryGap(rows, epoch) ==
    LET calm == [s \in Sessions |-> IF Accepting(rows[s]) THEN ReconcilePressureRow(rows[s], "none")
                                                        ELSE rows[s]]
        gap == \E s \in Sessions : AffectedTurns(rows[s], epoch) # {}
        Recorded(r) == "recovery_gap" \in r.holds \/ epoch \in r.gaps
        Noticed(r) == [r EXCEPT !.gaps = @ \cup {epoch}]
    IN  [s \in Sessions |->
            IF ~gap \/ ~Accepting(calm[s]) \/ Recorded(calm[s]) THEN calm[s]
            ELSE IF AffectedTurns(calm[s], epoch) = {} THEN Noticed(calm[s])
            ELSE AdvanceControlAuthority(
                    [Noticed(calm[s]) EXCEPT !.holds = @ \cup {"recovery_gap"}])]

LoseLeaseProcesses(rows, c, physicalStopped) ==
    [s \in Sessions |-> LoseProcess(rows[s], c.lease, physicalStopped, DiskRecoveryEligible(c))]

-----------------------------------------------------------------------------
(* Admission of Sessions and Turns.                                        *)

Hosted(r, c) == /\ LiveProcess(r) /\ r.process.lease = c.lease.epoch
                /\ Allocated(c) /\ c.lease.status \in {"acquiring", "active"}

\* runtimeProcessAuthorityWithOwnerLocked without checkpoints: the current
\* physical owner of a process that has not stopped.
RuntimeAuthority(r, c) == /\ Hosted(r, c) /\ c.lease.status = "active" /\ ~c.faulted
                          /\ r.process.status \in {"ready", "starting", "stopping"}

ExecutionPhysical(r, c, statuses) ==
    /\ RuntimeAuthority(r, c) /\ r.process.status \in statuses
    /\ c.preparation = "ready"

\* A new Session learns of an unacknowledged gap of its Computer.
InheritedGaps(rows) ==
    LET held == {s \in Sessions : "recovery_gap" \in rows[s].holds}
        known == UNION {rows[s].gaps : s \in held}
    IN  {g \in known : \A h \in known : h <= g}

\* AdmitStart. A child is spawned by the running process of its parent.
AdmitStart(s, hasInput) ==
    /\ session[s].status = "none"
    /\ Parent[s] # NoSession =>
          /\ session[Parent[s]].status = "open"
          /\ ExecutionPhysical(session[Parent[s]], computer, {"ready", "starting"})
          /\ ~Held(session, Parent[s])
    /\ computer.preparation # "failed" /\ ~computer.faulted
    /\ MayNoteExecutionDemand(session, computer)
    /\ hasInput => MaxTurns > 0
    /\ LET fresh == [NewRow("open") EXCEPT !.gaps = InheritedGaps(session), !.idle = ~hasInput]
           row   == IF hasInput THEN [fresh EXCEPT !.turn[1] = NewTurn, !.next_turn_seq = 2]
                    ELSE fresh
       IN  session' = [t \in Sessions |->
               IF t = s THEN row
               ELSE IF t = Parent[s] THEN [session[t] EXCEPT !.idle = FALSE] ELSE session[t]]
    /\ computer' = NoteExecutionDemand(computer)
    /\ UNCHANGED <<controls, faults>>

\* Enqueue: admitSessionInput for a new Turn.
Enqueue(s) ==
    LET n == session[s].next_turn_seq IN
    /\ session[s].status = "open"
    /\ n \in TurnIds
    /\ computer.preparation # "failed"
    /\ ~Held(session, s) => MayNoteExecutionDemand(session, computer)
    /\ session' = [session EXCEPT ![s].turn[n] = NewTurn, ![s].next_turn_seq = n + 1, ![s].idle = FALSE]
    /\ computer' = IF Held(session, s) THEN computer ELSE NoteExecutionDemand(computer)
    /\ UNCHANGED <<controls, faults>>

-----------------------------------------------------------------------------
(* ControlSession. Requests of users and API keys; a Session may make the  *)
(* same requests of Sessions it owns under narrower conditions.            *)

Control(rows) ==
    /\ controls < MaxControls
    /\ controls' = controls + 1
    /\ session' = rows
    /\ UNCHANGED faults

TurnInterrupt(s, n) ==
    /\ n \in Running(session[s])
    /\ Control([session EXCEPT ![s] = AdvanceControlAuthority(InterruptControlledTurn(@))])
    /\ computer' = RetireUnusedExecutionAdmission(session', computer)

\* A starting process of an interrupted tree must stop as a whole.
InterruptRow(r, interruptQueued) ==
    LET running == InterruptControlledTurn(r)
        settled == IF interruptQueued THEN SettleTurns(running, Queued(r), "interrupted") ELSE running
        stopped == IF r.process.status = "starting" THEN RequestProcessStop(settled, "process") ELSE settled
    IN  AdvanceControlAuthority(stopped)

Interrupt(s, interruptQueued) ==
    /\ session[s].status = "open"
    /\ LET held == [session EXCEPT ![s].interrupts = @ + 1]
           rows == [t \in Sessions |-> IF t \in Tree(s)
                                       THEN InterruptRow(held[t], interruptQueued) ELSE held[t]]
       IN  Control(DrainClosingSessions(rows, Tree(s)))
    /\ computer' = RetireUnusedExecutionAdmission(session', computer)

ReleaseHold(r, kind) ==
    CASE kind = "interrupt"      -> [r EXCEPT !.interrupts = @ - 1]
      [] kind = "process_failed" -> [r EXCEPT !.holds = @ \ {kind}, !.failures = {}]
      [] OTHER                   -> [r EXCEPT !.holds = @ \ {kind}]

HoldPresent(r, kind) == IF kind = "interrupt" THEN r.interrupts > 0 ELSE kind \in r.holds

Resume(s, kind) ==
    LET ids == IF kind = "interrupt" THEN Tree(s) ELSE {s}
        released == [session EXCEPT ![s] = ReleaseHold(@, kind)]
        rows == [t \in Sessions |-> IF t \in ids
                                    THEN AdvanceControlAuthority(released[t]) ELSE released[t]]
        retired == RetireUnusedExecutionAdmission(session, computer)
        runnable == \E t \in ids : Queued(rows[t]) # {} /\ ~Held(rows, t)
    IN  /\ HoldPresent(session[s], kind)
        /\ runnable => MayNoteExecutionDemand(rows, retired)
        /\ Control(rows)
        /\ computer' = IF runnable THEN NoteExecutionDemand(retired) ELSE retired

CancelRow(r) ==
    IF r.status = "none" THEN r
    ELSE LET settled == SettleTurns(r, Unsettled(r), "cancelled")
         IN  ProcessStops(IF r.status = "closed" THEN settled ELSE FinishClose(settled))

Cancel(s) ==
    /\ session[s].status \in {"open", "closing"}
    /\ Control([t \in Sessions |-> IF t \in Tree(s) THEN CancelRow(session[t]) ELSE session[t]])
    /\ computer' = RetireUnusedExecutionAdmission(session', computer)

Close(s) ==
    /\ session[s].status = "open"
    /\ Control(BeginClose(session, Tree(s)))
    /\ computer' = RetireUnusedExecutionAdmission(session', computer)

-----------------------------------------------------------------------------
(* Leases and processes: the dispatch package and the owning worker.       *)

\* AssignProcess, apart from the conditions on the lease.
MayAssignProcess(rows, c, s) ==
    /\ Accepting(rows[s]) /\ c.preparation = "ready" /\ ~c.faulted
    /\ ~Held(rows, s) /\ ~LiveProcess(rows[s])
    /\ Queued(rows[s]) # {} /\ Running(rows[s]) = {}
    /\ \A t \in Sessions : ~PendingSave(rows[t], (1..MaxLeases) \ {c.lease.epoch})
    /\ rows[s].process.epoch < MaxEpochs

AssignProcess(r, lease) ==
    [r EXCEPT !.process = NewProcess(r.process.epoch + 1, lease, "starting")]

Denials(S) == IF "revocation" \in Events THEN SUBSET S ELSE {{}}

\* Initial Sessions whose origin or Secret is revoked fail their queued Turns;
\* the lease is inserted unless that leaves nobody, and every other eligible
\* Session gets its first process on it.
AllocateLease(denied, restored) ==
    LET initial == {s \in Sessions : Accepting(session[s])}
        settled == [s \in Sessions |-> IF s \in denied THEN FailQueuedTurns(session[s]) ELSE session[s]]
        placed == [computer EXCEPT !.lease = NewLease(computer.lease.epoch + 1, "acquiring", restored)]
    IN  IF initial # {} /\ denied = initial
        THEN session' = settled /\ computer' = computer
        ELSE /\ computer' = placed
             /\ session' = [s \in Sessions |->
                    IF s \in initial \ denied /\ MayAssignProcess(settled, placed, s)
                    THEN AssignProcess(settled[s], placed.lease.epoch) ELSE settled[s]]

AllocateFreshLease ==
    /\ computer.preparation = "ready" /\ ~computer.faulted
    /\ ~computer.saved /\ ~computer.initialized
    /\ computer.deadline = "pending"
    /\ ~Allocated(computer) /\ computer.lease.epoch < MaxLeases
    /\ \E denied \in Denials({s \in Sessions : Accepting(session[s])}) : AllocateLease(denied, FALSE)
    /\ UNCHANGED <<controls, faults>>

AllocateRecoveredLease ==
    /\ DiskRecoveryEligible(computer)
    /\ computer.initialized
    /\ computer.deadline # "elapsed"
    /\ ~Allocated(computer) /\ computer.lease.epoch < MaxLeases
    /\ \A s \in Sessions : ~PendingSave(session[s], 1..MaxLeases)
    /\ RunnableDemand(session)
    /\ \E denied \in Denials({s \in Sessions : Accepting(session[s])}) :
          /\ \/ denied = {s \in Sessions : Accepting(session[s])}
             \/ \E s \in Sessions \ denied : Queued(session[s]) # {} /\ ~Held(session, s)
          /\ AllocateLease(denied, computer.saved)
    /\ UNCHANGED <<controls, faults>>

ObserveFreshLeaseReady ==
    /\ computer.lease.status = "acquiring" /\ ~computer.lease.fenced
    /\ computer.deadline # "elapsed"
    /\ computer' = [computer EXCEPT !.lease.status = "active", !.lease.initialized = TRUE,
                                    !.initialized = TRUE, !.deadline = "none"]
    /\ UNCHANGED <<session, controls, faults>>

\* AllocateSessionProcess on a live lease; a denied Session's queue fails.
AllocateSessionProcess(s) ==
    /\ LeaseLive(computer) /\ Accepting(session[s])
    /\ \/ /\ MayAssignProcess(session, computer, s)
          /\ session' = [session EXCEPT ![s] = AssignProcess(@, computer.lease.epoch)]
       \/ /\ "revocation" \in Events /\ ~LiveProcess(session[s]) /\ Queued(session[s]) # {}
          /\ session' = [session EXCEPT ![s] = FailQueuedTurns(@)]
    /\ UNCHANGED <<computer, controls, faults>>

RefuseRevokedSessionStart(s) ==
    /\ "revocation" \in Events
    /\ LiveProcess(session[s]) /\ session[s].process.status = "starting"
    /\ ~session[s].process.failure
    /\ session' = [session EXCEPT ![s] =
          [RecordSessionFailure(FailQueuedTurns(@), FALSE) EXCEPT !.process.status = "stopping"]]
    /\ UNCHANGED <<computer, controls, faults>>

\* Expiry or host loss ends execution; only a physical stop fences the lease.
ExpireLease ==
    LET lost == [computer EXCEPT !.lease.status = "lost", !.lease.pressure = "none"]
        settled == SettleLostSaves(session, computer.lease.epoch)
    IN  /\ Allocated(computer) /\ computer.lease.status \in {"acquiring", "active"}
        /\ faults < MaxFaults
        /\ session' = LoseLeaseProcesses(RecordComputerRecoveryGap(settled, computer.lease.epoch), lost, FALSE)
        /\ computer' = lost
        /\ faults' = faults + 1
        /\ UNCHANGED controls

\* recordComputerStopped: the worker joined the VM's closure. A lease lost
\* before costs no further fault.
ObserveLeaseStopped ==
    LET stopped == [FenceLease(session, computer) EXCEPT !.lease.pressure = "none"]
        settled == SettleLostSaves(session, computer.lease.epoch)
    IN  /\ Allocated(computer)
        /\ computer.lease.status = "lost" \/ faults < MaxFaults
        /\ session' = LoseLeaseProcesses(RecordComputerRecoveryGap(settled, computer.lease.epoch), stopped, TRUE)
        /\ computer' = stopped
        /\ faults' = IF computer.lease.status = "lost" THEN faults ELSE faults + 1
        /\ UNCHANGED controls

\* Publish: a requested save of the live lease becomes the recovery head.
Publish(s, n) ==
    /\ LeaseLive(computer) /\ ~computer.faulted
    /\ session[s].turn[n].save = "requested" /\ session[s].turn[n].save_lease = computer.lease.epoch
    /\ session' = [session EXCEPT ![s].turn[n].save = "published"]
    /\ computer' = [computer EXCEPT !.saved = TRUE]
    /\ UNCHANGED <<controls, faults>>

-----------------------------------------------------------------------------
(* Control delivery and observations of the worker.                        *)

UpdateRow(s, row) ==
    /\ session' = [session EXCEPT ![s] = row]
    /\ UNCHANGED <<computer, controls>>

\* A second attachment means the first connection to the guest was lost.
AcquireRuntimeAttachment(s) ==
    LET again == session[s].process.attached IN
    /\ RuntimeAuthority(session[s], computer)
    /\ again => faults < MaxFaults
    /\ UpdateRow(s, [session[s] EXCEPT !.process.attached = TRUE, !.process.current = FALSE, !.idle = FALSE])
    /\ faults' = IF again THEN faults + 1 ELSE faults

PrepareSessionDelivery(s) ==
    LET p == session[s].process
        kind == DesiredControl(session, s)
    IN  /\ RuntimeAuthority(session[s], computer) /\ p.attached
        /\ ~(p.control_error /\ ~p.failure)
        /\ p.control_kind # kind \/ ~p.current
        /\ UpdateRow(s, [session[s] EXCEPT !.process.control_kind = kind, !.process.current = TRUE,
              !.process.acknowledged = FALSE, !.process.control_error = FALSE, !.idle = FALSE])
        /\ UNCHANGED faults

\* The guest acknowledges a stop of its Turn only once the Turn has ceased.
AcknowledgeSessionDelivery(s, failed) ==
    LET p == session[s].process
        stopsTurn == ~failed /\ p.control_kind # "shutdown" /\ p.stop = "turn"
        controlled == [p EXCEPT !.acknowledged = @ \/ ~failed,
                                !.control_error = IF p.acknowledged THEN @ ELSE failed,
                                !.stop = IF stopsTurn THEN "none" ELSE @]
    IN  /\ RuntimeAuthority(session[s], computer) /\ p.attached /\ p.current
        /\ p.control_kind = DesiredControl(session, s)
        /\ failed \/ p.control_kind = "shutdown" \/ p.stop # "process"
        /\ failed => faults < MaxFaults
        /\ UpdateRow(s, [session[s] EXCEPT !.process = controlled,
                                           !.executing = IF stopsTurn THEN 0 ELSE @])
        /\ faults' = IF failed THEN faults + 1 ELSE faults

ObserveSessionReady(s) ==
    /\ RuntimeAuthority(session[s], computer) /\ session[s].process.attached
    /\ DesiredControl(session, s) # "shutdown" /\ session[s].process.stop = "none"
    /\ session[s].process.status = "starting" /\ ~session[s].process.failure
    /\ UpdateRow(s, [session[s] EXCEPT !.process.status = "ready"])
    /\ UNCHANGED faults

\* The guest process closed. Without a shutdown control this is a failure.
ObserveSessionStopped(s) ==
    LET asked == DesiredControl(session, s) = "shutdown"
        settled == InterruptRunningSessionTurn(session[s])
    IN  /\ Hosted(session[s], computer) /\ session[s].process.attached
        /\ asked \/ faults < MaxFaults
        /\ UpdateRow(s, ProcessGone(IF asked THEN settled ELSE RecordSessionFailure(settled, TRUE), "stopped"))
        /\ faults' = IF asked THEN faults ELSE faults + 1

\* ObserveSessionFailure and RuntimeHold: a definitive runtime rejection. The
\* rejection of a control was counted when it was reported.
ObserveSessionFailure(s) ==
    /\ \/ Hosted(session[s], computer) /\ session[s].process.attached
       \/ RuntimeAuthority(session[s], computer)
    /\ ~session[s].process.failure
    /\ session[s].process.control_error \/ faults < MaxFaults
    /\ UpdateRow(s, ObserveFailure(session[s]))
    /\ faults' = IF session[s].process.control_error THEN faults ELSE faults + 1

-----------------------------------------------------------------------------
(* Execution of Turns.                                                     *)

\* newTurnReady and dispatchReady: the applied run control is current and the
\* previous target has ceased.
RunControlApplied(p) ==
    /\ p.control_kind = "resume" /\ p.current
    /\ p.acknowledged /\ ~p.control_error /\ p.stop = "none"

\* Mutant: any queued Turn may be dispatched, not only the oldest.
DispatchRuntimeTurn_unordered(s, n) ==
    LET r == session[s] IN
    /\ ExecutionPhysical(r, computer, {"ready"}) /\ r.process.attached
    /\ Accepting(r) /\ ~Held(session, s)
    /\ \A t \in Sessions : ~PendingSave(session[t], (1..MaxLeases) \ {computer.lease.epoch})
    /\ Running(r) = {}
    /\ computer.lease.pressure = "none"
    /\ RunControlApplied(r.process)
    /\ n \in Queued(r)
    /\ UpdateRow(s, [r EXCEPT !.turn[n].status = "running", !.turn[n].process_epoch = r.process.epoch,
                              !.executing = n])
    /\ UNCHANGED faults

DispatchRuntimeTurn(s, n) ==
    LET r == session[s] IN
    /\ ExecutionPhysical(r, computer, {"ready"}) /\ r.process.attached
    /\ Accepting(r) /\ ~Held(session, s)
    /\ \A t \in Sessions : ~PendingSave(session[t], (1..MaxLeases) \ {computer.lease.epoch})
    /\ Running(r) = {}
    /\ computer.lease.pressure = "none"
    /\ RunControlApplied(r.process)
    /\ n \in Queued(r) /\ \A m \in Queued(r) : n <= m
    /\ UpdateRow(s, [r EXCEPT !.turn[n].status = "running", !.turn[n].process_epoch = r.process.epoch,
                              !.executing = n])
    /\ UNCHANGED faults

RuntimeCloseProcessing(s, n) ==
    LET r == session[s] IN
    /\ ExecutionPhysical(r, computer, {"ready"})
    /\ n \in RunningOfProcess(r) /\ ~r.turn[n].processing_closed
    /\ UpdateRow(s, [r EXCEPT !.turn[n].processing_closed = TRUE])
    /\ UNCHANGED faults

MayFinishTurn(s, n) ==
    LET r == session[s] IN
    /\ ExecutionPhysical(r, computer, {"ready"})
    /\ n \in RunningOfProcess(r) /\ r.turn[n].processing_closed
    /\ r.executing = n

RuntimeFinalize(s, n) ==
    /\ MayFinishTurn(s, n)
    /\ UpdateRow(s, [session[s] EXCEPT !.turn[n].status = "completed", !.turn[n].save = "requested",
                              !.turn[n].save_lease = computer.lease.epoch, !.executing = 0])
    /\ UNCHANGED faults

RuntimeFail(s, n) ==
    /\ MayFinishTurn(s, n)
    /\ UpdateRow(s, [session[s] EXCEPT !.turn[n].status = "failed", !.executing = 0])
    /\ UNCHANGED faults

-----------------------------------------------------------------------------
(* Reconcilers of the control plane and the clocks they read.              *)

\* Mutant: only open Sessions are visited.
TurnOverdue_open(r) == "turn_deadline" \in Events /\ Running(r) # {} /\ r.status = "open"

\* The deadline of a running Turn may pass at any moment. Without a
\* maxTurnDuration the Turn has none (deadline_at is NULL): this never happens
\* to it, which TurnsEnd below takes into account.
TurnOverdue(r) == "turn_deadline" \in Events /\ Running(r) # {}

\* A Turn that reached its maximum duration takes its whole process down.
ExpireSessionDeadline(s) ==
    LET r == session[s]
        settled == SettleTurns(r, Running(r), "interrupted")
    IN  /\ TurnOverdue(r)
        /\ UpdateRow(s, AdvanceControlAuthority(ProcessStops(RequestProcessStop(settled, "process"))))
        /\ UNCHANGED faults

\* A stop that did not converge within its budget is a counted failure.
ReconcileProcessStopDeadline(s) ==
    /\ LiveProcess(session[s]) /\ session[s].process.stop # "none" /\ ~session[s].process.failure
    /\ UpdateRow(s, ObserveFailure(session[s]))
    /\ UNCHANGED faults

Busy(rows, s) == Running(rows[s]) # {} \/ (Queued(rows[s]) # {} /\ ~Held(rows, s))

\* An owned Session, a save in flight or an unsettled control defers idle close.
IdleCloseDeferred(rows, s) ==
    LET r == rows[s] IN
    \/ \E c \in Sessions : Parent[c] = s /\ Accepting(rows[c])
    \/ PendingSave(r, 1..MaxLeases)
    \/ /\ LiveProcess(r)
       /\ \/ r.process.stop # "none" \/ r.process.status # "ready"
          \/ ~r.process.acknowledged \/ r.process.control_error \/ ~r.process.current
          \/ r.process.control_kind # (IF Held(rows, s) THEN "suspend" ELSE "resume")

ReconcileSessionIdle(s) ==
    /\ session[s].status # "none"
    /\ \/ /\ Busy(session, s) /\ session[s].idle
          /\ session' = [session EXCEPT ![s].idle = FALSE]
       \/ /\ ~Busy(session, s) /\ session[s].status = "open" /\ ~session[s].idle
          /\ session' = [session EXCEPT ![s].idle = TRUE]
       \/ /\ "close_after_idle" \in Events
          /\ ~Busy(session, s) /\ session[s].status = "open" /\ session[s].idle
          /\ ~IdleCloseDeferred(session, s)
          /\ session' = BeginClose(session, Tree(s))
    /\ UNCHANGED <<computer, controls, faults>>

ReconcileSessionClosure(s) ==
    /\ session[s].status = "closing"
    /\ session' = DrainClosingSessions(session, Tree(Root(s)))
    /\ session' # session
    /\ UNCHANGED <<computer, controls, faults>>

ReportStoragePressure(active) ==
    /\ "storage_pressure" \in Events /\ LeaseLive(computer)
    /\ computer' = [computer EXCEPT !.lease.pressure =
                       IF ~active THEN "none" ELSE IF @ = "none" THEN "reported" ELSE @]
    /\ session' = ReconcileStoragePressure(session, computer')
    /\ UNCHANGED <<controls, faults>>

\* Thirty seconds, then five minutes, since the first report.
StoragePressureElapses ==
    /\ Allocated(computer) /\ computer.lease.pressure \in {"reported", "prolonged"}
    /\ computer' = [computer EXCEPT !.lease.pressure = IF @ = "reported" THEN "prolonged" ELSE "exhausted"]
    /\ UNCHANGED <<session, controls, faults>>

ReconcileSessionStoragePressure ==
    /\ computer.lease.pressure # "none"
    /\ session' = ReconcileStoragePressure(session, computer)
    /\ session' # session
    /\ UNCHANGED <<computer, controls, faults>>

ExecutionDeadlineElapses ==
    /\ "execution_deadline" \in Events /\ computer.deadline = "pending"
    /\ computer' = [computer EXCEPT !.deadline = "elapsed"]
    /\ UNCHANGED <<session, controls, faults>>

\* Mutant: only the deadline is cleared.
ExpireExecutionAdmission_keepsQueue ==
    /\ computer.deadline = "elapsed" /\ RunnableDemand(session)
    /\ computer' = RetireUnusedExecutionAdmission(session, computer)
    /\ UNCHANGED <<session, controls, faults>>

ExpireExecutionAdmission ==
    /\ computer.deadline = "elapsed" /\ RunnableDemand(session)
    /\ session' = [s \in Sessions |-> IF Held(session, s) THEN session[s] ELSE FailQueuedTurns(session[s])]
    /\ computer' = RetireUnusedExecutionAdmission(session', computer)
    /\ UNCHANGED <<controls, faults>>

\* The image build of the Computer finished, or its deadline passed first.
PreparationReady ==
    /\ computer.preparation = "preparing"
    /\ computer' = [computer EXCEPT !.preparation = "ready"]
    /\ UNCHANGED <<session, controls, faults>>

ExpireImageWaiter ==
    /\ computer.preparation = "preparing"
    /\ computer' = [computer EXCEPT !.preparation = "failed"]
    /\ session' = BeginClose([s \in Sessions |-> FailQueuedTurns(session[s])], Sessions)
    /\ UNCHANGED <<controls, faults>>

\* integrity_fault_at is only read by this code: an operator sets it after
\* finding the storage of the Computer corrupt.
ComputerFaulted ==
    /\ "integrity_fault" \in Events /\ ~computer.faulted
    /\ computer' = [computer EXCEPT !.faulted = TRUE]
    /\ UNCHANGED <<session, controls, faults>>

-----------------------------------------------------------------------------
Caller ==
    \E s \in Sessions :
        \/ \E hasInput \in BOOLEAN : AdmitStart(s, hasInput)
        \/ Enqueue(s)
        \/ \E n \in TurnIds : TurnInterrupt(s, n)
        \/ \E interruptQueued \in BOOLEAN : Interrupt(s, interruptQueued)
        \/ \E kind \in {"interrupt", "process_failed", "recovery_gap"} : Resume(s, kind)
        \/ Cancel(s)
        \/ Close(s)

Dispatch ==
    \/ AllocateFreshLease
    \/ AllocateRecoveredLease
    \/ ExpireLease
    \/ \E s \in Sessions : AllocateSessionProcess(s) \/ RefuseRevokedSessionStart(s)

Worker ==
    \/ ObserveFreshLeaseReady
    \/ ObserveLeaseStopped
    \/ \E active \in BOOLEAN : ReportStoragePressure(active)
    \/ \E s \in Sessions, n \in TurnIds : Publish(s, n)
    \/ \E s \in Sessions :
        \/ AcquireRuntimeAttachment(s)
        \/ PrepareSessionDelivery(s)
        \/ \E failed \in BOOLEAN : AcknowledgeSessionDelivery(s, failed)
        \/ ObserveSessionReady(s)
        \/ ObserveSessionStopped(s)
        \/ ObserveSessionFailure(s)

Guest ==
    \E s \in Sessions, n \in TurnIds :
        \/ DispatchRuntimeTurn(s, n)
        \/ RuntimeCloseProcessing(s, n)
        \/ RuntimeFinalize(s, n)
        \/ RuntimeFail(s, n)

Reconcile ==
    \/ \E s \in Sessions :
        \/ ExpireSessionDeadline(s)
        \/ ReconcileProcessStopDeadline(s)
        \/ ReconcileSessionIdle(s)
        \/ ReconcileSessionClosure(s)
    \/ ReconcileSessionStoragePressure
    \/ ExpireExecutionAdmission
    \/ ExpireImageWaiter

Environment ==
    \/ StoragePressureElapses
    \/ ExecutionDeadlineElapses
    \/ PreparationReady
    \/ ComputerFaulted

Next == Caller \/ Dispatch \/ Worker \/ Guest \/ Reconcile \/ Environment

Spec == Init /\ [][Next]_vars

\* What keeps running: the control plane's reconciler loops and clocks, the
\* dispatch loop, and the worker's control loop. Nothing is assumed of users,
\* of the supply of VMs or of the program in the guest, whose init and whose
\* Turns may never end, or of a Turn deadline, which is optional.
Fairness ==
    /\ WF_vars(ExecutionDeadlineElapses)
    /\ WF_vars(ExpireExecutionAdmission)
    /\ WF_vars(computer.lease.status = "lost" /\ ObserveLeaseStopped)
    /\ \A s \in Sessions :
        /\ WF_vars(AllocateSessionProcess(s))
        /\ WF_vars(~session[s].process.attached /\ AcquireRuntimeAttachment(s))
        /\ WF_vars(PrepareSessionDelivery(s))
        /\ WF_vars(AcknowledgeSessionDelivery(s, FALSE))
        /\ WF_vars(DesiredControl(session, s) = "shutdown" /\ ObserveSessionStopped(s))
        /\ WF_vars(session[s].process.control_error /\ ObserveSessionFailure(s))
        /\ WF_vars(\E n \in TurnIds : DispatchRuntimeTurn(s, n))
        /\ WF_vars(ReconcileProcessStopDeadline(s))
        /\ WF_vars(ReconcileSessionClosure(s))

LiveSpec == Spec /\ Fairness

-----------------------------------------------------------------------------
(* Properties.                                                             *)

\* The rows stay within the columns' domains.
TypeOK ==
    /\ session \in [Sessions -> Row]
    /\ computer \in Computer
    /\ controls \in Nat /\ faults \in Nat

\* A running Turn is the only one of its Session and belongs to the live,
\* ready process of the latest epoch, which has recorded no failure and owes
\* no stop, on a lease that was not lost; its Session still accepts results.
\* Every path that ends a process or a lease (ObserveSessionStopped, loss,
\* failure, deadline, cancel) must settle the Turn in the same transaction.
RunningTurnOwned ==
    \A s \in Sessions : LET r == session[s] IN \A n \in Running(r) :
        /\ Running(r) = {n}
        /\ Accepting(r)
        /\ r.turn[n].process_epoch = r.process.epoch
        /\ LiveProcess(r) /\ r.process.status = "ready"
        /\ ~r.process.failure /\ r.process.stop = "none"
        /\ r.process.lease = computer.lease.epoch /\ LeaseLive(computer)
        /\ r.executing = n

\* drainClosingSessions and cancel: a closed Session has settled every Turn,
\* holds nothing and owns only closed Sessions; once a Session stops accepting
\* Turns no Session below it accepts any.
ClosedIsSettled ==
    \A s \in Sessions :
        LET owned == {session[d].status : d \in {d \in Sessions : Parent[d] = s}} IN
        /\ session[s].status = "closed" =>
              /\ Unsettled(session[s]) = {}
              /\ session[s].interrupts = 0 /\ session[s].holds = {}
              /\ owned \subseteq {"none", "closed"}
        /\ session[s].status = "closing" => "open" \notin owned

\* recordSessionFailure: a live Session whose processes failed the threshold
\* number of times in a row, with no finished Turn or release in between, is
\* held for attention.
ConsecutiveFailuresHeld ==
    \A s \in Sessions :
        Accepting(session[s]) /\ ConsecutiveFailures(session[s]) >= processFailureHoldThreshold
            => "process_failed" \in session[s].holds

\* advanceControlAuthority: no hold is placed or released without superseding
\* the delivered control, so a process whose delivery is current never keeps a
\* resume control under a hold or a suspend control without one.
CurrentControlMatchesHolds ==
    \A s \in Sessions :
        Accepting(session[s]) /\ session[s].process.current =>
            /\ session[s].process.control_kind = "resume" => ~Held(session, s)
            /\ session[s].process.control_kind = "suspend" => Held(session, s)

\* RecordComputerRecoveryGap: when the work of a completed Turn was lost with
\* its lease, a Session that accepts Turns has been held for that lease.
LostWorkIsReported ==
    \A s \in Sessions, n \in TurnIds :
        /\ Accepting(session[s])
        /\ session[s].turn[n].status = "completed" /\ session[s].turn[n].save = "failed"
        => session[s].turn[n].save_lease \in session[s].gaps

\* Turns as TurnQueue describes them: the rows implement a FIFO of Turns that
\* start one at a time and only after the previous handler ended, across
\* process epochs, lease losses and stops (DispatchRuntimeTurn never looks at
\* the guest; it relies on acknowledged stops and fenced processes).
Queue == INSTANCE TurnQueue WITH
    status <- [s \in Sessions |-> [n \in TurnIds |-> session[s].turn[n].status]],
    executing <- [s \in Sessions |-> session[s].executing]

ImplementsTurnQueue == Queue!QueueSpec

\* What only the Agent decides. Its init has no timeout; it may or may not
\* return, after which the worker reports the process ready. A Turn is limited
\* by maxTurnDuration, when the Agent sets it, or ends by itself.
InitReturns(s) == WF_vars(ObserveSessionReady(s))
TurnsEnd(s) == WF_vars(ExpireSessionDeadline(s)) \/ []<>(Running(session[s]) = {})
AgentsYield == \A s \in Sessions : InitReturns(s) /\ TurnsEnd(s)

\* Every accepted close ends: RunSessionLifecycle finishes it whatever the
\* worker or the supply of VMs does, and whatever the Agent does but stay in
\* its init or in a Turn without limit forever; unless the storage of the
\* Computer is marked corrupt, which only an operator undoes.
ClosingCloses ==
    AgentsYield => \A s \in Sessions :
        session[s].status = "closing" ~> session[s].status = "closed" \/ computer.faulted

\* No Turn waits forever behind anything but such an init or Turn: it starts,
\* is settled, or its Session is held, or its Computer is marked corrupt.
QueuedTurnLeaves ==
    AgentsYield => \A s \in Sessions, n \in TurnIds :
        session[s].turn[n].status = "queued" ~>
            session[s].turn[n].status # "queued" \/ Held(session, s) \/ computer.faulted
=============================================================================
