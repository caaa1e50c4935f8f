------------------------------ MODULE Command ------------------------------
(***************************************************************************)
(* Commands of one Computer: the commands rows of the control plane, the   *)
(* worker's single poll loop with one task per Command, and the guest's    *)
(* retained executions. Handlers on the control plane hold the Computer    *)
(* lock, so each is one action; the worker and the guest only share        *)
(* streams, which may break at any point and deliver what was already      *)
(* written later. The two output pipes behave alike: one is modelled.      *)
(***************************************************************************)
EXTENDS Integers, FiniteSets

CONSTANTS
    Commands,
    MaxLeases,      \* leases the Computer may get, one after the other
    MaxOutput,      \* data records a Command may write before its end record
    MaxFaults,      \* broken streams, lost replies, VM crashes, failed cleanups
    Secrets         \* "kept", or "revoked": the raw Secrets may be revoked

ASSUME BoundAssumption ==
    /\ IsFiniteSet(Commands)
    /\ MaxLeases \in Nat /\ MaxOutput \in Nat /\ MaxFaults \in Nat
    /\ Secrets \in {"kept", "revoked"}

VARIABLES
    row,            \* commands
    lease,          \* the latest computer_leases row and the Computer's capture
    machine,        \* the VM of the latest lease and its worker service
    guest,          \* what guestd retains of each Command
    task,           \* the worker's activeCommands: one goroutine per Command
    cancelling,     \* the worker's cancellations map
    claim,          \* the claim the poll loop is waiting for
    late,           \* requests of abandoned streams that may still be handled
    revoked,        \* a raw Secret bound to the Computer is revoked
    faults

vars == <<row, lease, machine, guest, task, cancelling, claim, late, revoked, faults>>

Live == {"pending", "running", "stopping"}
GuestOutcomes == {"exited", "failed", "cancelled", "scope_termination_failed"}
Sequences == 0..MaxOutput + 1

Row == [status : {"none", "terminal"} \cup Live,
        epoch : 0..MaxLeases,
        cancel : BOOLEAN,
        reason : {"none", "computer_lease_lost", "dispatch_failed", "secret_unavailable"}
                     \cup GuestOutcomes,
        accepted : Sequences,
        ended : BOOLEAN,
        final : Sequences,
        reconciled : BOOLEAN]

Lease == [epoch : 0..MaxLeases,
          expired : BOOLEAN,
          fenced : BOOLEAN,
          capture : {"none", "capturing"}]

Machine == [up : BOOLEAN, serving : BOOLEAN, sealed : BOOLEAN, recovery : BOOLEAN]

Execution == [epoch : 0..MaxLeases,
              state : {"absent", "running", "done", "released"},
              outcome : {"none", "invalid"} \cup GuestOutcomes,
              cancel : BOOLEAN,
              runs : 0..MaxLeases,
              written : 0..MaxOutput,
              final : Sequences,
              acknowledged : Sequences]

Kinds == {"start", "tail", "cancel", "release"}

Task == [kind : {"none"} \cup Kinds,
         stage : {"none", "requested", "attached", "completing", "released", "ended", "fatal"},
         head : {"none", "sent", "accepted", "next"},
         result : {"none", "received", "recorded"}]

Claim == [command : Commands, kind : Kinds]

Late == [kind : Kinds \cup {"append"}, sequence : Sequences]

NoTask == [kind |-> "none", stage |-> "none", head |-> "none", result |-> "none"]
Request(kind) == [NoTask EXCEPT !.kind = kind, !.stage = "requested"]
NoExecution == [epoch |-> 0, state |-> "absent", outcome |-> "none", cancel |-> FALSE,
                runs |-> 0, written |-> 0, final |-> 0, acknowledged |-> 0]

Init ==
    /\ row = [c \in Commands |-> [status |-> "none", epoch |-> 0, cancel |-> FALSE,
                                  reason |-> "none", accepted |-> 0, ended |-> FALSE,
                                  final |-> 0, reconciled |-> FALSE]]
    /\ lease = [epoch |-> 0, expired |-> FALSE, fenced |-> TRUE, capture |-> "none"]
    /\ machine = [up |-> FALSE, serving |-> FALSE, sealed |-> FALSE, recovery |-> FALSE]
    /\ guest = [c \in Commands |-> NoExecution]
    /\ task = [c \in Commands |-> NoTask]
    /\ cancelling = [c \in Commands |-> "none"]
    /\ claim = {}
    /\ late = [c \in Commands |-> {}]
    /\ revoked = FALSE
    /\ faults = 0

-----------------------------------------------------------------------------
(* What the rows say.                                                      *)

Terminal(r) == r.status = "terminal"
Bound(r) == r.epoch # 0

ProducerStillAuthorized == ~lease.fenced /\ ~lease.expired

LaunchAvailable == ProducerStillAuthorized /\ lease.capture = "none"

CommandOutputSettled(r) == r.final # 0 /\ r.ended /\ r.accepted = r.final

\* Mutant: only the next lease makes a Command lost.
Lost_superseded(r) == r.epoch < lease.epoch

Lost(r) == r.epoch < lease.epoch \/ lease.fenced \/ lease.expired

\* Mutant: a capture waits for pending Commands only.
Busy_pendingOnly == \E c \in Commands : row[c].status = "pending"

\* Work that keeps a Computer from being captured.
Busy == \E c \in Commands : \/ row[c].status = "pending"
                            \/ Bound(row[c]) /\ ~row[c].reconciled

-----------------------------------------------------------------------------
(* The control plane's own operations.                                     *)

Create(c) ==
    /\ row[c].status = "none"
    /\ row' = [row EXCEPT ![c].status = "pending"]
    /\ UNCHANGED <<lease, machine, guest, task, cancelling, claim, late, revoked, faults>>

Cancel(c) ==
    /\ row[c].status \in {"pending", "running"}
    /\ row' = [row EXCEPT ![c] =
                 IF Bound(@) THEN [@ EXCEPT !.status = "stopping", !.cancel = TRUE]
                 ELSE [@ EXCEPT !.status = "terminal", !.cancel = TRUE, !.reason = "cancelled"]]
    /\ UNCHANGED <<lease, machine, guest, task, cancelling, claim, late, revoked, faults>>

\* The assignment timeout and the Computer's execution deadline.
FailPending(c) ==
    /\ row[c].status = "pending" /\ ~Bound(row[c])
    /\ row' = [row EXCEPT ![c].status = "terminal", ![c].reason = "dispatch_failed"]
    /\ UNCHANGED <<lease, machine, guest, task, cancelling, claim, late, revoked, faults>>

\* Mutant: an expired lease already counts as recovery evidence.
RecoverCommand_early(c) ==
    /\ Bound(row[c]) /\ ~row[c].reconciled
    /\ Lost(row[c])
    /\ row' = [row EXCEPT ![c] =
                 [row[c] EXCEPT !.status = "terminal", !.reconciled = TRUE,
                    !.reason = IF Terminal(row[c]) THEN @ ELSE "computer_lease_lost"]]
    /\ UNCHANGED <<lease, machine, guest, task, cancelling, claim, late, revoked, faults>>

\* Losing authority settles the result; only the recorded fence reconciles.
RecoverCommand(c) ==
    /\ Bound(row[c]) /\ ~row[c].reconciled
    /\ Lost(row[c])
    /\ LET fenced == row[c].epoch < lease.epoch \/ lease.fenced
       IN  row' = [row EXCEPT ![c] =
                     [row[c] EXCEPT !.status = "terminal",
                        !.reason = IF Terminal(row[c]) THEN @ ELSE "computer_lease_lost",
                        !.reconciled = fenced]]
    /\ row' # row
    /\ UNCHANGED <<lease, machine, guest, task, cancelling, claim, late, revoked, faults>>

RevokeSecret ==
    /\ Secrets = "revoked" /\ ~revoked
    /\ revoked' = TRUE
    /\ UNCHANGED <<row, lease, machine, guest, task, cancelling, claim, late, faults>>

-----------------------------------------------------------------------------
(* Leases and VMs, as far as Commands depend on them (see ComputerDisk).   *)

\* A pending Command, or work of a Session (see Session), makes a VM boot under
\* a new epoch, its guestd retaining nothing.
AllocateLease ==
    /\ lease.fenced /\ lease.epoch < MaxLeases
    /\ lease' = [epoch |-> lease.epoch + 1, expired |-> FALSE, fenced |-> FALSE,
                 capture |-> "none"]
    /\ machine' = [up |-> TRUE, serving |-> TRUE, sealed |-> FALSE, recovery |-> FALSE]
    /\ UNCHANGED <<row, guest, task, cancelling, claim, late, revoked, faults>>

LeaseExpires ==
    /\ ~lease.fenced /\ ~lease.expired /\ faults < MaxFaults
    /\ lease' = [lease EXCEPT !.expired = TRUE]
    /\ faults' = faults + 1
    /\ UNCHANGED <<row, machine, guest, task, cancelling, claim, late, revoked>>

\* The VM is gone, with every stream to it.
PowerOff ==
    /\ machine.up
    /\ machine' = [machine EXCEPT !.up = FALSE, !.serving = FALSE, !.sealed = FALSE]
    /\ task' = [c \in Commands |-> NoTask]
    /\ cancelling' = [c \in Commands |-> "none"]
    /\ late' = [c \in Commands |-> {}]
    /\ claim' = {}
    /\ UNCHANGED <<row, lease, guest, revoked>>

\* The worker stops a VM whose command service ended, whose lease expired or
\* whose sealed memory was captured.
MachineStops ==
    /\ ~machine.serving \/ lease.expired \/ machine.sealed
    /\ PowerOff
    /\ UNCHANGED faults

MachineCrashes ==
    /\ faults < MaxFaults
    /\ PowerOff
    /\ faults' = faults + 1

ObserveLeaseStopped ==
    /\ ~machine.up /\ ~lease.fenced
    /\ lease' = [lease EXCEPT !.fenced = TRUE, !.capture = "none"]
    /\ UNCHANGED <<row, machine, guest, task, cancelling, claim, late, revoked, faults>>

\* Hibernation: the checkpoint row excludes launches, then guestd seals its
\* admission; a continuation unseals it before the row is closed.
BeginCapture ==
    /\ ProducerStillAuthorized /\ machine.serving
    /\ lease.capture = "none" /\ ~Busy
    /\ lease' = [lease EXCEPT !.capture = "capturing"]
    /\ UNCHANGED <<row, machine, guest, task, cancelling, claim, late, revoked, faults>>

Retained(c) == guest[c].epoch = lease.epoch /\ guest[c].state # "absent"

SealCapture ==
    /\ machine.serving /\ lease.capture = "capturing" /\ ~machine.sealed
    /\ ~machine.recovery
    /\ \A c \in Commands : Retained(c) => guest[c].state = "released"
    /\ machine' = [machine EXCEPT !.sealed = TRUE]
    /\ UNCHANGED <<row, lease, guest, task, cancelling, claim, late, revoked, faults>>

ActivateCapture ==
    /\ machine.serving /\ machine.sealed
    /\ machine' = [machine EXCEPT !.sealed = FALSE]
    /\ UNCHANGED <<row, lease, guest, task, cancelling, claim, late, revoked, faults>>

CloseCapture ==
    /\ machine.serving /\ lease.capture = "capturing" /\ ~machine.sealed
    /\ lease' = [lease EXCEPT !.capture = "none"]
    /\ UNCHANGED <<row, machine, guest, task, cancelling, claim, late, revoked, faults>>

-----------------------------------------------------------------------------
(* The worker's poll loop: one claim at a time, then one task per Command. *)

Candidate(r) == \/ r.epoch = lease.epoch /\ (~Terminal(r) \/ ~r.reconciled)
                \/ r.status = "pending"

\* What claimNext returns for a Command the loop reports as it does.
Offer(c) ==
    LET r == row[c] IN
    IF ~Candidate(r) THEN "none"
    ELSE IF r.status = "stopping" /\ cancelling[c] = "none" THEN "cancel"
    ELSE IF task[c] # NoTask THEN "none"
    ELSE IF Terminal(r)
         THEN IF r.reason \in {"computer_lease_lost", "scope_termination_failed"} THEN "none"
              ELSE IF CommandOutputSettled(r) THEN "release"
              ELSE IF r.final # 0 THEN "tail" ELSE "none"
    ELSE IF r.status = "stopping" \/ ~LaunchAvailable THEN "none"
    ELSE IF revoked THEN IF Bound(r) THEN "tail" ELSE "refuse"
    ELSE "start"

Rank(r) == IF r.status = "stopping" THEN 0
           ELSE IF Terminal(r) THEN 1
           ELSE IF Bound(r) THEN 2 ELSE 3

Offered == {c \in Commands : Offer(c) \in Kinds}

\* A Start binds the Command to the lease before the reply leaves; pending
\* Commands whose raw Secret was revoked are refused on the way.
ClaimNext ==
    /\ machine.serving /\ claim = {} /\ ProducerStillAuthorized
    /\ \/ \E c \in Offered :
            /\ \A d \in Offered : Rank(row[c]) <= Rank(row[d])
            /\ claim' = {[command |-> c, kind |-> Offer(c)]}
            /\ row' = IF Offer(c) = "start"
                      THEN [row EXCEPT ![c].status = "running", ![c].epoch = lease.epoch]
                      ELSE row
       \/ /\ Offered = {} /\ \E c \in Commands : Offer(c) = "refuse"
          /\ row' = [c \in Commands |->
                       IF Offer(c) # "refuse" THEN row[c]
                       ELSE [row[c] EXCEPT !.status = "terminal", !.reason = "secret_unavailable"]]
          /\ UNCHANGED claim
    /\ UNCHANGED <<lease, machine, guest, task, cancelling, late, revoked, faults>>

\* The last look at the row after the secrets were opened.
CheckStart(c, kind) ==
    LET r == row[c] IN
    CASE kind = "start" -> /\ ~revoked /\ r.status = "running" /\ ~r.cancel
                           /\ r.epoch = lease.epoch /\ LaunchAvailable
      [] kind = "tail" -> /\ r.epoch = lease.epoch /\ ProducerStillAuthorized
                          /\ \/ Terminal(r) /\ ~r.reconciled
                             \/ r.status = "running" /\ ~r.cancel
      [] OTHER -> TRUE

DeliverClaim ==
    /\ machine.serving
    /\ \E reply \in claim : LET c == reply.command IN
       /\ CheckStart(c, reply.kind)
       /\ IF reply.kind = "cancel" /\ task[c] # NoTask
          THEN cancelling' = [cancelling EXCEPT ![c] = "asking"] /\ UNCHANGED task
          ELSE /\ task' = [task EXCEPT ![c] = Request(reply.kind)]
               /\ cancelling' = [cancelling EXCEPT ![c] =
                                   IF reply.kind = "cancel" THEN "asked" ELSE @]
    /\ claim' = {}
    /\ UNCHANGED <<row, lease, machine, guest, late, revoked, faults>>

\* The reply is an error, or it is lost.
ClaimFails ==
    /\ machine.serving /\ claim # {}
    /\ \/ \E reply \in claim : ~CheckStart(reply.command, reply.kind) /\ UNCHANGED faults
       \/ faults < MaxFaults /\ faults' = faults + 1
    /\ claim' = {}
    /\ UNCHANGED <<row, lease, machine, guest, task, cancelling, late, revoked>>

\* What guestd may still read of streams the worker abandoned.
Abandoned(c) ==
    (IF task[c].stage = "requested" THEN {[kind |-> task[c].kind, sequence |-> 0]} ELSE {})
    \cup (IF task[c].head = "sent"
          THEN {[kind |-> "append", sequence |-> guest[c].acknowledged + 1]} ELSE {})

AbandonedCancel(c) ==
    IF cancelling[c] = "asking" THEN {[kind |-> "cancel", sequence |-> 0]} ELSE {}

\* The loop collects a task; a fatal one ends the service and, with it, the
\* allocation.
ReapTask(c) ==
    /\ machine.serving /\ claim = {}
    /\ \/ /\ task[c].stage = "ended"
          /\ task' = [task EXCEPT ![c] = NoTask]
          /\ cancelling' = [cancelling EXCEPT ![c] = IF @ = "asked" THEN "none" ELSE @]
          /\ UNCHANGED <<machine, late>>
       \/ /\ task[c].stage = "fatal"
          /\ machine' = [machine EXCEPT !.serving = FALSE]
          /\ late' = [d \in Commands |-> late[d] \cup Abandoned(d) \cup AbandonedCancel(d)]
          /\ task' = [d \in Commands |-> NoTask]
          /\ cancelling' = [d \in Commands |-> "none"]
    /\ UNCHANGED <<row, lease, guest, claim, revoked, faults>>

\* The loop collects the answer to a cancellation of an attached Command.
ReapCancellation(c) ==
    /\ machine.serving /\ claim = {}
    /\ cancelling[c] \in {"answered", "refused"}
    /\ cancelling' = [cancelling EXCEPT ![c] =
                        IF @ = "answered" /\ task[c] # NoTask THEN "asked" ELSE "none"]
    /\ UNCHANGED <<row, lease, machine, guest, task, claim, late, revoked, faults>>

-----------------------------------------------------------------------------
(* guestd: retained executions, one stream attached to each.               *)

\* Mutant: a released execution leaves no tombstone.
StartReply_noTombstone(c, kind) ==
    IF machine.sealed \/ lease.expired \/ machine.recovery THEN "refused"
    ELSE IF Retained(c) /\ guest[c].state # "released" THEN "attached"
    ELSE IF kind = "tail" THEN "refused" ELSE "launched"

\* How startComputerBasicExec answers.
StartReply(c, kind) ==
    IF machine.sealed \/ lease.expired \/ machine.recovery THEN "refused"
    ELSE IF Retained(c) THEN IF guest[c].state = "released" THEN "refused" ELSE "attached"
    ELSE IF kind = "tail" THEN "refused" ELSE "launched"

Launched(g) == [NoExecution EXCEPT !.epoch = lease.epoch, !.state = "running",
                                   !.runs = g.runs + 1]

\* A cancellation that finds nothing leaves a result that no launch replaces.
CancelRefused(c) == lease.expired \/ (~Retained(c) /\ machine.sealed)

\* Mutant: a cancellation replaces the result of a finished execution.
Cancelled_replaces(c) ==
    IF CancelRefused(c) THEN guest[c]
    ELSE IF Retained(c) /\ guest[c].state = "running" THEN [guest[c] EXCEPT !.cancel = TRUE]
    ELSE [guest[c] EXCEPT !.epoch = lease.epoch, !.state = "done",
                          !.outcome = "cancelled", !.final = 1]

Cancelled(c) ==
    IF CancelRefused(c) THEN guest[c]
    ELSE IF Retained(c)
         THEN IF guest[c].state = "running" THEN [guest[c] EXCEPT !.cancel = TRUE] ELSE guest[c]
    ELSE [NoExecution EXCEPT !.epoch = lease.epoch, !.state = "done", !.outcome = "cancelled",
                             !.final = 1, !.runs = guest[c].runs]

Settled(g) == g.final # 0 /\ g.acknowledged = g.final

ReleaseAllowed(c) ==
    /\ Retained(c)
    /\ \/ guest[c].state = "released"
       \/ /\ guest[c].state = "done" /\ Settled(guest[c])
          /\ guest[c].outcome # "scope_termination_failed"

GuestStarts(c) ==
    /\ machine.up /\ task[c].stage = "requested" /\ task[c].kind \in {"start", "tail"}
    /\ LET reply == StartReply(c, task[c].kind) IN
       /\ task' = [task EXCEPT ![c].stage = IF reply = "refused" THEN "fatal" ELSE "attached"]
       /\ guest' = IF reply = "launched" THEN [guest EXCEPT ![c] = Launched(@)] ELSE guest
    /\ UNCHANGED <<row, lease, machine, cancelling, claim, late, revoked, faults>>

GuestCancels(c) ==
    /\ machine.up
    /\ \/ /\ task[c].stage = "requested" /\ task[c].kind = "cancel"
          /\ task' = [task EXCEPT ![c] = IF CancelRefused(c)
                                         THEN [@ EXCEPT !.stage = "ended"] ELSE Request("tail")]
          /\ UNCHANGED cancelling
       \/ /\ cancelling[c] = "asking"
          /\ cancelling' = [cancelling EXCEPT ![c] =
                              IF CancelRefused(c) THEN "refused" ELSE "answered"]
          /\ UNCHANGED task
    /\ guest' = [guest EXCEPT ![c] = Cancelled(c)]
    /\ UNCHANGED <<row, lease, machine, claim, late, revoked, faults>>

GuestReleases(c) ==
    /\ machine.up /\ task[c].stage = "requested" /\ task[c].kind = "release"
    /\ task' = [task EXCEPT ![c].stage = IF ReleaseAllowed(c) THEN "released" ELSE "ended"]
    /\ guest' = IF ReleaseAllowed(c) THEN [guest EXCEPT ![c].state = "released"] ELSE guest
    /\ UNCHANGED <<row, lease, machine, cancelling, claim, late, revoked, faults>>

Executing(c) == machine.up /\ Retained(c) /\ guest[c].state = "running"

ProcessWrites(c) ==
    /\ Executing(c) /\ guest[c].written < MaxOutput
    /\ guest' = [guest EXCEPT ![c].written = @ + 1]
    /\ UNCHANGED <<row, lease, machine, task, cancelling, claim, late, revoked, faults>>

\* The process scope is reaped, after an exit, a signal, the Command's timeout
\* or a cancellation, or its reaping fails; output.finish fixes the boundary.
ProcessEnds(c) ==
    /\ Executing(c)
    /\ \E outcome \in GuestOutcomes \cup {"invalid"} :
        /\ outcome = "cancelled" => guest[c].cancel
        /\ outcome = "invalid" => guest[c].written = 0
        /\ outcome = "scope_termination_failed" => faults < MaxFaults
        /\ guest' = [guest EXCEPT ![c].state = "done", ![c].outcome = outcome,
                                  ![c].final = guest[c].written + 1]
        /\ machine' = [machine EXCEPT !.recovery = @ \/ outcome = "scope_termination_failed"]
        /\ faults' = IF outcome = "scope_termination_failed" THEN faults + 1 ELSE faults
    /\ UNCHANGED <<row, lease, task, cancelling, claim, late, revoked>>

-----------------------------------------------------------------------------
(* The attached stream: one outstanding head, and the result beside it.    *)

Attached(c) == machine.serving /\ task[c].stage = "attached"

SendHead(c) ==
    /\ Attached(c) /\ task[c].head \in {"none", "next"} /\ task[c].result # "received"
    /\ guest[c].acknowledged < IF guest[c].final = 0 THEN guest[c].written ELSE guest[c].final
    /\ task' = [task EXCEPT ![c].head = "sent"]
    /\ UNCHANGED <<row, lease, machine, guest, cancelling, claim, late, revoked, faults>>

\* Whether the control plane takes record k: as the next one, or again as the
\* last one.
Admissible(c, k) ==
    LET r == row[c] IN
    /\ r.epoch = lease.epoch /\ ProducerStillAuthorized /\ ~r.reconciled
    /\ \/ r.status \in {"running", "stopping"}
       \/ Terminal(r) /\ k <= r.final /\ (k = guest[c].final => k = r.final)
    /\ k = r.accepted \/ (k = r.accepted + 1 /\ ~r.ended)

Appended(c, k) == [row EXCEPT ![c].accepted = k, ![c].ended = (k = guest[c].final)]

AppendLog(c) ==
    /\ Attached(c) /\ task[c].head = "sent"
    /\ LET k == guest[c].acknowledged + 1 IN
       IF Admissible(c, k)
       THEN /\ row' = Appended(c, k)
            /\ task' = [task EXCEPT ![c].head = "accepted"]
       ELSE /\ task' = [task EXCEPT ![c].stage = "fatal"]
            /\ UNCHANGED row
    /\ UNCHANGED <<lease, machine, guest, cancelling, claim, late, revoked, faults>>

AcknowledgeHead(c) ==
    /\ Attached(c) /\ task[c].head = "accepted"
    /\ guest' = [guest EXCEPT ![c].acknowledged = @ + 1]
    /\ task' = [task EXCEPT ![c].head = "next"]
    /\ UNCHANGED <<row, lease, machine, cancelling, claim, late, revoked, faults>>

ReceiveResult(c) ==
    /\ Attached(c) /\ guest[c].state = "done" /\ task[c].result = "none"
    /\ task' = [task EXCEPT ![c] = IF guest[c].outcome = "invalid"
                                   THEN [@ EXCEPT !.stage = "fatal"]
                                   ELSE [@ EXCEPT !.result = "received"]]
    /\ UNCHANGED <<row, lease, machine, guest, cancelling, claim, late, revoked, faults>>

\* applyCompletion: a recorded result is only replayed.
Completable(c) ==
    LET r == row[c]  g == guest[c] IN
    /\ r.epoch = lease.epoch
    /\ IF Terminal(r) THEN r.reason = g.outcome /\ r.final = g.final
       ELSE /\ g.outcome = "cancelled" => r.status = "stopping" /\ r.cancel
            /\ r.status \in {"running", "stopping"}
            /\ ProducerStillAuthorized
            /\ r.accepted <= g.final /\ (r.ended => r.accepted = g.final)

Completed(c) == [row EXCEPT ![c].status = "terminal", ![c].reason = guest[c].outcome,
                            ![c].final = guest[c].final]

\* The result is reported while output may still be pending.
Complete(c) ==
    /\ Attached(c) /\ task[c].result = "received"
    /\ IF Completable(c)
       THEN row' = Completed(c) /\ task' = [task EXCEPT ![c].result = "recorded"]
       ELSE UNCHANGED row /\ task' = [task EXCEPT ![c].stage = "ended"]
    /\ UNCHANGED <<lease, machine, guest, cancelling, claim, late, revoked, faults>>

FinishStream(c) ==
    /\ Attached(c) /\ task[c].result = "recorded" /\ Settled(guest[c])
    /\ task' = [task EXCEPT ![c].stage = "completing"]
    /\ UNCHANGED <<row, lease, machine, guest, cancelling, claim, late, revoked, faults>>

CompleteAgain(c) ==
    /\ machine.serving /\ task[c].stage = "completing"
    /\ IF Completable(c)
       THEN row' = Completed(c) /\ task' = [task EXCEPT ![c].stage = "ended"]
       ELSE UNCHANGED row /\ task' = [task EXCEPT ![c].stage = "fatal"]
    /\ UNCHANGED <<lease, machine, guest, cancelling, claim, late, revoked, faults>>

\* After guestd let go of the execution, the row's scope is reconciled.
Reconcile(c) ==
    /\ machine.serving /\ task[c].stage = "released"
    /\ row' = IF /\ Terminal(row[c]) /\ row[c].epoch = lease.epoch
                 /\ CommandOutputSettled(row[c]) /\ ProducerStillAuthorized
              THEN [row EXCEPT ![c].reconciled = TRUE] ELSE row
    /\ task' = [task EXCEPT ![c].stage = "ended"]
    /\ UNCHANGED <<lease, machine, guest, cancelling, claim, late, revoked, faults>>

\* The stream closes under the reader: without a result, or before anything
\* of this attachment was appended, the task may be retried. (When both ends
\* were already observed the result is returned; here that too may be fatal.)
Closed(t) ==
    [t EXCEPT !.stage = IF t.result # "recorded" THEN "ended"
                        ELSE IF t.head = "none" THEN "completing" ELSE "fatal"]

\* The worker's end of a stream breaks.
StreamBreaks(c) ==
    /\ machine.serving /\ faults < MaxFaults
    /\ task[c].stage \in {"requested", "attached", "released"}
    /\ \/ task' = [task EXCEPT ![c].stage = "ended"]
       \/ task[c].stage = "attached" /\ task' = [task EXCEPT ![c] = Closed(@)]
    /\ late' = [late EXCEPT ![c] = @ \cup Abandoned(c)]
    /\ faults' = faults + 1
    /\ UNCHANGED <<row, lease, machine, guest, cancelling, claim, revoked>>

CancellationBreaks(c) ==
    /\ machine.serving /\ faults < MaxFaults /\ cancelling[c] = "asking"
    /\ cancelling' = [cancelling EXCEPT ![c] = "refused"]
    /\ late' = [late EXCEPT ![c] = @ \cup AbandonedCancel(c)]
    /\ faults' = faults + 1
    /\ UNCHANGED <<row, lease, machine, guest, task, claim, revoked>>

\* A late start replaces the attachment of a retained execution, whose stream
\* closes; a late append is judged as any other.
LateStart(c, kind) ==
    LET reply == StartReply(c, kind) IN
    /\ task[c].result # "received"
    /\ guest' = IF reply = "launched" THEN [guest EXCEPT ![c] = Launched(@)] ELSE guest
    /\ task' = IF reply = "attached" /\ task[c].stage = "attached"
               THEN [task EXCEPT ![c] = Closed(@)] ELSE task
    /\ UNCHANGED row

LateArrives(c) ==
    /\ machine.up
    /\ \E m \in late[c] :
        /\ late' = [late EXCEPT ![c] = @ \ {m}]
        /\ CASE m.kind \in {"start", "tail"} -> LateStart(c, m.kind)
             [] m.kind = "cancel" -> /\ guest' = [guest EXCEPT ![c] = Cancelled(c)]
                                     /\ UNCHANGED <<row, task>>
             [] m.kind = "release" -> /\ guest' = IF ReleaseAllowed(c)
                                                  THEN [guest EXCEPT ![c].state = "released"]
                                                  ELSE guest
                                      /\ UNCHANGED <<row, task>>
             [] OTHER -> /\ row' = IF Admissible(c, m.sequence)
                                   THEN Appended(c, m.sequence) ELSE row
                         /\ UNCHANGED <<guest, task>>
    /\ UNCHANGED <<lease, machine, cancelling, claim, revoked, faults>>

-----------------------------------------------------------------------------
Submit(c) == Create(c) \/ Cancel(c)
Settle(c) == FailPending(c) \/ RecoverCommand(c)
Loop == ClaimNext \/ DeliverClaim \/ ClaimFails
Collect(c) == ReapTask(c) \/ ReapCancellation(c)
Guest(c) == GuestStarts(c) \/ GuestCancels(c) \/ GuestReleases(c)
Process(c) == ProcessWrites(c) \/ ProcessEnds(c)
Stream(c) == \/ SendHead(c) \/ AppendLog(c) \/ AcknowledgeHead(c) \/ ReceiveResult(c)
             \/ Complete(c) \/ FinishStream(c) \/ CompleteAgain(c) \/ Reconcile(c)
Break(c) == StreamBreaks(c) \/ CancellationBreaks(c) \/ LateArrives(c)
Leases == AllocateLease \/ LeaseExpires \/ MachineStops \/ MachineCrashes \/ ObserveLeaseStopped
Capture == BeginCapture \/ SealCapture \/ ActivateCapture \/ CloseCapture

Next ==
    \/ \E c \in Commands : \/ Submit(c) \/ Settle(c) \/ Collect(c) \/ Guest(c)
                          \/ Process(c) \/ Stream(c) \/ Break(c)
    \/ RevokeSecret \/ Loop \/ Leases \/ Capture

Spec == Init /\ [][Next]_vars

\* The reconcilers and the dispatcher run periodically, the worker polls and
\* collects its tasks, guestd answers and streams while it is up, and every
\* Command has a timeout. Nothing is assumed of users, captures or faults.
Fairness ==
    /\ \A c \in Commands :
        /\ WF_vars(FailPending(c)) /\ WF_vars(RecoverCommand(c))
        /\ WF_vars(Collect(c)) /\ WF_vars(Guest(c)) /\ WF_vars(Stream(c))
        /\ WF_vars(ProcessEnds(c))
    /\ WF_vars(Loop) /\ WF_vars(MachineStops) /\ WF_vars(ObserveLeaseStopped)

LiveSpec == Spec /\ Fairness

-----------------------------------------------------------------------------
TypeOK ==
    /\ row \in [Commands -> Row]
    /\ lease \in Lease
    /\ machine \in Machine
    /\ guest \in [Commands -> Execution]
    /\ task \in [Commands -> Task]
    /\ cancelling \in [Commands -> {"none", "asking", "answered", "refused", "asked"}]
    /\ claim \in SUBSET Claim /\ \A p, q \in claim : p = q
    /\ late \in [Commands -> SUBSET Late]
    /\ revoked \in BOOLEAN
    /\ faults \in 0..MaxFaults

\* A Command's process is started at most once, and only after the row was
\* bound to a lease: lost claim replies, retried and delayed starts and a
\* cancellation that overtakes its start never launch it (again), because
\* guestd keeps a tombstone and a bound row never returns to the queue.
LaunchedOnce ==
    \A c \in Commands : guest[c].runs <= IF Bound(row[c]) THEN 1 ELSE 0

\* What the commands row reports of a bound Command is what guestd retained:
\* the outcome and output boundary of the one execution of that lease, never a
\* stale or replayed completion of another one.
ResultIsTrue ==
    \A c \in Commands :
        Bound(row[c]) /\ row[c].reason \in GuestOutcomes =>
            /\ guest[c].epoch = row[c].epoch
            /\ guest[c].outcome = row[c].reason
            /\ guest[c].final = row[c].final

\* process_reconciled_at says that the process is gone: the lease was fenced,
\* or guestd released the execution and its whole output is durable.
ReconciledIsGone ==
    \A c \in Commands : row[c].reconciled =>
        /\ ~Executing(c)
        /\ \/ row[c].epoch < lease.epoch \/ lease.fenced
           \/ CommandOutputSettled(row[c]) /\ guest[c].state = "released"

\* Once guestd sealed its admission for a capture no process of a Command runs
\* and no request is on its way to start one, so the memory image holds none.
SealedIsQuiet ==
    machine.sealed =>
        \A c \in Commands : ~Executing(c) /\ task[c].stage # "requested"

ServiceEnded == machine.up /\ ~machine.serving

Fault == faults > 0 \/ \E c \in Commands : guest[c].outcome = "invalid"

\* What the documentation says of revoking a Secret, for the Computer's
\* allocation: nothing else changes, so revocation alone never ends it.
RevocationOnlyWithholds == ServiceEnded => Fault

\* Every Command that was created gets a result: from its process, from its
\* cancellation, from the assignment timeout, or from the loss of its lease.
CommandsSettle ==
    \A c \in Commands : row[c].status # "none" ~> Terminal(row[c])

\* A Command whose process has ended stops holding the Computer in memory: its
\* scope is reconciled, so a capture is no longer refused because of it. A
\* scope that could not be reaped is left to the end of the lease.
ScopesAreReleased ==
    \A c \in Commands :
        Terminal(row[c]) /\ Bound(row[c]) /\ guest[c].state = "done"
            /\ guest[c].outcome # "scope_termination_failed" ~> row[c].reconciled
=============================================================================
