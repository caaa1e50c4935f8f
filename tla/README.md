# Helmr: TLA+ verification project

Helmr runs long-lived agent Sessions on virtual machines ("Computers"). Its control plane keeps all
authority in PostgreSQL; workers boot VMs under expiring leases; a guest daemon (guestd) runs the
Agent's processes and ad-hoc Commands; disks are saved and whole VMs hibernated so that work
survives the loss of any machine. This project models the parts of that system in which the order
of transactions, messages, expiries and crashes decides whether work is lost, done twice or stuck.

All source paths are relative to `src/`. `PROJECT.json` maps every definition to the lines it models.

## 1. Inventory

| Part | Source | State | Modelled by |
|---|---|---|---|
| Sessions and Turns | `internal/session` | `sessions`, `turns`, `session_processes`, `session_holds` | `Session`, abstract `TurnQueue` |
| A running Turn: messages, asks, drainage, outcome | `internal/session/asks.go`, `messages.go`, `finalization.go`, `internal/computerhost/agent_*.go`, `internal/guestd/agent_session.go`, `agent_relay.go`, `runtime/typescript/src/agent-session.ts` | `turn_asks`, `turn_messages`, the relay's outbox, `SessionRuntime.turns` | `TurnExchange` |
| Leases, dispatcher | `internal/dispatch`, `internal/computer` | `computers`, `computer_leases`, execution deadline | `Session` (effect on Sessions), `ComputerDisk` (with machines), `WorkerHost` (with hosts) |
| Saves, recovery head, retention | `internal/computer/save_*.go`, `disk_retention.go`, `internal/computerhost/agent_saves.go` | `computer_saves`, disk custody | `ComputerDisk` |
| Hibernation | `internal/computerhost/allocation_checkpoint.go`, `internal/session/computer_*.go`, `internal/guestd/agent_computer_*.go` | `checkpoints`, the guest's capture record | `ComputerDisk` |
| Commands | `internal/command`, `internal/computerhost/command_*.go`, `internal/guestd/command_output.go`, `computer_*command*.go` | `commands`, the worker's tasks, retained executions | `Command` |
| Output buffers, telemetry | `internal/guestd/diagnostic_buffer.go`, `agent_relay.go`, `internal/telemetry` | buffered records, gaps, the durable frontier | `DiagnosticStream`; its sequence only in `Command` |
| Worker hosts, groups, scaling | `internal/workergroup`, `internal/worker`, `cmd/worker`, `internal/workerclient` | `worker_hosts`, `worker_host_secrets`, scale-in receipts, the worker process and its secret file | `WorkerHost` |
| Reservation ledger, prepared machines | `internal/reservation`, `internal/worker` | in-memory ledger | not modelled |
| Slack delivery, deployments | `internal/slack`, `internal/deployment` | posts, versions | not modelled |
| Image builds, artifacts, VM and block layer, object store, secrets proxy, HTTP, identity, CLI, SDK, console, infrastructure | see `PROJECT.json` "components" | | not modelled: I/O, pure translation, or one check per request |

How they interact. Users and agents admit Turns and Commands (control plane rows). The dispatcher
leases a Computer to a worker when there is demand. The worker boots, restores or recovers a VM,
attaches to guestd, delivers controls (run, hold, stop) and dispatches one Turn at a time; a finished
Turn requests a disk save that the worker cuts, uploads and publishes. When nothing is busy the
worker captures the VM into a checkpoint. Losing a lease (expiry, crash) loses its processes, unsaved
work and running Commands, and each loss has to be recorded exactly once.

The hazards this design is exposed to are listed in `PROJECT.json` with the line where each bites
and the property that would catch it.

## 2. Modules

**`TurnQueue`** is what Helmr promises about Turns, without processes or machines: admitted in order,
started in order, one at a time, each at most once, never changed after they settle, and none
started while the handler of an earlier one may still be executing.

**`Session`** is the control plane of the Sessions of one Computer. `session[s]` is the row of a
Session with its Turns, holds, failure count and latest process; `computer` is the Computer with its
latest lease, execution deadline and storage pressure. Every handler is one PostgreSQL transaction
that locks the ownership roots, the Computer and the Sessions it touches, so it is one action, with
everything it calls: `Cancel` includes `lockControlTree`, `settleTurns`, `requestProcessStop`,
`advanceControlAuthority` and `finishClose`. Actions fall into three groups: requests (`AdmitStart`,
`Enqueue`, `Interrupt`, `Resume`, `Cancel`, `Close`), worker calls (`AcquireRuntimeAttachment`,
`PrepareSessionDelivery`, `DispatchRuntimeTurn`, `RuntimeFinalize`, ...), and reconcilers
(`ExpireSessionDeadline`, `ReconcileSessionClosure`, `ExpireExecutionAdmission`, `ExpireLease`,
`ObserveLeaseStopped`, ...). Monotonic generations that the code only compares with their current
value are one flag (`process.current`). `executing` is history: the Turn whose handler the guest may
still be running.

**`ComputerDisk`** is the durable state of one Computer together with the machines and the worker's
serial save loop. A disk is the set of Turns whose work is on it. `machine[e]` is the VM of lease
`e`, `owner[e]` the worker's allocation owner. A worker call commits and then its reply may be lost;
the worker retries it. Hibernation is modelled through all of its phases (begin, seal, snapshot,
publish, hibernate; inspect, cancel, reserve, consume, thaw; restore, install, activate, complete).

**`Command`** is the life of the Commands of one Computer across three parties: the `commands` rows,
the worker's poll loop with one task per Command, and guestd's retained executions. Streams break at
any point, and what was already written to one (a start, a cancellation, a release, an output
append) may still be handled later (`late`). One of the two output pipes is modelled; they are
independent and behave alike. Absent are the status `starting` of Commands, which the code never
writes, `releasing` of leases, which only the deletion of the Computer writes, and `output_fenced`, which
no worker sets.

**`TurnExchange`** is what happens inside a running Turn, between four parties: the rows (`session`,
`turn`, `message`), the attached worker (`host`: `agentSessionTurns`, `agentSessionControls`), guestd
(`guest`, `outbox`) and the TypeScript runtime (`execution`, `callback`, `program`). The program
registers for messages, asks, closes its processing, finalizes or fails; each of these is an operation
that the guest keeps in its outbox until it is answered. Control-plane handlers commit and the reply
may be lost with the attachment; the next attachment resumes from the guest's state (`Attach`). A
request of a broken attachment that was already answered may still be handled afterwards
(`LateOperation`). Simplifications, each stated in the module's header: the pipe between guest and
program and a frame on a live connection are atomic, a break and the next attachment are one step, the
control generation is a flag, `WAIT_ASK` polling is a stutter, a hold is handled at once. After a
process failure the model stops: what follows is `Session`'s.

**`DiagnosticStream`** is the output of one process from the bounded buffer in the guest (`records`,
`pendingGap`, `end`), through the relay or the Command's stream (`link`), to the row's `progress` and
the accepted `chunks`. It is the detail behind the output that `Command` abstracts to a sequence: full
buffers, gap records, the reserved last sequence, retention, late appends and the boundary a result
names. A refusal for capacity changes nothing and is a stutter.

**`WorkerHost`** is one pool of a worker group: rows of `worker_hosts` with their secrets, the leases
allocated to them, scale-in receipts; and on each machine the worker process with its secret file, the
owners of its allocations and the VMs that really exist. A worker dies and is restarted with whatever
VMs are left; it enrolls or authenticates, which starts a new epoch, recovers, reports, activates,
discovers its leases and observes. `late` is one request of a dead process or an abandoned call that
is handled later with the credential it carried.

`MCSession`, `MCComputerDisk`, `MCCommand` and `MCWorkerHost` give the constants their values;
`TurnExchange` and `DiagnosticStream` take plain numbers and are run directly. The modules whose names end in
`Proofs` or `Theorems` hold the theorems of section 4 and the lemmas they rest on.

How the concrete modules overlap: each sees leases. `Session` keeps what a lease does to
processes; `ComputerDisk` has the machines, so expiry and physical stop are apart; `Command` has the
lease, the machine and the seal of a capture only as far as Commands depend on them; `WorkerHost` has
the hosts on which leases live and shows that a stop is only recorded when the VM is gone, which
`Session` and `ComputerDisk` take for granted. In `Session`, losing a lease is possible at any time;
`ComputerDisk` shows what that does to the disk. `Session` sees a Turn's end as one step of the guest;
`TurnExchange` shows how rows and program come to agree on it.

## 3. Runs

| Run | Instance | Shows |
|---|---|---|
| `turns` | 1 Session, 2 Turns, 4 epochs, 2 leases, 1 control, 2 faults, deadlines, revocation, preparation, integrity fault; fair | `RunningTurnOwned`, `ConsecutiveFailuresHeld`, `LostWorkIsReported`, that the rows implement `TurnQueue`, `ClosingCloses`, `QueuedTurnLeaves` |
| `tree` | a parent and its child, 1 control, storage pressure, idle close | `ClosedIsSettled`, `CurrentControlMatchesHolds` |
| `disk` | 2 Turns, a background save, 1 hibernation, 1 fault; fair | `DurableWorkKept`, `CustodyKept`, `OneMachineExecutes`, `ImageThawedOnce`, `DispatchReachesGuest`, `SavesSettle`, `DemandIsServed` |
| `commands` | 1 Command, 2 leases, 2 data records, 2 faults, revocation, captures; fair | `LaunchedOnce`, `ResultIsTrue`, `ReconciledIsGone`, `SealedIsQuiet`, `CommandsSettle` |
| `fleet` | 2 machines, 2 Computers, 2 rows, 2 leases, 1 slot, 2 starts, 1 fault; symmetric | `FencedIsGone`, `OneVMPerComputer`, `ActiveIsRecovered`, `WithinSlots` |
| `drain` | 1 machine, 2 rows, 1 lease, 2 starts, 1 fault, 2 operator actions, 2 group or pool transitions; fair | `TerminationReadyIsEmpty`, `ReceiptsHold`, `DrainingEnds` |
| `output` | integers end at 5, buffer of 2 records and 3 bytes, chunks of 1 or 3 bytes, 2 faults; fair | `AccountIsExact`, `OnlyOverflowRejects`, `ResultSettles`, `OutputSettles` |
| `exchange` | 2 Turns, 1 message, 1 question, 1 broken attachment, 1 control | `DispositionIsTrue`, `CompletedIsJoined`, `StoppedHasCeased`, `AnswersAgree`, `OutcomesAgree` |
| `callbacks` | 1 Turn, 2 messages, 1 broken attachment, 2 controls (a hold and its resume); fair | `CallbacksInOrder`, `TurnsSettle`, `MessagesSettle`, `StopsConverge` |
| `revoked`, `released`, `cutoff` | smallest instance that shows it | a disagreement between code and documentation, section 5 |

Bounds. Two Turns are the least with an order; two epochs and two leases the least in which
something of an old one can be confused with the present one (`turns` has four epochs so that each of
two faults can cost each of two Turns its process). With two data records and the end record a late
append can be older than the last accepted one. In `output`, the integer limit of 5 is reached by the
sequence as well as by the byte offset, a chunk of three bytes fills the buffer and one byte does not.
In `fleet`, two starts and two rows give a machine a worker of an earlier epoch and one of an earlier
row. `MaxControls`, `MaxFaults` and the other bounds are guards named in the modules.
Larger instances were explored and are too large to keep: the safety properties of `Command` with two
Commands on one lease (31.9 million states), `ComputerDisk` with three Turns and a background save,
and with two Turns, a hibernation and two faults. None showed a violation.
`CHECK_DEADLOCK FALSE` is set everywhere: a closed Session, an idle Computer, a settled Command and a
terminated host rightly stop.

Fairness, and why the code justifies it.

- `Session`: the lifecycle and dispatch reconcilers run on timers and retry (`RunSessionLifecycle`,
  `ReconcileExecutionAdmissions`); an attached worker prepares, delivers and acknowledges; a lost
  lease's VM is stopped and reported. Nothing is assumed of the supply of VMs (no lease need ever be
  allocated) or of the program in the guest: `init` has no timeout, `maxTurnDuration` is optional and a
  Turn without it has no deadline. `ClosingCloses` and `QueuedTurnLeaves` therefore have the premise
  `AgentsYield`: `init` returns, and Turns either have a deadline or end. It is a premise of the two
  properties and not part of `Fairness`; TLC refutes `QueuedTurnLeaves` without it.
- `ComputerDisk`: the worker retries its calls (`retryCheckpointDurability`, the save loop), a lost
  or hibernated machine is stopped and the stop reported, the allocation loop runs, and here a
  process that can execute finishes its Turn, since Turn deadlines are `Session`'s subject.
- `Command`: the worker polls (`Serve`), guestd answers and streams while its VM is up, every Command
  carries a timeout of at most 24 hours, pending Commands are failed by `ExpirePending`, and a
  machine whose command service ended is stopped. Nothing is assumed of users, captures or faults.

- `WorkerHost`: a started worker runs its loops and retries; owners boot, end their run when the lease
  is lost, stop and report (`OwnerLoop`); a host that fell silent goes stale and is fenced by
  `ReconcileOnce`. Nothing is assumed of starts (a dead worker need never come back), no one need
  allocate, drain or terminate, and nothing ends the run of a Computer that is served: a planned drain
  waits for it without a deadline. `DrainingEnds` has the premise that no Computer of the host is served
  forever, and fails without it.
- `DiagnosticStream`: the reader of the pipe closes it when the process ends, the relay sends, the
  worker appends and retries, and a broken attachment is replaced while the Session lives.
- `TurnExchange`: every step of worker, guest and runtime that is enabled is taken; nothing is assumed
  of users, of faults, or of authored code (a handler, question or callback may never return).
  `TurnsSettle` and `MessagesSettle` are about Turns that are not forever inside a callback.

`TypeOK` of each module states the domains of its variables. Those of `Session` and `Command` are proved
(section 4); the others hold on the instances of the runs, which spend their time on the properties
above.

Every property of a passing run has a mutant: a variant of one mapped definition, written next to
it, with a plausible bug that makes TLC report that property.

## 4. Proofs

Proved with TLAPS, for every value of the constants, from the assumptions named in the modules
(`TreeAssumption` and `BoundAssumption` of `Session`, `BoundAssumption` of `Command` and of
`WorkerHost`; TLC evaluates them in every run). Next to each theorem is the definition it is about:

| Module | Theorem | States |
|---|---|---|
| `TurnQueueProofs` | `QueueGuarantees` | `TurnQueue`: one Turn runs, and in order |
| `SessionProofs` | `TypeCorrectness` | `Spec => []TypeOK` |
| | `RunningTurnsAreOwned` | `Spec => []RunningTurnOwned` |
| | `SessionImplementsTurnQueue` | `Spec => ImplementsTurnQueue`, the refinement |
| `SessionTheorems` | `FailuresAreHeld` | `Spec => []ConsecutiveFailuresHeld` |
| | `LostWorkReported` | `Spec => []LostWorkIsReported` |
| | `ClosedSettled` | `Spec => []ClosedIsSettled` |
| | `ControlMatchesHolds` | `Spec => []CurrentControlMatchesHolds` |
| | `TurnsRunInOrder` | refinement and `QueueGuarantees` composed |
| `CommandProofs` | `TypeCorrect` | `Spec => []TypeOK` |
| | `Launched1` | `Spec => []LaunchedOnce` |
| | `ResultTrue` | `Spec => []ResultIsTrue` |
| | `ReconciledGone` | `Spec => []ReconciledIsGone` |
| | `SealedQuiet` | `Spec => []SealedIsQuiet` |
| `WorkerHostProofs` | `FencedGone` | `Spec => []FencedIsGone` |
| | `OneVM` | `Spec => []OneVMPerComputer` |
| | `TerminationReadyEmpty` | `Spec => []TerminationReadyIsEmpty` |
| | `ActiveRecovered` | `Spec => []ActiveIsRecovered` |
| | `SlotsHeld` | `Spec => []WithinSlots` |
| | `ReceiptsTrue` | `Spec => []ReceiptsHold` |
| | `HostsOnlyAdvance` | `Spec => HostsAdvance`, an action property |

**Session.** `RunningTurnOwned` alone is not inductive: a step that starts a Turn has to
know that no earlier handler is executing, and a step that ends one has to know what a pending stop
means. `SessionInv` says that every row is `Fine`, that rows not yet
started are empty, and the types. A row is `Fine(r, c)` when

- `Owned`: its running Turn satisfies the property;
- `Ceasing`: a handler that may execute belongs to a live process and, when its Turn no longer runs,
  that process was told to stop or is already stopping or lost. This is what makes "no Turn starts while an earlier handler
  executes" survive interrupts and lost processes;
- `Numbered`: a Turn exists exactly when its number is below `next_turn_seq`, so admission leaves no
  gap;
- `Healthy`: a process that is starting or ready has recorded no failure.

`SessionStepProofs` first proves, for each operator that rewrites a row
(`SettleTurns`, `RecordSessionFailure`, `LoseProcess`, `FinishClose`, ...), that it keeps a row
`Fine` and only `Settles` Turns, and lifts that to functions over all Sessions (recovery gaps, drain,
pressure, lost leases). From these facts it and `SessionProofs` have one lemma per action or group of
alike actions. `SessionProofs` maps a settling step to `TurnQueue`'s `Settle`, treats the four actions
that admit, start or complete a Turn on their own (`AdmitStart`, `Enqueue`, `DispatchRuntimeTurn`,
`RuntimeFinalize`), and combines them. `TurnQueueProofs` is independent of `Session`.

The other four invariants are about what a row records beside its Turns, and need `HoldInv` on top of
`SessionInv`. Of one row it says

- `Unstarted`: a Turn that waits has no process, so that failing it does not reset the count of failures;
- `Counted`, `Reported`, `Cleared`: the part of the properties that concerns the row;
- `Saving`: a save is pending only on the live lease, and a Session held for lost work neither runs a
  Turn nor waits for a save. Without it a lease could be lost with a save that the gap does not cover;

and of the ownership tree that delivered controls agree with the inherited holds (`Matched`) and that
owners close after what they own (`Nested`). Most handlers are `Ordinary` on every row: they supersede the
control when they change holds and keep the count honest. `SessionHoldProofs` shows that for the operators
and keeps `HoldInv` for the handlers of one row and of the callers; `SessionTheorems` treats those that
start or finish a Turn, those of many rows and those that end a lease. The cardinality in
`ConsecutiveFailures` is used only through its monotonicity on subsets of `1..MaxEpochs`.

**Command.** Each of the four invariants compares the row with what guestd retained, and the steps that
could break it are those of a third party that knows only one of the two. `CommandInv` (TLC checks it on
the instance of `commands`) therefore says of each Command, beside the types, what every party may
assume of the others:

- anything that speaks of it (a claim, a task, a cancellation call, a late request) does so while the VM
  of the row's own lease is up (`Spoken`);
- what guestd retains belongs to the row's lease, was launched at most once, and has the outcome and
  boundary of a row that took its result (`GuestFine`);
- a task has seen no more than guestd has done, and only a terminal row is being released (`TaskFine`);
- a reconciled row is one of a past or fenced lease, or its output is settled, guestd released the process
  and no task or claim could attach to it (`Gone`). A late start finds the released execution retained
  and launches nothing: this is where the proof uses the tombstone;
- a sealed guestd belongs to a capture, and a capture begins with every bound Command reconciled
  (`Powered`, `RowFine`).

All of this is about the records of one Command beside the lease and the VM. The lemma `LocalStep` says
that a step which touches the records of one Command and leaves them fine keeps the invariant; most
actions need only the fineness of the records they write. The steps of the lease and the VM touch
all Commands at once and come last.

**WorkerHost.** `FencedIsGone` is not inductive: four handlers record a stop, two of them for processes
that may be dead by then. `HostInv` adds what each relies on: an owner belongs to the working process of its
lease's epoch (`Employed`); a process that recovered left only quarantined VMs, and a machine that is
gone has none (`Absent`); a late recovery report speaks only of leases of earlier epochs, which nobody
owns and whose VMs it names as quarantined (`LateReports`); a late stop report speaks of a lease whose VM
is gone for good, since only a process of that epoch could own it again (`LateStops`). Epochs are kept
apart by `Placed`, `Dated` and `Unseen`: no row, request or other process has the service id of a process that
is starting, so authentication gives it a new epoch. `WorkerHostStepProofs` shows that what every handler
does to rows is a `RowsStep`, in which rows only advance and a lease is fenced only without VM and
owner; it has one lemma per shape a step can have on the machines' side and the steps of a machine's
process, and `WorkerHostProofs` has the remaining actions.

`ActiveIsRecovered`, `WithinSlots` and `ReceiptsHold` speak of several rows of one machine, about which
`HostInv` says nothing. They rest on `Onward`, a summary of what every step does to rows, and three
invariants on top of `HostInv` (TLC checked them on both instances):

- `FleetInv`: a machine has one live row (`Sole`), and all its open leases are of that row (`Cleared`),
  because enrollment requires that no other row has any; the open leases of a ready row are of its
  current epoch (`Renewed`), because activation requires it and a new epoch clears readiness; and the
  open leases of one machine are of one row (`Together`);
- `Bounded`: a row has no more open leases than slots. The step that adds one counts lost leases too; a
  machine's VMs belong to open leases of one row, so they fit in its slots;
- `ReceiptInv`: the host of a receipt still has the claim of the receipt, has finished draining under
  it, or is lost (`Traced`); a completed receipt's machine is gone and its row has no open lease
  (`Retired`), which nothing undoes since a lost host gets no lease.

Only model-checked: the liveness properties (the prover has no support for fairness and `ENABLED`);
`TypeOK` of `WorkerHost` (its types are part of `HostInv`, its bounds are not); and everything about
`TurnExchange`, `ComputerDisk` and `DiagnosticStream`.

## 5. Where code and documentation disagree

- `revoked`: a Secret revoked between the claim of a Command and its delivery turns the bound, never
  launched Command into a reattachment that guestd refuses; the worker takes the refusal as fatal and
  ends the allocation.
- `released`: when the acknowledgement of a Command's end record is lost, control plane and guestd
  wait for each other: the first offers only the release, the second refuses it until it sees the
  acknowledgement. The Computer cannot be captured for the rest of the lease. `claimNext` ranks such
  a Command before pending ones, so later Commands may starve too; that needs two Commands and is
  not shown by a run.

- `cutoff`: a stop that overtakes the runtime's own close of processing. `execute` goes on to report the
  interrupted Turn without waiting for the close, and guestd refuses the report while the close has no
  reply; the error receipts stop the process and count it as failed, although authored code ended in
  time. `TurnsSettle`, `MessagesSettle` and `StopsConverge` therefore admit a failed process.

Seen while modelling, not kept as runs:

- `recordResult` completes a Turn when its save is requested; `concepts/how-helmr-works.md` says it is
  completed only after the disk is saved durably.
- `recordComputerStopped` fences the lease, arming the execution deadline for runnable work, before it
  releases storage-pressure holds; Turns runnable only through that release wait without a deadline.
- A Session still held for one recovery gap is skipped when a later lease is lost, and never learns of
  the second rollback of the shared files.
- Every reattachment brings a new resume control, and until its receipt the guest holds: in that window
  a new message is refused as `turn_closed` and `ask()` or `onMessage()` fails in the program.

## 6. Not modelled

- In `Session`: event logs and content, wake controls, history retention, the resume
  of a hold that was already released and other idempotent retries (they change nothing).
- In `ComputerDisk`: blocks, chunks, quotas, encryption, object uploads in part, integrity faults and
  deletion, the membership of processes in a capture (in `Session` they are fenced or kept whole),
  and a capture that seals without freezing.
- In `Command`: authorization and audit, result pruning, deletion of the Computer, and the second pipe.
- In `TurnExchange`: content of messages and results, output and `respond`, `onCancel` hooks, the loss of
  the process (in `Session`), several questions at once.
- In `DiagnosticStream`: capacity quotas, the two pipes of one process together, release of the spool,
  export.
- In `WorkerHost`: more than one pool (a drained pool stands for a non-primary one), image and boot-seed
  builds, allocations retained for a checkpoint, resource vectors (slots stand for them), capacity
  planning.
- The reservation ledger and the prepared machines of a worker: arithmetic under one mutex. Slack
  delivery and deployment promotion: transactions over rows that no modelled part reads or writes.
- The other parts of the inventory, for the reasons given in `PROJECT.json`. Most of the repository is
  of that kind: generated queries, HTTP and CLI surfaces, image building, the VM and block layer, the
  TypeScript SDK, console and web, and infrastructure. They have no protocol state to check, or it is
  behind an external tool.

## 7. Possible extensions

1. `SlackPosts`, then deployment promotion, each independent of the present modules.
2. `DiagnosticStream` as a refinement of the output of `Command`.
3. Proofs: `AccountIsExact` of `DiagnosticStream`, `DurableWorkKept` of `ComputerDisk`.
