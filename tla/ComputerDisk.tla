---------------------------- MODULE ComputerDisk ----------------------------
(***************************************************************************)
(* The durable state of one Computer: its leases, disk saves, recovery     *)
(* head, hibernation checkpoints and payload retention in PostgreSQL, the  *)
(* machine each lease boots, and the worker's serial save loop that also   *)
(* owns hibernation. A handler of the control plane is one action; where   *)
(* the worker calls one, its reply may be lost after the commit and the    *)
(* worker calls again. Disk contents are sets of Turns, a Turn being named *)
(* by the sequence number of the save its finalization requested.          *)
(***************************************************************************)
EXTENDS Integers, FiniteSets, FiniteSetsExt

CONSTANTS
    MaxTurns,        \* Turns admitted to the Computer
    MaxBackground,   \* saves the worker starts on its own
    MaxCheckpoints,  \* hibernations begun
    MaxFaults        \* crashes, lease expiries, lost replies, failed guest calls

ASSUME DiskBounds ==
    {MaxTurns, MaxBackground, MaxCheckpoints, MaxFaults} \subseteq Nat

MaxSaves == MaxTurns + MaxBackground + MaxCheckpoints

\* Every lease but the first follows a hibernation or a fault.
MaxLeases == 1 + MaxCheckpoints + MaxFaults

Seqs == 1..MaxSaves
Epochs == 1..MaxLeases
Ids == 1..MaxCheckpoints

VARIABLES
    lease,       \* computer_leases, by epoch
    save,        \* computer_saves, by sequence number
    head,        \* computers.recovery_save_id, 0 for the initial image
    checkpoint,  \* checkpoints, in the order they were begun
    machine,     \* the VM of a lease and its guest's capture record
    owner,       \* the worker's allocation owner and its save loop
    turns,       \* the Turns of the Computer
    faults

vars == <<lease, save, head, checkpoint, machine, owner, turns, faults>>

Lease ==
    [status : {"none", "acquiring", "active", "lost"},
     initialized : BOOLEAN, fenced : BOOLEAN,
     base : Seqs \cup {0},       \* restored_from_save_id
     restored : BOOLEAN,         \* boots a checkpoint, not only its disk
     floor : Seqs \cup {0},      \* save_retirement_seq
     released : BOOLEAN]         \* disk_released_at

Save ==
    [status : {"none", "requested", "captured", "published", "superseded", "failed"},
     turn : BOOLEAN, epoch : Epochs \cup {0},
     coverage : Seqs \cup {0},   \* coverage_max_seq
     root : SUBSET Seqs,         \* the contents captured_root_digest names
     retired : BOOLEAN]

Checkpoint ==
    [status : {"none", "capturing", "sealed", "ready", "restoring", "aborting",
               "consumed", "cancelled", "lost"},
     source : Epochs \cup {0}, target : Epochs \cup {0}, save : Seqs \cup {0},
     manifest : BOOLEAN, reconciled : BOOLEAN,
     thawed : SUBSET Epochs]     \* leases whose guest let the image execute

Machine ==
    [up : BOOLEAN, disk : SUBSET Seqs,
     backing : Seqs \cup {0},    \* the saved version its blocks are read from
     capture : Ids \cup {0}, frozen : BOOLEAN, installed : BOOLEAN,
     started : BOOLEAN, activated : BOOLEAN,
     late : Ids \cup {0}]        \* a capture request still on its way

Owner ==
    [phase : {"none", "boot", "idle", "claimed", "cut", "captured", "begin",
              "capture", "inspect", "rejected", "absent", "seal", "snapshot",
              "publish", "reserve", "absence", "bind", "install", "commit",
              "activate", "reconcile", "hibernated", "closed"},
     save : Seqs \cup {0}, cut : SUBSET Seqs, id : Ids \cup {0},
     kept : BOOLEAN,             \* a cut survives the continuation of its source
     uncertain : BOOLEAN,        \* a reservation may have committed
     published : 0..4,           \* steps of a checkpoint's publication
     adopting : Seqs \cup {0}, retire : Seqs \cup {0}]

NoLease == [status |-> "none", initialized |-> FALSE, fenced |-> FALSE, base |-> 0,
            restored |-> FALSE, floor |-> 0, released |-> FALSE]
NoSave == [status |-> "none", turn |-> FALSE, epoch |-> 0, coverage |-> 0,
           root |-> {}, retired |-> FALSE]
NoCheckpoint == [status |-> "none", source |-> 0, target |-> 0, save |-> 0,
                 manifest |-> FALSE, reconciled |-> FALSE, thawed |-> {}]
NoMachine == [up |-> FALSE, disk |-> {}, backing |-> 0, capture |-> 0,
              frozen |-> FALSE, installed |-> FALSE, started |-> FALSE,
              activated |-> FALSE, late |-> 0]
NoOwner == [phase |-> "none", save |-> 0, cut |-> {}, id |-> 0, kept |-> FALSE,
            uncertain |-> FALSE, published |-> 0, adopting |-> 0, retire |-> 0]

Init ==
    /\ lease = [e \in Epochs |-> NoLease]
    /\ save = [s \in Seqs |-> NoSave]
    /\ head = 0
    /\ checkpoint = [c \in Ids |-> NoCheckpoint]
    /\ machine = [e \in Epochs |-> NoMachine]
    /\ owner = [e \in Epochs |-> NoOwner]
    /\ turns = [admitted |-> 0, queued |-> 0, running |-> FALSE]
    /\ faults = 0

TypeOK ==
    /\ lease \in [Epochs -> Lease]
    /\ save \in [Seqs -> Save]
    /\ head \in Seqs \cup {0}
    /\ checkpoint \in [Ids -> Checkpoint]
    /\ machine \in [Epochs -> Machine]
    /\ owner \in [Epochs -> Owner]
    /\ turns \in [admitted : 0..MaxTurns, queued : 0..MaxTurns, running : BOOLEAN]
    /\ faults \in 0..MaxFaults

-----------------------------------------------------------------------------
(* Predicates the handlers share.                                          *)

\* A fault is spent, or none happens.
Faulty(happens) == IF happens THEN faults < MaxFaults /\ faults' = faults + 1
                              ELSE UNCHANGED faults

\* A call whose reply may be lost: the worker moves on only when it arrives.
Replied(reply, e, moved) ==
    /\ owner' = IF reply THEN [owner EXCEPT ![e] = moved] ELSE owner
    /\ Faulty(~reply)

\* (Status "releasing" is written only when the Computer is deleted.)
CurrentLease(e) == lease[e].status = "active" /\ ~lease[e].fenced
Unfenced == {e \in Epochs : lease[e].status # "none" /\ ~lease[e].fenced}
NextEpoch == 1 + Cardinality({e \in Epochs : lease[e].status # "none"})
NextSeq == 1 + Cardinality({s \in Seqs : save[s].status # "none"})

Pending(s) == save[s].status \in {"requested", "captured"}
OfCheckpoint(s) == \E c \in Ids : checkpoint[c].save = s
Contents(s) == IF s = 0 THEN {} ELSE save[s].root

\* DispatchAvailable fails while a checkpoint of the Computer is unfinished.
Sealing(c) ==
    \/ checkpoint[c].status \in {"capturing", "sealed", "ready", "restoring", "aborting"}
    \/ checkpoint[c].status = "consumed" /\ ~checkpoint[c].reconciled
DispatchAvailable == \A c \in Ids : ~Sealing(c)

\* A checkpoint that still needs its disk and the leases it names.
Unfinished(c) ==
    /\ checkpoint[c].status \notin {"none", "cancelled", "lost"}
    /\ ~checkpoint[c].reconciled

\* The guest of e takes commands: it is neither sealed nor frozen.
Executing(e) == machine[e].up /\ ~machine[e].frozen

CheckpointDiskEligible(c) == head = checkpoint[c].save /\ \A s \in Seqs : ~Pending(s)
DiskRecoveryEligible == head # 0 => save[head].status = "published" /\ ~save[head].retired

-----------------------------------------------------------------------------
(* Turns, as far as the disk is concerned.                                 *)

AdmitTurn ==
    /\ turns.admitted < MaxTurns
    /\ turns' = [turns EXCEPT !.admitted = @ + 1, !.queued = @ + 1]
    /\ UNCHANGED <<lease, save, head, checkpoint, machine, owner, faults>>

\* A queued Turn is cancelled, or its Session held: the demand is gone.
WithdrawTurn ==
    /\ turns.queued > 0
    /\ turns' = [turns EXCEPT !.queued = @ - 1]
    /\ UNCHANGED <<lease, save, head, checkpoint, machine, owner, faults>>

\* DispatchRuntimeTurn, taken by a process that can execute.
StartTurn(e) ==
    /\ CurrentLease(e) /\ DispatchAvailable /\ Executing(e)
    /\ turns.queued > 0 /\ ~turns.running
    /\ turns' = [turns EXCEPT !.queued = @ - 1, !.running = TRUE]
    /\ UNCHANGED <<lease, save, head, checkpoint, machine, owner, faults>>

RequestSave(s, e, turn) ==
    [save EXCEPT ![s] = [NoSave EXCEPT !.status = "requested", !.turn = turn, !.epoch = e]]

\* RuntimeFinalize: the Turn's effects are on the disk before it requests a save.
FinishTurn(e) ==
    /\ CurrentLease(e) /\ Executing(e) /\ turns.running
    /\ LET s == NextSeq IN
        /\ save' = RequestSave(s, e, TRUE)
        /\ machine' = [machine EXCEPT ![e].disk = @ \cup {s}]
    /\ turns' = [turns EXCEPT !.running = FALSE]
    /\ UNCHANGED <<lease, head, checkpoint, owner, faults>>

-----------------------------------------------------------------------------
(* Leases.                                                                 *)

InsertLease(e, base, restored) ==
    /\ lease' = [lease EXCEPT ![e] = [NoLease EXCEPT !.status = "acquiring", !.base = base,
                                                     !.restored = restored]]
    /\ UNCHANGED <<save, head, checkpoint, machine, owner, turns, faults>>

AllocateFreshLease(e) ==
    /\ e = NextEpoch /\ Unfenced = {} /\ turns.queued > 0
    /\ head = 0 /\ \A p \in Epochs : ~lease[p].initialized
    /\ InsertLease(e, 0, FALSE)

\* Mutant: an expired lease counts as gone before its machine was fenced.
AllocateRecoveredLease_expired(e) ==
    /\ e = NextEpoch /\ e > 1 /\ turns.queued > 0
    /\ \A p \in Unfenced : lease[p].status = "lost"
    /\ DiskRecoveryEligible /\ DispatchAvailable
    /\ \A s \in Seqs : ~Pending(s)
    /\ InsertLease(e, head, FALSE)

AllocateRecoveredLease(e) ==
    /\ e = NextEpoch /\ e > 1 /\ Unfenced = {} /\ turns.queued > 0
    /\ DiskRecoveryEligible /\ DispatchAvailable
    /\ \A s \in Seqs : ~Pending(s)
    /\ InsertLease(e, head, FALSE)

\* Demand, or a wake an operator asked for, resumes a hibernated Computer.
AllocateRestoredLease(e, c) ==
    /\ e = NextEpoch /\ Unfenced = {}
    /\ checkpoint[c].status \in {"ready", "restoring"} /\ CheckpointDiskEligible(c)
    /\ InsertLease(e, checkpoint[c].save, TRUE)

\* The worker boots a fresh machine over the saved disk.
Boot(e) ==
    /\ lease[e].status = "acquiring" /\ ~lease[e].restored /\ owner[e].phase = "none"
    /\ machine' = [machine EXCEPT ![e] =
          [NoMachine EXCEPT !.up = TRUE, !.disk = Contents(lease[e].base),
                            !.backing = lease[e].base]]
    /\ owner' = [owner EXCEPT ![e].phase = "boot"]
    /\ UNCHANGED <<lease, save, head, checkpoint, turns, faults>>

InitializeLease(e, reply) ==
    /\ owner[e].phase = "boot" /\ lease[e].status \in {"acquiring", "active"}
    /\ lease' = [lease EXCEPT ![e].status = "active", ![e].initialized = TRUE]
    /\ Replied(reply, e, [owner[e] EXCEPT !.phase = "idle"])
    /\ UNCHANGED <<save, head, checkpoint, machine, turns>>

\* The worker loads the memory image over the saved disk, still frozen.
BootCheckpoint(e, c) ==
    /\ lease[e].status = "acquiring" /\ lease[e].restored /\ owner[e].phase = "none"
    /\ checkpoint[c].status \in {"ready", "restoring"} /\ checkpoint[c].save = lease[e].base
    /\ machine' = [machine EXCEPT ![e] =
          [NoMachine EXCEPT !.up = TRUE, !.disk = Contents(lease[e].base),
                            !.backing = lease[e].base, !.capture = c, !.frozen = TRUE]]
    /\ owner' = [owner EXCEPT ![e].phase = "bind", ![e].id = c]
    /\ UNCHANGED <<lease, save, head, checkpoint, turns, faults>>

\* What every loss of a lease does: its saves and its running Turn are given up.
SettleLostSaves(e) == [s \in Seqs |-> IF save[s].epoch = e /\ Pending(s)
                                      THEN [save[s] EXCEPT !.status = "failed"] ELSE save[s]]

\* The deadline passes while the machine may still be up.
ExpireLease(e) ==
    /\ lease[e].status \in {"acquiring", "active"}
    /\ lease' = [lease EXCEPT ![e].status = "lost"]
    /\ save' = SettleLostSaves(e)
    /\ turns' = [turns EXCEPT !.running = FALSE]
    /\ Faulty(TRUE)
    /\ UNCHANGED <<head, checkpoint, machine, owner>>

\* The machine ends: after a hibernation, once renewal is refused, or by a fault.
Close(e) ==
    /\ lease[e].status # "none" /\ owner[e].phase # "closed"
    /\ machine' = [machine EXCEPT ![e].up = FALSE, ![e].late = 0]
    /\ owner' = [owner EXCEPT ![e] = [NoOwner EXCEPT !.phase = "closed"]]
    /\ Faulty(lease[e].status # "lost" /\ owner[e].phase # "hibernated")
    /\ UNCHANGED <<lease, save, head, checkpoint, turns>>

\* Mutant: a checkpoint already consumed is not given up.
LoseLeaseCheckpoints_unconsumed(e) ==
    [c \in Ids |->
        IF /\ e = IF checkpoint[c].target # 0 THEN checkpoint[c].target ELSE checkpoint[c].source
           /\ checkpoint[c].status \in {"capturing", "sealed", "aborting"}
        THEN [checkpoint[c] EXCEPT !.status = "lost"] ELSE checkpoint[c]]

LoseLeaseCheckpoints(e) ==
    [c \in Ids |->
        IF /\ e = IF checkpoint[c].target # 0 THEN checkpoint[c].target ELSE checkpoint[c].source
           /\ checkpoint[c].status \in {"capturing", "sealed", "aborting", "consumed"}
           /\ ~checkpoint[c].reconciled
        THEN [checkpoint[c] EXCEPT !.status = "lost"] ELSE checkpoint[c]]

\* The checkpoint lease e was restored from, as the stop report may name it.
BoundToRestore(e, c) ==
    /\ lease[e].restored /\ checkpoint[c].save = lease[e].base
    /\ \/ checkpoint[c].status \in {"ready", "restoring"}
       \/ checkpoint[c].status = "consumed" /\ checkpoint[c].target = e
    /\ checkpoint[c].source < e /\ checkpoint[c].target <= e

\* recordComputerStopped: the stop was observed, so no writer is left. The report
\* names the checkpoint when its image proved unusable.
RecordComputerStopped(e, invalid) ==
    /\ owner[e].phase = "closed" /\ ~lease[e].fenced
    /\ invalid # 0 => BoundToRestore(e, invalid)
    /\ lease' = [lease EXCEPT ![e].status = "lost", ![e].fenced = TRUE]
    /\ save' = SettleLostSaves(e)
    /\ turns' = IF lease[e].status = "active" THEN [turns EXCEPT !.running = FALSE] ELSE turns
    /\ checkpoint' = [c \in Ids |-> IF c = invalid THEN [checkpoint[c] EXCEPT !.status = "lost"]
                                                   ELSE LoseLeaseCheckpoints(e)[c]]
    /\ Faulty(invalid # 0)
    /\ UNCHANGED <<head, machine, owner>>

-----------------------------------------------------------------------------
(* Saves: the worker claims the oldest one, cuts the disk, records the cut *)
(* and publishes it.                                                       *)

PendingOf(e) == {s \in Seqs : save[s].epoch = e /\ Pending(s)}

\* The saves a cut taken from now on covers, up to the next checkpoint's save.
Coverage(e, s) ==
    LET barriers == {b \in Seqs : b > s /\ OfCheckpoint(b)}
    IN  Max({t \in PendingOf(e) : t >= s /\ \A b \in barriers : t < b})

\* advanceSaveRetirement: what the machine no longer reads may be retired.
Retired(e) == [lease EXCEPT ![e].floor = IF owner[e].retire > @ THEN owner[e].retire ELSE @]

Claimed(e, s) == [owner[e] EXCEPT !.phase = "claimed", !.save = s, !.retire = 0]

\* NextSave: retirement is recorded and the oldest save of the lease claimed.
NextSave(e, reply) ==
    /\ CurrentLease(e) /\ owner[e].phase = "idle"
    /\ PendingOf(e) # {}
    /\ LET s == Min(PendingOf(e)) IN
           /\ ~OfCheckpoint(s)
           /\ save' = IF save[s].coverage = 0
                      THEN [save EXCEPT ![s].coverage = Coverage(e, s)] ELSE save
           /\ Replied(reply, e, Claimed(e, s))
    /\ lease' = Retired(e)
    /\ UNCHANGED <<head, checkpoint, machine, turns>>

\* NextSave with no Turn waiting: the worker's own reasons start a save.
NextBackgroundSave(e, reply) ==
    /\ CurrentLease(e) /\ owner[e].phase = "idle"
    /\ PendingOf(e) = {} /\ DispatchAvailable
    /\ Cardinality({s \in Seqs : save[s].status # "none" /\ ~save[s].turn /\ ~OfCheckpoint(s)}) < MaxBackground
    /\ LET s == NextSeq IN
        /\ save' = [RequestSave(s, e, FALSE) EXCEPT ![s].coverage = s]
        /\ Replied(reply, e, Claimed(e, s))
    /\ lease' = Retired(e)
    /\ UNCHANGED <<head, checkpoint, machine, turns>>

\* NextSave with nothing to do still records the retirement.
RetireVersions(e, reply) ==
    /\ CurrentLease(e) /\ owner[e].phase = "idle" /\ owner[e].retire # 0
    /\ PendingOf(e) = {}
    /\ lease' = Retired(e)
    /\ Replied(reply, e, [owner[e] EXCEPT !.retire = 0])
    /\ UNCHANGED <<save, head, checkpoint, machine, turns>>

\* captureComputerSave flushes the guest and cuts its disk.
CutDisk(e) ==
    /\ machine[e].up /\ owner[e].phase = "claimed"
    /\ owner' = [owner EXCEPT ![e].phase = "cut", ![e].cut = machine[e].disk]
    /\ UNCHANGED <<lease, save, head, checkpoint, machine, turns, faults>>

\* RecordCapture accepts a claimed save's cut, once, in order.
RecordCapture(s, root) ==
    \/ /\ save[s].status = "requested"
       /\ save[s].coverage # 0 \/ OfCheckpoint(s)
       /\ \A t \in Seqs : t < s => save[t].status # "requested"
       /\ save' = [save EXCEPT ![s].status = "captured", ![s].root = root]
    \/ /\ save[s].status \in {"captured", "published"} /\ save[s].root = root
       /\ UNCHANGED save

CaptureSave(e, reply) ==
    /\ CurrentLease(e) /\ owner[e].phase = "cut"
    /\ RecordCapture(owner[e].save, owner[e].cut)
    /\ Replied(reply, e, [owner[e] EXCEPT !.phase = "captured"])
    /\ UNCHANGED <<lease, head, checkpoint, machine, turns>>

\* Mutant: what is covered is decided at publication, not before the cut.
Publish_lateCoverage(s, root) ==
    \/ /\ save[s].status = "captured" /\ save[s].root = root
       /\ save' = [t \in Seqs |->
             IF t = s THEN [save[s] EXCEPT !.status = "published"]
             ELSE IF t > s /\ Pending(t) /\ save[t].epoch = save[s].epoch /\ ~OfCheckpoint(t)
             THEN [save[t] EXCEPT !.status = "superseded"]
             ELSE save[t]]
       /\ head' = IF s > head THEN s ELSE head
    \/ /\ save[s].status = "published" /\ save[s].root = root
       /\ UNCHANGED <<save, head>>

\* Publish settles the save and those its cut covers, and advances the head.
Publish(s, root) ==
    \/ /\ save[s].status = "captured" /\ save[s].root = root
       /\ save' = [t \in Seqs |->
             IF t = s THEN [save[s] EXCEPT !.status = "published"]
             ELSE IF t > s /\ t <= save[s].coverage /\ Pending(t)
                     /\ save[t].epoch = save[s].epoch /\ ~OfCheckpoint(t)
             THEN [save[t] EXCEPT !.status = "superseded"]
             ELSE save[t]]
       /\ head' = IF s > head THEN s ELSE head
    \/ /\ save[s].status = "published" /\ save[s].root = root
       /\ UNCHANGED <<save, head>>

\* Mutant: older versions are given up before the machine stopped reading them.
PublishSave_retires(e, reply) ==
    /\ CurrentLease(e) /\ owner[e].phase = "captured"
    /\ Publish(owner[e].save, owner[e].cut)
    /\ Replied(reply, e, [owner[e] EXCEPT !.phase = "idle", !.save = 0, !.cut = {},
                                          !.adopting = owner[e].save, !.retire = owner[e].save])
    /\ UNCHANGED <<lease, checkpoint, machine, turns>>

PublishSave(e, reply) ==
    /\ CurrentLease(e) /\ owner[e].phase = "captured"
    /\ Publish(owner[e].save, owner[e].cut)
    /\ Replied(reply, e, [owner[e] EXCEPT !.phase = "idle", !.save = 0, !.cut = {},
                                          !.adopting = owner[e].save])
    /\ UNCHANGED <<lease, checkpoint, machine, turns>>

\* maintain: the machine reads unchanged blocks from the published version.
Adopt(e) ==
    /\ machine[e].up /\ owner[e].phase = "idle" /\ owner[e].adopting # 0
    /\ machine' = [machine EXCEPT ![e].backing = owner[e].adopting]
    /\ owner' = [owner EXCEPT ![e].retire = owner[e].adopting, ![e].adopting = 0]
    /\ UNCHANGED <<lease, save, head, checkpoint, turns, faults>>

-----------------------------------------------------------------------------
(* Retention.                                                              *)

\* retirableSave: nothing that may still be read from needs the payload. (A
\* save is requested when its Turn is completed, so no running Turn has one.)
Retirable(s) ==
    LET e == save[s].epoch IN
    /\ save[s].status \in {"published", "superseded", "failed"} /\ ~save[s].retired
    /\ \/ lease[e].fenced
       \/ s < lease[e].floor /\ \A t \in PendingOf(e) : t > s
    /\ s # head
    /\ \A b \in Epochs : lease[b].status # "none" /\ lease[b].base = s => lease[b].released
    /\ \A c \in Ids : checkpoint[c].save = s => ~Unfinished(c)

RetireSave(s) ==
    /\ Retirable(s)
    /\ save' = [save EXCEPT ![s].retired = TRUE]
    /\ UNCHANGED <<lease, head, checkpoint, machine, owner, turns, faults>>

ReleaseLeaseDisk(e) ==
    /\ lease[e].fenced /\ ~lease[e].released
    /\ PendingOf(e) = {}
    /\ \A c \in Ids : e \in {checkpoint[c].source, checkpoint[c].target} => ~Unfinished(c)
    /\ lease' = [lease EXCEPT ![e].released = TRUE]
    /\ UNCHANGED <<save, head, checkpoint, machine, owner, turns, faults>>

-----------------------------------------------------------------------------
(* Hibernation: the guest is sealed and frozen, its memory and disk are    *)
(* snapshot, and the checkpoint is published. Until then, and after it     *)
(* while the source is retained, new demand continues the source instead.  *)

\* BeginComputerCapture, while the Computer has no work of any kind.
BeginComputerCapture(e, c, reply) ==
    /\ CurrentLease(e) /\ owner[e].phase = "idle" /\ owner[e].adopting = 0
    /\ c = 1 + Cardinality({d \in Ids : checkpoint[d].status # "none"})
    /\ DispatchAvailable /\ turns.queued = 0 /\ ~turns.running
    /\ \A s \in Seqs : ~Pending(s)
    /\ LET s == NextSeq IN
        /\ save' = RequestSave(s, e, FALSE)
        /\ checkpoint' = [checkpoint EXCEPT ![c] =
              [NoCheckpoint EXCEPT !.status = "capturing", !.source = e, !.save = s]]
    /\ owner' = [owner EXCEPT ![e].phase = IF reply THEN "capture" ELSE "begin", ![e].id = c]
    /\ Faulty(~reply)
    /\ UNCHANGED <<lease, head, machine, turns>>

\* A repeated BeginComputerCapture returns the capture it began.
BeginAgain(e, reply) ==
    /\ CurrentLease(e) /\ owner[e].phase = "begin"
    /\ checkpoint[owner[e].id].status = "capturing"
    /\ Replied(reply, e, [owner[e] EXCEPT !.phase = "capture"])
    /\ UNCHANGED <<lease, save, head, checkpoint, machine, turns>>

\* sealAgentComputerCapture: the guest stops taking commands and freezes.
Seals(e, c) == [machine EXCEPT ![e].capture = c, ![e].frozen = TRUE, ![e].installed = FALSE,
                               ![e].started = FALSE, ![e].activated = FALSE, ![e].late = 0]
MaySeal(e) == machine[e].up /\ (machine[e].capture = 0 \/ machine[e].activated)

\* The guest seals and the receipt arrives, or is lost; it refuses; or the
\* request is still under way when the worker stops waiting for it.
CaptureGuest(e, outcome) ==
    /\ owner[e].phase = "capture" /\ machine[e].up
    /\ \/ outcome \in {"sealed", "unheard"} /\ MaySeal(e) /\ machine' = Seals(e, owner[e].id)
       \/ outcome = "refused" /\ UNCHANGED machine
       \/ outcome = "late" /\ machine' = [machine EXCEPT ![e].late = owner[e].id]
    /\ owner' = [owner EXCEPT ![e].phase = CASE outcome = "sealed" -> "seal"
                                             [] outcome = "refused" -> "rejected"
                                             [] OTHER -> "inspect"]
    /\ Faulty(outcome # "sealed")
    /\ UNCHANGED <<lease, save, head, checkpoint, turns>>

\* A delayed request reaches the guest before its admission expires.
LateCapture(e) ==
    /\ machine[e].late # 0 /\ MaySeal(e)
    /\ machine' = Seals(e, machine[e].late)
    /\ UNCHANGED <<lease, save, head, checkpoint, owner, turns, faults>>

\* The admission deadline of the request passes on the guest's clock.
ExpireAdmission(e) ==
    /\ machine[e].late # 0
    /\ machine' = [machine EXCEPT ![e].late = 0]
    /\ UNCHANGED <<lease, save, head, checkpoint, owner, turns, faults>>

\* Mutant: absence is believed while the request may still arrive.
InspectGuest_early(e) ==
    /\ owner[e].phase = "inspect" /\ machine[e].up
    /\ owner' = [owner EXCEPT ![e].phase =
          IF machine[e].capture = owner[e].id THEN "reserve" ELSE "absent"]
    /\ UNCHANGED <<lease, save, head, checkpoint, machine, turns, faults>>

\* abortUncutCheckpoint inspects the guest: sealed after all, or provably never.
InspectGuest(e) ==
    /\ owner[e].phase = "inspect" /\ machine[e].up
    /\ \/ /\ machine[e].capture = owner[e].id
          /\ owner' = [owner EXCEPT ![e].phase = "reserve"]
       \/ /\ machine[e].capture # owner[e].id /\ machine[e].late = 0
          /\ owner' = [owner EXCEPT ![e].phase = "absent"]
    /\ UNCHANGED <<lease, save, head, checkpoint, machine, turns, faults>>

CancelUnsealedComputerCapture(e, reply) ==
    LET c == owner[e].id IN
    /\ CurrentLease(e) /\ owner[e].phase \in {"rejected", "absent"}
    /\ \/ /\ checkpoint[c].status = "capturing" /\ save[checkpoint[c].save].status = "requested"
          /\ checkpoint' = [checkpoint EXCEPT ![c].status = "cancelled"]
          /\ save' = [save EXCEPT ![checkpoint[c].save].status = "failed"]
       \/ checkpoint[c].status = "cancelled" /\ UNCHANGED <<checkpoint, save>>
    /\ Replied(reply, e, [owner[e] EXCEPT !.phase = "idle", !.id = 0])
    /\ UNCHANGED <<lease, head, machine, turns>>

\* RecordComputerSealed refuses once work arrived; the source then continues.
RecordComputerSealed(e, reply) ==
    LET c == owner[e].id IN
    /\ CurrentLease(e) /\ owner[e].phase = "seal"
    /\ \/ /\ checkpoint[c].status = "capturing" /\ turns.queued = 0
          /\ checkpoint' = [checkpoint EXCEPT ![c].status = "sealed"]
          /\ Replied(reply, e, [owner[e] EXCEPT !.phase = "snapshot"])
       \/ /\ checkpoint[c].status = "capturing" /\ turns.queued > 0
          /\ Replied(reply, e, [owner[e] EXCEPT !.phase = "reserve"])
          /\ UNCHANGED checkpoint
       \/ /\ checkpoint[c].status = "sealed"
          /\ Replied(reply, e, [owner[e] EXCEPT !.phase = "snapshot"])
          /\ UNCHANGED checkpoint
    /\ UNCHANGED <<lease, save, head, machine, turns>>

\* One pause of the machine yields the memory image and the disk cut.
Snapshot(e, succeeds) ==
    LET c == owner[e].id IN
    /\ owner[e].phase = "snapshot" /\ machine[e].up
    /\ IF succeeds
       THEN owner' = [owner EXCEPT ![e].phase = "publish", ![e].save = checkpoint[c].save,
                                   ![e].cut = machine[e].disk, ![e].published = 0]
       ELSE owner' = [owner EXCEPT ![e].phase = "reserve"]
    /\ Faulty(~succeeds)
    /\ UNCHANGED <<lease, save, head, checkpoint, machine, turns>>

\* checkpointPublication: the disk cut is recorded and published, then the
\* manifest registered, then the checkpoint completed as ready.
PublishCheckpoint(e, reply) ==
    LET c == owner[e].id
        s == checkpoint[c].save
    IN
    /\ CurrentLease(e) /\ owner[e].phase = "publish"
    /\ \/ /\ owner[e].published = 0
          /\ RecordCapture(s, owner[e].cut) /\ UNCHANGED <<head, checkpoint>>
       \/ /\ owner[e].published = 1
          /\ Publish(s, owner[e].cut) /\ UNCHANGED checkpoint
       \/ /\ owner[e].published = 2 /\ checkpoint[c].status = "sealed"
          /\ checkpoint' = [checkpoint EXCEPT ![c].manifest = TRUE] /\ UNCHANGED <<save, head>>
       \/ /\ owner[e].published = 3
          /\ \/ /\ checkpoint[c].status = "sealed" /\ checkpoint[c].manifest
                /\ save[s].status = "published" /\ head = s
                /\ checkpoint' = [checkpoint EXCEPT ![c].status = "ready"]
             \/ checkpoint[c].status = "ready" /\ UNCHANGED checkpoint
          /\ UNCHANGED <<save, head>>
    /\ Replied(reply, e, [owner[e] EXCEPT !.published = @ + 1])
    /\ UNCHANGED <<lease, machine, turns>>

\* With the checkpoint ready the worker may let its source go.
Hibernate(e) ==
    /\ owner[e].phase = "publish" /\ owner[e].published = 4 /\ ~owner[e].uncertain
    /\ owner' = [owner EXCEPT ![e].phase = "hibernated"]
    /\ UNCHANGED <<lease, save, head, checkpoint, machine, turns, faults>>

-----------------------------------------------------------------------------
(* Continuation, on the source that was captured or on a restored machine: *)
(* bind the checkpoint to this lease, install the new authority in the     *)
(* guest, consume the checkpoint, let the guest execute, open dispatch.    *)

\* ValidateComputerSourceAbort: the source is reserved to continue, so the
\* checkpoint can never be restored. A cut already taken is kept as a save.
\* (Refusals for lack of capacity are left out.)
ReserveSource(e, reply) ==
    LET c == owner[e].id
        cut == owner[e].phase = "publish"
    IN
    /\ CurrentLease(e) /\ machine[e].up /\ ~machine[e].installed
    /\ \/ owner[e].phase = "reserve"
       \/ cut /\ (turns.queued > 0 \/ owner[e].uncertain)
    /\ \/ checkpoint[c].status \in {"capturing", "sealed", "aborting"}
       \/ checkpoint[c].status = "ready" /\ turns.queued > 0
    /\ checkpoint' = [checkpoint EXCEPT ![c].status = "aborting"]
    /\ owner' = [owner EXCEPT ![e] =
          IF reply THEN [@ EXCEPT !.phase = IF cut THEN "install" ELSE "absence", !.kept = cut]
                   ELSE [@ EXCEPT !.uncertain = TRUE]]
    /\ Faulty(~reply)
    /\ UNCHANGED <<lease, save, head, machine, turns>>

\* Mutant: the save of a capture without a cut stays requested.
RecordCheckpointSaveAbsence_forgets(e, reply) ==
    /\ CurrentLease(e) /\ owner[e].phase = "absence"
    /\ Replied(reply, e, [owner[e] EXCEPT !.phase = "install"])
    /\ UNCHANGED <<lease, save, head, checkpoint, machine, turns>>

\* RecordCheckpointSaveAbsence: no cut exists, so the save fails.
RecordCheckpointSaveAbsence(e, reply) ==
    LET s == checkpoint[owner[e].id].save IN
    /\ CurrentLease(e) /\ owner[e].phase = "absence"
    /\ save[s].status \in {"requested", "failed"}
    /\ save' = [save EXCEPT ![s].status = "failed"]
    /\ Replied(reply, e, [owner[e] EXCEPT !.phase = "install"])
    /\ UNCHANGED <<lease, head, checkpoint, machine, turns>>

\* PrepareComputerRestore binds the checkpoint to the newest lease.
PrepareComputerRestore(e, reply) ==
    LET c == owner[e].id IN
    /\ lease[e].status = "acquiring" /\ owner[e].phase = "bind"
    /\ checkpoint[c].status \in {"ready", "restoring"} /\ CheckpointDiskEligible(c)
    /\ lease[checkpoint[c].source].fenced
    /\ checkpoint[c].target \notin {0, e} => lease[checkpoint[c].target].fenced
    /\ checkpoint' = [checkpoint EXCEPT ![c].status = "restoring", ![c].target = e]
    /\ Replied(reply, e, [owner[e] EXCEPT !.phase = "install"])
    /\ UNCHANGED <<lease, save, head, machine, turns>>

\* installAgentComputer: the guest takes the grants of this lease, still frozen.
InstallGuest(e, reply) ==
    /\ owner[e].phase = "install" /\ machine[e].up
    /\ machine[e].capture = owner[e].id /\ machine[e].frozen
    /\ machine' = [machine EXCEPT ![e].installed = TRUE]
    /\ Replied(reply, e, [owner[e] EXCEPT !.phase = "commit"])
    /\ UNCHANGED <<lease, save, head, checkpoint, turns>>

\* The lease whose guest may continue checkpoint c.
ContinuesOn(c, e) ==
    IF checkpoint[c].source = e
    THEN CurrentLease(e) /\ checkpoint[c].status \in {"aborting", "consumed"}
    ELSE /\ lease[e].status = "acquiring" /\ checkpoint[c].target = e
         /\ checkpoint[c].status \in {"restoring", "consumed"}

\* Mutant: the checkpoint is consumed only when the continuation completes.
CommitContinuation_unconsumed(e, reply) ==
    /\ owner[e].phase = "commit" /\ machine[e].installed /\ ContinuesOn(owner[e].id, e)
    /\ Replied(reply, e, [owner[e] EXCEPT !.phase = "activate"])
    /\ UNCHANGED <<lease, save, head, checkpoint, machine, turns>>

\* CommitComputerSourceAbort and CommitComputerRestore precede any execution.
CommitContinuation(e, reply) ==
    LET c == owner[e].id IN
    /\ owner[e].phase = "commit" /\ machine[e].installed /\ ContinuesOn(c, e)
    /\ checkpoint' = [checkpoint EXCEPT ![c].status = "consumed"]
    /\ Replied(reply, e, [owner[e] EXCEPT !.phase = "activate"])
    /\ UNCHANGED <<lease, save, head, machine, turns>>

\* activateAgentComputer: started is latched before any member executes; a
\* failure freezes the members again and the same guest is asked again.
ActivateGuest(e, succeeds) ==
    LET c == owner[e].id IN
    /\ owner[e].phase = "activate" /\ machine[e].up /\ machine[e].installed
    /\ machine' = [machine EXCEPT ![e].started = TRUE, ![e].activated = succeeds,
                                  ![e].frozen = ~succeeds]
    /\ checkpoint' = [checkpoint EXCEPT ![c].thawed = @ \cup {e}]
    /\ owner' = IF succeeds THEN [owner EXCEPT ![e].phase = "reconcile"] ELSE owner
    /\ Faulty(~succeeds)
    /\ UNCHANGED <<lease, save, head, turns>>

\* CompleteComputerSourceAbort and CompleteComputerRestore: the controls are
\* reconciled, dispatch opens again and a restored lease becomes active. The
\* save loop goes on with the cut it kept.
CompleteContinuation(e, reply) ==
    LET c == owner[e].id
        open == [owner[e] EXCEPT !.id = 0, !.kept = FALSE, !.uncertain = FALSE, !.published = 0]
    IN
    /\ owner[e].phase = "reconcile" /\ machine[e].activated
    /\ \/ ContinuesOn(c, e)
       \/ CurrentLease(e) /\ checkpoint[c].target = e /\ checkpoint[c].reconciled
    /\ checkpoint[c].status = "consumed"
    /\ checkpoint' = [checkpoint EXCEPT ![c].reconciled = TRUE]
    /\ lease' = [lease EXCEPT ![e].status = "active", ![e].initialized = TRUE]
    /\ Replied(reply, e,
          IF owner[e].kept
          THEN [open EXCEPT !.phase = IF owner[e].published = 0 THEN "cut" ELSE "captured"]
          ELSE [open EXCEPT !.phase = "idle", !.save = 0, !.cut = {}])
    /\ UNCHANGED <<save, head, machine, turns>>

-----------------------------------------------------------------------------

\* The calls the worker makes for lease e, with or without their reply.
WorkerCall(e, reply) ==
    \/ InitializeLease(e, reply)
    \/ NextSave(e, reply) \/ RetireVersions(e, reply)
    \/ CaptureSave(e, reply) \/ PublishSave(e, reply)
    \/ BeginAgain(e, reply) \/ CancelUnsealedComputerCapture(e, reply) \/ RecordComputerSealed(e, reply)
    \/ PublishCheckpoint(e, reply)
    \/ ReserveSource(e, reply) \/ RecordCheckpointSaveAbsence(e, reply)
    \/ PrepareComputerRestore(e, reply) \/ InstallGuest(e, reply)
    \/ CommitContinuation(e, reply) \/ CompleteContinuation(e, reply)

\* What the worker decides for itself, and never has to.
WorkerChoice(e, reply) ==
    \/ NextBackgroundSave(e, reply)
    \/ \E c \in Ids : BeginComputerCapture(e, c, reply)

\* What happens inside the worker's host.
HostStep(e) ==
    \/ Boot(e) \/ (\E c \in Ids : BootCheckpoint(e, c))
    \/ CutDisk(e) \/ Adopt(e)
    \/ CaptureGuest(e, "sealed") \/ InspectGuest(e) \/ ExpireAdmission(e)
    \/ Snapshot(e, TRUE) \/ ActivateGuest(e, TRUE)

HostFault(e) ==
    \/ \E outcome \in {"unheard", "refused", "late"} : CaptureGuest(e, outcome)
    \/ LateCapture(e) \/ Snapshot(e, FALSE) \/ ActivateGuest(e, FALSE)

\* The dispatcher's loops.
Dispatcher(e) ==
    \/ AllocateFreshLease(e) \/ AllocateRecoveredLease(e)
    \/ \E c \in Ids : AllocateRestoredLease(e, c)

Stop(e) == Close(e) /\ (lease[e].status = "lost" \/ owner[e].phase = "hibernated")

Next ==
    \/ AdmitTurn \/ WithdrawTurn
    \/ \E s \in Seqs : RetireSave(s)
    \/ \E e \in Epochs :
        \/ StartTurn(e) \/ FinishTurn(e)
        \/ Dispatcher(e) \/ HostStep(e) \/ HostFault(e) \/ Hibernate(e)
        \/ ExpireLease(e) \/ Close(e) \/ ReleaseLeaseDisk(e)
        \/ \E invalid \in Ids \cup {0} : RecordComputerStopped(e, invalid)
        \/ \E reply \in BOOLEAN : WorkerCall(e, reply) \/ WorkerChoice(e, reply)

Spec == Init /\ [][Next]_vars

\* The worker retries its calls and serves its host, a lost or hibernated
\* machine is stopped and the stop reported, the dispatcher's loops run, and
\* a process that can execute takes its Turn and ends it.
Fairness ==
    /\ \A e \in Epochs :
        /\ WF_vars(WorkerCall(e, TRUE)) /\ WF_vars(HostStep(e))
        /\ WF_vars(Stop(e)) /\ WF_vars(RecordComputerStopped(e, 0))
        /\ WF_vars(StartTurn(e)) /\ WF_vars(FinishTurn(e))
    /\ WF_vars(\E e \in Epochs : Dispatcher(e))

LiveSpec == Spec /\ Fairness

-----------------------------------------------------------------------------

\* Work the control plane has reported as saved.
Durable == {s \in Seqs : save[s].turn /\ save[s].status \in {"published", "superseded"}}

\* Publish may settle a whole prefix of Turn saves with one cut, and the head
\* moves only forward: the recovery head, and every machine that executes, have
\* the work of every Turn whose save was published or superseded.
DurableWorkKept ==
    /\ Durable \subseteq Contents(head)
    /\ \A e \in Epochs : Executing(e) => Durable \subseteq machine[e].disk

\* Retention releases no payload that may be read again: not the recovery head,
\* not the version a running machine reads its blocks from, and not the disk of a
\* lease being booted or of a checkpoint that may be restored.
CustodyKept ==
    \A s \in Seqs : save[s].retired =>
        /\ s # head
        /\ \A e \in Epochs : /\ machine[e].up => machine[e].backing # s
                             /\ lease[e].status = "acquiring" => lease[e].base # s
        /\ \A c \in Ids : checkpoint[c].status \in {"sealed", "ready", "restoring"} =>
              checkpoint[c].save # s

\* The allocations all wait for the previous lease to be fenced, and a lease is
\* fenced only once its machine ended: two machines of a Computer never execute.
OneMachineExecutes ==
    \A d, e \in Epochs : Executing(d) /\ Executing(e) => d = e

\* Activation is latched and the checkpoint consumed before any member executes:
\* one memory image continues on at most one lease, its source or one target.
ImageThawedOnce ==
    \A c \in Ids : \A d, e \in checkpoint[c].thawed : d = e

\* While the database would dispatch a Turn to a lease, its guest is neither
\* sealed nor about to be by a delayed capture request.
DispatchReachesGuest ==
    \A e \in Epochs : CurrentLease(e) /\ machine[e].up /\ DispatchAvailable =>
        ~machine[e].frozen /\ machine[e].late = 0

\* Every requested save is eventually published, superseded or failed.
SavesSettle == \A s \in Seqs : Pending(s) ~> ~Pending(s)

\* Queued work eventually runs or is withdrawn, through any hibernation,
\* continuation, restore and loss of a machine.
DemandIsServed == turns.queued > 0 ~> (turns.running \/ turns.queued = 0)
=============================================================================
