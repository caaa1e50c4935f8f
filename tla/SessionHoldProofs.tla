------------------------ MODULE SessionHoldProofs --------------------------
(***************************************************************************)
(* What Session records beside its Turns: failures, holds, saves, gaps and *)
(* the control a process was given; HoldInv says how they agree.           *)
(* Ordinary(r, q) is all that a handler may do to one row unless it closes *)
(* the Session, places an interrupt or a recovery gap, or starts or        *)
(* finishes a Turn. Ordinary handlers keep HoldInv; each of the others is  *)
(* treated by itself. This module has the handlers of one row and those of *)
(* the caller.                                                             *)
(***************************************************************************)
EXTENDS SessionStepProofs

USE BoundAssumption

\* A Turn that waits has no process.
Unstarted(r) == \A n \in TurnIds : r.turn[n].status = "queued" => r.turn[n].process_epoch = 0

\* The part of ConsecutiveFailuresHeld that concerns one row.
Counted(r) ==
    Accepting(r) /\ ConsecutiveFailures(r) >= processFailureHoldThreshold => "process_failed" \in r.holds

\* The part of LostWorkIsReported that concerns one row.
Reported(r) ==
    Accepting(r) => \A n \in TurnIds :
        r.turn[n].status = "completed" /\ r.turn[n].save = "failed" => r.turn[n].save_lease \in r.gaps

\* The part of ClosedIsSettled that concerns one row; a Session that was not
\* started is not interrupted.
Cleared(r) ==
    /\ r.status = "closed" => Unsettled(r) = {} /\ r.interrupts = 0 /\ r.holds = {}
    /\ r.status = "none" => r.interrupts = 0

Ledger(r) == Unstarted(r) /\ Counted(r) /\ Reported(r) /\ Cleared(r)

\* A save is pending only on the live lease, and a Session held for lost work
\* neither runs a Turn nor waits for a save.
Saving(r, c) ==
    /\ \A n \in TurnIds : r.turn[n].save = "requested" =>
          /\ r.turn[n].status = "completed"
          /\ r.turn[n].save_lease = c.lease.epoch /\ LeaseLive(c)
          /\ "recovery_gap" \notin r.holds
    /\ "recovery_gap" \in r.holds => Running(r) = {}

\* What a handler may do to the Turns unless it starts or finishes one: only
\* a Turn that never started fails without its harness.
SameWork(r, q) ==
    \A n \in TurnIds :
        /\ q.turn[n].save = r.turn[n].save /\ q.turn[n].save_lease = r.turn[n].save_lease
        /\ q.turn[n].process_epoch = r.turn[n].process_epoch
        /\ \/ q.turn[n].status = r.turn[n].status
           \/ r.turn[n].status \in {"queued", "running"} /\ q.turn[n].status \in {"interrupted", "cancelled"}
           \/ r.turn[n].status = "queued" /\ q.turn[n].status = "failed"

\* The delivered control may only be superseded.
SameControl(r, q) ==
    q.process.current => r.process.current /\ q.process.control_kind = r.process.control_kind

SameHolds(r, q) == q.holds = r.holds /\ q.failures = r.failures

SameRecord(r, q) == q.status = r.status /\ q.interrupts = r.interrupts /\ q.gaps = r.gaps

\* Nothing recorded changes.
Plain(r, q) == SameRecord(r, q) /\ SameHolds(r, q) /\ SameWork(r, q) /\ SameControl(r, q)

\* Holds may change if the delivered control is superseded and the count of
\* failures stays honest.
Ordinary(r, q) ==
    /\ SameRecord(r, q) /\ SameWork(r, q) /\ SameControl(r, q)
    /\ q.process.current => q.holds = r.holds
    /\ "recovery_gap" \in q.holds => "recovery_gap" \in r.holds
    /\ r.status = "closed" => q.holds \subseteq r.holds
    /\ Unstarted(r) /\ Counted(r) => Counted(q)

\* A queued Turn that fails leaves the count of failures alone.
LEMMA SameCount ==
    ASSUME NEW r \in Row, NEW q, SameWork(r, q), Unstarted(r), q.failures = r.failures
    PROVE  ConsecutiveFailures(q) = ConsecutiveFailures(r)
<1> DEFINE done(x) == {x.turn[n].process_epoch : n \in TurnsIn(x, {"completed", "failed"})}
           last(x) == {e \in x.failures : \A f \in done(x) : e >= f}
<1>1. ASSUME NEW e \in r.failures
      PROVE  (\A f \in done(q) : e >= f) <=> (\A f \in done(r) : e >= f)
    <2>1. e \in 1..MaxEpochs /\ e >= 0
        BY DEF Row
    <2>2. done(r) \subseteq done(q)
        BY DEF SameWork, TurnsIn
    <2>3. \A f \in done(q) : f \in done(r) \/ f = 0
        BY DEF SameWork, TurnsIn, Unstarted
    <2> HIDE DEF done
    <2> QED BY <2>1, <2>2, <2>3
<1> HIDE DEF done
<1>2. last(q) = last(r)
    BY <1>1
<1> QED BY <1>2 DEF ConsecutiveFailures, done

\* The relations compose.
LEMMA UnstartedKept ==
    ASSUME NEW r, NEW q, SameWork(r, q), Unstarted(r) PROVE Unstarted(q)
BY DEF SameWork, Unstarted

LEMMA SameWorkTransitive ==
    ASSUME NEW a, NEW b, NEW d, SameWork(a, b), SameWork(b, d) PROVE SameWork(a, d)
BY DEF SameWork

LEMMA PlainTransitive ==
    ASSUME NEW a, NEW b, NEW d, Plain(a, b), Plain(b, d) PROVE Plain(a, d)
BY SameWorkTransitive DEF Plain, SameRecord, SameHolds, SameControl

LEMMA OrdinaryTransitive ==
    ASSUME NEW a, NEW b, NEW d, Ordinary(a, b), Ordinary(b, d) PROVE Ordinary(a, d)
<1>1. SameWork(a, d)
    BY SameWorkTransitive DEF Ordinary
<1>2. SameRecord(a, d) /\ SameControl(a, d)
    BY DEF Ordinary, SameRecord, SameControl
<1>3. Unstarted(a) => Unstarted(b)
    BY UnstartedKept DEF Ordinary
<1> QED BY <1>1, <1>2, <1>3 DEF Ordinary, SameRecord, SameControl

LEMMA PlainIsOrdinary ==
    ASSUME NEW r \in Row, NEW q, Plain(r, q) PROVE Ordinary(r, q)
<1>1. Unstarted(r) => ConsecutiveFailures(q) = ConsecutiveFailures(r)
    BY SameCount DEF Plain, SameHolds
<1>2. Unstarted(r) /\ Counted(r) => Counted(q)
    BY <1>1 DEF Plain, SameRecord, SameHolds, Counted, Accepting
<1> QED BY <1>2 DEF Ordinary, Plain, SameHolds

\* A handler that leaves a row alone.
LEMMA PlainReflexive ==
    ASSUME NEW r PROVE Plain(r, r)
BY DEF Plain, SameRecord, SameHolds, SameWork, SameControl

\* A change of the process other than its control.
LEMMA ProcessIsPlain ==
    ASSUME NEW r \in Row, NEW q, SameRecord(r, q), SameHolds(r, q), q.turn = r.turn, SameControl(r, q)
    PROVE  Plain(r, q)
BY DEF Plain, SameWork

\* SettleTurns, with the statuses that handlers give.
LEMMA SettleIsPlain ==
    ASSUME NEW r \in Row, NEW ns, NEW st,
           \/ st \in {"interrupted", "cancelled"} /\ ns \subseteq Unsettled(r)
           \/ st = "failed" /\ ns \subseteq Queued(r)
    PROVE  Plain(r, SettleTurns(r, ns, st)) /\ SettleTurns(r, ns, st) \in Row
<1> DEFINE f == [n \in TurnIds |->
        IF n \in ns THEN [r.turn[n] EXCEPT !.status = st, !.processing_closed = TRUE] ELSE r.turn[n]]
           q == [r EXCEPT !.turn = f]
<1>1. ASSUME NEW n \in TurnIds
      PROVE  /\ f[n].save = r.turn[n].save /\ f[n].save_lease = r.turn[n].save_lease
             /\ f[n].process_epoch = r.turn[n].process_epoch
             /\ f[n].status = IF n \in ns THEN st ELSE r.turn[n].status
    <2>1. r.turn[n] \in Turn
        BY DEF Row
    <2> QED BY <2>1 DEF Turn
<1> HIDE DEF f
<1>2. q.turn = f /\ SameRecord(r, q) /\ SameHolds(r, q) /\ q.process = r.process
    BY DEF Row, SameRecord, SameHolds
<1>3. SettleTurns(r, ns, st) = q
    BY DEF SettleTurns, f
<1> HIDE DEF q
<1>4. SameWork(r, q) /\ SameControl(r, q)
    BY <1>1, <1>2 DEF SameWork, SameControl, Unsettled, Queued, TurnsIn
<1>5. st \in Ended
    BY DEF Ended
<1>6. SettleTurns(r, ns, st) \in Row
    BY <1>5, SettleTurnsFields
<1> QED BY <1>2, <1>3, <1>4, <1>6 DEF Plain

\* Superseding the delivered control.
LEMMA AdvanceIsPlain ==
    ASSUME NEW r \in Row
    PROVE  LET q == AdvanceControlAuthority(r) IN Plain(r, q) /\ q \in Row /\ ~q.process.current
<1> DEFINE q == AdvanceControlAuthority(r)
<1>1. q \in Row /\ q.turn = r.turn
    BY AdvanceFields
<1>2. SameRecord(r, q) /\ SameHolds(r, q) /\ ~q.process.current
    BY ZenonT(60) DEF AdvanceControlAuthority, Row, Process, SameRecord, SameHolds
<1> HIDE DEF q
<1> QED BY <1>1, <1>2, ProcessIsPlain DEF SameControl, q

\* A stop asked of the process.
LEMMA RequestStopIsPlain ==
    ASSUME NEW r \in Row, NEW target \in {"turn", "process"}
    PROVE  LET q == RequestProcessStop(r, target) IN Plain(r, q) /\ q \in Row
<1> DEFINE q == RequestProcessStop(r, target)
           p == [r EXCEPT !.process.stop = target, !.process.acknowledged = FALSE]
<1>1. q \in Row /\ q.turn = r.turn
    BY RequestProcessStopFields
<1>2. SameRecord(r, p) /\ SameHolds(r, p) /\ SameControl(r, p)
    BY ZenonT(60) DEF Row, Process, SameRecord, SameHolds, SameControl
<1>3. SameRecord(r, r) /\ SameHolds(r, r) /\ SameControl(r, r)
    BY DEF SameRecord, SameHolds, SameControl
<1>4. q \in {r, p}
    BY DEF RequestProcessStop
<1> HIDE DEF p, q
<1> QED BY <1>1, <1>2, <1>3, <1>4, ProcessIsPlain DEF q

\* A process changes its status, and perhaps ends.
LEMMA StatusIsPlain ==
    ASSUME NEW r \in Row, NEW st
    PROVE  /\ Plain(r, [r EXCEPT !.process.status = st])
           /\ Plain(r, ProcessGone(r, st))
           /\ Plain(r, ProcessStops(r))
<1>1. ASSUME NEW q, q.process.current = r.process.current, q.process.control_kind = r.process.control_kind,
             q.turn = r.turn, SameRecord(r, q), SameHolds(r, q)
      PROVE  Plain(r, q)
    BY <1>1, ProcessIsPlain DEF SameControl
<1>2. ASSUME NEW st2
      PROVE  Plain(r, [r EXCEPT !.process.status = st2])
    <2> DEFINE q == [r EXCEPT !.process.status = st2]
    <2>1. /\ q.process.current = r.process.current /\ q.process.control_kind = r.process.control_kind
          /\ q.turn = r.turn /\ SameRecord(r, q) /\ SameHolds(r, q)
        BY DEF Row, Process, SameRecord, SameHolds
    <2> HIDE DEF q
    <2>2. Plain(r, q)
        BY <1>1, <2>1
    <2> QED BY <2>2 DEF q
<1>3. Plain(r, ProcessGone(r, st))
    <2> DEFINE q == ProcessGone(r, st)
    <2>1. /\ q.process.current = r.process.current /\ q.process.control_kind = r.process.control_kind
          /\ q.turn = r.turn /\ SameRecord(r, q) /\ SameHolds(r, q)
        BY ZenonT(60) DEF Row, Process, SameRecord, SameHolds, ProcessGone
    <2> HIDE DEF q
    <2>2. Plain(r, q)
        BY <1>1, <2>1
    <2> QED BY <2>2 DEF q
<1>4. Plain(r, ProcessStops(r))
    BY <1>2 DEF ProcessStops
<1> QED BY <1>2, <1>3, <1>4

\* A new process has no control yet.
LEMMA AssignIsPlain ==
    ASSUME NEW r \in Row, NEW lease PROVE Plain(r, AssignProcess(r, lease))
<1> DEFINE p == NewProcess(r.process.epoch + 1, lease, "starting")
           q == [r EXCEPT !.process = p]
<1>1. p.current = FALSE
    BY DEF NewProcess
<1> HIDE DEF p
<1>2. q.turn = r.turn /\ SameRecord(r, q) /\ SameHolds(r, q) /\ q.process = p
    BY DEF Row, SameRecord, SameHolds
<1> HIDE DEF q
<1>3. Plain(r, q)
    BY <1>1, <1>2, ProcessIsPlain DEF SameControl
<1> QED BY <1>3 DEF q, p, AssignProcess

\* interruptControlledTurn and interruptRunningSessionTurn.
LEMMA InterruptIsPlain ==
    ASSUME NEW r \in Row
    PROVE  /\ Plain(r, InterruptControlledTurn(r)) /\ InterruptControlledTurn(r) \in Row
           /\ Plain(r, InterruptRunningSessionTurn(r)) /\ InterruptRunningSessionTurn(r) \in Row
<1> DEFINE q == SettleTurns(r, Running(r), "interrupted")
           p == RequestProcessStop(q, "turn")
           o == SettleTurns(r, RunningOfProcess(r), "interrupted")
<1>1. Running(r) \subseteq Unsettled(r) /\ RunningOfProcess(r) \subseteq Unsettled(r)
    BY DEF Running, Unsettled, TurnsIn, RunningOfProcess
<1>2. Plain(r, q) /\ q \in Row /\ Plain(r, o) /\ o \in Row
    BY <1>1, SettleIsPlain
<1> HIDE DEF q
<1>3. Plain(q, p) /\ p \in Row
    BY <1>2, RequestStopIsPlain
<1>4. InterruptControlledTurn(r) \in {q, p}
    BY DEF InterruptControlledTurn, q
<1> HIDE DEF p
<1>5. Plain(r, InterruptControlledTurn(r)) /\ InterruptControlledTurn(r) \in Row
    BY <1>2, <1>3, <1>4, PlainTransitive
<1> QED BY <1>2, <1>5 DEF InterruptRunningSessionTurn

\* failQueuedTurns.
LEMMA FailQueuedIsPlain ==
    ASSUME NEW r \in Row PROVE Plain(r, FailQueuedTurns(r)) /\ FailQueuedTurns(r) \in Row
BY SettleIsPlain DEF FailQueuedTurns

\* Changing local holds and superseding the delivered control, without a gap
\* and without releasing the hold for failures.
LEMMA HoldsAreOrdinary ==
    ASSUME NEW r \in Row, NEW h \in SUBSET LocalHolds, r.status # "closed",
           "recovery_gap" \in h => "recovery_gap" \in r.holds,
           "process_failed" \in r.holds => "process_failed" \in h
    PROVE  LET q == AdvanceControlAuthority([r EXCEPT !.holds = h]) IN Ordinary(r, q) /\ q \in Row
<1> DEFINE g == [r EXCEPT !.holds = h]
           q == AdvanceControlAuthority(g)
<1>1. /\ g \in Row /\ g.holds = h /\ g.failures = r.failures /\ g.turn = r.turn
      /\ SameRecord(r, g) /\ g.process = r.process
    BY DEF Row, SameRecord
<1> HIDE DEF g
<1>2. Plain(g, q) /\ q \in Row /\ ~q.process.current
    BY <1>1, AdvanceIsPlain
<1> HIDE DEF q
<1>3. SameRecord(r, q) /\ SameWork(r, q) /\ q.holds = h /\ q.failures = r.failures
    BY <1>1, <1>2 DEF Plain, SameRecord, SameWork, SameHolds
<1>4. Unstarted(r) => ConsecutiveFailures(q) = ConsecutiveFailures(r)
    BY <1>3, SameCount
<1>5. Unstarted(r) /\ Counted(r) => Counted(q)
    BY <1>3, <1>4 DEF Counted, Accepting, SameRecord
<1>6. Ordinary(r, q)
    BY <1>2, <1>3, <1>5 DEF Ordinary, SameControl
<1> QED BY <1>2, <1>6 DEF q, g

\* recordSessionFailure: the threshold is checked with the failure included.
LEMMA FailureIsOrdinary ==
    ASSUME NEW r \in Row, LiveProcess(r), NEW counted \in BOOLEAN
    PROVE  LET q == RecordSessionFailure(r, counted) IN Ordinary(r, q) /\ q \in Row
<1> DEFINE marked == [r EXCEPT !.process.failure = TRUE]
           noted  == [marked EXCEPT !.failures = @ \cup {r.process.epoch}]
           held   == [noted EXCEPT !.holds = @ \cup {"process_failed"}]
           q == RecordSessionFailure(r, counted)
           a == AdvanceControlAuthority(held)
<1>1. /\ marked \in Row /\ SameRecord(r, marked) /\ SameHolds(r, marked) /\ marked.turn = r.turn
      /\ marked.process.current = r.process.current /\ marked.process.control_kind = r.process.control_kind
    BY ZenonT(60) DEF Row, Process, SameRecord, SameHolds
<1>2. r.process.epoch \in 1..MaxEpochs
    BY DEF LiveProcess, Row, Process
<1>3. CASE q \in {r, marked}
    <2> HIDE DEF marked
    <2>1. Plain(r, marked)
        BY <1>1, ProcessIsPlain DEF SameControl
    <2>2. Ordinary(r, q) /\ q \in Row
        BY <1>1, <1>3, <2>1, PlainReflexive, PlainIsOrdinary
    <2> QED BY <2>2
<1>4. /\ noted \in Row /\ SameRecord(r, noted) /\ noted.holds = r.holds /\ noted.turn = r.turn
      /\ noted.process.current = r.process.current /\ noted.process.control_kind = r.process.control_kind
    <2> HIDE DEF marked
    <2> QED BY <1>1, <1>2 DEF Row, SameRecord, SameHolds
<1>5. CASE q = noted /\ (r.status = "closed" \/ ~FailuresDue(noted) \/ "process_failed" \in r.holds)
    <2> HIDE DEF noted
    <2>1. Counted(noted)
        BY <1>4, <1>5 DEF Counted, FailuresDue, Accepting, SameRecord, ConsecutiveFailures
    <2>2. SameWork(r, noted) /\ SameControl(r, noted)
        BY <1>4 DEF SameWork, SameControl
    <2>3. Ordinary(r, noted)
        BY <1>4, <2>1, <2>2 DEF Ordinary
    <2> QED BY <1>4, <1>5, <2>3
<1>6. CASE q = a /\ r.status # "closed"
    <2>1. /\ held \in Row /\ SameRecord(r, held) /\ held.holds = r.holds \cup {"process_failed"} /\ held.turn = r.turn
        <3> HIDE DEF noted
        <3> QED BY <1>4 DEF Row, SameRecord, LocalHolds
    <2> HIDE DEF held
    <2>2. Plain(held, a) /\ a \in Row /\ ~a.process.current
        BY <2>1, AdvanceIsPlain
    <2> HIDE DEF a
    <2>3. SameRecord(r, a) /\ SameWork(r, a) /\ a.holds = r.holds \cup {"process_failed"}
        BY <2>1, <2>2 DEF Plain, SameRecord, SameWork, SameHolds
    <2>4. Counted(a)
        BY <2>3 DEF Counted
    <2>5. Ordinary(r, a)
        BY <1>6, <2>2, <2>3, <2>4 DEF Ordinary, SameControl
    <2> QED BY <1>6, <2>2, <2>5
<1>7. \/ q \in {r, marked}
      \/ q = noted /\ (r.status = "closed" \/ ~FailuresDue(noted) \/ "process_failed" \in r.holds)
      \/ q = a /\ r.status # "closed"
    BY ZenonT(60) DEF RecordSessionFailure
<1> QED BY <1>3, <1>5, <1>6, <1>7

\* A failure that takes the process down: observeSessionFailure and the loss
\* of a lease.
LEMMA DownIsOrdinary ==
    ASSUME NEW r \in Row, LiveProcess(r), NEW counted \in BOOLEAN, NEW st \in {"stopping", "lost"}
    PROVE  LET q == [InterruptRunningSessionTurn(RecordSessionFailure(r, counted)) EXCEPT !.process.status = st] IN
           Ordinary(r, q) /\ q \in Row
<1> DEFINE f == RecordSessionFailure(r, counted)
           g == InterruptRunningSessionTurn(f)
           q == [g EXCEPT !.process.status = st]
<1>1. Ordinary(r, f) /\ f \in Row
    BY FailureIsOrdinary
<1> HIDE DEF f
<1>2. Ordinary(f, g) /\ g \in Row
    BY <1>1, InterruptIsPlain, PlainIsOrdinary
<1> HIDE DEF g
<1>3. q \in Row
    BY <1>2 DEF Row, Process
<1>4. Ordinary(g, q)
    BY <1>2, StatusIsPlain, PlainIsOrdinary
<1> HIDE DEF q
<1>5. Ordinary(r, q)
    BY <1>1, <1>2, <1>4, OrdinaryTransitive
<1> QED BY <1>3, <1>5 DEF q, g, f

\* The loss of a lease, for one process.
LEMMA LoseProcessIsOrdinary ==
    ASSUME NEW r \in Row, NEW lease, NEW physicalStopped \in BOOLEAN, NEW recoverable \in BOOLEAN
    PROVE  Ordinary(r, LoseProcess(r, lease, physicalStopped, recoverable))
<1> DEFINE lost == [InterruptRunningSessionTurn(RecordSessionFailure(r, ~recoverable))
                        EXCEPT !.process.status = "lost"]
           q == LoseProcess(r, lease, physicalStopped, recoverable)
<1>1. \/ q \in {r, ProcessGone(r, "stopped")}
      \/ LiveProcess(r) /\ q \in {lost, ProcessGone(lost, "lost")}
    BY DEF LoseProcess
<1>2. LiveProcess(r) => Ordinary(r, lost) /\ lost \in Row
    BY DownIsOrdinary, ZenonT(60)
<1>3. Ordinary(r, r) /\ Ordinary(r, ProcessGone(r, "stopped"))
    BY PlainReflexive, StatusIsPlain, PlainIsOrdinary, ZenonT(60)
<1> HIDE DEF lost, q
<1>4. lost \in Row => Ordinary(lost, ProcessGone(lost, "lost"))
    BY StatusIsPlain, PlainIsOrdinary, ZenonT(60)
<1>5. Ordinary(r, q)
    BY <1>1, <1>2, <1>3, <1>4, OrdinaryTransitive
<1> QED BY <1>5 DEF q

\* The guest process closed, with or without being asked to.
LEMMA StoppedIsOrdinary ==
    ASSUME NEW r \in Row, LiveProcess(r), NEW asked \in BOOLEAN
    PROVE  LET settled == InterruptRunningSessionTurn(r)
               q == ProcessGone(IF asked THEN settled ELSE RecordSessionFailure(settled, TRUE), "stopped")
           IN  Ordinary(r, q)
<1> DEFINE settled == InterruptRunningSessionTurn(r)
           f == RecordSessionFailure(settled, TRUE)
           p == IF asked THEN settled ELSE f
<1>1. settled \in Row /\ Ordinary(r, settled)
    BY InterruptIsPlain, PlainIsOrdinary
<1>2. LiveProcess(settled)
    BY SettleTurnsFields DEF InterruptRunningSessionTurn, LiveProcess, Ended
<1> HIDE DEF settled
<1>3. f \in Row /\ Ordinary(settled, f)
    BY <1>1, <1>2, FailureIsOrdinary, ZenonT(60)
<1> HIDE DEF f
<1>4. p \in Row /\ Ordinary(r, p)
    BY <1>1, <1>3, OrdinaryTransitive
<1> HIDE DEF p
<1>5. Ordinary(p, ProcessGone(p, "stopped"))
    BY <1>4, StatusIsPlain, PlainIsOrdinary, ZenonT(60)
<1>6. Ordinary(r, ProcessGone(p, "stopped"))
    BY <1>4, <1>5, OrdinaryTransitive
<1> QED BY <1>6, ZenonT(60) DEF p, f, settled

\* A Turn past its deadline.
LEMMA DeadlineIsOrdinary ==
    ASSUME NEW r \in Row
    PROVE  LET settled == SettleTurns(r, Running(r), "interrupted")
               q == AdvanceControlAuthority(ProcessStops(RequestProcessStop(settled, "process")))
           IN  Ordinary(r, q)
<1> DEFINE settled == SettleTurns(r, Running(r), "interrupted")
           p == RequestProcessStop(settled, "process")
           o == ProcessStops(p)
<1>1. Running(r) \subseteq Unsettled(r)
    BY DEF Running, Unsettled, TurnsIn
<1>2. settled \in Row /\ Plain(r, settled)
    BY <1>1, SettleIsPlain
<1> HIDE DEF settled
<1>3. p \in Row /\ Plain(settled, p)
    BY <1>2, RequestStopIsPlain
<1> HIDE DEF p
<1>4. o \in Row
    BY <1>3 DEF ProcessStops, Row, Process
<1>5. Plain(p, o)
    BY <1>3, StatusIsPlain, ZenonT(60)
<1> HIDE DEF o
<1>6. Plain(o, AdvanceControlAuthority(o))
    BY <1>4, AdvanceIsPlain
<1>7. Plain(r, AdvanceControlAuthority(o))
    BY <1>2, <1>3, <1>5, <1>6, PlainTransitive
<1>8. Ordinary(r, AdvanceControlAuthority(o))
    BY <1>7, PlainIsOrdinary
<1> QED BY <1>8 DEF o, p, settled

\* One Session's share of an interrupt.
LEMMA InterruptRowIsPlain ==
    ASSUME NEW r \in Row, NEW interruptQueued \in BOOLEAN
    PROVE  LET q == InterruptRow(r, interruptQueued) IN Plain(r, q) /\ q \in Row /\ ~q.process.current
<1> DEFINE running == InterruptControlledTurn(r)
           waiting == SettleTurns(running, Queued(r), "interrupted")
           settled == IF interruptQueued THEN waiting ELSE running
           stopped == IF r.process.status = "starting" THEN RequestProcessStop(settled, "process") ELSE settled
<1>1. running \in Row /\ Plain(r, running)
    BY InterruptIsPlain
<1>2. Queued(r) \subseteq Queued(running)
    <2>1. SettleTurns(r, Running(r), "interrupted") \in Row
        BY SettleTurnsFields DEF Ended
    <2>2. running.turn = SettleTurns(r, Running(r), "interrupted").turn
        BY <2>1, RequestProcessStopFields DEF InterruptControlledTurn
    <2>3. \A n \in TurnIds : running.turn[n].status = IF n \in Running(r) THEN "interrupted" ELSE r.turn[n].status
        BY <2>2, SettleTurnsFields DEF Ended
    <2> HIDE DEF running
    <2> QED BY <2>3 DEF Queued, Running, TurnsIn
<1>3. Queued(r) \subseteq Unsettled(running)
    BY <1>2 DEF Queued, Unsettled, TurnsIn
<1> HIDE DEF running
<1>4. waiting \in Row /\ Plain(running, waiting)
    BY <1>1, <1>3, SettleIsPlain
<1> HIDE DEF waiting
<1>5. settled \in Row /\ Plain(r, settled)
    BY <1>1, <1>4, PlainTransitive
<1> HIDE DEF settled
<1>6. stopped \in Row /\ Plain(settled, stopped)
    BY <1>5, RequestStopIsPlain, PlainReflexive
<1> HIDE DEF stopped
<1> DEFINE q == AdvanceControlAuthority(stopped)
<1>7. q \in Row /\ Plain(stopped, q) /\ ~q.process.current
    BY <1>6, AdvanceIsPlain
<1> HIDE DEF q
<1>8. Plain(r, q)
    BY <1>5, <1>6, <1>7, PlainTransitive
<1> QED BY <1>7, <1>8 DEF q, InterruptRow, stopped, settled, waiting, running

\* One Session's share of storage pressure.
LEMMA PressureIsOrdinary ==
    ASSUME NEW r \in Row, Accepting(r), NEW level
    PROVE  LET q == ReconcilePressureRow(r, level) IN Ordinary(r, q) /\ q \in Row
<1> DEFINE placed == [r EXCEPT !.holds = r.holds \cup {"storage_pressure"}]
           freed == [r EXCEPT !.holds = r.holds \ {"storage_pressure"}]
           q == ReconcilePressureRow(r, level)
<1>1. PICK held : /\ held \in {r, AdvanceControlAuthority(placed), AdvanceControlAuthority(freed)}
                  /\ q \in {held, AdvanceControlAuthority(InterruptControlledTurn(held))}
    BY DEF ReconcilePressureRow
<1>2. /\ r.holds \cup {"storage_pressure"} \in SUBSET LocalHolds
      /\ r.holds \ {"storage_pressure"} \in SUBSET LocalHolds /\ r.status # "closed"
    BY DEF Row, LocalHolds, Accepting
<1>3. /\ Ordinary(r, AdvanceControlAuthority(placed)) /\ AdvanceControlAuthority(placed) \in Row
      /\ Ordinary(r, AdvanceControlAuthority(freed)) /\ AdvanceControlAuthority(freed) \in Row
    BY <1>2, HoldsAreOrdinary
<1>4. Ordinary(r, r)
    BY PlainReflexive, PlainIsOrdinary
<1> HIDE DEF placed, freed, q
<1>5. Ordinary(r, held) /\ held \in Row
    BY <1>1, <1>3, <1>4
<1> DEFINE i == InterruptControlledTurn(held)
<1>6. Plain(held, i) /\ i \in Row
    BY <1>5, InterruptIsPlain
<1> HIDE DEF i
<1>7. Plain(i, AdvanceControlAuthority(i)) /\ AdvanceControlAuthority(i) \in Row
    BY <1>6, AdvanceIsPlain
<1>8. Ordinary(held, AdvanceControlAuthority(i))
    BY <1>5, <1>6, <1>7, PlainTransitive, PlainIsOrdinary
<1>9. Ordinary(r, AdvanceControlAuthority(i))
    BY <1>5, <1>8, OrdinaryTransitive
<1>10. Ordinary(r, q) /\ q \in Row
    BY <1>1, <1>5, <1>7, <1>9 DEF i
<1> QED BY <1>10 DEF q

-----------------------------------------------------------------------------

\* CurrentControlMatchesHolds and the part of ClosedIsSettled that concerns
\* owners, of any rows.
Matched(rows) ==
    \A s \in Sessions : Accepting(rows[s]) /\ rows[s].process.current =>
        /\ rows[s].process.control_kind = "resume" => ~Held(rows, s)
        /\ rows[s].process.control_kind = "suspend" => Held(rows, s)

Nested(rows) ==
    \A d \in Sessions : Parent[d] \in Sessions =>
        /\ rows[Parent[d]].status = "closed" => rows[d].status \in {"none", "closed"}
        /\ rows[Parent[d]].status = "closing" => rows[d].status # "open"

Books(rows, c) == \A s \in Sessions : Ledger(rows[s]) /\ Saving(rows[s], c)

HoldRows(rows, c) == Books(rows, c) /\ Matched(rows) /\ Nested(rows)

\* The inductive invariant, relative to SessionInv.
HoldInv == HoldRows(session, computer)

\* Ordinary handlers keep what concerns one row.
LEMMA LedgerKept ==
    ASSUME NEW r, NEW q, Ordinary(r, q), Ledger(r) PROVE Ledger(q)
<1>1. SameWork(r, q) /\ SameRecord(r, q) /\ Unstarted(r) /\ Counted(r) /\ Reported(r) /\ Cleared(r)
    BY DEF Ordinary, Ledger
<1>2. Unstarted(q) /\ Counted(q)
    BY <1>1, UnstartedKept DEF Ordinary
<1>3. Reported(q)
    BY <1>1 DEF Reported, SameWork, SameRecord, Accepting
<1>4. Cleared(q)
    <2>1. r.status = "closed" => q.holds \subseteq r.holds
        BY DEF Ordinary
    <2> QED BY <1>1, <2>1 DEF Cleared, SameWork, SameRecord, Unsettled, TurnsIn
<1> QED BY <1>2, <1>3, <1>4 DEF Ledger

LEMMA SavingKept ==
    ASSUME NEW r, NEW q, Ordinary(r, q), NEW c, Saving(r, c),
           NEW d, LeaseLive(c) => LeaseLive(d) /\ d.lease.epoch = c.lease.epoch
    PROVE  Saving(q, d)
<1>1. SameWork(r, q) /\ ("recovery_gap" \in q.holds => "recovery_gap" \in r.holds)
    BY DEF Ordinary
<1> QED BY <1>1 DEF Saving, SameWork, Running, TurnsIn

\* What no handler does to a row unless it treats the whole tree.
Steady(r, q) ==
    /\ q.status = r.status /\ q.interrupts = r.interrupts
    /\ SameControl(r, q)
    /\ q.process.current => q.holds = r.holds

\* Steady rows with good books keep the rest.
LEMMA SteadyRows ==
    ASSUME NEW rows, NEW next, NEW c, HoldRows(rows, c), NEW d,
           \A s \in Sessions : Steady(rows[s], next[s]) /\ Ledger(next[s]) /\ Saving(next[s], d)
    PROVE  HoldRows(next, d)
<1>1. Nested(next)
    BY DEF HoldRows, Nested, Steady
<1>2. ASSUME NEW s \in Sessions, next[s].holds = rows[s].holds PROVE Held(next, s) <=> Held(rows, s)
    BY <1>2 DEF Held, Ancestors, Steady
<1>3. Matched(next)
    BY <1>2 DEF HoldRows, Matched, Steady, SameControl, Accepting
<1> QED BY <1>1, <1>3 DEF HoldRows, Books

\* Ordinary handlers keep the invariant of all rows.
LEMMA OrdinaryRows ==
    ASSUME NEW rows, NEW next, NEW c, HoldRows(rows, c), \A s \in Sessions : Ordinary(rows[s], next[s]),
           NEW d, LeaseLive(c) => LeaseLive(d) /\ d.lease.epoch = c.lease.epoch
    PROVE  HoldRows(next, d)
<1>1. ASSUME NEW s \in Sessions PROVE Steady(rows[s], next[s]) /\ Ledger(next[s]) /\ Saving(next[s], d)
    <2>1. Ledger(rows[s]) /\ Saving(rows[s], c) /\ Ordinary(rows[s], next[s])
        BY DEF HoldRows, Books
    <2>2. Steady(rows[s], next[s])
        BY <2>1, ZenonT(60) DEF Ordinary, SameRecord, Steady
    <2> QED BY <2>1, <2>2, LedgerKept, SavingKept
<1> QED BY <1>1, SteadyRows

\* The owner of an owner owns.
LEMMA TreeTransitive ==
    ASSUME NEW a \in Sessions, NEW b \in Sessions, NEW d \in Sessions, b \in Tree(a), d \in Tree(b)
    PROVE  d \in Tree(a)
BY TreeAssumption DEF Tree, Ancestors

LEMMA TreeOwned ==
    ASSUME NEW d \in Sessions
    PROVE  d \in Tree(d) /\ (Parent[d] \in Sessions => d \in Tree(Parent[d]))
BY DEF Tree, Ancestors

LEMMA HeldInTree ==
    ASSUME NEW rows, NEW s \in Sessions
    PROVE  Held(rows, s) <=> rows[s].holds # {} \/ \E a \in Sessions : s \in Tree(a) /\ rows[a].interrupts > 0
BY DEF Held, Tree, Ancestors

\* finishClose settles the account of a Session without unsettled Turns.
LEMMA FinishCloseFields ==
    ASSUME NEW r \in Row
    PROVE  LET q == FinishClose(r) IN
           /\ q.status = "closed" /\ q.interrupts = 0 /\ q.holds = {} /\ q.turn = r.turn
           /\ ~q.process.current
<1> DEFINE a == [r EXCEPT !.status = "closed", !.interrupts = 0, !.holds = {}]
           q == [a EXCEPT !.process.current = FALSE]
<1>1. /\ a \in Row /\ a.turn = r.turn /\ a.status = "closed" /\ a.interrupts = 0 /\ a.holds = {}
    BY ZenonT(60) DEF Row
<1>2. q = [r EXCEPT !.status = "closed", !.interrupts = 0, !.holds = {}, !.process.current = FALSE]
    BY DEF Row
<1> HIDE DEF a
<1>3. /\ q \in Row /\ q.turn = r.turn /\ q.status = "closed" /\ q.interrupts = 0 /\ q.holds = {}
      /\ q.process.current = FALSE
    <2> DEFINE p == [a.process EXCEPT !.current = FALSE]
    <2>1. a.process \in Process
        BY <1>1 DEF Row
    <2>2. p \in Process /\ p.current = FALSE
        BY <2>1, ZenonT(60) DEF Process
    <2>3. q = [a EXCEPT !.process = p]
        BY <1>1 DEF Row
    <2> HIDE DEF p, q
    <2> QED BY <1>1, <2>2, <2>3, ZenonT(60) DEF Row
<1> HIDE DEF q
<1>4. Plain(q, ProcessStops(q))
    BY <1>3, StatusIsPlain, ZenonT(60)
<1>5. ProcessStops(q).turn = q.turn
    BY <1>3 DEF ProcessStops, Row
<1> QED BY <1>2, <1>3, <1>4, <1>5 DEF FinishClose, Plain, SameRecord, SameHolds, SameControl

\* A row that closes with nothing unsettled.
LEMMA ClosedKept ==
    ASSUME NEW r, NEW q, NEW c, Ledger(r), Saving(r, c), Unsettled(r) = {}, q.turn = r.turn,
           q.status = "closed", q.interrupts = 0, q.holds = {}
    PROVE  Ledger(q) /\ Saving(q, c)
<1>1. Unstarted(q) /\ Counted(q) /\ Reported(q)
    BY DEF Ledger, Unstarted, Counted, Reported, Accepting
<1>2. Cleared(q)
    BY DEF Cleared, Unsettled, TurnsIn
<1>3. Saving(q, c)
    BY DEF Saving
<1> QED BY <1>1, <1>2, <1>3 DEF Ledger

\* drainClosingSessions, over Sessions with all they own: a Session closes
\* together with every Session below it that is still closing.
LEMMA DrainKeeps ==
    ASSUME NEW rows, rows \in [Sessions -> Row], NEW c, HoldRows(rows, c),
           NEW ids, \A s \in Sessions \cap ids : Tree(s) \subseteq ids
    PROVE  HoldRows(DrainClosingSessions(rows, ids), c)
<1> DEFINE cancelled == [s \in Sessions |->
               IF s \in ids /\ rows[s].status = "closing" /\ Held(rows, s)
               THEN SettleTurns(rows[s], Queued(rows[s]), "cancelled") ELSE rows[s]]
           Drained(d) == \/ rows[d].status \in {"none", "closed"}
                         \/ rows[d].status = "closing" /\ Unsettled(cancelled[d]) = {}
           Closes(s) == s \in ids /\ rows[s].status = "closing" /\ \A d \in Tree(s) : Drained(d)
           next == DrainClosingSessions(rows, ids)
<1>1. ASSUME NEW s \in Sessions
      PROVE  Ordinary(rows[s], cancelled[s]) /\ cancelled[s] \in Row
    <2>1. Queued(rows[s]) \subseteq Unsettled(rows[s])
        BY DEF Queued, Unsettled, TurnsIn
    <2>2. /\ Plain(rows[s], SettleTurns(rows[s], Queued(rows[s]), "cancelled"))
          /\ SettleTurns(rows[s], Queued(rows[s]), "cancelled") \in Row
        BY <2>1, SettleIsPlain
    <2> QED BY <2>2, PlainReflexive, PlainIsOrdinary
<1>2. next = [s \in Sessions |-> IF Closes(s) THEN FinishClose(cancelled[s]) ELSE cancelled[s]]
    BY DEF DrainClosingSessions
<1> HIDE DEF next, cancelled
<1>3. HoldRows(cancelled, c)
    BY <1>1, OrdinaryRows
<1>4. \A s \in Sessions : cancelled[s].status = rows[s].status
    BY <1>1 DEF Ordinary, SameRecord
<1>5. ASSUME NEW s \in Sessions, NEW d \in Tree(s), Closes(s), rows[d].status \notin {"none", "closed"}
      PROVE  Closes(d)
    <2>1. d \in Sessions /\ d \in ids
        BY <1>5 DEF Tree
    <2>2. \A e \in Tree(d) : e \in Sessions /\ e \in Tree(s)
        <3>1. \A e \in Tree(d) : e \in Sessions
            BY DEF Tree
        <3> QED BY <1>5, <2>1, <3>1, TreeTransitive
    <2>3. Drained(d)
        BY <1>5
    <2> QED BY <1>5, <2>1, <2>2, <2>3
<1>6. ASSUME NEW s \in Sessions, Closes(s)
      PROVE  /\ next[s].status = "closed" /\ next[s].interrupts = 0 /\ next[s].holds = {}
             /\ Ledger(next[s]) /\ Saving(next[s], c)
    <2>1. Drained(s) /\ rows[s].status = "closing"
        BY <1>6, TreeOwned
    <2>2. next[s] = FinishClose(cancelled[s]) /\ cancelled[s] \in Row
        BY <1>1, <1>2, <1>6, ZenonT(60)
    <2>3. Ledger(cancelled[s]) /\ Saving(cancelled[s], c) /\ Unsettled(cancelled[s]) = {}
        BY <1>3, <2>1 DEF HoldRows, Books
    <2>4. next[s].status = "closed" /\ next[s].interrupts = 0 /\ next[s].holds = {} /\ next[s].turn = cancelled[s].turn
        BY <2>2, FinishCloseFields
    <2> QED BY <2>3, <2>4, ClosedKept
<1>7. ASSUME NEW s \in Sessions, ~Closes(s) PROVE next[s] = cancelled[s]
    BY <1>2, <1>7
<1> HIDE DEF Closes
<1>8. Books(next, c)
    BY <1>3, <1>6, <1>7 DEF HoldRows, Books
<1>9. Nested(next)
    <2> SUFFICES ASSUME NEW d \in Sessions, Parent[d] \in Sessions
                 PROVE  /\ next[Parent[d]].status = "closed" => next[d].status \in {"none", "closed"}
                        /\ next[Parent[d]].status = "closing" => next[d].status # "open"
        BY DEF Nested
    <2>1. d \in Tree(Parent[d])
        BY TreeOwned
    <2>2. /\ rows[Parent[d]].status = "closed" => rows[d].status \in {"none", "closed"}
          /\ rows[Parent[d]].status = "closing" => rows[d].status # "open"
        BY DEF HoldRows, Nested
    <2>3. \/ next[d].status = "closed"
          \/ next[d].status = rows[d].status /\ ~Closes(d)
        BY <1>4, <1>6, <1>7
    <2>4. CASE Closes(Parent[d])
        BY <1>5, <1>6, <2>1, <2>3, <2>4
    <2>5. CASE ~Closes(Parent[d])
        BY <1>4, <1>7, <2>2, <2>3, <2>5
    <2> QED BY <2>4, <2>5
<1>10. Matched(next)
    <2> SUFFICES ASSUME NEW s \in Sessions, Accepting(next[s]), next[s].process.current
                 PROVE  /\ next[s].process.control_kind = "resume" => ~Held(next, s)
                        /\ next[s].process.control_kind = "suspend" => Held(next, s)
        BY DEF Matched
    <2>1. ~Closes(s) /\ next[s] = cancelled[s] /\ rows[s].status \notin {"none", "closed"}
        BY <1>4, <1>6, <1>7 DEF Accepting
    <2>2. \A a \in Sessions : s \in Tree(a) => next[a] = cancelled[a]
        BY <1>5, <1>7, <2>1
    <2>3. Held(next, s) <=> Held(cancelled, s)
        BY <2>1, <2>2, HeldInTree
    <2> QED BY <1>3, <2>1, <2>3 DEF HoldRows, Matched
<1>11. HoldRows(next, c)
    BY <1>8, <1>9, <1>10 DEF HoldRows
<1> QED BY <1>11 DEF next

\* beginClose marks a Session with all it owns before it drains them.
LEMMA BeginCloseKeeps ==
    ASSUME NEW rows, NEW c, AllFine(rows, c), HoldRows(rows, c),
           NEW ids, \A s \in Sessions \cap ids : Tree(s) \subseteq ids
    PROVE  HoldRows(BeginClose(rows, ids), c)
<1> DEFINE marked == [s \in Sessions |-> IF s \in ids /\ rows[s].status = "open"
                                        THEN [rows[s] EXCEPT !.status = "closing"] ELSE rows[s]]
<1>1. ASSUME NEW s \in Sessions
      PROVE  /\ marked[s] \in Row
             /\ marked[s].status = IF s \in ids /\ rows[s].status = "open" THEN "closing" ELSE rows[s].status
             /\ marked[s].turn = rows[s].turn /\ marked[s].process = rows[s].process
             /\ marked[s].interrupts = rows[s].interrupts /\ marked[s].gaps = rows[s].gaps
             /\ SameHolds(rows[s], marked[s])
    <2>1. rows[s] \in Row
        BY DEF AllFine
    <2> DEFINE q == [rows[s] EXCEPT !.status = "closing"]
    <2>2. /\ q \in Row /\ q.status = "closing" /\ q.turn = rows[s].turn /\ q.process = rows[s].process
          /\ q.interrupts = rows[s].interrupts /\ q.gaps = rows[s].gaps /\ SameHolds(rows[s], q)
        BY <2>1 DEF Row, SameHolds
    <2> HIDE DEF q
    <2>3. marked[s] = IF s \in ids /\ rows[s].status = "open" THEN q ELSE rows[s]
        BY DEF q
    <2> HIDE DEF marked
    <2> QED BY <2>1, <2>2, <2>3 DEF SameHolds
<1>2. marked \in [Sessions -> Row]
    <2>1. marked = [s \in Sessions |-> marked[s]]
        OBVIOUS
    <2> HIDE DEF marked
    <2> QED BY <1>1, <2>1
<1>3. BeginClose(rows, ids) = DrainClosingSessions(marked, ids)
    BY DEF BeginClose
<1> HIDE DEF marked
<1>4. ASSUME NEW s \in Sessions PROVE Ledger(marked[s]) /\ Saving(marked[s], c)
    <2>1. Ledger(rows[s]) /\ Saving(rows[s], c)
        BY DEF HoldRows, Books
    <2>2. Accepting(marked[s]) <=> Accepting(rows[s])
        BY <1>1 DEF Accepting
    <2>3. marked[s].turn = rows[s].turn /\ marked[s].gaps = rows[s].gaps /\ SameHolds(rows[s], marked[s])
        BY <1>1
    <2>4. ConsecutiveFailures(marked[s]) = ConsecutiveFailures(rows[s])
        BY <2>3 DEF ConsecutiveFailures, TurnsIn, SameHolds
    <2>5. Counted(marked[s])
        BY <2>1, <2>2, <2>3, <2>4 DEF Ledger, Counted, SameHolds
    <2>6. Unstarted(marked[s]) /\ Reported(marked[s])
        BY <2>1, <2>2, <2>3, ZenonT(60) DEF Ledger, Unstarted, Reported
    <2>7. Cleared(marked[s])
        BY <1>1, <2>1 DEF Ledger, Cleared, SameHolds, Unsettled, TurnsIn
    <2>8. Saving(marked[s], c)
        BY <2>1, <2>3, ZenonT(60) DEF Saving, SameHolds, Running, TurnsIn
    <2> QED BY <2>5, <2>6, <2>7, <2>8 DEF Ledger
<1>5. Matched(marked)
    <2> SUFFICES ASSUME NEW s \in Sessions, Accepting(marked[s]), marked[s].process.current
                 PROVE  /\ marked[s].process.control_kind = "resume" => ~Held(marked, s)
                        /\ marked[s].process.control_kind = "suspend" => Held(marked, s)
        BY DEF Matched
    <2>1. Accepting(rows[s]) /\ marked[s].process = rows[s].process /\ marked[s].holds = rows[s].holds
        BY <1>1 DEF Accepting, SameHolds
    <2>2. \A a \in Sessions : marked[a].interrupts = rows[a].interrupts
        BY <1>1
    <2>3. Held(marked, s) <=> Held(rows, s)
        BY <2>1, <2>2, HeldInTree
    <2> QED BY <2>1, <2>3 DEF HoldRows, Matched
<1>6. Nested(marked)
    <2> SUFFICES ASSUME NEW d \in Sessions, Parent[d] \in Sessions
                 PROVE  /\ marked[Parent[d]].status = "closed" => marked[d].status \in {"none", "closed"}
                        /\ marked[Parent[d]].status = "closing" => marked[d].status # "open"
        BY DEF Nested
    <2>1. Parent[d] \in ids => d \in ids
        BY TreeOwned
    <2>2. /\ rows[Parent[d]].status = "closed" => rows[d].status \in {"none", "closed"}
          /\ rows[Parent[d]].status = "closing" => rows[d].status # "open"
        BY DEF HoldRows, Nested
    <2> QED BY <1>1, <2>1, <2>2
<1>7. HoldRows(marked, c)
    BY <1>4, <1>5, <1>6 DEF HoldRows, Books
<1> QED BY <1>2, <1>3, <1>7, DrainKeeps

-----------------------------------------------------------------------------

\* Interrupts of s come or go and every control below s is superseded.
Repairs(rows, held, next, s) ==
    /\ \A t \in Sessions : t # s => held[t] = rows[t]
    /\ \A t \in Tree(s) : Ordinary(held[t], next[t]) /\ ~next[t].process.current
    /\ \A t \in Sessions \ Tree(s) : next[t] = held[t]

LEMMA RepairedRows ==
    ASSUME NEW rows, NEW held, NEW next, NEW c, NEW s \in Sessions,
           Books(held, c), Nested(held), Matched(rows), Repairs(rows, held, next, s)
    PROVE  HoldRows(next, c)
<1> USE DEF Repairs
<1>1. ASSUME NEW t \in Sessions PROVE Ordinary(held[t], next[t]) \/ next[t] = held[t]
    OBVIOUS
<1>2. ASSUME NEW t \in Sessions
      PROVE  Ledger(next[t]) /\ Saving(next[t], c) /\ next[t].status = held[t].status
    <2>1. Ledger(held[t]) /\ Saving(held[t], c)
        BY DEF Books
    <2>2. CASE Ordinary(held[t], next[t])
        BY <2>1, <2>2, LedgerKept, SavingKept, ZenonT(60) DEF Ordinary, SameRecord
    <2> QED BY <1>1, <2>1, <2>2
<1>3. Nested(next)
    BY <1>2, ZenonT(60) DEF Nested
<1>4. Matched(next)
    <2> SUFFICES ASSUME NEW t \in Sessions, Accepting(next[t]), next[t].process.current
                 PROVE  /\ next[t].process.control_kind = "resume" => ~Held(next, t)
                        /\ next[t].process.control_kind = "suspend" => Held(next, t)
        BY DEF Matched
    <2>1. t \notin Tree(s) /\ t # s
        BY TreeOwned
    <2>2. \A a \in Sessions : t \in Tree(a) => a \notin Tree(s) /\ a # s
        BY <2>1, TreeTransitive
    <2>3. next[t] = rows[t] /\ \A a \in Sessions : t \in Tree(a) => next[a] = rows[a]
        BY <2>1, <2>2
    <2>4. Held(next, t) <=> Held(rows, t)
        BY <2>3, HeldInTree
    <2> QED BY <2>3, <2>4, ZenonT(60) DEF Matched
<1> QED BY <1>2, <1>3, <1>4 DEF HoldRows, Books

\* The interrupts of one accepting row.
LEMMA InterruptsFields ==
    ASSUME NEW rows, rows \in [Sessions -> Row], NEW c, HoldRows(rows, c), NEW s \in Sessions,
           Accepting(rows[s]), NEW i \in Nat
    PROVE  LET held == [rows EXCEPT ![s] = [rows[s] EXCEPT !.interrupts = i]] IN
           /\ held \in [Sessions -> Row]
           /\ Books(held, c) /\ Nested(held) /\ Matched(rows)
           /\ \A t \in Sessions : t # s => held[t] = rows[t]
<1> DEFINE r == rows[s]
           q == [r EXCEPT !.interrupts = i]
           held == [rows EXCEPT ![s] = q]
<1>1. /\ q \in Row /\ q.turn = r.turn /\ q.status = r.status /\ q.gaps = r.gaps /\ SameHolds(r, q)
    BY ZenonT(60) DEF Row, SameHolds
<1> HIDE DEF q
<1>2. Ledger(r) /\ Saving(r, c)
    BY DEF HoldRows, Books
<1> HIDE DEF r
<1>3. ConsecutiveFailures(q) = ConsecutiveFailures(r)
    BY <1>1 DEF ConsecutiveFailures, TurnsIn, SameHolds
<1>4. Counted(q) /\ Unstarted(q) /\ Reported(q)
    BY <1>1, <1>2, <1>3 DEF Ledger, Counted, Unstarted, Reported, SameHolds, Accepting
<1>5. Cleared(q)
    BY <1>1 DEF Cleared, Accepting, r
<1>6. Saving(q, c)
    BY <1>1, <1>2 DEF Saving, SameHolds, Running, TurnsIn
<1>7. held \in [Sessions -> Row] /\ \A t \in Sessions : held[t] = IF t = s THEN q ELSE rows[t]
    BY <1>1
<1> HIDE DEF held
<1>8. Books(held, c)
    BY <1>4, <1>5, <1>6, <1>7 DEF Books, HoldRows, Ledger
<1>9. \A t \in Sessions : held[t].status = rows[t].status
    BY <1>1, <1>7 DEF r
<1>10. Nested(held)
    BY <1>9 DEF HoldRows, Nested
<1> QED BY <1>7, <1>8, <1>10 DEF held, q, r, HoldRows

\* Only the epoch, the status and the fence of the lease matter.
LEMMA SameLeaseHolds ==
    ASSUME NEW rows, NEW c, HoldRows(rows, c), NEW d, d.lease = c.lease
    PROVE  HoldRows(rows, d)
BY DEF HoldRows, Books, Saving, LeaseLive, Allocated

\* Interrupt.
LEMMA InterruptHolds ==
    ASSUME SessionInv, HoldInv, NEW s \in Sessions, NEW queued \in BOOLEAN, Interrupt(s, queued)
    PROVE  HoldInv'
<1> DEFINE i == session[s].interrupts + 1
           h == [session[s] EXCEPT !.interrupts = i]
           held == [session EXCEPT ![s] = h]
           rows == [t \in Sessions |-> IF t \in Tree(s) THEN InterruptRow(held[t], queued) ELSE held[t]]
           next == DrainClosingSessions(rows, Tree(s))
<1>1. session \in [Sessions -> Row] /\ session[s] \in Row /\ i \in Nat
    BY DEF SessionInv, AllFine, Row
<1>2. [session EXCEPT ![s].interrupts = @ + 1] = held
    BY <1>1
<1>3. /\ session[s].status = "open" /\ session' = next
      /\ computer' = RetireUnusedExecutionAdmission(session', computer)
    BY <1>2 DEF Interrupt, Control
<1> HIDE DEF i
<1>4. /\ held \in [Sessions -> Row]
      /\ Books(held, computer) /\ Nested(held) /\ Matched(session)
      /\ \A t \in Sessions : t # s => held[t] = session[t]
    BY <1>1, <1>3, InterruptsFields, ZenonT(60) DEF HoldInv, Accepting
<1> HIDE DEF held
<1>5. ASSUME NEW t \in Sessions
      PROVE  /\ rows[t] \in Row
             /\ t \in Tree(s) => Ordinary(held[t], rows[t]) /\ ~rows[t].process.current
             /\ t \notin Tree(s) => rows[t] = held[t]
    <2>1. held[t] \in Row
        BY <1>4
    <2>2. LET q == InterruptRow(held[t], queued) IN Ordinary(held[t], q) /\ q \in Row /\ ~q.process.current
        BY <2>1, InterruptRowIsPlain, PlainIsOrdinary
    <2> QED BY <2>1, <2>2
<1>6. rows = [t \in Sessions |-> rows[t]]
    OBVIOUS
<1> HIDE DEF rows
<1>7. rows \in [Sessions -> Row]
    BY <1>5, <1>6
<1>8. \A t \in Tree(s) : t \in Sessions
    BY DEF Tree
<1>9. HoldRows(rows, computer)
    <2>1. \A t \in Tree(s) : Ordinary(held[t], rows[t]) /\ ~rows[t].process.current
        BY <1>5, <1>8, ZenonT(60)
    <2>2. \A t \in Sessions \ Tree(s) : rows[t] = held[t]
        BY <1>5, ZenonT(60)
    <2>3. Repairs(session, held, rows, s)
        BY <1>4, <2>1, <2>2, ZenonT(60) DEF Repairs
    <2> QED BY <1>4, <2>3, RepairedRows, ZenonT(60)
<1>10. \A t \in Sessions \cap Tree(s) : Tree(t) \subseteq Tree(s)
    <2>1. \A t \in Sessions : \A e \in Tree(t) : e \in Sessions
        BY DEF Tree
    <2> QED BY <2>1, TreeTransitive
<1>11. HoldRows(next, computer)
    BY <1>7, <1>9, <1>10, DrainKeeps
<1> HIDE DEF next
<1>12. computer'.lease = computer.lease
    BY <1>3, AdmissionFields DEF SessionInv
<1> QED BY <1>3, <1>11, <1>12, SameLeaseHolds DEF HoldInv

\* What the count of failures needs of Cardinality; CountsHold shows it.
Counts ==
    /\ Cardinality({}) = 0
    /\ \A S \in SUBSET (1..MaxEpochs) : Cardinality(S) \in Nat
    /\ \A S, T \in SUBSET (1..MaxEpochs) : S \subseteq T => Cardinality(S) <= Cardinality(T)

\* A row without failures is below the threshold.
LEMMA FreshCount ==
    ASSUME Counts, NEW q, q.failures = {} PROVE ~(ConsecutiveFailures(q) >= processFailureHoldThreshold)
<1> DEFINE done == {q.turn[n].process_epoch : n \in TurnsIn(q, {"completed", "failed"})}
<1>1. {e \in q.failures : \A f \in done : e >= f} = {}
    OBVIOUS
<1>2. ConsecutiveFailures(q) = Cardinality({e \in q.failures : \A f \in done : e >= f})
    BY DEF ConsecutiveFailures
<1> HIDE DEF done
<1>3. ConsecutiveFailures(q) = 0
    BY <1>1, <1>2 DEF Counts
<1> QED BY <1>3

\* Finishing a Turn can only lower the count.
LEMMA FewerFailures ==
    ASSUME Counts, NEW r \in Row, NEW q, q.failures = r.failures,
           \A n \in TurnIds : r.turn[n].status \in {"completed", "failed"} =>
               /\ q.turn[n].status \in {"completed", "failed"}
               /\ q.turn[n].process_epoch = r.turn[n].process_epoch
    PROVE  ConsecutiveFailures(q) >= processFailureHoldThreshold
               => ConsecutiveFailures(r) >= processFailureHoldThreshold
<1> DEFINE done(x) == {x.turn[n].process_epoch : n \in TurnsIn(x, {"completed", "failed"})}
           last(x) == {e \in x.failures : \A f \in done(x) : e >= f}
<1>1. done(r) \subseteq done(q)
    BY DEF TurnsIn
<1>2. ConsecutiveFailures(q) = Cardinality(last(q)) /\ ConsecutiveFailures(r) = Cardinality(last(r))
    BY DEF ConsecutiveFailures
<1> HIDE DEF done
<1>3. last(q) \subseteq last(r) /\ last(r) \subseteq r.failures
    BY <1>1
<1> HIDE DEF last
<1>4. last(r) \in SUBSET (1..MaxEpochs) /\ last(q) \in SUBSET (1..MaxEpochs)
    BY <1>3 DEF Row
<1>5. /\ Cardinality(last(q)) <= Cardinality(last(r))
      /\ Cardinality(last(q)) \in Nat /\ Cardinality(last(r)) \in Nat
    BY <1>3, <1>4 DEF Counts
<1> QED BY <1>2, <1>5

\* Releasing the hold for failures forgets them.
LEMMA ReleaseIsOrdinary ==
    ASSUME Counts, NEW r \in Row, r.status # "closed", NEW kind \in {"process_failed", "recovery_gap"}
    PROVE  Ordinary(r, AdvanceControlAuthority(ReleaseHold(r, kind)))
<1>1. CASE kind = "recovery_gap"
    <2>1. ReleaseHold(r, kind) = [r EXCEPT !.holds = r.holds \ {"recovery_gap"}]
        BY <1>1 DEF ReleaseHold
    <2>2. r.holds \ {"recovery_gap"} \in SUBSET LocalHolds
        BY DEF Row
    <2> QED BY <2>1, <2>2, HoldsAreOrdinary
<1>2. CASE kind = "process_failed"
    <2> DEFINE g == [r EXCEPT !.holds = r.holds \ {"process_failed"}, !.failures = {}]
               q == AdvanceControlAuthority(g)
    <2>1. ReleaseHold(r, kind) = g
        BY <1>2 DEF ReleaseHold
    <2>2. /\ g \in Row /\ g.holds = r.holds \ {"process_failed"} /\ g.failures = {} /\ g.turn = r.turn
          /\ SameRecord(r, g)
        BY ZenonT(60) DEF Row, SameRecord
    <2> HIDE DEF g
    <2>3. Plain(g, q) /\ ~q.process.current
        BY <2>2, AdvanceIsPlain
    <2> HIDE DEF q
    <2>4. SameRecord(r, q) /\ SameWork(r, q) /\ q.holds = r.holds \ {"process_failed"} /\ q.failures = {}
        <3>1. SameRecord(r, q)
            BY <2>2, <2>3, ZenonT(60) DEF Plain, SameRecord
        <3>2. SameWork(r, q)
            BY <2>2, <2>3, ZenonT(60) DEF Plain, SameWork
        <3>3. q.holds = g.holds /\ q.failures = g.failures
            BY <2>3, ZenonT(60) DEF Plain, SameHolds
        <3> QED BY <2>2, <3>1, <3>2, <3>3, ZenonT(60)
    <2>5. Counted(q)
        BY <2>4, FreshCount DEF Counted
    <2>6. Ordinary(r, q)
        BY <2>3, <2>4, <2>5, ZenonT(60) DEF Ordinary, SameControl
    <2> QED BY <2>1, <2>6 DEF q
<1> QED BY <1>1, <1>2

\* Resume.
LEMMA ResumeHolds ==
    ASSUME Counts, SessionInv, HoldInv, NEW s \in Sessions,
           NEW kind \in {"interrupt", "process_failed", "recovery_gap"}, Resume(s, kind)
    PROVE  HoldInv'
<1> DEFINE ids == IF kind = "interrupt" THEN Tree(s) ELSE {s}
           h == ReleaseHold(session[s], kind)
           released == [session EXCEPT ![s] = h]
           rows == [t \in Sessions |-> IF t \in ids THEN AdvanceControlAuthority(released[t]) ELSE released[t]]
           retired == RetireUnusedExecutionAdmission(session, computer)
<1>1. HoldPresent(session[s], kind) /\ session' = rows /\ computer' \in {retired, NoteExecutionDemand(retired)}
    BY ZenonT(60) DEF Resume, Control
<1>2. session \in [Sessions -> Row] /\ session[s] \in Row
    BY DEF SessionInv, AllFine
<1>3. retired \in Computer /\ retired.lease = computer.lease
    BY AdmissionFields DEF SessionInv
<1> HIDE DEF retired
<1>4. computer'.lease = computer.lease
    BY <1>1, <1>3, AdmissionFields
<1>5. session[s].status # "closed" /\ (kind = "interrupt" => Accepting(session[s]))
    <2>1. Cleared(session[s])
        BY DEF HoldInv, HoldRows, Books, Ledger
    <2>2. session[s].status \in {"none", "open", "closing", "closed"}
        BY <1>2 DEF Row
    <2>3. session[s].holds # {} \/ session[s].interrupts # 0
        BY <1>1, <1>2 DEF HoldPresent, Row
    <2>4. session[s].status # "closed"
        BY <2>1, <2>3, ZenonT(60) DEF Cleared
    <2>5. ASSUME kind = "interrupt" PROVE Accepting(session[s])
        <3>1. session[s].interrupts # 0
            BY <1>1, <1>2, <2>5 DEF HoldPresent, Row
        <3>2. session[s].status # "none"
            BY <2>1, <3>1, ZenonT(60) DEF Cleared
        <3> QED BY <2>2, <2>4, <3>2, ZenonT(60) DEF Accepting
    <2> QED BY <2>4, <2>5
<1>6. CASE kind = "interrupt"
    <2> DEFINE i == session[s].interrupts - 1
    <2>1. i \in Nat
        BY <1>1, <1>2, <1>6 DEF HoldPresent, Row
    <2>2. h = [session[s] EXCEPT !.interrupts = i]
        BY <1>6 DEF ReleaseHold
    <2> HIDE DEF i, h
    <2>3. /\ released \in [Sessions -> Row]
          /\ Books(released, computer) /\ Nested(released) /\ Matched(session)
          /\ \A t \in Sessions : t # s => released[t] = session[t]
        BY <1>2, <1>5, <1>6, <2>1, <2>2, InterruptsFields, ZenonT(60) DEF HoldInv
    <2> HIDE DEF released
    <2>4. ids = Tree(s)
        BY <1>6
    <2> HIDE DEF ids
    <2>5. ASSUME NEW t \in Sessions
          PROVE  /\ t \in Tree(s) => Ordinary(released[t], rows[t]) /\ ~rows[t].process.current
                 /\ t \notin Tree(s) => rows[t] = released[t]
        <3>1. released[t] \in Row
            BY <2>3
        <3>2. LET q == AdvanceControlAuthority(released[t]) IN Ordinary(released[t], q) /\ ~q.process.current
            BY <3>1, AdvanceIsPlain, PlainIsOrdinary
        <3> QED BY <2>4, <3>2
    <2> HIDE DEF rows
    <2>6. \A t \in Tree(s) : t \in Sessions
        BY DEF Tree
    <2>7. HoldRows(rows, computer)
        <3>1. \A t \in Tree(s) : Ordinary(released[t], rows[t]) /\ ~rows[t].process.current
            BY <2>5, <2>6, ZenonT(60)
        <3>2. \A t \in Sessions \ Tree(s) : rows[t] = released[t]
            BY <2>5, ZenonT(60)
        <3>3. Repairs(session, released, rows, s)
            BY <2>3, <3>1, <3>2, ZenonT(60) DEF Repairs
        <3> QED BY <2>3, <3>3, RepairedRows, ZenonT(60)
    <2> QED BY <1>1, <1>4, <2>7, SameLeaseHolds DEF HoldInv
<1>7. CASE kind # "interrupt"
    <2>1. Ordinary(session[s], AdvanceControlAuthority(h))
        BY <1>2, <1>5, <1>7, ReleaseIsOrdinary
    <2> HIDE DEF h
    <2>2. ids = {s}
        BY <1>7
    <2> HIDE DEF ids
    <2>3. \A t \in Sessions : rows[t] = IF t = s THEN AdvanceControlAuthority(h) ELSE session[t]
        BY <1>2, <2>2
    <2>4. \A t \in Sessions : Ordinary(session[t], session[t])
        BY <1>2, PlainReflexive, PlainIsOrdinary
    <2> HIDE DEF rows
    <2>5. HoldRows(rows, computer)
        BY <2>1, <2>3, <2>4, OrdinaryRows DEF HoldInv
    <2> QED BY <1>1, <1>4, <2>5, SameLeaseHolds DEF HoldInv
<1> QED BY <1>6, <1>7

\* cancel of one row.
LEMMA CancelFields ==
    ASSUME NEW r \in Row, NEW c, Ledger(r), Saving(r, c)
    PROVE  LET q == CancelRow(r) IN
           /\ Ledger(q) /\ Saving(q, c)
           /\ q.status = IF r.status = "none" THEN "none" ELSE "closed"
<1>1. CASE r.status = "none"
    BY <1>1 DEF CancelRow
<1>2. CASE r.status # "none"
    <2> DEFINE g == SettleTurns(r, Unsettled(r), "cancelled")
               p == IF r.status = "closed" THEN g ELSE FinishClose(g)
               q == ProcessStops(p)
    <2>1. g \in Row /\ Ordinary(r, g)
        BY SettleIsPlain, PlainIsOrdinary
    <2>2. Unsettled(g) = {} /\ g.status = r.status
        <3>1. /\ g.status = r.status
              /\ \A n \in TurnIds :
                    g.turn[n].status = IF n \in Unsettled(r) THEN "cancelled" ELSE r.turn[n].status
            <4>1. "cancelled" \in Ended
                BY DEF Ended
            <4> QED BY <4>1, SettleTurnsFields
        <3> HIDE DEF g
        <3> QED BY <3>1 DEF Unsettled, TurnsIn
    <2>3. CancelRow(r) = q
        BY <1>2 DEF CancelRow
    <2> HIDE DEF g
    <2>4. Ledger(g) /\ Saving(g, c)
        BY <2>1, LedgerKept, SavingKept
    <2>5. p \in Row
        <3>1. FinishClose(g) \in Row
            <4> DEFINE a == [g EXCEPT !.status = "closed", !.interrupts = 0, !.holds = {}]
                       b == [a EXCEPT !.process.current = FALSE]
            <4>1. a \in Row
                BY <2>1, ZenonT(60) DEF Row
            <4>2. b = [g EXCEPT !.status = "closed", !.interrupts = 0, !.holds = {}, !.process.current = FALSE]
                BY <2>1 DEF Row
            <4> HIDE DEF a
            <4>3. b \in Row
                BY <4>1, ZenonT(60) DEF Row, Process
            <4> HIDE DEF b
            <4>4. ProcessStops(b) \in Row
                BY <4>3 DEF ProcessStops, Row, Process
            <4> QED BY <4>2, <4>4 DEF FinishClose
        <3> QED BY <2>1, <3>1
    <2>6. Ledger(p) /\ Saving(p, c) /\ p.status = "closed"
        BY <2>1, <2>2, <2>4, FinishCloseFields, ClosedKept
    <2> HIDE DEF p
    <2>7. Ordinary(p, q)
        BY <2>5, StatusIsPlain, PlainIsOrdinary, ZenonT(60)
    <2>8. Ledger(q) /\ Saving(q, c) /\ q.status = "closed"
        BY <2>6, <2>7, LedgerKept, SavingKept, ZenonT(60) DEF Ordinary, SameRecord
    <2> QED BY <1>2, <2>3, <2>8
<1> QED BY <1>1, <1>2

\* Cancel.
LEMMA CancelHolds ==
    ASSUME SessionInv, HoldInv, NEW s \in Sessions, Cancel(s) PROVE HoldInv'
<1> DEFINE rows == [t \in Sessions |-> IF t \in Tree(s) THEN CancelRow(session[t]) ELSE session[t]]
<1>1. session' = rows /\ computer' = RetireUnusedExecutionAdmission(session', computer)
    BY DEF Cancel, Control
<1>2. ASSUME NEW t \in Sessions
      PROVE  /\ Ledger(rows[t]) /\ Saving(rows[t], computer)
             /\ t \in Tree(s) => rows[t].status = IF session[t].status = "none" THEN "none" ELSE "closed"
             /\ t \notin Tree(s) => rows[t] = session[t]
    <2>1. session[t] \in Row /\ Ledger(session[t]) /\ Saving(session[t], computer)
        BY DEF SessionInv, AllFine, HoldInv, HoldRows, Books
    <2> QED BY <2>1, CancelFields
<1> HIDE DEF rows
<1>3. Nested(rows)
    <2> SUFFICES ASSUME NEW d \in Sessions, Parent[d] \in Sessions
                 PROVE  /\ rows[Parent[d]].status = "closed" => rows[d].status \in {"none", "closed"}
                        /\ rows[Parent[d]].status = "closing" => rows[d].status # "open"
        BY DEF Nested
    <2>1. Parent[d] \in Tree(s) => d \in Tree(s)
        BY TreeOwned, TreeTransitive
    <2>2. /\ session[Parent[d]].status = "closed" => session[d].status \in {"none", "closed"}
          /\ session[Parent[d]].status = "closing" => session[d].status # "open"
        BY DEF HoldInv, HoldRows, Nested
    <2> QED BY <1>2, <2>1, <2>2
<1>4. Matched(rows)
    <2> SUFFICES ASSUME NEW t \in Sessions, Accepting(rows[t]), rows[t].process.current
                 PROVE  /\ rows[t].process.control_kind = "resume" => ~Held(rows, t)
                        /\ rows[t].process.control_kind = "suspend" => Held(rows, t)
        BY DEF Matched
    <2>1. t \notin Tree(s)
        BY <1>2 DEF Accepting
    <2>2. \A a \in Sessions : t \in Tree(a) => a \notin Tree(s)
        BY <2>1, TreeTransitive
    <2>3. rows[t] = session[t] /\ \A a \in Sessions : t \in Tree(a) => rows[a] = session[a]
        BY <1>2, <2>1, <2>2
    <2>4. Held(rows, t) <=> Held(session, t)
        BY <2>3, HeldInTree
    <2> QED BY <2>3, <2>4, ZenonT(60) DEF HoldInv, HoldRows, Matched
<1>5. HoldRows(rows, computer)
    BY <1>2, <1>3, <1>4 DEF HoldRows, Books
<1>6. computer'.lease = computer.lease
    BY <1>1, AdmissionFields DEF SessionInv
<1> QED BY <1>1, <1>5, <1>6, SameLeaseHolds DEF HoldInv

-----------------------------------------------------------------------------

\* One Turn of an accepting row, not finished before, becomes t.
TurnChanges(r, q, n, t, c) ==
    /\ SameRecord(r, q) /\ SameHolds(r, q) /\ q.process = r.process /\ Accepting(r)
    /\ \A m \in TurnIds : q.turn[m] = IF m = n THEN t ELSE r.turn[m]
    /\ r.turn[n].status \notin {"completed", "failed"}
    /\ t.status = "queued" => t.process_epoch = 0
    /\ t.status = "completed" => t.save # "failed"
    /\ t.save = "requested" => /\ t.status = "completed" /\ t.save_lease = c.lease.epoch
                               /\ LeaseLive(c) /\ "recovery_gap" \notin r.holds
    /\ t.status = "running" => "recovery_gap" \notin r.holds

\* A Turn is admitted, starts or finishes.
LEMMA TurnKeeps ==
    ASSUME Counts, NEW r \in Row, NEW q, NEW c, Ledger(r), Saving(r, c), NEW n \in TurnIds, NEW t,
           TurnChanges(r, q, n, t, c)
    PROVE  Ledger(q) /\ Saving(q, c)
<1>1. Unstarted(r) /\ Counted(r) /\ Reported(r)
    BY DEF Ledger
<1> USE DEF TurnChanges
<1>2. Unstarted(q)
    BY <1>1, ZenonT(60) DEF Unstarted
<1>3. Counted(q)
    <2>1. ConsecutiveFailures(q) >= processFailureHoldThreshold
              => ConsecutiveFailures(r) >= processFailureHoldThreshold
        BY FewerFailures, ZenonT(60) DEF SameHolds
    <2> QED BY <1>1, <2>1, ZenonT(60) DEF Counted, SameHolds
<1>4. Reported(q)
    BY <1>1, ZenonT(60) DEF Reported, SameRecord
<1>5. Cleared(q)
    BY ZenonT(60) DEF Cleared, Accepting, SameRecord
<1>6. Saving(q, c)
    BY ZenonT(60) DEF Saving, SameHolds, Running, TurnsIn
<1> QED BY <1>2, <1>3, <1>4, <1>5, <1>6, ZenonT(60) DEF Ledger

\* One row changes, its Turns apart, only in what HoldRows ignores.
LEMMA OneRowHolds ==
    ASSUME NEW rows, rows \in [Sessions -> Row], NEW c, HoldRows(rows, c), NEW s \in Sessions, NEW q,
           Ledger(q), Saving(q, c), Steady(rows[s], q)
    PROVE  HoldRows([rows EXCEPT ![s] = q], c)
<1> DEFINE next == [rows EXCEPT ![s] = q]
<1>1. \A t \in Sessions : next[t] = IF t = s THEN q ELSE rows[t]
    OBVIOUS
<1> HIDE DEF next
<1>2. \A t \in Sessions : Steady(rows[t], rows[t]) /\ Ledger(rows[t]) /\ Saving(rows[t], c)
    BY DEF HoldRows, Books, Steady, SameControl
<1>3. HoldRows(next, c)
    BY <1>1, <1>2, SteadyRows
<1> QED BY <1>3 DEF next

\* An ordinary change of one row.
LEMMA OrdinaryRow ==
    ASSUME SessionInv, HoldInv, NEW s \in Sessions, NEW q, Ordinary(session[s], q),
           session' = [session EXCEPT ![s] = q], computer'.lease = computer.lease
    PROVE  HoldInv'
<1>1. session \in [Sessions -> Row] /\ Ledger(session[s]) /\ Saving(session[s], computer)
    BY DEF SessionInv, AllFine, HoldInv, HoldRows, Books
<1>2. Ledger(q) /\ Saving(q, computer)
    BY <1>1, LedgerKept, SavingKept
<1>3. Steady(session[s], q)
    BY DEF Ordinary, SameRecord, Steady
<1>4. HoldRows([session EXCEPT ![s] = q], computer)
    BY <1>1, <1>2, <1>3, OneRowHolds, ZenonT(60) DEF HoldInv
<1> QED BY <1>4, SameLeaseHolds DEF HoldInv

\* A Turn of one row changes.
LEMMA TurnRow ==
    ASSUME Counts, SessionInv, HoldInv, NEW s \in Sessions, NEW n \in TurnIds, NEW t, NEW q,
           TurnChanges(session[s], q, n, t, computer),
           session' = [session EXCEPT ![s] = q], computer'.lease = computer.lease
    PROVE  HoldInv'
<1>1. /\ session \in [Sessions -> Row] /\ session[s] \in Row
      /\ Ledger(session[s]) /\ Saving(session[s], computer)
    BY ZenonT(60) DEF SessionInv, AllFine, HoldInv, HoldRows, Books
<1>2. Ledger(q) /\ Saving(q, computer)
    BY <1>1, TurnKeeps, ZenonT(60)
<1>3. Steady(session[s], q)
    BY ZenonT(60) DEF TurnChanges, Steady, SameRecord, SameHolds, SameControl
<1>4. HoldRows([session EXCEPT ![s] = q], computer)
    BY <1>1, <1>2, <1>3, OneRowHolds, ZenonT(60) DEF HoldInv
<1> QED BY <1>4, SameLeaseHolds DEF HoldInv

\* Enqueue.
LEMMA EnqueueHolds ==
    ASSUME Counts, SessionInv, HoldInv, NEW s \in Sessions, Enqueue(s) PROVE HoldInv'
<1> DEFINE r == session[s]
           n == r.next_turn_seq
           q == [r EXCEPT !.turn = [r.turn EXCEPT ![n] = NewTurn], !.next_turn_seq = n + 1, !.idle = FALSE]
<1>1. session \in [Sessions -> Row] /\ r \in Row /\ Numbered(r)
    BY DEF SessionInv, AllFine, Fine
<1>2. r.status = "open" /\ n \in TurnIds
    BY DEF Enqueue
<1>3. session' = [session EXCEPT ![s] = q]
    <2>1. session' = [session EXCEPT ![s].turn[n] = NewTurn, ![s].next_turn_seq = n + 1, ![s].idle = FALSE]
        BY DEF Enqueue
    <2> QED BY <1>1, <2>1, ZenonT(60)
<1>4. /\ SameRecord(r, q) /\ SameHolds(r, q) /\ q.process = r.process
      /\ q.turn = [r.turn EXCEPT ![n] = NewTurn]
    BY <1>1 DEF Row, SameRecord, SameHolds
<1> HIDE DEF q
<1>5. \A m \in TurnIds : q.turn[m] = IF m = n THEN NewTurn ELSE r.turn[m]
    BY <1>1, <1>2, <1>4, ZenonT(60) DEF Row
<1>6. r.turn[n].status = "none"
    BY <1>1, <1>2 DEF Numbered, TurnIds
<1>7. NewTurn.status = "queued" /\ NewTurn.process_epoch = 0 /\ NewTurn.save = "none"
    BY DEF NewTurn
<1>8. computer'.lease = computer.lease
    BY AdmissionFields DEF Enqueue, SessionInv
<1>9. Accepting(r)
    BY <1>2 DEF Accepting
<1> HIDE DEF NewTurn
<1>10. TurnChanges(r, q, n, NewTurn, computer)
    BY <1>4, <1>5, <1>6, <1>7, <1>9, ZenonT(60) DEF TurnChanges
<1> QED BY <1>2, <1>3, <1>8, <1>10, TurnRow, ZenonT(60)

\* Publish; the Session may be closed by now.
LEMMA PublishHolds ==
    ASSUME Counts, SessionInv, HoldInv, NEW s \in Sessions, NEW n \in TurnIds, Publish(s, n)
    PROVE  HoldInv'
<1> DEFINE r == session[s]
           t == [r.turn[n] EXCEPT !.save = "published"]
           q == [r EXCEPT !.turn = [r.turn EXCEPT ![n] = t]]
<1>1. session \in [Sessions -> Row] /\ r \in Row /\ r.turn[n] \in Turn
    BY DEF SessionInv, AllFine, Row
<1>2. session' = [session EXCEPT ![s] = q] /\ computer' = [computer EXCEPT !.saved = TRUE]
    BY <1>1 DEF Publish
<1>3. /\ t.status = r.turn[n].status /\ t.process_epoch = r.turn[n].process_epoch
      /\ t.save = "published" /\ t.save_lease = r.turn[n].save_lease
    BY <1>1 DEF Turn
<1> HIDE DEF t
<1>4. /\ SameRecord(r, q) /\ SameHolds(r, q) /\ q.process = r.process /\ q.turn = [r.turn EXCEPT ![n] = t]
    BY <1>1 DEF Row, SameRecord, SameHolds
<1> HIDE DEF q
<1>5. \A m \in TurnIds : q.turn[m] = IF m = n THEN t ELSE r.turn[m]
    BY <1>1, <1>4, ZenonT(60) DEF Row
<1>6. computer'.lease = computer.lease
    BY <1>2 DEF SessionInv, Computer
<1>7. Ledger(r) /\ Saving(r, computer)
    BY DEF HoldInv, HoldRows, Books
<1>8. ConsecutiveFailures(q) >= processFailureHoldThreshold => ConsecutiveFailures(r) >= processFailureHoldThreshold
    <2>1. \A m \in TurnIds : r.turn[m].status \in {"completed", "failed"} =>
               /\ q.turn[m].status \in {"completed", "failed"}
               /\ q.turn[m].process_epoch = r.turn[m].process_epoch
        BY <1>3, <1>5
    <2>2. q.failures = r.failures
        BY <1>4 DEF SameHolds
    <2> QED BY <1>1, <2>1, <2>2, FewerFailures, ZenonT(60)
<1> HIDE DEF r
<1>9. Counted(q) /\ Unstarted(q)
    BY <1>3, <1>4, <1>5, <1>7, <1>8, ZenonT(60) DEF Ledger, Counted, Unstarted, Accepting, SameRecord, SameHolds
<1>10. Reported(q)
    BY <1>3, <1>4, <1>5, <1>7, ZenonT(60) DEF Ledger, Reported, Accepting, SameRecord
<1>11. Cleared(q)
    BY <1>3, <1>4, <1>5, <1>7, ZenonT(60) DEF Ledger, Cleared, SameRecord, SameHolds, Unsettled, TurnsIn
<1>12. Saving(q, computer)
    <2>1. q.holds = r.holds
        BY <1>4, ZenonT(60) DEF SameHolds
    <2>2. Running(q) = Running(r)
        BY <1>3, <1>5, ZenonT(60) DEF Running, TurnsIn
    <2>3. \A m \in TurnIds : q.turn[m].save = "requested" => q.turn[m] = r.turn[m]
        BY <1>3, <1>5, ZenonT(60)
    <2> QED BY <1>7, <2>1, <2>2, <2>3, ZenonT(60) DEF Saving
<1>13. Steady(r, q)
    BY <1>4 DEF Steady, SameRecord, SameHolds, SameControl
<1>14. HoldRows([session EXCEPT ![s] = q], computer)
    BY <1>1, <1>9, <1>10, <1>11, <1>12, <1>13, OneRowHolds, ZenonT(60) DEF HoldInv, Ledger, r
<1> QED BY <1>2, <1>6, <1>14, SameLeaseHolds, ZenonT(60) DEF HoldInv

-----------------------------------------------------------------------------

\* Handlers of one row that change no Computer.
LEMMA UpdateHolds ==
    ASSUME SessionInv, HoldInv, NEW s \in Sessions, NEW q, Ordinary(session[s], q), UpdateRow(s, q)
    PROVE  HoldInv'
<1>1. session' = [session EXCEPT ![s] = q] /\ computer'.lease = computer.lease
    BY DEF UpdateRow
<1> QED BY <1>1, OrdinaryRow, ZenonT(60)

\* AcquireRuntimeAttachment supersedes the control of the lost connection.
LEMMA AttachmentHolds ==
    ASSUME SessionInv, HoldInv, NEW s \in Sessions, AcquireRuntimeAttachment(s) PROVE HoldInv'
<1> DEFINE r == session[s]
           q == [r EXCEPT !.process.attached = TRUE, !.process.current = FALSE, !.idle = FALSE]
<1>1. r \in Row
    BY DEF SessionInv, AllFine
<1>2. SameRecord(r, q) /\ SameHolds(r, q) /\ q.turn = r.turn /\ q.process.current = FALSE
    BY <1>1, ZenonT(60) DEF Row, Process, SameRecord, SameHolds
<1>3. UpdateRow(s, q)
    BY ZenonT(60) DEF AcquireRuntimeAttachment
<1> HIDE DEF q
<1>4. Ordinary(r, q)
    BY <1>1, <1>2, ProcessIsPlain, PlainIsOrdinary DEF SameControl
<1> QED BY <1>3, <1>4, UpdateHolds, ZenonT(60)

\* PrepareSessionDelivery delivers what the holds ask for.
LEMMA PrepareHolds ==
    ASSUME SessionInv, HoldInv, NEW s \in Sessions, PrepareSessionDelivery(s) PROVE HoldInv'
<1> DEFINE r == session[s]
           kind == DesiredControl(session, s)
           q == [r EXCEPT !.process.control_kind = kind, !.process.current = TRUE,
                   !.process.acknowledged = FALSE, !.process.control_error = FALSE, !.idle = FALSE]
           next == [session EXCEPT ![s] = q]
<1>1. session \in [Sessions -> Row] /\ r \in Row
    BY DEF SessionInv, AllFine
<1>2. session' = next /\ computer' = computer
    BY ZenonT(60) DEF PrepareSessionDelivery, UpdateRow
<1>3. /\ kind = "resume" => ~Held(session, s)
      /\ kind = "suspend" => Held(session, s)
    BY DEF DesiredControl
<1> HIDE DEF kind
<1>4. SameRecord(r, q) /\ SameHolds(r, q) /\ q.turn = r.turn /\ q.process.control_kind = kind
    BY <1>1, ZenonT(60) DEF Row, Process, SameRecord, SameHolds
<1> HIDE DEF q
<1>5. \A t \in Sessions : next[t] = IF t = s THEN q ELSE session[t]
    BY <1>1
<1> HIDE DEF next
<1>6. ASSUME NEW t \in Sessions
      PROVE  /\ Ledger(next[t]) /\ Saving(next[t], computer)
             /\ SameRecord(session[t], next[t]) /\ SameHolds(session[t], next[t])
             /\ t # s => next[t] = session[t]
    <2>1. Ledger(session[t]) /\ Saving(session[t], computer)
        BY DEF HoldInv, HoldRows, Books
    <2>2. /\ next[t].turn = session[t].turn
          /\ SameRecord(session[t], next[t]) /\ SameHolds(session[t], next[t])
        BY <1>4, <1>5 DEF SameRecord, SameHolds
    <2>3. ConsecutiveFailures(next[t]) = ConsecutiveFailures(session[t])
        BY <2>2 DEF ConsecutiveFailures, TurnsIn, SameHolds
    <2>4. Ledger(next[t])
        BY <2>1, <2>2, <2>3, ZenonT(60)
        DEF Ledger, Unstarted, Counted, Reported, Cleared, Accepting, Unsettled, TurnsIn, SameRecord, SameHolds
    <2>5. Saving(next[t], computer)
        BY <2>1, <2>2, ZenonT(60) DEF Saving, Running, TurnsIn, SameHolds
    <2> QED BY <1>5, <2>2, <2>4, <2>5, ZenonT(60)
<1>7. Nested(next)
    BY <1>6, ZenonT(60) DEF HoldInv, HoldRows, Nested, SameRecord
<1>8. \A t \in Sessions : Held(next, t) <=> Held(session, t)
    BY <1>6, ZenonT(60) DEF Held, Ancestors, SameRecord, SameHolds
<1>9. Matched(next)
    <2>1. \A t \in Sessions : t # s => next[t] = session[t]
        BY <1>6
    <2>2. next[s].process.control_kind = kind
        BY <1>4, <1>5
    <2> QED BY <1>3, <1>8, <2>1, <2>2, ZenonT(60) DEF HoldInv, HoldRows, Matched
<1>10. HoldRows(next, computer)
    BY <1>6, <1>7, <1>9 DEF HoldRows, Books
<1> QED BY <1>2, <1>10 DEF HoldInv

\* AcknowledgeSessionDelivery and ObserveSessionReady leave the control alone.
LEMMA AcknowledgeHolds ==
    ASSUME SessionInv, HoldInv, NEW s \in Sessions, NEW failed \in BOOLEAN, AcknowledgeSessionDelivery(s, failed)
    PROVE  HoldInv'
<1> DEFINE r == session[s]
           p == r.process
           stopsTurn == ~failed /\ p.control_kind # "shutdown" /\ p.stop = "turn"
           controlled == [p EXCEPT !.acknowledged = @ \/ ~failed,
                                   !.control_error = IF p.acknowledged THEN @ ELSE failed,
                                   !.stop = IF stopsTurn THEN "none" ELSE @]
           e == IF stopsTurn THEN 0 ELSE r.executing
           q == [r EXCEPT !.process = controlled, !.executing = e]
<1>1. r \in Row /\ p \in Process
    BY DEF SessionInv, AllFine, Row
<1>2. UpdateRow(s, q)
    BY ZenonT(60) DEF AcknowledgeSessionDelivery
<1>3. controlled.current = p.current /\ controlled.control_kind = p.control_kind
    BY <1>1, ZenonT(60) DEF Process
<1> HIDE DEF controlled, e
<1>4. SameRecord(r, q) /\ SameHolds(r, q) /\ q.turn = r.turn /\ q.process = controlled
    BY <1>1, ZenonT(60) DEF Row, SameRecord, SameHolds
<1> HIDE DEF q
<1>5. Ordinary(r, q)
    BY <1>1, <1>3, <1>4, ProcessIsPlain, PlainIsOrdinary, ZenonT(60) DEF SameControl
<1> QED BY <1>2, <1>5, UpdateHolds, ZenonT(60)

LEMMA ReadyHolds ==
    ASSUME SessionInv, HoldInv, NEW s \in Sessions, ObserveSessionReady(s) PROVE HoldInv'
<1> DEFINE q == [session[s] EXCEPT !.process.status = "ready"]
<1>1. session[s] \in Row
    BY DEF SessionInv, AllFine
<1>2. UpdateRow(s, q)
    BY ZenonT(60) DEF ObserveSessionReady
<1>3. Ordinary(session[s], q)
    BY <1>1, StatusIsPlain, PlainIsOrdinary
<1> HIDE DEF q
<1> QED BY <1>2, <1>3, UpdateHolds, ZenonT(60)

\* ObserveSessionStopped, ObserveSessionFailure and the deadline of a stop.
LEMMA EndedHolds ==
    ASSUME SessionInv, HoldInv, NEW s \in Sessions,
           ObserveSessionStopped(s) \/ ObserveSessionFailure(s) \/ ReconcileProcessStopDeadline(s)
    PROVE  HoldInv'
<1>1. session[s] \in Row
    BY DEF SessionInv, AllFine
<1>2. CASE ObserveSessionStopped(s)
    <2> DEFINE r == session[s]
               asked == DesiredControl(session, s) = "shutdown"
               settled == InterruptRunningSessionTurn(r)
               q == ProcessGone(IF asked THEN settled ELSE RecordSessionFailure(settled, TRUE), "stopped")
    <2>1. LiveProcess(r) /\ UpdateRow(s, q)
        BY <1>2, ZenonT(60) DEF ObserveSessionStopped, Hosted
    <2>2. asked \in BOOLEAN
        OBVIOUS
    <2> HIDE DEF asked
    <2>3. Ordinary(r, q)
        BY <1>1, <2>1, <2>2, StoppedIsOrdinary, ZenonT(60)
    <2> HIDE DEF q
    <2> QED BY <2>1, <2>3, UpdateHolds, ZenonT(60)
<1>3. CASE ObserveSessionFailure(s) \/ ReconcileProcessStopDeadline(s)
    <2> DEFINE q == ObserveFailure(session[s])
    <2>1. LiveProcess(session[s]) /\ UpdateRow(s, q)
        BY <1>3, ZenonT(60) DEF ObserveSessionFailure, RuntimeAuthority, Hosted, ReconcileProcessStopDeadline
    <2>2. Ordinary(session[s], q)
        BY <1>1, <2>1, DownIsOrdinary, ZenonT(60) DEF ObserveFailure
    <2> HIDE DEF q
    <2> QED BY <2>1, <2>2, UpdateHolds, ZenonT(60)
<1> QED BY <1>2, <1>3

\* ExpireSessionDeadline.
LEMMA DeadlineHolds ==
    ASSUME SessionInv, HoldInv, NEW s \in Sessions, ExpireSessionDeadline(s) PROVE HoldInv'
<1> DEFINE q == AdvanceControlAuthority(ProcessStops(RequestProcessStop(
                    SettleTurns(session[s], Running(session[s]), "interrupted"), "process")))
<1>1. session[s] \in Row
    BY DEF SessionInv, AllFine
<1>2. Ordinary(session[s], q)
    BY <1>1, DeadlineIsOrdinary
<1>3. UpdateRow(s, q)
    BY ZenonT(60) DEF ExpireSessionDeadline
<1> HIDE DEF q
<1> QED BY <1>2, <1>3, UpdateHolds, ZenonT(60)

\* RuntimeCloseProcessing.
LEMMA ProcessingHolds ==
    ASSUME SessionInv, HoldInv, NEW s \in Sessions, NEW n \in TurnIds, RuntimeCloseProcessing(s, n)
    PROVE  HoldInv'
<1> DEFINE r == session[s]
           t == [r.turn[n] EXCEPT !.processing_closed = TRUE]
           q == [r EXCEPT !.turn = [r.turn EXCEPT ![n] = t]]
<1>1. r \in Row /\ r.turn[n] \in Turn
    BY DEF SessionInv, AllFine, Row
<1>2. UpdateRow(s, q)
    <2>1. q = [r EXCEPT !.turn[n].processing_closed = TRUE]
        OBVIOUS
    <2> QED BY <2>1, ZenonT(60) DEF RuntimeCloseProcessing
<1>3. /\ t.status = r.turn[n].status /\ t.process_epoch = r.turn[n].process_epoch
      /\ t.save = r.turn[n].save /\ t.save_lease = r.turn[n].save_lease
    BY <1>1 DEF Turn
<1> HIDE DEF t
<1>4. SameRecord(r, q) /\ SameHolds(r, q) /\ q.process = r.process /\ q.turn = [r.turn EXCEPT ![n] = t]
    BY <1>1 DEF Row, SameRecord, SameHolds
<1> HIDE DEF q
<1>5. \A m \in TurnIds : q.turn[m] = IF m = n THEN t ELSE r.turn[m]
    BY <1>1, <1>4, ZenonT(60) DEF Row
<1>6. SameWork(r, q) /\ SameControl(r, q)
    BY <1>3, <1>4, <1>5, ZenonT(60) DEF SameWork, SameControl
<1>7. Ordinary(r, q)
    BY <1>1, <1>4, <1>6, PlainIsOrdinary, ZenonT(60) DEF Plain
<1> QED BY <1>2, <1>7, UpdateHolds, ZenonT(60)

\* TurnInterrupt.
LEMMA TurnInterruptHolds ==
    ASSUME SessionInv, HoldInv, NEW s \in Sessions, NEW n \in TurnIds, TurnInterrupt(s, n) PROVE HoldInv'
<1> DEFINE i == InterruptControlledTurn(session[s])
           q == AdvanceControlAuthority(i)
<1>1. session \in [Sessions -> Row] /\ session[s] \in Row
    BY DEF SessionInv, AllFine
<1>2. Plain(session[s], i) /\ i \in Row
    BY <1>1, InterruptIsPlain
<1>3. session' = [session EXCEPT ![s] = q] /\ computer' = RetireUnusedExecutionAdmission(session', computer)
    BY ZenonT(60) DEF TurnInterrupt, Control
<1> HIDE DEF i
<1>4. Plain(i, q)
    BY <1>2, AdvanceIsPlain
<1> HIDE DEF q
<1>5. Ordinary(session[s], q)
    BY <1>1, <1>2, <1>4, PlainTransitive, PlainIsOrdinary
<1>6. computer'.lease = computer.lease
    BY <1>3, AdmissionFields DEF SessionInv
<1> QED BY <1>3, <1>5, <1>6, OrdinaryRow, ZenonT(60)

=============================================================================
