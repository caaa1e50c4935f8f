------------------------- MODULE SessionStepProofs -------------------------
(***************************************************************************)
(* What the operators of Session do to rows, for every value of the        *)
(* constants. Fine(r, c) collects what must hold of one row beside the     *)
(* Computer c; Settles(r, q) is all a handler may do to the Turns of a row *)
(* unless it admits, starts or completes one. Each operator is shown to    *)
(* turn fine rows into fine rows and to settle, first on one row, then on  *)
(* the rows of an ownership tree or of the whole Computer. On that rest    *)
(* the inductive invariant and the steps of the control and dispatch       *)
(* packages, none of which admits, starts or completes a Turn.             *)
(***************************************************************************)
EXTENDS Session, TLAPS

USE BoundAssumption

Ended == {"completed", "failed", "interrupted", "cancelled"}

\* The part of RunningTurnOwned that concerns one row.
Owned(r, c) ==
    \A n \in Running(r) :
        /\ \A m \in Running(r) : m = n
        /\ Accepting(r)
        /\ r.turn[n].process_epoch = r.process.epoch
        /\ LiveProcess(r) /\ r.process.status = "ready"
        /\ ~r.process.failure /\ r.process.stop = "none"
        /\ r.process.lease = c.lease.epoch /\ LeaseLive(c)
        /\ r.executing = n

\* A handler that may be executing belongs to an unfenced process, and unless
\* its Turn is still running that process is being stopped.
Ceasing(r) ==
    r.executing # 0 =>
        /\ LiveProcess(r)
        /\ \/ r.executing \in Running(r)
           \/ r.process.stop # "none"
           \/ r.process.status \in {"stopping", "lost"}

\* Turns are admitted without gaps.
Numbered(r) ==
    \A n \in TurnIds : r.turn[n].status # "none" <=> n < r.next_turn_seq

\* A process that may take Turns has recorded no failure.
Healthy(r) == r.process.status \in {"starting", "ready"} => ~r.process.failure

Fine(r, c) == r \in Row /\ Owned(r, c) /\ Ceasing(r) /\ Numbered(r) /\ Healthy(r)

\* What any handler but admission, dispatch and completion does to the Turns.
Settles(r, q) ==
    /\ \A n \in TurnIds : \/ q.turn[n].status = r.turn[n].status
                          \/ r.turn[n].status \in {"queued", "running"} /\ q.turn[n].status \in Ended \ {"completed"}
    /\ q.executing \in {r.executing, 0}
    /\ q.next_turn_seq = r.next_turn_seq
    /\ q.status = "none" => r.status = "none"

\* Handlers compose.
LEMMA SettlesTransitive ==
    ASSUME NEW a, NEW b, NEW d, Settles(a, b), Settles(b, d) PROVE Settles(a, d)
BY DEF Settles, Ended

\* SettleTurns changes the status of the Turns it is given and nothing that
\* the other definitions here read.
LEMMA SettleTurnsFields ==
    ASSUME NEW r \in Row, NEW ns, NEW st \in Ended
    PROVE  LET q == SettleTurns(r, ns, st) IN
           /\ q \in Row
           /\ q.process = r.process /\ q.status = r.status /\ q.executing = r.executing
           /\ q.next_turn_seq = r.next_turn_seq
           /\ \A n \in TurnIds : /\ q.turn[n].status = IF n \in ns THEN st ELSE r.turn[n].status
                                 /\ q.turn[n].process_epoch = r.turn[n].process_epoch
<1> DEFINE f == [n \in TurnIds |->
        IF n \in ns THEN [r.turn[n] EXCEPT !.status = st, !.processing_closed = TRUE] ELSE r.turn[n]]
<1>1. ASSUME NEW n \in TurnIds
      PROVE  /\ f[n] \in Turn
             /\ f[n].status = IF n \in ns THEN st ELSE r.turn[n].status
             /\ f[n].process_epoch = r.turn[n].process_epoch
    <2>1. r.turn[n] \in Turn
        BY DEF Row
    <2>2. [r.turn[n] EXCEPT !.status = st, !.processing_closed = TRUE] \in Turn
        BY <2>1, ZenonT(60) DEF Turn, Ended
    <2>3. f[n] = IF n \in ns THEN [r.turn[n] EXCEPT !.status = st, !.processing_closed = TRUE] ELSE r.turn[n]
        OBVIOUS
    <2> HIDE DEF f
    <2> QED BY <2>1, <2>2, <2>3 DEF Turn
<1>2. f \in [TurnIds -> Turn]
    BY <1>1, ZenonT(60)
<1> HIDE DEF f
<1>3. [r EXCEPT !.turn = f] \in Row /\ [r EXCEPT !.turn = f].turn = f
    BY <1>2 DEF Row
<1>4. SettleTurns(r, ns, st) = [r EXCEPT !.turn = f]
    BY DEF SettleTurns, f
<1> QED BY <1>1, <1>3, <1>4 DEF Row

\* RequestProcessStop changes only the stop and the acknowledgement.
LEMMA RequestProcessStopFields ==
    ASSUME NEW r \in Row, NEW target \in {"turn", "process"}
    PROVE  LET q == RequestProcessStop(r, target) IN
           /\ q \in Row
           /\ q.turn = r.turn /\ q.status = r.status /\ q.executing = r.executing
           /\ q.next_turn_seq = r.next_turn_seq
           /\ q.process.epoch = r.process.epoch /\ q.process.fenced = r.process.fenced
           /\ q.process.status = r.process.status /\ q.process.failure = r.process.failure
           /\ LiveProcess(r) => q.process.stop # "none"
<1>1. [r EXCEPT !.process.stop = target, !.process.acknowledged = FALSE] \in Row
  BY ZenonT(60) DEF Row, Process
<1> QED BY <1>1 DEF RequestProcessStop, Row, Process

\* Placing or releasing holds changes no Turn and no process.
LEMMA AdvanceFields ==
    ASSUME NEW r \in Row
    PROVE  LET q == AdvanceControlAuthority(r) IN
           /\ q \in Row
           /\ q.turn = r.turn /\ q.status = r.status /\ q.executing = r.executing
           /\ q.next_turn_seq = r.next_turn_seq
           /\ q.process.epoch = r.process.epoch /\ q.process.fenced = r.process.fenced
           /\ q.process.status = r.process.status /\ q.process.stop = r.process.stop
           /\ q.process.lease = r.process.lease /\ q.process.failure = r.process.failure
BY ZenonT(60) DEF AdvanceControlAuthority, Row, Process

\* Two rows that agree on the Turns, the executing handler and the parts of
\* the process that matter are equally fine.
Alike(r, q) ==
    /\ q.turn = r.turn /\ q.executing = r.executing /\ q.next_turn_seq = r.next_turn_seq
    /\ q.status = r.status
    /\ q.process.epoch = r.process.epoch /\ q.process.fenced = r.process.fenced
    /\ q.process.status = r.process.status /\ q.process.stop = r.process.stop
    /\ q.process.lease = r.process.lease /\ q.process.failure = r.process.failure

\* What AdvanceControlAuthority, holds and notices leave alone keeps a row fine.
LEMMA AlikeIsFine ==
    ASSUME NEW c, NEW r, NEW q \in Row, Fine(r, c), Alike(r, q)
    PROVE  Fine(q, c) /\ Settles(r, q)
BY DEF Fine, Alike, Owned, Ceasing, Numbered, Healthy, Settles, Running, TurnsIn, Accepting, LiveProcess

\* advanceControlAuthority only supersedes the delivered control.
LEMMA AdvanceIsFine ==
    ASSUME NEW c, NEW r, Fine(r, c)
    PROVE  Fine(AdvanceControlAuthority(r), c) /\ Settles(r, AdvanceControlAuthority(r))
BY AlikeIsFine, AdvanceFields DEF Alike, Fine

\* interruptControlledTurn settles what runs and asks its handler to cease.
LEMMA InterruptIsFine ==
    ASSUME NEW c, NEW r, Fine(r, c)
    PROVE  /\ Fine(InterruptControlledTurn(r), c)
           /\ Settles(r, InterruptControlledTurn(r))
           /\ Running(InterruptControlledTurn(r)) = {}
           /\ Queued(InterruptControlledTurn(r)) = Queued(r)
<1> DEFINE q == SettleTurns(r, Running(r), "interrupted")
<1> DEFINE p == RequestProcessStop(q, "turn")
<1>1. /\ q \in Row
      /\ q.process = r.process /\ q.status = r.status /\ q.executing = r.executing
      /\ q.next_turn_seq = r.next_turn_seq
      /\ \A n \in TurnIds : q.turn[n].status = IF n \in Running(r) THEN "interrupted" ELSE r.turn[n].status
    BY SettleTurnsFields DEF Fine, Ended
<1> HIDE DEF q
<1>2. /\ p \in Row
      /\ p.turn = q.turn /\ p.status = q.status /\ p.executing = q.executing
      /\ p.next_turn_seq = q.next_turn_seq
      /\ p.process.epoch = q.process.epoch /\ p.process.fenced = q.process.fenced
      /\ p.process.status = q.process.status /\ p.process.failure = q.process.failure
      /\ LiveProcess(q) => p.process.stop # "none"
    BY <1>1, RequestProcessStopFields
<1> HIDE DEF p
<1>3. InterruptControlledTurn(r) = IF RunningOfProcess(r) = {} THEN q ELSE p
    BY DEF InterruptControlledTurn, q, p
<1>4. Running(r) # {} => RunningOfProcess(r) # {}
    BY DEF Fine, Owned, RunningOfProcess
<1>5. Running(q) = {} /\ Running(p) = {} /\ Queued(q) = Queued(r) /\ Queued(p) = Queued(r)
    BY <1>1, <1>2 DEF Running, Queued, TurnsIn
<1>6. CASE RunningOfProcess(r) = {}
    <2>1. Running(r) = {}
        BY <1>4, <1>6
    <2> QED BY <1>1, <1>3, <1>5, <1>6, <2>1
            DEF Fine, Owned, Ceasing, Numbered, Healthy, Settles, LiveProcess, Ended
<1>7. CASE RunningOfProcess(r) # {}
    <2>1. LiveProcess(q)
        BY <1>1, <1>7 DEF Fine, Owned, LiveProcess, RunningOfProcess
    <2>2. LiveProcess(p) /\ p.process.stop # "none"
        BY <1>2, <2>1 DEF LiveProcess
    <2>3. Owned(p, c) /\ Ceasing(p)
        BY <1>5, <2>2 DEF Owned, Ceasing
    <2>4. Healthy(p)
        BY <1>1, <1>2 DEF Fine, Healthy
    <2>5. \A n \in Running(r) : n \in TurnIds /\ r.turn[n].status = "running"
        BY DEF Running, TurnsIn
    <2>6. Numbered(p)
        BY <1>1, <1>2, <2>5 DEF Fine, Numbered
    <2>7. Settles(r, p)
        BY <1>1, <1>2, <2>5 DEF Settles, Ended
    <2> QED BY <1>2, <1>3, <1>5, <1>7, <2>3, <2>4, <2>6, <2>7 DEF Fine
<1> QED BY <1>6, <1>7

\* failQueuedTurns and cancellation of the queue leave what runs alone.
LEMMA SettleQueuedIsFine ==
    ASSUME NEW c, NEW r, Fine(r, c), NEW st \in Ended \ {"completed"}
    PROVE  LET q == SettleTurns(r, Queued(r), st) IN
           /\ Fine(q, c) /\ Settles(r, q)
           /\ q.status = r.status /\ q.process = r.process /\ Running(q) = Running(r)
<1> DEFINE q == SettleTurns(r, Queued(r), st)
<1>1. /\ q \in Row
      /\ q.process = r.process /\ q.status = r.status /\ q.executing = r.executing
      /\ q.next_turn_seq = r.next_turn_seq
      /\ \A n \in TurnIds : /\ q.turn[n].status = IF n \in Queued(r) THEN st ELSE r.turn[n].status
                            /\ q.turn[n].process_epoch = r.turn[n].process_epoch
    BY SettleTurnsFields DEF Fine, Ended
<1> HIDE DEF q
<1>2. Running(q) = Running(r)
    BY <1>1 DEF Running, Queued, TurnsIn, Ended
<1>3. Settles(r, q)
    BY <1>1 DEF Settles, Queued, TurnsIn
<1>4. Numbered(q)
    BY <1>1 DEF Fine, Numbered, Queued, TurnsIn, Ended
<1>5. Owned(q, c) /\ Ceasing(q) /\ Healthy(q)
    BY <1>1, <1>2 DEF Fine, Owned, Ceasing, Healthy, Accepting, LiveProcess, Running, TurnsIn
<1> QED BY <1>1, <1>2, <1>3, <1>4, <1>5 DEF Fine, q

\* A failure fact changes no Turn; it may hold the Session.
LEMMA RecordSessionFailureFields ==
    ASSUME NEW r \in Row, NEW counted \in BOOLEAN, LiveProcess(r)
    PROVE  LET q == RecordSessionFailure(r, counted) IN
           /\ q \in Row
           /\ q.turn = r.turn /\ q.status = r.status /\ q.executing = r.executing
           /\ q.next_turn_seq = r.next_turn_seq
           /\ q.process.epoch = r.process.epoch /\ q.process.fenced = r.process.fenced
           /\ q.process.status = r.process.status /\ q.process.stop = r.process.stop
           /\ q.process.lease = r.process.lease
<1> DEFINE marked == [r EXCEPT !.process.failure = TRUE]
           noted  == [marked EXCEPT !.failures = @ \cup {r.process.epoch}]
           held   == [noted EXCEPT !.holds = @ \cup {"process_failed"}]
           Same(q) == /\ q \in Row
                      /\ q.turn = r.turn /\ q.status = r.status /\ q.executing = r.executing
                      /\ q.next_turn_seq = r.next_turn_seq
                      /\ q.process.epoch = r.process.epoch /\ q.process.fenced = r.process.fenced
                      /\ q.process.status = r.process.status /\ q.process.stop = r.process.stop
                      /\ q.process.lease = r.process.lease
<1>1. Same(marked)
    BY ZenonT(60) DEF Row, Process
<1>2. r.process.epoch \in 1..MaxEpochs
    BY DEF LiveProcess, Row, Process
<1>3. Same(noted)
    <2> HIDE DEF marked
    <2> QED BY <1>1, <1>2 DEF Row
<1>4. Same(held)
    <2> HIDE DEF noted
    <2> QED BY <1>3 DEF Row, LocalHolds
<1>5. Same(AdvanceControlAuthority(held))
    <2> HIDE DEF held
    <2> QED BY <1>4, AdvanceFields
<1>6. RecordSessionFailure(r, counted) \in {r, marked, noted, AdvanceControlAuthority(held)}
    BY DEF RecordSessionFailure
<1> QED BY <1>1, <1>3, <1>4, <1>5, <1>6, ZenonT(60)

\* While a handler executes, its process is live and either asked to stop or
\* about to be told by ProcessStops.
Halting(r) ==
    r.executing # 0 =>
        /\ LiveProcess(r)
        /\ r.process.stop # "none" \/ r.process.status \in {"starting", "ready", "stopping", "lost"}

\* A row without a running Turn stays fine whatever happens to the Computer.
LEMMA QuietIsFine ==
    ASSUME NEW d, NEW q \in Row, Running(q) = {}, Ceasing(q), Numbered(q), Healthy(q)
    PROVE  Fine(q, d)
BY DEF Fine, Owned

\* interruptRunningSessionTurn settles everything that runs, since what runs
\* belongs to the latest process.
LEMMA InterruptRunningFields ==
    ASSUME NEW c, NEW r, Fine(r, c)
    PROVE  LET q == InterruptRunningSessionTurn(r) IN
           /\ q \in Row /\ Numbered(q) /\ Halting(q) /\ Running(q) = {} /\ Settles(r, q)
           /\ q.process = r.process /\ q.status = r.status /\ q.executing = r.executing
<1> DEFINE q == InterruptRunningSessionTurn(r)
<1>1. RunningOfProcess(r) = Running(r)
    BY DEF Fine, Owned, RunningOfProcess
<1>2. /\ q \in Row
      /\ q.process = r.process /\ q.status = r.status /\ q.executing = r.executing
      /\ q.next_turn_seq = r.next_turn_seq
      /\ \A n \in TurnIds : q.turn[n].status = IF n \in Running(r) THEN "interrupted" ELSE r.turn[n].status
    BY <1>1, SettleTurnsFields DEF Fine, Ended, InterruptRunningSessionTurn
<1> HIDE DEF q
<1>3. Numbered(q) /\ Running(q) = {}
    BY <1>2 DEF Fine, Numbered, Running, TurnsIn
<1>4. Settles(r, q)
    BY <1>2 DEF Settles, Running, TurnsIn, Ended
<1>5. Halting(q)
    BY <1>2 DEF Halting, Fine, Owned, Ceasing, LiveProcess
<1> QED BY <1>2, <1>3, <1>4, <1>5 DEF q

\* A failure that takes the process down: observeSessionFailure and the loss
\* of a lease.
LEMMA FailureIsFine ==
    ASSUME NEW c, NEW r, Fine(r, c), LiveProcess(r), NEW counted \in BOOLEAN,
           NEW st \in {"stopping", "lost"}, NEW d
    PROVE  LET q == [InterruptRunningSessionTurn(RecordSessionFailure(r, counted)) EXCEPT !.process.status = st] IN
           Fine(q, d) /\ Settles(r, q) /\ Running(q) = {}
<1> DEFINE f == RecordSessionFailure(r, counted)
           g == SettleTurns(f, RunningOfProcess(f), "interrupted")
           q == [g EXCEPT !.process.status = st]
<1>1. /\ f \in Row
      /\ f.turn = r.turn /\ f.status = r.status /\ f.executing = r.executing
      /\ f.next_turn_seq = r.next_turn_seq
      /\ f.process.epoch = r.process.epoch /\ f.process.fenced = r.process.fenced
      /\ f.process.status = r.process.status /\ f.process.stop = r.process.stop
    BY RecordSessionFailureFields DEF Fine
<1> HIDE DEF f
<1>2. RunningOfProcess(f) = Running(r)
    BY <1>1 DEF Fine, Owned, RunningOfProcess, Running, TurnsIn
<1>3. /\ g \in Row
      /\ g.process = f.process /\ g.executing = f.executing /\ g.status = f.status
      /\ g.next_turn_seq = f.next_turn_seq
      /\ \A n \in TurnIds : g.turn[n].status = IF n \in Running(r) THEN "interrupted" ELSE f.turn[n].status
    BY <1>1, <1>2, SettleTurnsFields DEF Ended
<1> HIDE DEF g
<1>4. /\ q \in Row
      /\ q.turn = g.turn /\ q.executing = g.executing /\ q.next_turn_seq = g.next_turn_seq
      /\ q.status = g.status
      /\ q.process.epoch = g.process.epoch /\ q.process.fenced = g.process.fenced
      /\ q.process.status = st
    BY <1>3 DEF Row, Process
<1> HIDE DEF q
<1>5. Numbered(q) /\ Running(q) = {}
    BY <1>1, <1>3, <1>4 DEF Fine, Numbered, Running, TurnsIn
<1>6. Settles(r, q)
    BY <1>1, <1>3, <1>4 DEF Settles, Running, TurnsIn, Ended
<1>7. Ceasing(q) /\ Healthy(q)
    BY <1>1, <1>3, <1>4 DEF Ceasing, Healthy, LiveProcess
<1>8. Fine(q, d)
    BY <1>4, <1>5, <1>7, QuietIsFine
<1> QED BY <1>5, <1>6, <1>8 DEF q, g, f, InterruptRunningSessionTurn

\* A process that is known to be gone executes nothing.
LEMMA ProcessGoneIsFine ==
    ASSUME NEW d, NEW r \in Row, Running(r) = {}, Numbered(r), NEW st \in {"stopped", "lost"}
    PROVE  Fine(ProcessGone(r, st), d) /\ Settles(r, ProcessGone(r, st)) /\ Running(ProcessGone(r, st)) = {}
<1> DEFINE g == [r EXCEPT !.process.status = st, !.process.fenced = TRUE]
           q == [g EXCEPT !.executing = 0]
<1>1. /\ g \in Row /\ g.turn = r.turn /\ g.next_turn_seq = r.next_turn_seq /\ g.process.status = st
      /\ g.status = r.status
    BY ZenonT(60) DEF Row, Process
<1>2. q = ProcessGone(r, st)
    BY DEF ProcessGone, Row
<1> HIDE DEF g
<1>3. /\ q \in Row /\ q.turn = r.turn /\ q.next_turn_seq = r.next_turn_seq /\ q.executing = 0
      /\ q.process.status = st /\ q.status = r.status
    BY <1>1 DEF Row
<1> HIDE DEF q
<1>4. Running(q) = {} /\ Ceasing(q) /\ Numbered(q) /\ Healthy(q) /\ Settles(r, q)
    BY <1>3 DEF Running, TurnsIn, Ceasing, Numbered, Healthy, Settles
<1> QED BY <1>2, <1>3, <1>4, QuietIsFine

\* ProcessStops tells a live process to stop, which covers any handler.
LEMMA ProcessStopsIsFine ==
    ASSUME NEW d, NEW r \in Row, Running(r) = {}, Numbered(r), Halting(r), Healthy(r)
    PROVE  LET q == ProcessStops(r) IN
           /\ Fine(q, d) /\ Settles(r, q) /\ Running(q) = {}
           /\ q.turn = r.turn /\ q.status = r.status
<1> DEFINE q == ProcessStops(r)
<1>1. /\ q \in Row
      /\ q.turn = r.turn /\ q.executing = r.executing /\ q.next_turn_seq = r.next_turn_seq
      /\ q.status = r.status
      /\ q.process.epoch = r.process.epoch /\ q.process.fenced = r.process.fenced
      /\ q.process.stop = r.process.stop /\ q.process.failure = r.process.failure
      /\ q.process.status = IF LiveProcess(r) /\ r.process.status \in {"starting", "ready"}
                            THEN "stopping" ELSE r.process.status
    BY DEF ProcessStops, Row, Process
<1> HIDE DEF q
<1>2. Running(q) = {} /\ Ceasing(q) /\ Numbered(q) /\ Healthy(q) /\ Settles(r, q)
    BY <1>1 DEF Running, TurnsIn, Ceasing, Halting, LiveProcess, Numbered, Healthy, Settles
<1> QED BY <1>1, <1>2, QuietIsFine DEF q

\* finishClose of a Session that runs nothing.
LEMMA FinishCloseIsFine ==
    ASSUME NEW d, NEW r \in Row, Running(r) = {}, Numbered(r), Halting(r), Healthy(r)
    PROVE  Fine(FinishClose(r), d) /\ Settles(r, FinishClose(r)) /\ Running(FinishClose(r)) = {}
<1> DEFINE a == [r EXCEPT !.status = "closed", !.interrupts = 0, !.holds = {}]
           q == [a EXCEPT !.process.current = FALSE]
<1>1. /\ a \in Row /\ a.turn = r.turn /\ a.next_turn_seq = r.next_turn_seq
      /\ a.executing = r.executing /\ a.process = r.process /\ a.status = "closed"
    BY ZenonT(60) DEF Row
<1>2. q = [r EXCEPT !.status = "closed", !.interrupts = 0, !.holds = {}, !.process.current = FALSE]
    BY DEF Row
<1> HIDE DEF a
<1>3. /\ q \in Row /\ q.turn = r.turn /\ q.next_turn_seq = r.next_turn_seq /\ q.executing = r.executing
      /\ q.status = "closed"
      /\ q.process.epoch = r.process.epoch /\ q.process.fenced = r.process.fenced
      /\ q.process.stop = r.process.stop /\ q.process.status = r.process.status
      /\ q.process.failure = r.process.failure
    BY <1>1, ZenonT(60) DEF Row, Process
<1> HIDE DEF q
<1>4. Running(q) = {} /\ Numbered(q) /\ Halting(q) /\ Healthy(q) /\ Settles(r, q)
    BY <1>3 DEF Running, TurnsIn, Numbered, Healthy, Halting, LiveProcess, Settles
<1>5. /\ Fine(ProcessStops(q), d) /\ Settles(q, ProcessStops(q)) /\ Running(ProcessStops(q)) = {}
    BY <1>3, <1>4, ProcessStopsIsFine
<1>6. Settles(r, ProcessStops(q))
    BY <1>4, <1>5, SettlesTransitive
<1> QED BY <1>2, <1>5, <1>6 DEF FinishClose

\* A fine row's handlers belong to a live process.
LEMMA FineIsHalting ==
    ASSUME NEW c, NEW r, Fine(r, c) PROVE Halting(r)
BY DEF Fine, Owned, Ceasing, Halting, Running, TurnsIn

\* cancel settles every Turn of a Session and closes it.
LEMMA CancelRowIsFine ==
    ASSUME NEW c, NEW r, Fine(r, c)
    PROVE  Fine(CancelRow(r), c) /\ Settles(r, CancelRow(r))
<1>1. CASE r.status = "none"
    <2>1. CancelRow(r) = r
        BY <1>1 DEF CancelRow
    <2> QED BY <2>1 DEF Settles
<1>2. CASE r.status # "none"
    <2> DEFINE q == SettleTurns(r, Unsettled(r), "cancelled")
    <2>1. /\ q \in Row
          /\ q.process = r.process /\ q.status = r.status /\ q.executing = r.executing
          /\ q.next_turn_seq = r.next_turn_seq
          /\ \A n \in TurnIds : q.turn[n].status = IF n \in Unsettled(r) THEN "cancelled" ELSE r.turn[n].status
        BY SettleTurnsFields DEF Fine, Ended
    <2>2. CancelRow(r) = ProcessStops(IF r.status = "closed" THEN q ELSE FinishClose(q))
        BY <1>2 DEF CancelRow
    <2> HIDE DEF q
    <2>3. Running(q) = {} /\ Numbered(q) /\ Healthy(q)
        BY <2>1 DEF Fine, Numbered, Healthy, Unsettled, Running, TurnsIn
    <2>4. Halting(q)
        BY <2>1, FineIsHalting DEF Halting, LiveProcess
    <2>5. Settles(r, q)
        BY <2>1 DEF Settles, Unsettled, TurnsIn, Ended
    <2>6. Fine(FinishClose(q), c) /\ Settles(q, FinishClose(q)) /\ Running(FinishClose(q)) = {}
        BY <2>1, <2>3, <2>4, FinishCloseIsFine
    <2> DEFINE p == IF r.status = "closed" THEN q ELSE FinishClose(q)
    <2>7. p \in Row /\ Numbered(p) /\ Healthy(p) /\ Halting(p) /\ Running(p) = {} /\ Settles(r, p)
        <3>1. /\ FinishClose(q) \in Row /\ Numbered(FinishClose(q)) /\ Healthy(FinishClose(q))
              /\ Halting(FinishClose(q)) /\ Settles(r, FinishClose(q))
            BY <2>5, <2>6, FineIsHalting, SettlesTransitive DEF Fine
        <3> QED BY <3>1, <2>1, <2>3, <2>4, <2>5, <2>6
    <2> HIDE DEF p
    <2>8. Fine(ProcessStops(p), c) /\ Settles(p, ProcessStops(p))
        BY <2>7, ProcessStopsIsFine
    <2> QED BY <2>2, <2>7, <2>8, SettlesTransitive DEF p
<1> QED BY <1>1, <1>2

\* The loss of a lease leaves no Turn running, whatever becomes of the lease.
LEMMA LoseProcessIsFine ==
    ASSUME NEW c, NEW r, Fine(r, c), NEW d,
           NEW lease, lease.epoch = c.lease.epoch,
           NEW physicalStopped \in BOOLEAN, NEW recoverable \in BOOLEAN
    PROVE  LET q == LoseProcess(r, lease, physicalStopped, recoverable) IN Fine(q, d) /\ Settles(r, q)
<1> DEFINE lost == [InterruptRunningSessionTurn(RecordSessionFailure(r, ~recoverable))
                        EXCEPT !.process.status = "lost"]
           q == LoseProcess(r, lease, physicalStopped, recoverable)
<1> SUFFICES Fine(q, d) /\ Settles(r, q)
    OBVIOUS
<1>1. Settles(r, r) /\ r \in Row /\ Ceasing(r) /\ Numbered(r) /\ Healthy(r)
    BY DEF Settles, Fine
<1>2. CASE ~LiveProcess(r) \/ r.process.lease # lease.epoch
    <2>1. Running(r) = {}
        BY <1>2 DEF Fine, Owned
    <2>2. q = r
        BY <1>2 DEF LoseProcess
    <2> QED BY <1>1, <2>1, <2>2, QuietIsFine
<1>3. CASE LiveProcess(r) /\ r.process.lease = lease.epoch
    <2>1. Fine(lost, d) /\ Settles(r, lost) /\ Running(lost) = {}
        BY <1>3, FailureIsFine, ZenonT(60)
    <2>2. \/ q = r /\ r.process.status \in {"starting", "stopping"}
          \/ q = ProcessGone(r, "stopped") /\ r.process.status \in {"starting", "stopping"}
          \/ q = ProcessGone(lost, "lost")
          \/ q = lost
        BY <1>3 DEF LoseProcess
    <2> HIDE DEF lost, q
    <2>3. CASE r.process.status \in {"starting", "stopping"} /\ q \in {r, ProcessGone(r, "stopped")}
        <3>1. Running(r) = {}
            BY <2>3 DEF Fine, Owned
        <3>2. Fine(r, d)
            BY <1>1, <3>1, QuietIsFine
        <3>3. Fine(ProcessGone(r, "stopped"), d) /\ Settles(r, ProcessGone(r, "stopped"))
            BY <1>1, <3>1, ProcessGoneIsFine
        <3> QED BY <1>1, <2>3, <3>2, <3>3
    <2>4. CASE q \in {lost, ProcessGone(lost, "lost")}
        <3>1. lost \in Row /\ Numbered(lost)
            BY <2>1 DEF Fine
        <3>2. Fine(ProcessGone(lost, "lost"), d) /\ Settles(lost, ProcessGone(lost, "lost"))
            BY <2>1, <3>1, ProcessGoneIsFine
        <3>3. Settles(r, ProcessGone(lost, "lost"))
            BY <2>1, <3>2, SettlesTransitive
        <3> QED BY <2>1, <2>4, <3>2, <3>3
    <2> QED BY <2>2, <2>3, <2>4
<1> QED BY <1>2, <1>3

\* The guest process closed, with or without being asked to.
LEMMA StoppedIsFine ==
    ASSUME NEW c, NEW r, Fine(r, c), LiveProcess(r), NEW asked \in BOOLEAN
    PROVE  LET settled == InterruptRunningSessionTurn(r)
               q == ProcessGone(IF asked THEN settled ELSE RecordSessionFailure(settled, TRUE), "stopped")
           IN  Fine(q, c) /\ Settles(r, q)
<1> DEFINE settled == InterruptRunningSessionTurn(r)
           f == RecordSessionFailure(settled, TRUE)
           p == IF asked THEN settled ELSE f
<1>1. /\ settled \in Row /\ Numbered(settled) /\ Running(settled) = {} /\ Settles(r, settled)
      /\ LiveProcess(settled)
    BY InterruptRunningFields DEF LiveProcess
<1> HIDE DEF settled
<1>2. /\ f \in Row /\ f.turn = settled.turn /\ f.executing = settled.executing /\ f.status = settled.status
      /\ f.next_turn_seq = settled.next_turn_seq
    BY <1>1, RecordSessionFailureFields, ZenonT(60)
<1> HIDE DEF f
<1>3. Numbered(f) /\ Running(f) = {} /\ Settles(r, f)
    BY <1>1, <1>2 DEF Numbered, Running, TurnsIn, Settles
<1>4. p \in Row /\ Numbered(p) /\ Running(p) = {} /\ Settles(r, p)
    BY <1>1, <1>2, <1>3
<1> HIDE DEF p
<1>5. Fine(ProcessGone(p, "stopped"), c) /\ Settles(p, ProcessGone(p, "stopped"))
    BY <1>4, ProcessGoneIsFine
<1>6. Settles(r, ProcessGone(p, "stopped"))
    BY <1>4, <1>5, SettlesTransitive
<1> QED BY <1>5, <1>6, ZenonT(60) DEF p, f, settled

\* A Turn past its deadline is settled and its process told to stop.
LEMMA DeadlineIsFine ==
    ASSUME NEW c, NEW r, Fine(r, c)
    PROVE  LET settled == SettleTurns(r, Running(r), "interrupted")
               q == AdvanceControlAuthority(ProcessStops(RequestProcessStop(settled, "process")))
           IN  Fine(q, c) /\ Settles(r, q)
<1> DEFINE settled == SettleTurns(r, Running(r), "interrupted")
           p == RequestProcessStop(settled, "process")
<1>1. /\ settled \in Row
      /\ settled.process = r.process /\ settled.executing = r.executing /\ settled.status = r.status
      /\ settled.next_turn_seq = r.next_turn_seq
      /\ \A n \in TurnIds : settled.turn[n].status = IF n \in Running(r) THEN "interrupted" ELSE r.turn[n].status
    BY SettleTurnsFields DEF Fine, Ended
<1> HIDE DEF settled
<1>2. /\ p \in Row /\ p.turn = settled.turn /\ p.executing = settled.executing /\ p.status = settled.status
      /\ p.next_turn_seq = settled.next_turn_seq
      /\ p.process.epoch = settled.process.epoch /\ p.process.fenced = settled.process.fenced
      /\ p.process.status = settled.process.status /\ p.process.failure = settled.process.failure
      /\ LiveProcess(settled) => p.process.stop # "none"
    BY <1>1, RequestProcessStopFields
<1> HIDE DEF p
<1>3. Running(p) = {} /\ Numbered(p) /\ Healthy(p) /\ Settles(r, p)
    BY <1>1, <1>2 DEF Fine, Numbered, Healthy, Running, TurnsIn, Settles, Ended
<1>4. Halting(p)
    BY <1>1, <1>2, FineIsHalting DEF Halting, LiveProcess
<1>5. Fine(ProcessStops(p), c) /\ Settles(p, ProcessStops(p))
    BY <1>2, <1>3, <1>4, ProcessStopsIsFine
<1>6. /\ Fine(AdvanceControlAuthority(ProcessStops(p)), c)
      /\ Settles(ProcessStops(p), AdvanceControlAuthority(ProcessStops(p)))
    BY <1>5, AdvanceIsFine
<1>7. Settles(r, AdvanceControlAuthority(ProcessStops(p)))
    BY <1>3, <1>5, <1>6, SettlesTransitive
<1> QED BY <1>6, <1>7 DEF p, settled

\* A stop of a process without a running Turn.
LEMMA RequestStopIsFine ==
    ASSUME NEW c, NEW r, Fine(r, c), Running(r) = {}
    PROVE  LET q == RequestProcessStop(r, "process") IN Fine(q, c) /\ Settles(r, q)
<1> DEFINE q == RequestProcessStop(r, "process")
<1>1. /\ q \in Row /\ q.turn = r.turn /\ q.executing = r.executing /\ q.status = r.status
      /\ q.next_turn_seq = r.next_turn_seq
      /\ q.process.epoch = r.process.epoch /\ q.process.fenced = r.process.fenced
      /\ q.process.status = r.process.status /\ q.process.failure = r.process.failure
      /\ LiveProcess(r) => q.process.stop # "none"
    BY RequestProcessStopFields DEF Fine
<1> HIDE DEF q
<1>2. Running(q) = {} /\ Numbered(q) /\ Healthy(q) /\ Ceasing(q) /\ Settles(r, q)
    BY <1>1 DEF Fine, Running, TurnsIn, Numbered, Healthy, Ceasing, LiveProcess, Settles
<1> QED BY <1>1, <1>2, QuietIsFine DEF q

\* One Session's share of an interrupt.
LEMMA InterruptRowIsFine ==
    ASSUME NEW c, NEW r, Fine(r, c), NEW interruptQueued \in BOOLEAN
    PROVE  LET q == InterruptRow(r, interruptQueued) IN Fine(q, c) /\ Settles(r, q)
<1> DEFINE running == InterruptControlledTurn(r)
           waiting == SettleTurns(running, Queued(r), "interrupted")
           settled == IF interruptQueued THEN waiting ELSE running
           stopped == IF r.process.status = "starting" THEN RequestProcessStop(settled, "process") ELSE settled
<1>1. Fine(running, c) /\ Settles(r, running) /\ Running(running) = {}
    BY InterruptIsFine, ZenonT(60)
<1>2. Queued(running) = Queued(r)
    BY InterruptIsFine, ZenonT(60)
<1> HIDE DEF running
<1>3. Fine(waiting, c) /\ Settles(running, waiting) /\ Running(waiting) = {}
    BY <1>1, <1>2, SettleQueuedIsFine DEF Ended
<1> HIDE DEF waiting
<1>4. Fine(settled, c) /\ Settles(r, settled) /\ Running(settled) = {}
    BY <1>1, <1>3, SettlesTransitive
<1> HIDE DEF settled
<1>5. Fine(stopped, c) /\ Settles(settled, stopped)
    <2>1. Settles(settled, settled)
        BY DEF Settles
    <2> QED BY <1>4, <2>1, RequestStopIsFine
<1> HIDE DEF stopped
<1>6. Fine(AdvanceControlAuthority(stopped), c) /\ Settles(stopped, AdvanceControlAuthority(stopped))
    BY <1>5, AdvanceIsFine
<1>7. Settles(r, AdvanceControlAuthority(stopped))
    BY <1>4, <1>5, <1>6, SettlesTransitive
<1> QED BY <1>6, <1>7 DEF InterruptRow, stopped, settled, waiting, running

\* Local holds come and go without touching Turns or processes.
LEMMA HoldsAreFine ==
    ASSUME NEW c, NEW r, Fine(r, c), NEW h \in SUBSET LocalHolds
    PROVE  Fine([r EXCEPT !.holds = h], c) /\ Settles(r, [r EXCEPT !.holds = h])
<1> DEFINE q == [r EXCEPT !.holds = h]
<1>1. q \in Row /\ Alike(r, q)
    BY DEF Fine, Row, Alike
<1> QED BY <1>1, AlikeIsFine

\* One Session's share of storage pressure.
LEMMA PressureRowIsFine ==
    ASSUME NEW c, NEW r, Fine(r, c), NEW level
    PROVE  LET q == ReconcilePressureRow(r, level) IN Fine(q, c) /\ Settles(r, q)
<1> DEFINE placed == [r EXCEPT !.holds = @ \cup {"storage_pressure"}]
           freed == [r EXCEPT !.holds = @ \ {"storage_pressure"}]
           q == ReconcilePressureRow(r, level)
<1>1. Fine(placed, c) /\ Settles(r, placed)
    <2>1. r.holds \cup {"storage_pressure"} \in SUBSET LocalHolds
        BY DEF Fine, Row, LocalHolds
    <2> QED BY <2>1, HoldsAreFine
<1>2. Fine(freed, c) /\ Settles(r, freed)
    <2>1. r.holds \ {"storage_pressure"} \in SUBSET LocalHolds
        BY DEF Fine, Row
    <2> QED BY <2>1, HoldsAreFine
<1>3. PICK held : /\ held \in {r, AdvanceControlAuthority(placed), AdvanceControlAuthority(freed)}
                  /\ q \in {held, AdvanceControlAuthority(InterruptControlledTurn(held))}
    BY DEF ReconcilePressureRow
<1> SUFFICES Fine(q, c) /\ Settles(r, q)
    OBVIOUS
<1> HIDE DEF placed, freed, q
<1>4. Fine(held, c) /\ Settles(r, held)
    <2>1. Settles(r, r)
        BY DEF Settles
    <2>2. /\ Fine(AdvanceControlAuthority(placed), c) /\ Settles(r, AdvanceControlAuthority(placed))
          /\ Fine(AdvanceControlAuthority(freed), c) /\ Settles(r, AdvanceControlAuthority(freed))
        BY <1>1, <1>2, AdvanceIsFine, SettlesTransitive
    <2> QED BY <1>3, <2>1, <2>2
<1> DEFINE i == InterruptControlledTurn(held)
<1>5. Fine(i, c) /\ Settles(held, i)
    BY <1>4, InterruptIsFine
<1> HIDE DEF i
<1>6. Fine(AdvanceControlAuthority(i), c) /\ Settles(i, AdvanceControlAuthority(i))
    BY <1>5, AdvanceIsFine
<1>7. Settles(r, AdvanceControlAuthority(i))
    BY <1>4, <1>5, <1>6, SettlesTransitive
<1> QED BY <1>3, <1>4, <1>6, <1>7 DEF i

\* Rows and their tree operations.
AllFine(rows, c) == rows \in [Sessions -> Row] /\ \A s \in Sessions : Fine(rows[s], c)
AllSettle(rows, next) == \A s \in Sessions : Settles(rows[s], next[s])

\* It is enough to look at each row.
LEMMA RowwiseIsFine ==
    ASSUME NEW c, NEW rows, NEW next, next = [s \in Sessions |-> next[s]],
           \A s \in Sessions : Fine(next[s], c) /\ Settles(rows[s], next[s])
    PROVE  AllFine(next, c) /\ AllSettle(rows, next)
<1>1. \A s \in Sessions : next[s] \in Row
    BY DEF Fine
<1>2. next \in [Sessions -> Row]
    BY <1>1
<1> QED BY <1>2 DEF AllFine, AllSettle

\* A change of one row.
LEMMA OneRowIsFine ==
    ASSUME NEW c, NEW rows, AllFine(rows, c), NEW s \in Sessions, NEW q, Fine(q, c), Settles(rows[s], q)
    PROVE  AllFine([rows EXCEPT ![s] = q], c) /\ AllSettle(rows, [rows EXCEPT ![s] = q])
<1>1. \A t \in Sessions : Settles(rows[t], rows[t])
    BY DEF Settles
<1> QED BY <1>1 DEF AllFine, AllSettle, Fine

\* Handlers compose on all rows.
LEMMA AllSettleTransitive ==
    ASSUME NEW a, NEW b, NEW d, AllSettle(a, b), AllSettle(b, d) PROVE AllSettle(a, d)
BY SettlesTransitive DEF AllSettle

\* Failing the saves of a lost lease changes no status.
LEMMA SettleLostSavesIsFine ==
    ASSUME NEW c, NEW rows, AllFine(rows, c), NEW epoch
    PROVE  AllFine(SettleLostSaves(rows, epoch), c) /\ AllSettle(rows, SettleLostSaves(rows, epoch))
<1> DEFINE f(s) == [n \in TurnIds |->
        IF rows[s].turn[n].save = "requested" /\ rows[s].turn[n].save_lease = epoch
        THEN [rows[s].turn[n] EXCEPT !.save = "failed"] ELSE rows[s].turn[n]]
           q(s) == [rows[s] EXCEPT !.turn = f(s)]
<1>1. ASSUME NEW s \in Sessions
      PROVE  Fine(q(s), c) /\ Settles(rows[s], q(s))
    <2>1. Fine(rows[s], c) /\ rows[s] \in Row
        BY DEF AllFine
    <2>2. ASSUME NEW n \in TurnIds
          PROVE  /\ f(s)[n] \in Turn
                 /\ f(s)[n].status = rows[s].turn[n].status
                 /\ f(s)[n].process_epoch = rows[s].turn[n].process_epoch
        <3>1. rows[s].turn[n] \in Turn
            BY <2>1 DEF Row
        <3>2. /\ [rows[s].turn[n] EXCEPT !.save = "failed"] \in Turn
              /\ [rows[s].turn[n] EXCEPT !.save = "failed"].status = rows[s].turn[n].status
              /\ [rows[s].turn[n] EXCEPT !.save = "failed"].process_epoch = rows[s].turn[n].process_epoch
            BY <3>1 DEF Turn
        <3> QED BY <3>1, <3>2
    <2>3. f(s) \in [TurnIds -> Turn]
        BY <2>2
    <2> DEFINE g == f(s)
    <2> HIDE DEF f, g
    <2>4. /\ [rows[s] EXCEPT !.turn = g] \in Row
          /\ [rows[s] EXCEPT !.turn = g].turn = g
          /\ [rows[s] EXCEPT !.turn = g].process = rows[s].process
          /\ [rows[s] EXCEPT !.turn = g].status = rows[s].status
          /\ [rows[s] EXCEPT !.turn = g].executing = rows[s].executing
          /\ [rows[s] EXCEPT !.turn = g].next_turn_seq = rows[s].next_turn_seq
        BY <2>1, <2>3 DEF Row, g
    <2>5. \A n \in TurnIds : g[n].status = rows[s].turn[n].status /\ g[n].process_epoch = rows[s].turn[n].process_epoch
        BY <2>2 DEF g
    <2> DEFINE p == [rows[s] EXCEPT !.turn = g]
    <2> HIDE DEF p
    <2>6. p = q(s)
        BY DEF p, g
    <2>7. Fine(p, c) /\ Settles(rows[s], p)
        <3>1. /\ p \in Row /\ p.turn = g /\ p.status = rows[s].status /\ p.executing = rows[s].executing
              /\ p.next_turn_seq = rows[s].next_turn_seq /\ p.process = rows[s].process
            BY <2>1, <2>4, ZenonT(60) DEF p, Fine, Row
        <3>2. Running(p) = Running(rows[s])
            BY <2>5, <3>1 DEF Running, TurnsIn
        <3>3. Numbered(p) /\ Healthy(p) /\ Ceasing(p)
            BY <2>1, <2>5, <3>1, <3>2 DEF Fine, Numbered, Healthy, Ceasing, LiveProcess
        <3>4. Settles(rows[s], p)
            BY <2>1, <2>5, <3>1 DEF Settles
        <3>5. Owned(rows[s], c) /\ \A n \in Running(rows[s]) : n \in TurnIds
            BY <2>1 DEF Fine, Running, TurnsIn
        <3>6. Owned(p, c)
            BY <2>5, <3>1, <3>2, <3>5 DEF Owned, Accepting, LiveProcess
        <3> QED BY <3>1, <3>3, <3>4, <3>6 DEF Fine
    <2> QED BY <2>6, <2>7
<1> DEFINE next == SettleLostSaves(rows, epoch)
<1>2. next = [s \in Sessions |-> q(s)]
    BY DEF SettleLostSaves
<1> HIDE DEF q, next
<1>3. next = [s \in Sessions |-> next[s]] /\ \A s \in Sessions : next[s] = q(s)
    BY <1>2
<1>4. AllFine(next, c) /\ AllSettle(rows, next)
    BY <1>1, <1>3, RowwiseIsFine
<1> QED BY <1>4 DEF next

\* recordComputerRecoveryGap places holds and notices; it ends no Turn except
\* through the release of storage pressure, which ends none either.
LEMMA RecoveryGapIsFine ==
    ASSUME NEW c, NEW rows, AllFine(rows, c), NEW epoch \in 1..MaxLeases
    PROVE  /\ AllFine(RecordComputerRecoveryGap(rows, epoch), c)
           /\ AllSettle(rows, RecordComputerRecoveryGap(rows, epoch))
<1> DEFINE calm == [s \in Sessions |-> IF Accepting(rows[s]) THEN ReconcilePressureRow(rows[s], "none")
                                                            ELSE rows[s]]
           Noticed(r) == [r EXCEPT !.gaps = @ \cup {epoch}]
           Held1(r) == [Noticed(r) EXCEPT !.holds = @ \cup {"recovery_gap"}]
           next == RecordComputerRecoveryGap(rows, epoch)
<1>1. ASSUME NEW s \in Sessions
      PROVE  Fine(calm[s], c) /\ Settles(rows[s], calm[s])
    <2>1. Fine(rows[s], c) /\ Settles(rows[s], rows[s])
        BY DEF AllFine, Settles
    <2> QED BY <2>1, PressureRowIsFine
<1>2. ASSUME NEW r, Fine(r, c)
      PROVE  /\ Fine(Noticed(r), c) /\ Settles(r, Noticed(r))
             /\ Fine(AdvanceControlAuthority(Held1(r)), c)
             /\ Settles(r, AdvanceControlAuthority(Held1(r)))
    <2>1. Noticed(r) \in Row /\ Alike(r, Noticed(r))
        BY <1>2 DEF Fine, Row, Alike
    <2>2. Fine(Noticed(r), c) /\ Settles(r, Noticed(r))
        BY <1>2, <2>1, AlikeIsFine
    <2> HIDE DEF Noticed
    <2>3. Noticed(r).holds \cup {"recovery_gap"} \in SUBSET LocalHolds
        BY <2>1 DEF Row, LocalHolds
    <2>4. Fine(Held1(r), c) /\ Settles(Noticed(r), Held1(r))
        BY <2>2, <2>3, HoldsAreFine
    <2> HIDE DEF Held1
    <2> QED BY <2>2, <2>4, AdvanceIsFine, SettlesTransitive
<1>3. \A s \in Sessions : next[s] \in {calm[s], Noticed(calm[s]), AdvanceControlAuthority(Held1(calm[s]))}
    BY DEF RecordComputerRecoveryGap
<1>4. next = [s \in Sessions |-> next[s]]
    BY DEF RecordComputerRecoveryGap
<1> HIDE DEF next, calm, Noticed, Held1
<1>5. \A s \in Sessions : Fine(next[s], c) /\ Settles(rows[s], next[s])
    BY <1>1, <1>2, <1>3, SettlesTransitive
<1>6. AllFine(next, c) /\ AllSettle(rows, next)
    BY <1>4, <1>5, RowwiseIsFine
<1> QED BY <1>6 DEF next

\* The processes of a lease end with it.
LEMMA LoseLeaseProcessesIsFine ==
    ASSUME NEW c, NEW rows, AllFine(rows, c), NEW d, d.lease.epoch = c.lease.epoch,
           NEW physicalStopped \in BOOLEAN
    PROVE  /\ AllFine(LoseLeaseProcesses(rows, d, physicalStopped), d)
           /\ AllSettle(rows, LoseLeaseProcesses(rows, d, physicalStopped))
<1> DEFINE next == LoseLeaseProcesses(rows, d, physicalStopped)
           recoverable == DiskRecoveryEligible(d)
<1>1. recoverable \in BOOLEAN
    BY DEF DiskRecoveryEligible
<1> HIDE DEF recoverable
<1>2. next = [s \in Sessions |-> LoseProcess(rows[s], d.lease, physicalStopped, recoverable)]
    BY DEF LoseLeaseProcesses, recoverable
<1> HIDE DEF next
<1>3. next = [s \in Sessions |-> next[s]]
    BY <1>2
<1>4. ASSUME NEW s \in Sessions
      PROVE  Fine(next[s], d) /\ Settles(rows[s], next[s])
    <2>1. Fine(rows[s], c)
        BY DEF AllFine
    <2>2. next[s] = LoseProcess(rows[s], d.lease, physicalStopped, recoverable)
        BY <1>2
    <2> QED BY <1>1, <2>1, <2>2, LoseProcessIsFine
<1>5. AllFine(next, d) /\ AllSettle(rows, next)
    BY <1>3, <1>4, RowwiseIsFine
<1> QED BY <1>5 DEF next

\* drainClosingSessions closes only Sessions that run nothing.
LEMMA DrainIsFine ==
    ASSUME NEW c, NEW rows, AllFine(rows, c), NEW ids
    PROVE  /\ AllFine(DrainClosingSessions(rows, ids), c)
           /\ AllSettle(rows, DrainClosingSessions(rows, ids))
<1> DEFINE cancelled == [s \in Sessions |->
               IF s \in ids /\ rows[s].status = "closing" /\ Held(rows, s)
               THEN SettleTurns(rows[s], Queued(rows[s]), "cancelled") ELSE rows[s]]
           Drained(d) == \/ rows[d].status \in {"none", "closed"}
                         \/ rows[d].status = "closing" /\ Unsettled(cancelled[d]) = {}
           next == DrainClosingSessions(rows, ids)
<1>1. ASSUME NEW s \in Sessions
      PROVE  Fine(cancelled[s], c) /\ Settles(rows[s], cancelled[s])
    <2>1. Fine(rows[s], c) /\ Settles(rows[s], rows[s])
        BY DEF AllFine, Settles
    <2>2. /\ Fine(SettleTurns(rows[s], Queued(rows[s]), "cancelled"), c)
          /\ Settles(rows[s], SettleTurns(rows[s], Queued(rows[s]), "cancelled"))
        BY <2>1, SettleQueuedIsFine DEF Ended
    <2> QED BY <2>1, <2>2
<1>2. next = [s \in Sessions |->
                IF s \in ids /\ rows[s].status = "closing" /\ \A d \in Tree(s) : Drained(d)
                THEN FinishClose(cancelled[s]) ELSE cancelled[s]]
    BY DEF DrainClosingSessions
<1>3. \A s \in Sessions : s \in Tree(s)
    BY DEF Tree, Ancestors
<1> HIDE DEF next, cancelled
<1>4. ASSUME NEW s \in Sessions
      PROVE  Fine(next[s], c) /\ Settles(rows[s], next[s])
    <2>1. CASE next[s] = cancelled[s]
        BY <1>1, <2>1
    <2>2. CASE next[s] = FinishClose(cancelled[s]) /\ Drained(s) /\ rows[s].status = "closing"
        <3>1. Running(cancelled[s]) = {}
            BY <2>2 DEF Unsettled, Running, TurnsIn
        <3>2. cancelled[s] \in Row /\ Numbered(cancelled[s]) /\ Healthy(cancelled[s]) /\ Halting(cancelled[s])
            BY <1>1, FineIsHalting DEF Fine
        <3>3. Fine(FinishClose(cancelled[s]), c) /\ Settles(cancelled[s], FinishClose(cancelled[s]))
            BY <3>1, <3>2, FinishCloseIsFine
        <3> QED BY <1>1, <2>2, <3>3, SettlesTransitive
    <2> QED BY <1>2, <1>3, <2>1, <2>2, ZenonT(60)
<1>5. next = [s \in Sessions |-> next[s]]
    BY <1>2
<1>6. AllFine(next, c) /\ AllSettle(rows, next)
    BY <1>4, <1>5, RowwiseIsFine
<1> QED BY <1>6 DEF next

\* beginClose only marks Sessions before it drains them.
LEMMA BeginCloseIsFine ==
    ASSUME NEW c, NEW rows, AllFine(rows, c), NEW ids
    PROVE  AllFine(BeginClose(rows, ids), c) /\ AllSettle(rows, BeginClose(rows, ids))
<1> DEFINE marked == [s \in Sessions |-> IF s \in ids /\ rows[s].status = "open"
                                        THEN [rows[s] EXCEPT !.status = "closing"] ELSE rows[s]]
<1>1. ASSUME NEW s \in Sessions
      PROVE  Fine(marked[s], c) /\ Settles(rows[s], marked[s])
    <2>1. Fine(rows[s], c) /\ Settles(rows[s], rows[s])
        BY DEF AllFine, Settles
    <2> DEFINE q == [rows[s] EXCEPT !.status = "closing"]
    <2>2. /\ q \in Row /\ q.status = "closing"
          /\ q.turn = rows[s].turn /\ q.executing = rows[s].executing
          /\ q.next_turn_seq = rows[s].next_turn_seq /\ q.process = rows[s].process
        BY <2>1 DEF Fine, Row
    <2> HIDE DEF q
    <2>3. Fine(q, c) /\ Settles(rows[s], q)
        <3>1. Running(q) = Running(rows[s])
            BY <2>2 DEF Running, TurnsIn
        <3>2. Numbered(q) /\ Healthy(q) /\ Ceasing(q)
            BY <2>1, <2>2, <3>1 DEF Fine, Numbered, Healthy, Ceasing, LiveProcess
        <3>3. Settles(rows[s], q)
            BY <2>1, <2>2 DEF Settles
        <3>4. Owned(rows[s], c)
            BY <2>1 DEF Fine
        <3>5. Owned(q, c)
            BY <2>2, <3>1, <3>4 DEF Owned, Accepting, LiveProcess
        <3> QED BY <2>2, <3>2, <3>3, <3>5 DEF Fine
    <2>4. marked[s] \in {rows[s], q}
        BY DEF q
    <2> HIDE DEF marked
    <2> QED BY <2>1, <2>3, <2>4
<1>2. marked = [s \in Sessions |-> marked[s]]
    OBVIOUS
<1> HIDE DEF marked
<1>3. AllFine(marked, c) /\ AllSettle(rows, marked)
    BY <1>1, <1>2, RowwiseIsFine
<1>4. /\ AllFine(DrainClosingSessions(marked, ids), c)
      /\ AllSettle(marked, DrainClosingSessions(marked, ids))
    BY <1>3, DrainIsFine
<1>5. AllSettle(rows, DrainClosingSessions(marked, ids))
    BY <1>3, <1>4, AllSettleTransitive
<1> QED BY <1>4, <1>5 DEF BeginClose, marked

\* reconcileStoragePressureTx, over the Sessions of the Computer.
LEMMA StoragePressureIsFine ==
    ASSUME NEW c, NEW rows, AllFine(rows, c), NEW d
    PROVE  AllFine(ReconcileStoragePressure(rows, d), c) /\ AllSettle(rows, ReconcileStoragePressure(rows, d))
<1> DEFINE next == ReconcileStoragePressure(rows, d)
<1>1. \A s \in Sessions : next[s] \in {rows[s], ReconcilePressureRow(rows[s], d.lease.pressure)}
    BY DEF ReconcileStoragePressure
<1>2. next = [s \in Sessions |-> next[s]]
    BY DEF ReconcileStoragePressure
<1> HIDE DEF next
<1>3. \A s \in Sessions : Fine(rows[s], c) /\ Settles(rows[s], rows[s])
    BY DEF AllFine, Settles
<1>4. \A s \in Sessions : Fine(next[s], c) /\ Settles(rows[s], next[s])
    BY <1>1, <1>3, PressureRowIsFine
<1>5. AllFine(next, c) /\ AllSettle(rows, next)
    BY <1>2, <1>4, RowwiseIsFine
<1> QED BY <1>5 DEF next

\* Only the epoch, the status and the fence of the lease matter to the rows.
LEMMA SameLeaseIsFine ==
    ASSUME NEW c, NEW rows, AllFine(rows, c), NEW d, d.lease.epoch = c.lease.epoch,
           LeaseLive(c) => LeaseLive(d)
    PROVE  AllFine(rows, d)
BY DEF AllFine, Fine, Owned

\* Execution admission keeps the Computer's lease.
LEMMA AdmissionFields ==
    ASSUME NEW c \in Computer, NEW rows
    PROVE  /\ NoteExecutionDemand(c) \in Computer /\ NoteExecutionDemand(c).lease = c.lease
           /\ RetireUnusedExecutionAdmission(rows, c) \in Computer
           /\ RetireUnusedExecutionAdmission(rows, c).lease = c.lease
BY DEF NoteExecutionDemand, RetireUnusedExecutionAdmission, Computer

-----------------------------------------------------------------------------

\* A Session that was not started has no Turns.
Unborn(r) == r.status = "none" => r.next_turn_seq = 1 /\ r.executing = 0

\* The inductive invariant.
SessionInv ==
    /\ AllFine(session, computer)
    /\ \A s \in Sessions : Unborn(session[s])
    /\ computer \in Computer
    /\ controls \in Nat /\ faults \in Nat

\* A step that admits, starts and completes no Turn.
Stepped ==
    /\ AllFine(session', computer') /\ AllSettle(session, session')
    /\ computer' \in Computer /\ controls' \in Nat /\ faults' \in Nat

\* The requests of ControlSession settle Turns and leave the lease alone.
LEMMA ControlSteps ==
    ASSUME SessionInv, NEW rows, Control(rows), NEW c \in Computer, c.lease = computer.lease, computer' = c,
           AllFine(rows, computer), AllSettle(session, rows)
    PROVE  Stepped
<1>1. LeaseLive(computer) => LeaseLive(c)
    BY DEF LeaseLive, Allocated
<1>2. AllFine(rows, c)
    BY <1>1, SameLeaseIsFine
<1> QED BY <1>2 DEF Stepped, Control, SessionInv

\* TurnInterrupt.
LEMMA TurnInterruptSteps ==
    ASSUME SessionInv, NEW s \in Sessions, NEW n \in TurnIds, TurnInterrupt(s, n) PROVE Stepped
<1> DEFINE i == InterruptControlledTurn(session[s])
           q == AdvanceControlAuthority(i)
<1>1. Fine(session[s], computer)
    BY DEF SessionInv, AllFine
<1>2. Fine(i, computer) /\ Settles(session[s], i)
    BY <1>1, InterruptIsFine
<1>3. Control([session EXCEPT ![s] = q]) /\ computer' = RetireUnusedExecutionAdmission(session', computer)
    BY DEF TurnInterrupt
<1> HIDE DEF i
<1>4. Fine(q, computer) /\ Settles(session[s], q)
    BY <1>2, AdvanceIsFine, SettlesTransitive
<1> HIDE DEF q
<1>5. /\ AllFine([session EXCEPT ![s] = q], computer)
      /\ AllSettle(session, [session EXCEPT ![s] = q])
    BY <1>4, OneRowIsFine DEF SessionInv
<1>6. computer' \in Computer /\ computer'.lease = computer.lease
    BY <1>3, AdmissionFields DEF SessionInv
<1> QED BY <1>3, <1>5, <1>6, ControlSteps

\* Interrupt.
LEMMA InterruptSteps ==
    ASSUME SessionInv, NEW s \in Sessions, NEW queued \in BOOLEAN, Interrupt(s, queued) PROVE Stepped
<1> DEFINE h == [session[s] EXCEPT !.interrupts = @ + 1]
           held == [session EXCEPT ![s] = h]
           rows == [t \in Sessions |-> IF t \in Tree(s) THEN InterruptRow(held[t], queued) ELSE held[t]]
<1>1. Fine(session[s], computer) /\ session \in [Sessions -> Row]
    BY DEF SessionInv, AllFine
<1>2. h \in Row /\ Alike(session[s], h)
    BY <1>1 DEF Row, Alike
<1>3. [session EXCEPT ![s].interrupts = @ + 1] = held
    BY <1>1
<1> HIDE DEF h
<1>4. AllFine(held, computer) /\ AllSettle(session, held)
    BY <1>1, <1>2, AlikeIsFine, OneRowIsFine, ZenonT(60) DEF SessionInv
<1>5. Control(DrainClosingSessions(rows, Tree(s))) /\ computer' = RetireUnusedExecutionAdmission(session', computer)
    BY <1>3 DEF Interrupt
<1> HIDE DEF held
<1>6. \A t \in Sessions : Fine(rows[t], computer) /\ Settles(held[t], rows[t])
    <2>1. \A t \in Sessions : Fine(held[t], computer) /\ Settles(held[t], held[t])
        BY <1>4 DEF AllFine, Settles
    <2>2. \A t \in Sessions : rows[t] \in {held[t], InterruptRow(held[t], queued)}
        OBVIOUS
    <2> HIDE DEF rows
    <2> QED BY <2>1, <2>2, InterruptRowIsFine
<1>7. rows = [t \in Sessions |-> rows[t]]
    OBVIOUS
<1> HIDE DEF rows
<1>8. AllFine(rows, computer) /\ AllSettle(held, rows)
    BY <1>6, <1>7, RowwiseIsFine
<1> DEFINE drained == DrainClosingSessions(rows, Tree(s))
<1>9. AllFine(drained, computer) /\ AllSettle(rows, drained)
    BY <1>8, DrainIsFine
<1>10. Control(drained) /\ computer' = RetireUnusedExecutionAdmission(session', computer)
    BY <1>5
<1> HIDE DEF drained
<1>11. AllSettle(session, drained)
    BY <1>4, <1>8, <1>9, AllSettleTransitive
<1>12. computer' \in Computer /\ computer'.lease = computer.lease
    BY <1>10, AdmissionFields DEF SessionInv
<1> QED BY <1>9, <1>10, <1>11, <1>12, ControlSteps

\* Releasing a hold changes no Turn.
LEMMA ReleaseHoldIsFine ==
    ASSUME NEW c, NEW r, Fine(r, c), NEW kind \in {"interrupt", "process_failed", "recovery_gap"},
           HoldPresent(r, kind)
    PROVE  Fine(ReleaseHold(r, kind), c) /\ Settles(r, ReleaseHold(r, kind))
<1> DEFINE q == ReleaseHold(r, kind)
<1>1. CASE kind = "interrupt"
    <2>1. r.interrupts > 0
        BY <1>1 DEF HoldPresent
    <2>2. q = [r EXCEPT !.interrupts = @ - 1]
        BY <1>1 DEF ReleaseHold
    <2>3. q \in Row /\ Alike(r, q)
        BY <2>1, <2>2 DEF Fine, Row, Alike
    <2> QED BY <2>3, AlikeIsFine
<1>2. CASE kind = "process_failed"
    <2>1. q = [r EXCEPT !.holds = @ \ {kind}, !.failures = {}]
        BY <1>2 DEF ReleaseHold
    <2>2. q \in Row /\ Alike(r, q)
        BY <2>1, ZenonT(60) DEF Fine, Row, Alike
    <2> QED BY <2>2, AlikeIsFine
<1>3. CASE kind = "recovery_gap"
    <2>1. q = [r EXCEPT !.holds = @ \ {kind}]
        BY <1>3 DEF ReleaseHold
    <2>2. q \in Row /\ Alike(r, q)
        BY <2>1 DEF Fine, Row, Alike
    <2> QED BY <2>2, AlikeIsFine
<1> QED BY <1>1, <1>2, <1>3

\* Resume.
LEMMA ResumeSteps ==
    ASSUME SessionInv, NEW s \in Sessions, NEW kind \in {"interrupt", "process_failed", "recovery_gap"},
           Resume(s, kind)
    PROVE  Stepped
<1> DEFINE ids == IF kind = "interrupt" THEN Tree(s) ELSE {s}
           h == ReleaseHold(session[s], kind)
           released == [session EXCEPT ![s] = h]
           rows == [t \in Sessions |-> IF t \in ids THEN AdvanceControlAuthority(released[t]) ELSE released[t]]
           retired == RetireUnusedExecutionAdmission(session, computer)
<1>1. HoldPresent(session[s], kind) /\ Control(rows) /\ computer' \in {retired, NoteExecutionDemand(retired)}
    BY DEF Resume
<1>2. Fine(session[s], computer)
    BY DEF SessionInv, AllFine
<1>3. Fine(h, computer) /\ Settles(session[s], h)
    BY <1>1, <1>2, ReleaseHoldIsFine
<1> HIDE DEF h
<1>4. AllFine(released, computer) /\ AllSettle(session, released)
    BY <1>3, OneRowIsFine DEF SessionInv
<1> HIDE DEF released, ids
<1>5. \A t \in Sessions : Fine(rows[t], computer) /\ Settles(released[t], rows[t])
    <2>1. \A t \in Sessions : Fine(released[t], computer) /\ Settles(released[t], released[t])
        BY <1>4 DEF AllFine, Settles
    <2>2. \A t \in Sessions : rows[t] \in {released[t], AdvanceControlAuthority(released[t])}
        OBVIOUS
    <2> HIDE DEF rows
    <2> QED BY <2>1, <2>2, AdvanceIsFine
<1>6. rows = [t \in Sessions |-> rows[t]]
    OBVIOUS
<1> HIDE DEF rows
<1>7. AllFine(rows, computer) /\ AllSettle(released, rows)
    BY <1>5, <1>6, RowwiseIsFine
<1>8. AllSettle(session, rows)
    BY <1>4, <1>7, AllSettleTransitive
<1>9. retired \in Computer /\ retired.lease = computer.lease
    BY AdmissionFields DEF SessionInv
<1> HIDE DEF retired
<1>10. computer' \in Computer /\ computer'.lease = computer.lease
    BY <1>1, <1>9, AdmissionFields
<1> QED BY <1>1, <1>7, <1>8, <1>10, ControlSteps

\* Cancel.
LEMMA CancelSteps ==
    ASSUME SessionInv, NEW s \in Sessions, Cancel(s) PROVE Stepped
<1> DEFINE rows == [t \in Sessions |-> IF t \in Tree(s) THEN CancelRow(session[t]) ELSE session[t]]
<1>1. Control(rows) /\ computer' = RetireUnusedExecutionAdmission(session', computer)
    BY DEF Cancel
<1>2. \A t \in Sessions : Fine(rows[t], computer) /\ Settles(session[t], rows[t])
    <2>1. \A t \in Sessions : Fine(session[t], computer) /\ Settles(session[t], session[t])
        BY DEF SessionInv, AllFine, Settles
    <2>2. \A t \in Sessions : rows[t] \in {session[t], CancelRow(session[t])}
        OBVIOUS
    <2> HIDE DEF rows
    <2> QED BY <2>1, <2>2, CancelRowIsFine
<1>3. rows = [t \in Sessions |-> rows[t]]
    OBVIOUS
<1> HIDE DEF rows
<1>4. AllFine(rows, computer) /\ AllSettle(session, rows)
    BY <1>2, <1>3, RowwiseIsFine
<1>5. computer' \in Computer /\ computer'.lease = computer.lease
    BY <1>1, AdmissionFields DEF SessionInv
<1> QED BY <1>1, <1>4, <1>5, ControlSteps

\* Close.
LEMMA CloseSteps ==
    ASSUME SessionInv, NEW s \in Sessions, Close(s) PROVE Stepped
<1> DEFINE rows == BeginClose(session, Tree(s))
<1>1. Control(rows) /\ computer' = RetireUnusedExecutionAdmission(session', computer)
    BY DEF Close
<1>2. AllFine(rows, computer) /\ AllSettle(session, rows)
    BY BeginCloseIsFine DEF SessionInv
<1> HIDE DEF rows
<1>3. computer' \in Computer /\ computer'.lease = computer.lease
    BY <1>1, AdmissionFields DEF SessionInv
<1> QED BY <1>1, <1>2, <1>3, ControlSteps

\* Without a live lease nothing runs, so the rows suit any Computer.
LEMMA NoLeaseIsFine ==
    ASSUME NEW c, NEW rows, AllFine(rows, c), ~LeaseLive(c), NEW d
    PROVE  AllFine(rows, d)
BY ZenonT(60) DEF AllFine, Fine, Owned

\* A new process has no handler and no failure.
LEMMA AssignProcessIsFine ==
    ASSUME NEW c, NEW r, Fine(r, c), ~LiveProcess(r), Running(r) = {},
           r.process.epoch < MaxEpochs, NEW lease \in 0..MaxLeases
    PROVE  Fine(AssignProcess(r, lease), c) /\ Settles(r, AssignProcess(r, lease))
<1> DEFINE p == NewProcess(r.process.epoch + 1, lease, "starting")
           q == [r EXCEPT !.process = p]
<1>1. r \in Row /\ r.process.epoch \in 0..MaxEpochs
    BY DEF Fine, Row, Process
<1>2. p \in Process /\ ~p.failure
    <2> DEFINE e == r.process.epoch + 1
    <2>1. e \in 0..MaxEpochs
        BY <1>1
    <2> HIDE DEF e
    <2>2. NewProcess(e, lease, "starting") \in Process
        BY <2>1 DEF Process, NewProcess
    <2>3. NewProcess(e, lease, "starting").failure = FALSE
        BY DEF NewProcess
    <2> QED BY <2>2, <2>3 DEF e
<1> HIDE DEF p
<1>3. /\ q \in Row /\ q.process = p /\ q.turn = r.turn /\ q.status = r.status
      /\ q.executing = r.executing /\ q.next_turn_seq = r.next_turn_seq
    BY <1>1, <1>2 DEF Row
<1> HIDE DEF q
<1>4. Running(q) = {} /\ Ceasing(q) /\ Numbered(q) /\ Healthy(q) /\ Settles(r, q)
    BY <1>2, <1>3, ZenonT(60) DEF Fine, Running, TurnsIn, Ceasing, Numbered, Healthy, Settles
<1>5. Fine(q, c)
    BY <1>3, <1>4, QuietIsFine
<1> QED BY <1>4, <1>5 DEF q, p, AssignProcess

\* failQueuedTurns settles the queue only.
LEMMA FailQueuedIsFine ==
    ASSUME NEW c, NEW r, Fine(r, c)
    PROVE  /\ Fine(FailQueuedTurns(r), c) /\ Settles(r, FailQueuedTurns(r))
           /\ FailQueuedTurns(r).process = r.process
BY SettleQueuedIsFine DEF FailQueuedTurns, Ended

\* Placement on a Computer without a VM.
LEMMA AllocateLeaseSteps ==
    ASSUME SessionInv, NEW denied, NEW restored \in BOOLEAN,
           ~Allocated(computer), computer.lease.epoch < MaxLeases,
           AllocateLease(denied, restored), UNCHANGED <<controls, faults>>
    PROVE  Stepped
<1> DEFINE initial == {s \in Sessions : Accepting(session[s])}
           settled == [s \in Sessions |-> IF s \in denied THEN FailQueuedTurns(session[s]) ELSE session[s]]
           lease == NewLease(computer.lease.epoch + 1, "acquiring", restored)
           placed == [computer EXCEPT !.lease = lease]
           assigned == [s \in Sessions |->
               IF s \in initial \ denied /\ MayAssignProcess(settled, placed, s)
               THEN AssignProcess(settled[s], placed.lease.epoch) ELSE settled[s]]
<1>1. \/ session' = settled /\ computer' = computer
      \/ session' = assigned /\ computer' = placed
    BY DEF AllocateLease
<1>2. \A s \in Sessions : Fine(settled[s], computer) /\ Settles(session[s], settled[s])
    <2>1. \A s \in Sessions : Fine(session[s], computer) /\ Settles(session[s], session[s])
        BY DEF SessionInv, AllFine, Settles
    <2> QED BY <2>1, FailQueuedIsFine
<1>3. AllFine(settled, computer) /\ AllSettle(session, settled)
    BY <1>2, RowwiseIsFine
<1>4. /\ placed \in Computer /\ placed.lease.epoch \in 0..MaxLeases
    <2>1. lease \in Lease /\ lease.epoch \in 0..MaxLeases
        <3> DEFINE e == computer.lease.epoch + 1
        <3>1. e \in 0..MaxLeases
            BY DEF SessionInv, Computer, Lease
        <3> HIDE DEF e
        <3>2. NewLease(e, "acquiring", restored) \in Lease
            BY <3>1 DEF Lease, NewLease
        <3>3. NewLease(e, "acquiring", restored).epoch = e
            BY DEF NewLease
        <3> QED BY <3>1, <3>2, <3>3 DEF e
    <2> HIDE DEF lease
    <2> QED BY <2>1 DEF SessionInv, Computer
<1> HIDE DEF placed
<1>5. AllFine(settled, placed)
    BY <1>3, NoLeaseIsFine DEF LeaseLive
<1> HIDE DEF settled
<1>6. ASSUME NEW s \in Sessions
      PROVE  Fine(assigned[s], placed) /\ Settles(settled[s], assigned[s])
    <2>1. Fine(settled[s], placed) /\ Settles(settled[s], settled[s])
        BY <1>5 DEF AllFine, Settles
    <2>2. \/ assigned[s] = settled[s]
          \/ assigned[s] = AssignProcess(settled[s], placed.lease.epoch) /\ MayAssignProcess(settled, placed, s)
        OBVIOUS
    <2> HIDE DEF assigned
    <2> QED BY <1>4, <2>1, <2>2, AssignProcessIsFine, ZenonT(60) DEF MayAssignProcess
<1>7. assigned = [s \in Sessions |-> assigned[s]]
    OBVIOUS
<1> HIDE DEF assigned
<1>8. AllFine(assigned, placed) /\ AllSettle(settled, assigned)
    BY <1>6, <1>7, RowwiseIsFine
<1>9. AllSettle(session, assigned)
    BY <1>3, <1>8, AllSettleTransitive
<1> QED BY <1>1, <1>3, <1>4, <1>8, <1>9, ZenonT(60) DEF Stepped, SessionInv

\* One row changes and the Computer does not.
LEMMA RowSteps ==
    ASSUME SessionInv, NEW s \in Sessions, NEW q, Fine(q, computer), Settles(session[s], q),
           session' = [session EXCEPT ![s] = q], computer' = computer, controls' = controls, faults' \in Nat
    PROVE  Stepped
<1>1. AllFine([session EXCEPT ![s] = q], computer) /\ AllSettle(session, [session EXCEPT ![s] = q])
    BY OneRowIsFine, ZenonT(60) DEF SessionInv
<1> QED BY <1>1 DEF Stepped, SessionInv

\* A revoked Session is refused before its process is ready.
LEMMA RefuseSteps ==
    ASSUME SessionInv, NEW s \in Sessions, RefuseRevokedSessionStart(s) PROVE Stepped
<1> DEFINE failed == FailQueuedTurns(session[s])
           f == RecordSessionFailure(failed, FALSE)
           q == [f EXCEPT !.process.status = "stopping"]
<1>1. /\ LiveProcess(session[s]) /\ session[s].process.status = "starting"
      /\ session' = [session EXCEPT ![s] = q] /\ computer' = computer /\ controls' = controls /\ faults' = faults
    BY DEF RefuseRevokedSessionStart
<1>2. Fine(session[s], computer)
    BY DEF SessionInv, AllFine
<1>3. Fine(failed, computer) /\ Settles(session[s], failed) /\ failed.process = session[s].process
    BY <1>2, FailQueuedIsFine
<1> HIDE DEF failed
<1>4. LiveProcess(failed) /\ Running(failed) = {} /\ failed \in Row
    BY <1>1, <1>3 DEF LiveProcess, Fine, Owned
<1>5. /\ f \in Row
      /\ f.turn = failed.turn /\ f.status = failed.status /\ f.executing = failed.executing
      /\ f.next_turn_seq = failed.next_turn_seq
      /\ f.process.epoch = failed.process.epoch /\ f.process.fenced = failed.process.fenced
    BY <1>4, RecordSessionFailureFields, ZenonT(60)
<1> HIDE DEF f
<1>6. /\ q \in Row
      /\ q.turn = f.turn /\ q.status = f.status /\ q.executing = f.executing
      /\ q.next_turn_seq = f.next_turn_seq
      /\ q.process.epoch = f.process.epoch /\ q.process.fenced = f.process.fenced
      /\ q.process.status = "stopping"
    BY <1>5 DEF Row, Process
<1> HIDE DEF q
<1>7. /\ Running(q) = {} /\ Ceasing(q) /\ Numbered(q) /\ Healthy(q) /\ Settles(failed, q)
    <2>1. Running(q) = {}
        BY <1>3, <1>4, <1>5, <1>6 DEF Running, TurnsIn
    <2>2. Settles(failed, q)
        BY <1>5, <1>6 DEF Settles
    <2>3. Ceasing(failed) /\ Numbered(failed)
        BY <1>3 DEF Fine
    <2>4. Ceasing(q) /\ Numbered(q) /\ Healthy(q)
        BY <1>5, <1>6, <2>3, ZenonT(60) DEF Ceasing, Numbered, Healthy, LiveProcess
    <2> QED BY <2>1, <2>2, <2>4
<1>8. Fine(q, computer) /\ Settles(session[s], q)
    BY <1>3, <1>6, <1>7, QuietIsFine, SettlesTransitive, ZenonT(60)
<1> QED BY <1>1, <1>8, RowSteps, ZenonT(60) DEF SessionInv

\* The lease is lost, with or without evidence that the VM stopped.
LEMMA LossSteps ==
    ASSUME SessionInv, Allocated(computer), NEW d \in Computer, d.lease.epoch = computer.lease.epoch,
           NEW physicalStopped \in BOOLEAN,
           session' = LoseLeaseProcesses(RecordComputerRecoveryGap(
                          SettleLostSaves(session, computer.lease.epoch), computer.lease.epoch), d, physicalStopped),
           computer' = d, controls' = controls, faults' \in Nat
    PROVE  Stepped
<1> DEFINE settled == SettleLostSaves(session, computer.lease.epoch)
           gap == RecordComputerRecoveryGap(settled, computer.lease.epoch)
           next == LoseLeaseProcesses(gap, d, physicalStopped)
<1>1. computer.lease.epoch \in 1..MaxLeases
    BY DEF SessionInv, Computer, Lease, Allocated
<1>2. AllFine(settled, computer) /\ AllSettle(session, settled)
    BY SettleLostSavesIsFine DEF SessionInv
<1> HIDE DEF settled
<1>3. AllFine(gap, computer) /\ AllSettle(settled, gap)
    BY <1>1, <1>2, RecoveryGapIsFine
<1> HIDE DEF gap
<1>4. AllFine(next, d) /\ AllSettle(gap, next)
    BY <1>3, LoseLeaseProcessesIsFine
<1>5. session' = next
    BY DEF gap, settled
<1> HIDE DEF next
<1>6. AllSettle(session, next)
    BY <1>2, <1>3, <1>4, AllSettleTransitive
<1> QED BY <1>4, <1>5, <1>6 DEF Stepped, SessionInv

\* Expiry or host loss.
LEMMA ExpireLeaseSteps ==
    ASSUME SessionInv, ExpireLease PROVE Stepped
<1> DEFINE d == [computer EXCEPT !.lease.status = "lost", !.lease.pressure = "none"]
<1>1. d \in Computer /\ d.lease.epoch = computer.lease.epoch
    BY ZenonT(60) DEF SessionInv, Computer, Lease
<1>2. /\ Allocated(computer)
      /\ session' = LoseLeaseProcesses(RecordComputerRecoveryGap(
                        SettleLostSaves(session, computer.lease.epoch), computer.lease.epoch), d, FALSE)
      /\ computer' = d /\ controls' = controls /\ faults' = faults + 1
    BY DEF ExpireLease
<1> HIDE DEF d
<1>3. faults' \in Nat
    BY <1>2 DEF SessionInv
<1> QED BY <1>1, <1>2, <1>3, LossSteps, ZenonT(60)

\* The steps of the dispatch package.
LEMMA DispatchSteps ==
    ASSUME SessionInv, Dispatch PROVE Stepped
<1>1. CASE AllocateFreshLease
    BY <1>1, AllocateLeaseSteps, ZenonT(60) DEF AllocateFreshLease
<1>2. CASE AllocateRecoveredLease
    <2>1. computer.saved \in BOOLEAN
        BY DEF SessionInv, Computer
    <2> QED BY <1>2, <2>1, AllocateLeaseSteps, ZenonT(60) DEF AllocateRecoveredLease
<1>3. ASSUME NEW s \in Sessions, AllocateSessionProcess(s) PROVE Stepped
    <2>1. Fine(session[s], computer) /\ computer.lease.epoch \in 0..MaxLeases
        BY DEF SessionInv, AllFine, Computer, Lease
    <2>2. CASE MayAssignProcess(session, computer, s) /\ session' = [session EXCEPT ![s] = AssignProcess(@, computer.lease.epoch)]
        <3>1. /\ Fine(AssignProcess(session[s], computer.lease.epoch), computer)
              /\ Settles(session[s], AssignProcess(session[s], computer.lease.epoch))
            BY <2>1, <2>2, AssignProcessIsFine DEF MayAssignProcess
        <3> QED BY <1>3, <2>2, <3>1, RowSteps, ZenonT(60) DEF AllocateSessionProcess, SessionInv
    <2>3. CASE session' = [session EXCEPT ![s] = FailQueuedTurns(@)]
        <3>1. Fine(FailQueuedTurns(session[s]), computer) /\ Settles(session[s], FailQueuedTurns(session[s]))
            BY <2>1, FailQueuedIsFine
        <3> QED BY <1>3, <2>3, <3>1, RowSteps, ZenonT(60) DEF AllocateSessionProcess, SessionInv
    <2> QED BY <1>3, <2>2, <2>3 DEF AllocateSessionProcess
<1>4. ASSUME NEW s \in Sessions, RefuseRevokedSessionStart(s) PROVE Stepped
    BY <1>4, RefuseSteps
<1>5. CASE ExpireLease
    BY <1>5, ExpireLeaseSteps
<1> QED BY <1>1, <1>2, <1>3, <1>4, <1>5 DEF Dispatch

=============================================================================
