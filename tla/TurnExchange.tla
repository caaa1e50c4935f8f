---------------------------- MODULE TurnExchange ----------------------------
(***************************************************************************)
(* Turns of one Session while they run: their message callbacks, question, *)
(* drainage and outcome, carried between the authored program, the guest   *)
(* that supervises it, the worker attached to the guest and the rows of    *)
(* the control plane, with the controls that stop a Turn on the way.       *)
(*                                                                         *)
(* The guest keeps every event of the program until it is acknowledged and *)
(* replays it to the next attachment. The control plane commits and the    *)
(* worker may lose the reply. The process and its lease stay live: their   *)
(* loss, and what follows a failure of the process, is Session's.          *)
(*                                                                         *)
(* Abstractions.                                                           *)
(*  - The local pipe between guest and program, and a frame on a live      *)
(*    connection, arrive at once. A connection breaks between steps, and   *)
(*    the worker's next attachment is part of the break: a worker that is  *)
(*    not attached does nothing.                                           *)
(*  - A Turn asks at most one question. Message ids are their order of     *)
(*    admission. Content is left out, but for the answer.                  *)
(*  - The authority generation advances only when no Turn runs any more,   *)
(*    so a control is current or not, and a running Turn's operations are. *)
(*  - A HOLD is handled at once: the guest takes nothing new after it.     *)
(*  - A WAIT_ASK that finds the question pending is asked again, unseen.   *)
(*  - An event that can have no further effect leaves the outbox at once:  *)
(*    an observation of a retired Turn, the receipt of a control that an   *)
(*    attachment or another control superseded.                            *)
(***************************************************************************)
EXTENDS Naturals, FiniteSetsExt, SequencesExt

CONSTANTS
    MaxTurns,       \* Turns of the Session, all queued at first
    MaxMessages,    \* bound: messages admitted
    Answers,        \* answers a person may submit
    Listening,      \* Turns whose authored code may take messages
    Asking,         \* Turns whose authored code may ask
    MaxFaults,      \* bound: broken attachments
    MaxControls     \* bound: interrupts, resumes and closes

ASSUME ExchangeAssumption ==
    /\ {MaxTurns, MaxMessages, MaxFaults, MaxControls} \subseteq Nat
    /\ Answers \cap {"none", "error"} = {} /\ Listening \cup Asking \subseteq 1..MaxTurns

VARIABLES
    session,    \* sessions and session_processes: hold, closing, process, control, stop
    turn,       \* turns, each with its turn_asks row
    message,    \* turn_messages
    host,       \* the attached worker: agentSessionTurns, agentSessionControls
    requests,   \* operations the guest had the reply of
    guest,      \* agentSession: hold, closed Turns, message deliveries
    outbox,     \* agentRelay.outbox: pending operations and unacknowledged receipts
    execution,  \* SessionRuntime.turns
    callback,   \* the message callbacks of all Turns
    program,    \* the program's own hold and the control it applies
    faults, controls

rows == <<session, turn, message>>
local == <<guest, outbox, execution, callback, program>>
budget == <<faults, controls>>
vars == <<rows, host, requests, local, budget>>

Turns == 1..MaxTurns
Messages == 1..MaxMessages
Terminal == {"completed", "failed", "interrupted"}
Methods == {"register", "ask", "wait", "withdraw", "close", "finalize", "fail"}

Operation(t, method) == [turn |-> t, method |-> method]
Event(kind, id, value) == [kind |-> kind, id |-> id, value |-> value]
NoCommand == Event("none", 0, "")
Attached(t) == [pending |-> t, message |-> 0, outgoing |-> NoCommand, replies |-> {}]
NotExecuting(phase) == [phase |-> phase, handler |-> FALSE, listening |-> FALSE,
                        ask |-> "none", answer |-> "none", outcome |-> "none"]
NoControl == [kind |-> "none", stop |-> 0, joins |-> FALSE, awaited |-> FALSE]

Serving == session.process = "ready"
Running == {t \in Turns : turn[t].status = "running"}
MessagesOf(t) == {m \in Messages : message[m].turn = t}
Unsettled == {"admitted", "started"}

Known(t) == execution[t].phase \notin {"none", "retired"}
Settled(t) == execution[t].phase = "terminal"
Active == {t \in Turns : Known(t) /\ ~Settled(t)}
Retired == {t \in Turns : execution[t].phase = "retired"}

Init ==
    /\ session = [held |-> FALSE, closing |-> FALSE, process |-> "ready", stop |-> 0,
                  current |-> FALSE, acknowledged |-> FALSE]
    /\ turn = [t \in Turns |-> [status |-> "queued", registered |-> FALSE, closed |-> FALSE,
                                ask |-> "none", answer |-> "none"]]
    /\ message = [m \in Messages |-> [turn |-> 0, status |-> "none", started |-> FALSE, reason |-> "none"]]
    /\ host = Attached(0) /\ requests = {}
    /\ guest = [held |-> FALSE, closed |-> {}, deliveries |-> {}]
    /\ outbox = <<>>
    /\ execution = [t \in Turns |-> NotExecuting("none")]
    /\ callback = [m \in Messages |-> "none"]
    /\ program = [held |-> FALSE, control |-> NoControl]
    /\ faults = 0 /\ controls = 0

(***************************************************************************)
(* The rows. A Turn that ends cancels its question and rejects the         *)
(* messages that have no disposition yet.                                  *)
(***************************************************************************)
\* Mutant: an answered question is cancelled, too.
cancelAsk_answered(row) == [row EXCEPT !.ask = IF @ \in {"pending", "answered"} THEN "cancelled" ELSE @]

cancelAsk(row) == [row EXCEPT !.ask = IF @ = "pending" THEN "cancelled" ELSE @]

rejectTurnMessages(ts, statuses, reason) ==
    [m \in Messages |->
        IF message[m].turn \in ts /\ message[m].status \in statuses
        THEN [message[m] EXCEPT !.status = "rejected", !.reason = reason] ELSE message[m]]

(* The Turns ts end before their result: as failed, or as interrupted.     *)
Terminates(ts, status) ==
    /\ turn' = [t \in Turns |->
                  IF t \in ts THEN [cancelAsk(turn[t]) EXCEPT !.status = status, !.closed = TRUE] ELSE turn[t]]
    /\ message' = rejectTurnMessages(ts, Unsettled, "turn_terminated")

(* A failed process is stopped; its running Turn ends as interrupted.      *)
ObserveFailure ==
    /\ session' = [session EXCEPT !.process = "stopping"]
    /\ Terminates(Running, "interrupted")

(***************************************************************************)
(* People and services.                                                    *)
(***************************************************************************)
admitMessage(t, m) ==
    /\ Serving /\ t \in Running /\ turn[t].registered /\ ~turn[t].closed
    /\ message[m].status = "none" /\ \A n \in 1..(m - 1) : message[n].status # "none"
    /\ message' = [message EXCEPT ![m].turn = t, ![m].status = "admitted"]
    /\ UNCHANGED <<session, turn, host, requests, local, budget>>

AnswerAsk(t, a) ==
    /\ t \in Running /\ turn[t].ask = "pending"
    /\ turn' = [turn EXCEPT ![t].ask = "answered", ![t].answer = a]
    /\ UNCHANGED <<session, message, host, requests, local, budget>>

(* The first stop owns its target until the process has ceased executing   *)
(* it. The authority generation advances with every control but a close.   *)
requestProcessStop(ts) ==
    IF session.stop = 0 /\ ts # {}
    THEN [session EXCEPT !.stop = CHOOSE t \in ts : TRUE, !.acknowledged = FALSE] ELSE session
advanceControlAuthority(s) == [s EXCEPT !.current = FALSE]

SessionControl ==
    /\ Serving /\ controls < MaxControls /\ controls' = controls + 1
    /\ UNCHANGED <<host, requests, local, faults>>

TurnInterrupt(t) ==
    /\ SessionControl /\ t \in Running
    /\ session' = advanceControlAuthority(requestProcessStop({t}))
    /\ Terminates({t}, "interrupted")

Interrupt ==
    /\ SessionControl /\ ~session.closing /\ ~session.held
    /\ session' = [advanceControlAuthority(requestProcessStop(Running)) EXCEPT !.held = TRUE]
    /\ Terminates(Running, "interrupted")

Resume ==
    /\ SessionControl /\ session.held
    /\ session' = [advanceControlAuthority(session) EXCEPT !.held = FALSE]
    /\ UNCHANGED <<turn, message>>

(* A close while a Turn runs: it drains, and no question waits for a       *)
(* person. A close of a held or idle Session ends its process (Session).   *)
Close ==
    /\ SessionControl /\ ~session.closing /\ Running # {}
    /\ session' = [session EXCEPT !.closing = TRUE]
    /\ turn' = [t \in Turns |-> cancelAsk(turn[t])]
    /\ UNCHANGED message

(***************************************************************************)
(* Operations of the program at the control plane. Each is one transaction *)
(* and returns what the program will read; "" leaves the request waiting.  *)
(***************************************************************************)
Answered(o) ==
    LET row == turn[o.turn]
        open == row.status = "running" /\ ~row.closed
    IN
    CASE o.method = "register" -> IF row.registered \/ open THEN "ok" ELSE "error"
      [] o.method = "ask" -> IF row.ask # "none" \/ open THEN "ok" ELSE "error"
      [] o.method = "wait" -> CASE row.ask = "pending" -> "" [] row.ask = "answered" -> row.answer [] OTHER -> "error"
      [] o.method = "withdraw" -> "ok"
      [] o.method = "close" -> IF row.closed \/ row.status = "running" THEN "ok" ELSE "error"
      [] o.method = "finalize" ->
            IF row.status \in Terminal THEN row.status
            ELSE IF ~row.closed THEN "error"
            ELSE IF row.ask = "pending" \/ \E m \in MessagesOf(o.turn) : message[m].status \in Unsettled THEN ""
            ELSE "completed"
      [] o.method = "fail" ->
            IF row.status \in Terminal THEN row.status ELSE IF ~row.closed THEN "error" ELSE "failed"
      [] OTHER -> "ok"

RuntimeRegisterMessages(t) ==
    /\ turn' = [turn EXCEPT ![t].registered = TRUE]
    /\ UNCHANGED <<session, message>>

RuntimeAsk(t) ==
    /\ turn' = [turn EXCEPT ![t].ask =
                  IF @ # "none" THEN @ ELSE IF session.closing THEN "cancelled" ELSE "pending"]
    /\ UNCHANGED <<session, message>>

RuntimeWithdrawAsk(t) ==
    /\ turn' = [turn EXCEPT ![t] = cancelAsk(@)]
    /\ UNCHANGED <<session, message>>

\* Mutant: closing rejects the message whose callback has started, too.
RuntimeCloseProcessing_started(t) ==
    /\ turn' = [turn EXCEPT ![t].closed = TRUE]
    /\ message' = IF turn[t].closed THEN message ELSE rejectTurnMessages({t}, Unsettled, "turn_closed")
    /\ UNCHANGED session

\* Mutant: closing leaves the messages that wait for their callback.
RuntimeCloseProcessing_keeps(t) ==
    /\ turn' = [turn EXCEPT ![t].closed = TRUE]
    /\ UNCHANGED <<session, message>>

RuntimeCloseProcessing(t) ==
    /\ turn' = [turn EXCEPT ![t].closed = TRUE]
    /\ message' = IF turn[t].closed THEN message ELSE rejectTurnMessages({t}, {"admitted"}, "turn_closed")
    /\ UNCHANGED session

RuntimeFinalize(t) ==
    /\ turn' = [turn EXCEPT ![t].status = Answered(Operation(t, "finalize"))]
    /\ UNCHANGED <<session, message>>

\* Mutant: the failure replaces the outcome on record.
RuntimeFail_overwrites(t) == Terminates({t}, "failed") /\ UNCHANGED session

RuntimeFail(t) ==
    IF t \in Running THEN Terminates({t}, "failed") /\ UNCHANGED session ELSE UNCHANGED rows

Handle(o) ==
    IF Answered(o) \in {"", "error"} THEN UNCHANGED rows
    ELSE CASE o.method = "register" -> RuntimeRegisterMessages(o.turn)
           [] o.method = "ask" -> RuntimeAsk(o.turn)
           [] o.method = "withdraw" -> RuntimeWithdrawAsk(o.turn)
           [] o.method = "close" -> RuntimeCloseProcessing(o.turn)
           [] o.method = "finalize" -> RuntimeFinalize(o.turn)
           [] o.method = "fail" -> RuntimeFail(o.turn)
           [] OTHER -> UNCHANGED rows

(***************************************************************************)
(* The program. An operation it issues is admitted by the guest, which     *)
(* queues it for the worker and keeps it until it is answered.             *)
(***************************************************************************)
Pending(t, methods) == \E m \in methods : Contains(outbox, Event("operation", t, m))
InCallback(t) == \E m \in MessagesOf(t) : callback[m] = "running"

Requests(t, methods) == [i \in DOMAIN methods |-> Event("operation", t, methods[i])]
Issue(t, methods) == outbox' = outbox \o Requests(t, methods)

Program == Serving /\ UNCHANGED <<rows, host, requests, budget>>

(* turn.onMessage: the handler is set even when its registration is        *)
(* refused, which the authored code may ignore.                            *)
RegisterMessages(t) ==
    /\ Program /\ t \in Listening /\ execution[t].phase = "processing" /\ ~execution[t].listening
    /\ execution' = [execution EXCEPT ![t].listening = TRUE]
    /\ IF guest.held \/ t \in guest.closed THEN UNCHANGED outbox ELSE Issue(t, <<"register">>)
    /\ UNCHANGED <<guest, callback, program>>

Ask(t) ==
    /\ Program /\ t \in Asking /\ execution[t].phase = "processing" /\ execution[t].ask = "none"
    /\ IF guest.held \/ t \in guest.closed
       THEN execution' = [execution EXCEPT ![t].ask = "complete", ![t].answer = "error"] /\ UNCHANGED outbox
       ELSE execution' = [execution EXCEPT ![t].ask = "registering"] /\ Issue(t, <<"ask">>)
    /\ UNCHANGED <<guest, callback, program>>

(* The signal the authored code gave with the question aborts.             *)
AbandonAsk(t) ==
    /\ Program /\ execution[t].phase \in {"processing", "draining", "closing", "joining"}
    /\ execution[t].ask = "waiting"
    /\ execution' = [execution EXCEPT ![t].ask = "withdrawing"]
    /\ Issue(t, <<"withdraw">>)
    /\ UNCHANGED <<guest, callback, program>>

(* An aborted execution withdraws the question it waits for.               *)
Aborted(x, phase) == [x EXCEPT !.phase = phase, !.ask = IF @ = "waiting" THEN "withdrawing" ELSE @]
Withdrawal(t) == IF execution[t].ask = "waiting" THEN <<"withdraw">> ELSE <<>>

Fails(t) ==
    /\ execution' = [execution EXCEPT ![t] = Aborted([@ EXCEPT !.handler = FALSE], "failing")]
    /\ Issue(t, <<"close">> \o Withdrawal(t))

HandlerEnds(t) ==
    /\ Program /\ execution[t].handler
    /\ execution' = [execution EXCEPT ![t].handler = FALSE,
                                      ![t].phase = IF @ = "processing" THEN "draining" ELSE @]
    /\ UNCHANGED <<guest, outbox, callback, program>>

HandlerFails(t) ==
    /\ Program /\ execution[t].phase = "processing"
    /\ Fails(t) /\ UNCHANGED <<guest, callback, program>>

CallbackEnds(m, result) ==
    /\ Program /\ callback[m] = "running"
    /\ callback' = [callback EXCEPT ![m] = result]
    /\ outbox' = Append(outbox, Event("message", m, result))
    /\ UNCHANGED <<guest, execution, program>>

CloseProcessing(t) ==
    /\ Program /\ execution[t].phase = "draining" /\ ~Pending(t, {"register", "ask"})
    /\ execution' = [execution EXCEPT ![t].phase = "closing"]
    /\ Issue(t, <<"close">>)
    /\ UNCHANGED <<guest, callback, program>>

(* CONFIRM_DRAIN and the settlement: the guest admits neither while        *)
(* processing is open or a mutation of the Turn has no reply.              *)
Settle(t, method, phase) ==
    IF t \in guest.closed /\ ~Pending(t, Methods \ {"wait"})
    THEN execution' = [execution EXCEPT ![t].phase = phase] /\ Issue(t, <<method>>)
    ELSE /\ execution' = [execution EXCEPT ![t].phase = "refused"]
         /\ outbox' = Append(outbox, Event("turn", t, "error"))

\* Mutant: the result is offered while callbacks run.
Join_running(t) ==
    /\ Program /\ execution[t].phase = "joining"
    /\ IF \E m \in MessagesOf(t) : callback[m] = "failed" THEN Fails(t)
       ELSE /\ execution[t].ask # "withdrawing"
            /\ IF execution[t].ask = "waiting" THEN Fails(t) ELSE Settle(t, "finalize", "finalizing")
    /\ UNCHANGED <<guest, callback, program>>

(* The callbacks that started and the question are joined; an exception of *)
(* one, or a question without its answer, fails the Turn.                  *)
Join(t) ==
    /\ Program /\ execution[t].phase = "joining"
    /\ IF \E m \in MessagesOf(t) : callback[m] = "failed" THEN Fails(t)
       ELSE /\ ~InCallback(t) /\ execution[t].ask # "withdrawing"
            /\ IF execution[t].ask = "waiting" THEN Fails(t) ELSE Settle(t, "finalize", "finalizing")
    /\ UNCHANGED <<guest, callback, program>>

Converge(t) ==
    /\ Program /\ execution[t].phase = "converging" /\ ~execution[t].handler
    /\ ~Pending(t, {"register"}) /\ execution[t].ask \in {"none", "complete"} /\ ~InCallback(t)
    /\ Settle(t, "fail", "settling_failure")
    /\ UNCHANGED <<guest, callback, program>>

(* Authored work that outlives failureConvergenceMs costs the process: its *)
(* HOLD, and the failure it reports, reach the control plane.              *)
DrainTimeout(t) ==
    /\ Serving /\ execution[t].phase \in {"failing", "converging"}
    /\ execution' = [execution EXCEPT ![t].phase = "timedout"]
    /\ program' = [program EXCEPT !.held = TRUE]
    /\ guest' = [guest EXCEPT !.held = TRUE]
    /\ ObserveFailure
    /\ UNCHANGED <<host, requests, outbox, callback, budget>>

(***************************************************************************)
(* The worker. Controls, dispatches and message claims share deliveryMu:   *)
(* what the control plane returned is sent before the next is asked for.   *)
(***************************************************************************)
PendingTurn == LET known == {t \in Turns : Known(t)} IN IF known = {} THEN 0 ELSE Min(known)

(* A control an earlier attachment delivered is no longer awaited.         *)
Awaited(e) == e.kind = "control" => e.value = "error"

\* Mutant: the control of the broken attachment counts as delivered.
Attach_current(s, events) ==
    /\ session' = s
    /\ host' = Attached(PendingTurn')
    /\ outbox' = SelectSeq(events, Awaited)
    /\ program' = [program EXCEPT !.control.awaited = FALSE]

(* The worker's connection has broken and it attaches again.               *)
Attach(s, events) ==
    /\ session' = [s EXCEPT !.current = FALSE]
    /\ host' = Attached(PendingTurn')
    /\ outbox' = SelectSeq(events, Awaited)
    /\ program' = [program EXCEPT !.control.awaited = FALSE]

(* Every receipt before the i-th event has been observed.                  *)
Readable(i) == \A j \in 1..(i - 1) : outbox[j].kind = "operation"
Replies(i) == {p \in host.replies : outbox[i] = Event("operation", p.turn, p.method)}
InService == {i \in DOMAIN outbox : outbox[i].kind = "operation" /\ Readable(i) /\ Replies(i) = {}}

Reattach ==
    /\ Serving /\ faults < MaxFaults /\ faults' = faults + 1
    /\ UNCHANGED <<turn, message, requests, guest, execution, callback, controls>>
    /\ Attach(session, outbox)

(* A request outlived its attachment and commits after its replay did.     *)
LateOperation(o) ==
    /\ Serving /\ faults > 0
    /\ Handle(o)
    /\ UNCHANGED <<host, requests, local, budget>>

RunControlApplied == session.current /\ ~session.held /\ session.acknowledged /\ session.stop = 0

(* A Turn that was dispatched and whose dispatch was lost is assigned      *)
(* again. The guest refuses it while a control holds it, which ends the    *)
(* attachment: the worker loses that race at most MaxFaults times.         *)
DispatchRuntimeTurn(t) ==
    /\ Serving /\ host.outgoing = NoCommand /\ host.pending = 0 /\ ~session.held
    /\ \/ t \in Running /\ (guest.held => faults < MaxFaults) /\ UNCHANGED turn
       \/ /\ Running = {} /\ RunControlApplied
          /\ turn[t].status = "queued" /\ \A u \in 1..(t - 1) : turn[u].status # "queued"
          /\ turn' = [turn EXCEPT ![t].status = "running"]
    /\ host' = [host EXCEPT !.pending = t, !.outgoing = Event("dispatch", t, "")]
    /\ UNCHANGED <<session, message, requests, local, budget>>

\* Mutant: the next message is claimed while another is started.
ClaimRuntimeMessage_overlaps(m) ==
    LET t == host.pending IN
    /\ Serving /\ host.outgoing = NoCommand /\ host.message = 0 /\ t \in Running /\ message[m].turn = t
    /\ \/ message[m].status = "started"
       \/ /\ message[m].status = "admitted" /\ ~turn[t].closed
          /\ \A n \in MessagesOf(t) : n < m => message[n].status # "admitted"
    /\ message' = [message EXCEPT ![m].status = "started", ![m].started = TRUE]
    /\ host' = [host EXCEPT !.message = m, !.outgoing = Event("message", m, "")]
    /\ UNCHANGED <<session, turn, requests, local, budget>>

\* Mutant: a message is claimed once, whether or not it was delivered.
ClaimRuntimeMessage_once(m) ==
    LET t == host.pending IN
    /\ Serving /\ host.outgoing = NoCommand /\ host.message = 0 /\ t \in Running /\ message[m].turn = t
    /\ message[m].status = "admitted" /\ ~turn[t].closed
    /\ \A n \in MessagesOf(t) : message[n].status # "started" /\ (n < m => message[n].status # "admitted")
    /\ message' = [message EXCEPT ![m].status = "started", ![m].started = TRUE]
    /\ host' = [host EXCEPT !.message = m, !.outgoing = Event("message", m, "")]
    /\ UNCHANGED <<session, turn, requests, local, budget>>

(* The message that is started is claimed again until it is settled.       *)
ClaimRuntimeMessage(m) ==
    LET t == host.pending IN
    /\ Serving /\ host.outgoing = NoCommand /\ host.message = 0 /\ t \in Running /\ message[m].turn = t
    /\ \/ message[m].status = "started"
       \/ /\ message[m].status = "admitted" /\ ~turn[t].closed
          /\ \A n \in MessagesOf(t) : message[n].status # "started" /\ (n < m => message[n].status # "admitted")
    /\ message' = [message EXCEPT ![m].status = "started", ![m].started = TRUE]
    /\ host' = [host EXCEPT !.message = m, !.outgoing = Event("message", m, "")]
    /\ UNCHANGED <<session, turn, requests, local, budget>>

Sent == host' = [host EXCEPT !.outgoing = NoCommand]

SendDispatch ==
    LET t == host.outgoing.id IN
    /\ Serving /\ host.outgoing.kind = "dispatch"
    /\ IF guest.held \/ Active # {} \/ t \in Retired
       THEN UNCHANGED execution /\ Attach(session, outbox) /\ faults' = faults + 1
       ELSE /\ Sent /\ execution' = [execution EXCEPT ![t].phase = "processing", ![t].handler = TRUE]
            /\ UNCHANGED <<session, outbox, program, faults>>
    /\ UNCHANGED <<turn, message, requests, guest, callback, controls>>

(* A delivery the guest has seen is not repeated. One it refuses, or the   *)
(* program refuses, is answered without its callback.                      *)
SendMessage ==
    LET m == host.outgoing.id
        t == message[m].turn
        Receipt(result) == outbox' = Append(outbox, Event("message", m, result)) /\ UNCHANGED callback
    IN
    /\ Serving /\ host.outgoing.kind = "message" /\ Sent
    /\ guest' = [guest EXCEPT !.deliveries = @ \cup {m}]
    /\ CASE m \in guest.deliveries -> UNCHANGED <<outbox, callback>>
         [] m \notin guest.deliveries /\ (guest.held \/ t \in guest.closed \/ t \notin Active) -> Receipt("turn_closed")
         [] OTHER ->
              IF execution[t].phase # "processing" \/ ~execution[t].listening THEN Receipt("failed")
              ELSE IF InCallback(t) THEN Receipt("busy")
              ELSE callback' = [callback EXCEPT ![m] = "running"] /\ UNCHANGED outbox
    /\ UNCHANGED <<rows, requests, execution, program, budget>>

(* PrepareSessionDelivery and the delivery: every attachment and every     *)
(* change of authority makes a control of its own, which holds the guest   *)
(* until the program has applied it.                                       *)
ApplyControl ==
    LET kind == IF session.held THEN "suspend" ELSE "resume"
        t == session.stop
        stops == t # 0 /\ Known(t)
        interrupts == stops /\ execution[t].phase \in {"processing", "draining", "closing", "joining"}
    IN
    /\ Serving /\ host.outgoing = NoCommand /\ ~session.current
    /\ session' = [session EXCEPT !.current = TRUE, !.acknowledged = FALSE]
    /\ guest' = [guest EXCEPT !.held = TRUE, !.closed = IF stops THEN @ \cup {t} ELSE @]
    /\ outbox' = SelectSeq(outbox, Awaited) \o (IF interrupts THEN Requests(t, Withdrawal(t)) ELSE <<>>)
    /\ execution' = IF interrupts THEN [execution EXCEPT ![t] = Aborted(@, "converging")] ELSE execution
    /\ program' = [held |-> program.held \/ kind = "suspend",
                   control |-> [kind |-> kind, stop |-> t, awaited |-> TRUE,
                                joins |-> stops /\ execution[t].phase = "finalizing"]]
    /\ UNCHANGED <<turn, message, host, requests, callback, budget>>

Lost(t) == execution[t].phase = "refused"

\* Mutant: the control returns before its target has ceased executing.
FinishControl_early ==
    LET c == program.control
        reopens == c.kind = "resume" /\ program.held
        failed == \/ c.stop # 0 /\ Lost(c.stop)
                  \/ c.joins /\ execution[c.stop].outcome # "interrupted"
                  \/ reopens /\ Active # {}
    IN
    /\ Program /\ c # NoControl
    /\ reopens => \A t \in Active : Lost(t)
    /\ program' = [held |-> program.held /\ ~(reopens /\ ~failed), control |-> NoControl]
    /\ guest' = [guest EXCEPT !.held = @ /\ ~(c.kind = "resume" /\ ~failed)]
    /\ outbox' = IF failed THEN Append(outbox, Event("control", c.stop, "error"))
                 ELSE IF c.awaited THEN Append(outbox, Event("control", c.stop, "applied")) ELSE outbox
    /\ UNCHANGED <<execution, callback>>

(* The control returns once its target has ceased executing, and a run     *)
(* control once nothing executes that a hold left behind.                  *)
FinishControl ==
    LET c == program.control
        reopens == c.kind = "resume" /\ program.held
        failed == \/ c.stop # 0 /\ Lost(c.stop)
                  \/ c.joins /\ execution[c.stop].outcome # "interrupted"
                  \/ reopens /\ Active # {}
    IN
    /\ Program /\ c # NoControl
    /\ c.stop # 0 => c.stop \notin Active \/ Lost(c.stop)
    /\ reopens => \A t \in Active : Lost(t)
    /\ program' = [held |-> program.held /\ ~(reopens /\ ~failed), control |-> NoControl]
    /\ guest' = [guest EXCEPT !.held = @ /\ ~(c.kind = "resume" /\ ~failed)]
    /\ outbox' = IF failed THEN Append(outbox, Event("control", c.stop, "error"))
                 ELSE IF c.awaited THEN Append(outbox, Event("control", c.stop, "applied")) ELSE outbox
    /\ UNCHANGED <<execution, callback>>

(***************************************************************************)
(* The events of the guest, replayed to every attachment from the first    *)
(* that is not acknowledged. An operation is forwarded beside the others;  *)
(* a receipt is observed before the next event is read.                    *)
(***************************************************************************)
(* FINALIZE is retried in place while receipts are pending.                *)
ForwardOperation(i) ==
    LET o == Operation(outbox[i].id, outbox[i].value) IN
    /\ Serving /\ i \in InService /\ Answered(o) # ""
    /\ Handle(o)
    /\ host' = [host EXCEPT !.replies = @ \cup {[turn |-> o.turn, method |-> o.method, reply |-> Answered(o)]}]
    /\ UNCHANGED <<requests, local, budget>>

(* What the reply does to the execution, and what the program issues next. *)
Replied(x, method, reply) ==
    CASE method = "ask" ->
            IF reply = "error" THEN [x EXCEPT !.ask = "complete", !.answer = "error"]
            ELSE IF x.phase \in {"failing", "converging"} THEN [x EXCEPT !.ask = "withdrawing"]
            ELSE [x EXCEPT !.ask = "waiting"]
      [] method = "wait" -> IF x.ask = "waiting" THEN [x EXCEPT !.ask = "complete", !.answer = reply] ELSE x
      [] method = "withdraw" -> [x EXCEPT !.ask = "complete"]
      [] method = "close" ->
            [x EXCEPT !.phase = CASE @ = "closing" -> "joining" [] @ = "failing" -> "converging" [] OTHER -> @]
      [] method \in {"finalize", "fail"} ->
            IF reply = "error" THEN [x EXCEPT !.phase = "refused"]
            ELSE [x EXCEPT !.phase = "terminal", !.outcome = reply]
      [] OTHER -> x

Issued(p) ==
    IF p.method # "ask" \/ p.reply = "error" THEN <<>>
    ELSE <<"wait">> \o (IF execution[p.turn].phase \in {"failing", "converging"} THEN <<"withdraw">> ELSE <<>>)

ReplyOperation(i) ==
    /\ Serving
    /\ \E p \in Replies(i) :
          LET receipt == IF p.method \in {"finalize", "fail"} THEN <<Event("turn", p.turn, p.reply)>> ELSE <<>> IN
          /\ execution' = [execution EXCEPT ![p.turn] = Replied(@, p.method, p.reply)]
          /\ guest' = [guest EXCEPT !.closed = IF p.method = "close" THEN @ \cup {p.turn} ELSE @]
          /\ outbox' = RemoveAt(outbox, i) \o Requests(p.turn, Issued(p)) \o receipt
          /\ host' = [host EXCEPT !.replies = @ \ {p}]
          /\ requests' = requests \cup {Operation(p.turn, p.method)}
    /\ UNCHANGED <<rows, callback, program, budget>>

(* What the control plane records of a receipt, and whether the worker may *)
(* go on: a receipt it refuses, or of a failure, ends the attachment.      *)
CompleteRuntimeMessage(m, result) ==
    message' = IF message[m].status # "started" THEN message
               ELSE IF result = "accepted" THEN [message EXCEPT ![m].status = "delivered"]
               ELSE [message EXCEPT ![m].status = "rejected",
                                    ![m].reason = CASE result = "rejected" -> "message_rejected"
                                                    [] result = "turn_closed" -> "turn_closed"
                                                    [] OTHER -> "callback_failed"]

AcknowledgeSessionDelivery(e) ==
    IF e.kind = "control" THEN [session EXCEPT !.acknowledged = TRUE, !.stop = 0] ELSE session

(* The Turn leaves the guest and the program, with what they still hold.   *)
Retire(t) ==
    /\ execution' = [execution EXCEPT ![t] = NotExecuting("retired")]
    /\ guest' = [guest EXCEPT !.closed = @ \ {t}, !.deliveries = {m \in @ : message[m].turn # t}]

Refused(e) ==
    \/ e.value = "error"
    \/ e.kind = "turn" /\ turn[e.id].status # e.value
    \/ e.kind = "control" /\ ~session.current

(* acked is false when the control plane commits and the attachment breaks *)
(* before the guest hears of it.                                           *)
ObserveReceipt(i, acked) ==
    LET e == outbox[i]
        Held(f) == e.kind = "turn" /\ f.kind = "operation" => f.id # e.id
        receipt == IF e.kind = "turn" THEN <<Event("ack", e.id, "")>> ELSE <<>>
    IN
    /\ Serving /\ e.kind # "operation" /\ Readable(i) /\ ~Refused(e)
    /\ IF e.kind = "message" THEN CompleteRuntimeMessage(e.id, e.value) ELSE UNCHANGED message
    /\ IF e.kind = "turn" THEN Retire(e.id) ELSE UNCHANGED <<execution, guest>>
    /\ IF acked
       THEN /\ session' = AcknowledgeSessionDelivery(e)
            /\ outbox' = SelectSeq(RemoveAt(outbox, i), Held) \o receipt
            /\ host' = [host EXCEPT !.message = IF e.kind = "message" /\ e.id = @ THEN 0 ELSE @,
                                    !.pending = IF e.kind = "ack" /\ e.id = @ THEN 0 ELSE @,
                                    !.replies = {p \in @ : e.kind = "turn" => p.turn # e.id}]
            /\ UNCHANGED <<program, faults>>
       ELSE /\ faults < MaxFaults /\ faults' = faults + 1
            /\ Attach(AcknowledgeSessionDelivery(e), SelectSeq(outbox, Held) \o receipt)
    /\ UNCHANGED <<turn, requests, callback, controls>>

(* A failure is recorded; a receipt of a control that is no longer current *)
(* only ends the attachment.                                               *)
ObserveRefusal(i) ==
    /\ Serving /\ outbox[i].kind # "operation" /\ Readable(i) /\ Refused(outbox[i])
    /\ UNCHANGED execution
    /\ IF outbox[i].value = "error" THEN ObserveFailure /\ UNCHANGED <<host, outbox, program>>
       ELSE Attach(session, outbox) /\ UNCHANGED <<turn, message>>
    /\ UNCHANGED <<requests, guest, callback, budget>>

(* What people, services and authored code do, and what breaks.            *)
Outside ==
    \/ \E t \in Turns :
          \/ TurnInterrupt(t) \/ \E a \in Answers : AnswerAsk(t, a)
          \/ RegisterMessages(t) \/ Ask(t) \/ AbandonAsk(t) \/ HandlerEnds(t) \/ HandlerFails(t)
    \/ \E m \in Messages :
          \/ \E t \in Turns : admitMessage(t, m)
          \/ \E result \in {"accepted", "rejected", "failed"} : CallbackEnds(m, result)
    \/ Interrupt \/ Resume \/ Close
    \/ Reattach \/ (\E o \in requests : LateOperation(o))
    \/ \E i \in DOMAIN outbox : ObserveReceipt(i, FALSE)

(* What the runtime, the guest and the worker do by themselves.            *)
System ==
    \/ \E t \in Turns : CloseProcessing(t) \/ Join(t) \/ Converge(t) \/ DrainTimeout(t) \/ DispatchRuntimeTurn(t)
    \/ \E m \in Messages : ClaimRuntimeMessage(m)
    \/ SendDispatch \/ SendMessage \/ ApplyControl \/ FinishControl
    \/ \E i \in DOMAIN outbox :
          ForwardOperation(i) \/ ReplyOperation(i) \/ ObserveRefusal(i) \/ ObserveReceipt(i, TRUE)

Next == Outside \/ System

Spec == Init /\ [][Next]_vars

(* The worker's loops, the runtime's own steps and its convergence timer   *)
(* go on, in no particular order. Authored code and people owe nothing.    *)
Fairness == WF_vars(System)

LiveSpec == Spec /\ Fairness

(***************************************************************************)
(* Properties.                                                             *)
(***************************************************************************)

(* Every variable has the shape its owner gives it, and the bounded        *)
(* counters stay within their bounds.                                      *)
TypeOK ==
    /\ session \in [held : BOOLEAN, closing : BOOLEAN, process : {"ready", "stopping"}, stop : 0..MaxTurns,
                    current : BOOLEAN, acknowledged : BOOLEAN]
    /\ turn \in [Turns -> [status : {"queued", "running"} \cup Terminal, registered : BOOLEAN, closed : BOOLEAN,
                           ask : {"none", "pending", "answered", "cancelled"}, answer : Answers \cup {"none"}]]
    /\ message \in [Messages -> [turn : 0..MaxTurns, started : BOOLEAN,
                                 status : Unsettled \cup {"none", "delivered", "rejected"},
                                 reason : {"none", "message_rejected", "turn_closed", "callback_failed", "turn_terminated"}]]
    /\ guest.closed \subseteq Turns
    /\ guest.deliveries \subseteq Messages /\ guest.held \in BOOLEAN
    /\ outbox \in Seq([kind : {"operation", "message", "turn", "ack", "control"}, id : Nat, value : STRING])
    /\ host.pending \in 0..MaxTurns /\ host.message \in 0..MaxMessages
    /\ execution \in [Turns ->
          [phase : {"none", "processing", "draining", "closing", "joining", "failing", "converging", "finalizing",
                    "settling_failure", "terminal", "retired", "timedout", "refused"},
           handler : BOOLEAN, listening : BOOLEAN,
           ask : {"none", "registering", "waiting", "withdrawing", "complete"},
           answer : Answers \cup {"none", "error"}, outcome : Terminal \cup {"none"}]]
    /\ callback \in [Messages -> {"none", "running", "accepted", "rejected", "failed"}]
    /\ faults \in 0..MaxFaults /\ controls \in 0..MaxControls

(* The delivery messageEvent reports of a message whose delivery is over.  *)
messageEvent(m) ==
    IF message[m].status = "delivered" THEN "delivered"
    ELSE IF message[m].started /\ message[m].reason \notin {"message_rejected", "turn_closed"} THEN "uncertain"
    ELSE "not_delivered"

(* What the sender is told of a message is true of its callback, whatever  *)
(* was lost, replayed or closed in between: a delivered message was        *)
(* accepted by its callback, one not delivered left no callback running or *)
(* accepted, then or later (CompleteRuntimeMessage, rejectTurnMessages).   *)
DispositionIsTrue ==
    \A m \in Messages : message[m].status \in {"delivered", "rejected"} =>
        /\ messageEvent(m) = "delivered" => callback[m] = "accepted"
        /\ messageEvent(m) = "not_delivered" => callback[m] \in {"none", "rejected"}

(* The callbacks of a Turn run one at a time, in the order of admission,   *)
(* and no message is refused because another callback is running           *)
(* (ClaimRuntimeMessage, deliverMessage's MessageBusy).                    *)
CallbacksInOrder ==
    /\ \A m, n \in Messages :
          n < m /\ message[n].turn = message[m].turn /\ callback[m] # "none" =>
              callback[n] # "running" /\ message[n].status \notin Unsettled
    /\ \A i \in DOMAIN outbox : outbox[i].value # "busy"

(* A completed Turn was joined: nothing of its authored code was running   *)
(* when its result was recorded, and no callback of it had thrown          *)
(* (execute's drainage, RuntimeFinalize).                                  *)
CompletedIsJoined ==
    \A t \in Turns : turn[t].status = "completed" =>
        /\ ~execution[t].handler /\ execution[t].ask \in {"none", "complete"}
        /\ \A m \in MessagesOf(t) : callback[m] \in {"none", "accepted", "rejected"}

(* A Turn starts only after the authored code of every earlier one has     *)
(* ceased, and an interrupted Turn whose stop was acknowledged does not    *)
(* execute, even if its dispatch was on its way when it was interrupted    *)
(* (newTurnReady, the no-op stop of admitCommandLocked).                   *)
StoppedHasCeased ==
    \A t \in Turns :
        /\ t \in Running => \A u \in 1..(t - 1) : u \notin Active /\ ~InCallback(u)
        /\ turn[t].status = "interrupted" /\ session.stop # t /\ Serving => t \notin Active

(* The answer the program reads is the answer on record, and stays it      *)
(* (AnswerAsk, RuntimeObserveAsk).                                         *)
AnswersAgree ==
    \A t \in Turns : execution[t].answer \in Answers =>
        turn[t].ask = "answered" /\ turn[t].answer = execution[t].answer

(* The outcome the program settles on is the outcome on record, whichever  *)
(* of result, failure and stop came first (RuntimeFinalize, RuntimeFail,   *)
(* ObserveRuntimeTurn).                                                    *)
OutcomesAgree ==
    \A t \in Turns : execution[t].outcome # "none" => turn[t].status = execution[t].outcome

(* concepts/turns.md: "If the harness's work cannot be stopped cleanly     *)
(* after the failure, that counts as a process failure". A process whose   *)
(* authored code has stopped is kept. The guest refuses FAIL while a       *)
(* CLOSE_PROCESSING that the stop overtook has no reply.                   *)
OnlyTimeoutsFail == ~Serving => \E t \in Turns : execution[t].phase = "timedout"

(* A Turn whose handler has ended settles and leaves the process, unless   *)
(* a callback of it never ends or the process fails (execute).             *)
TurnsSettle ==
    \A t \in Turns :
        []<>~InCallback(t) => (execution[t].phase = "draining" ~> (execution[t].phase = "retired" \/ ~Serving))

(* An admitted message gets its disposition, unless a callback of its Turn *)
(* never ends or the process fails (ClaimRuntimeMessage,                   *)
(* CompleteRuntimeMessage).                                                *)
MessagesSettle ==
    \A t \in Turns, m \in Messages :
        []<>~InCallback(t) =>
            (message[m].turn = t /\ message[m].status \in Unsettled
                ~> (message[m].status \notin Unsettled \/ ~Serving))

(* A stop converges: it is acknowledged, or the process fails.             *)
StopsConverge == session.stop # 0 ~> session.stop = 0 \/ ~Serving
=============================================================================
