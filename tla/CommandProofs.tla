--------------------------- MODULE CommandProofs ---------------------------
(***************************************************************************)
(* A Command is launched once, its row reports the execution guestd        *)
(* retained, a reconciled row has no process and a sealed VM is quiet, for *)
(* any number of Commands, leases, records and faults.                     *)
(*                                                                         *)
(* None of these is inductive. CommandInv says of each Command what makes  *)
(* them so: anything that speaks of it (a claim, a task, a cancellation or *)
(* a late request) does so while the VM of the row's own lease is up, what *)
(* guestd retains belongs to that lease, a task has seen no more than      *)
(* guestd has done, and a reconciled Command of the current lease is no    *)
(* longer spoken for by anything that could attach to it. It is stated of  *)
(* one Command's records, so that a step on one says nothing of another.   *)
(*                                                                         *)
(* The invariant comes first, with the lemma that a step on the records of *)
(* one Command keeps it; then the steps, from those of one Command's row,  *)
(* streams and execution to those of the leases and the VM; then the       *)
(* theorems.                                                               *)
(***************************************************************************)
EXTENDS Command, TLAPS

Calls == {"none", "asking", "answered", "refused", "asked"}

OfferedTo(c) == {q \in claim : q.command = c}

Powered ==
    /\ machine.up => lease.epoch # 0 /\ ~lease.fenced
    /\ machine.serving => machine.up
    /\ machine.sealed => machine.up /\ lease.capture = "capturing"
    /\ lease.capture = "capturing" => ~lease.fenced

RowFine(r, le) ==
    /\ r.status \in {"none", "pending"} => ~Bound(r)
    /\ r.status \in {"running", "stopping"} => Bound(r)
    /\ ~Terminal(r) => ~r.reconciled /\ r.final = 0 /\ r.reason = "none"
    /\ r.reconciled => Bound(r)
    /\ r.epoch <= le.epoch
    /\ le.capture = "capturing" /\ Bound(r) => r.reconciled

GuestFine(r, g) ==
    /\ g.state = "absent" => g = NoExecution
    /\ g.state # "absent" => Bound(r) /\ g.epoch = r.epoch
    /\ g.runs <= 1
    /\ g.state \in {"absent", "running"} => g.outcome = "none" /\ g.final = 0
    /\ g.state \in {"done", "released"} => g.outcome # "none"
    /\ Bound(r) /\ r.reason \in GuestOutcomes =>
          g.epoch = r.epoch /\ g.outcome = r.reason /\ g.final = r.final

TaskFine(r, g, t, q) ==
    /\ t.stage = "none" <=> t = NoTask
    /\ t.stage = "requested" => t.kind \in Kinds /\ t.head = "none" /\ t.result = "none"
    /\ t.stage \in {"attached", "completing"} => g.state # "absent"
    /\ t.result # "none" => g.state \in {"done", "released"} /\ g.outcome \in GuestOutcomes
    /\ t.stage = "completing" => t.result # "none"
    /\ t.stage = "released" => t.kind = "release" /\ g.state = "released"
    /\ t.head \in {"sent", "accepted"} => g.acknowledged <= MaxOutput
    /\ t.kind = "release" => Terminal(r) /\ q = {}
    /\ \A o \in q : o.kind = "release" => Terminal(r)

Spoken(t, k, l, q) == t # NoTask \/ k # "none" \/ l # {} \/ q # {}

Gone(r, g, t, q) ==
    /\ CommandOutputSettled(r) /\ g.state = "released"
    /\ t.stage \in {"none", "ended"} /\ q = {}

Fine(r, g, t, k, l, q, le, up) ==
    /\ RowFine(r, le) /\ GuestFine(r, g) /\ TaskFine(r, g, t, q)
    /\ Spoken(t, k, l, q) => up /\ Bound(r) /\ r.epoch = le.epoch
    /\ r.reconciled => r.epoch < le.epoch \/ le.fenced \/ Gone(r, g, t, q)

FineNow(c) ==
    Fine(row[c], guest[c], task[c], cancelling[c], late[c], OfferedTo(c), lease, machine.up)

CommandInv == TypeOK /\ Powered /\ \A c \in Commands : FineNow(c)

-----------------------------------------------------------------------------
(* A step on one Command.                                                  *)
Touches(c, r, g, t, k, l) ==
    /\ row' = [row EXCEPT ![c] = r]
    /\ guest' = [guest EXCEPT ![c] = g]
    /\ task' = [task EXCEPT ![c] = t]
    /\ cancelling' = [cancelling EXCEPT ![c] = k]
    /\ late' = [late EXCEPT ![c] = l]

(* The rest stays, but for a fault or a recovery guestd has to make.       *)
Steady ==
    /\ claim' = claim /\ lease' = lease /\ revoked' = revoked
    /\ faults' \in 0..MaxFaults
    /\ machine' \in Machine /\ machine'.up = machine.up
    /\ machine'.serving = machine.serving /\ machine'.sealed = machine.sealed

(* A step that touches one Command's records and leaves them fine keeps    *)
(* the invariant.                                                          *)
LEMMA LocalStep ==
  ASSUME CommandInv, NEW c \in Commands,
         NEW r \in Row, NEW g \in Execution, NEW t \in Task, NEW k \in Calls, NEW l \in SUBSET Late,
         Touches(c, r, g, t, k, l), Steady,
         Fine(r, g, t, k, l, OfferedTo(c), lease, machine.up)
  PROVE  CommandInv'
<1>1. TypeOK'
  BY DEF CommandInv, TypeOK, Touches, Steady, Calls
<1>2. Powered'
  BY DEF CommandInv, Powered, Steady
<1>3. ASSUME NEW d \in Commands PROVE FineNow(d)'
  <2>1. OfferedTo(d)' = OfferedTo(d) /\ lease' = lease /\ machine'.up = machine.up
    BY DEF OfferedTo, Steady
  <2>2. CASE d = c
    <3>1. /\ row'[c] = r /\ guest'[c] = g /\ task'[c] = t /\ cancelling'[c] = k /\ late'[c] = l
      BY DEF CommandInv, TypeOK, Touches
    <3> QED
      BY <2>1, <2>2, <3>1 DEF FineNow
  <2>3. CASE d # c
    <3>1. /\ row'[d] = row[d] /\ guest'[d] = guest[d] /\ task'[d] = task[d]
          /\ cancelling'[d] = cancelling[d] /\ late'[d] = late[d]
      BY <2>3 DEF CommandInv, TypeOK, Touches
    <3> QED
      BY <2>1, <3>1 DEF FineNow, CommandInv
  <2> QED
    BY <2>2, <2>3
<1> QED
  BY <1>1, <1>2, <1>3 DEF CommandInv

(* What is known of one Command before a step.                             *)
LEMMA Here ==
  ASSUME CommandInv, NEW c \in Commands
  PROVE  /\ row[c] \in Row /\ guest[c] \in Execution /\ task[c] \in Task
         /\ cancelling[c] \in Calls /\ late[c] \in SUBSET Late
         /\ RowFine(row[c], lease) /\ GuestFine(row[c], guest[c])
         /\ TaskFine(row[c], guest[c], task[c], OfferedTo(c))
         /\ Spoken(task[c], cancelling[c], late[c], OfferedTo(c)) =>
               machine.up /\ Bound(row[c]) /\ row[c].epoch = lease.epoch
         /\ row[c].reconciled => \/ row[c].epoch < lease.epoch \/ lease.fenced
                                 \/ Gone(row[c], guest[c], task[c], OfferedTo(c))
  BY DEF CommandInv, TypeOK, Calls, FineNow, Fine

(* What is known of its row.                                               *)
LEMMA HereRow ==
  ASSUME CommandInv, NEW c \in Commands
  PROVE  /\ RowFine(row[c], lease)
         /\ row[c].epoch \in Nat /\ row[c].epoch <= lease.epoch
<1>1. RowFine(row[c], lease) /\ row[c] \in Row
  BY Here, ZenonT(60)
<1>2. row[c].epoch \in Nat
  BY <1>1 DEF Row
<1> QED
  BY <1>1, <1>2 DEF RowFine

(* What is known of its execution in the guest.                            *)
LEMMA HereGuest ==
  ASSUME CommandInv, NEW c \in Commands
  PROVE  GuestFine(row[c], guest[c])
BY Here, ZenonT(60)

(* What is known of its task.                                              *)
LEMMA HereTask ==
  ASSUME CommandInv, NEW c \in Commands
  PROVE  TaskFine(row[c], guest[c], task[c], OfferedTo(c))
BY Here, ZenonT(60)

(* While the Command is spoken for, a reconciled row is one of the current *)
(* lease.                                                                  *)
LEMMA SpokenReconciled ==
  ASSUME CommandInv, NEW c \in Commands,
         Spoken(task[c], cancelling[c], late[c], OfferedTo(c)), row[c].reconciled
  PROVE  Gone(row[c], guest[c], task[c], OfferedTo(c))
<1>1. machine.up /\ row[c].epoch = lease.epoch /\ ~lease.fenced
  BY Here DEF CommandInv, Powered
<1>2. row[c].epoch \in Int
  BY Here DEF Row
<1> QED
  BY <1>1, <1>2, Here

(* Steps on the row alone.                                                 *)
LEMMA CreateInv ==
  ASSUME CommandInv, NEW c \in Commands, Create(c)
  PROVE  CommandInv'
<1> DEFINE r == [row[c] EXCEPT !.status = "pending"]
<1>1. Touches(c, r, guest[c], task[c], cancelling[c], late[c]) /\ Steady
  BY DEF CommandInv, TypeOK, Create, Touches, Steady
<1>2. row[c].status = "none"
  BY DEF Create
<1>3. /\ r \in Row /\ r.status = "pending" /\ r.epoch = row[c].epoch
      /\ r.reconciled = row[c].reconciled /\ r.final = row[c].final /\ r.reason = row[c].reason
  BY Here DEF Row, Live
<1> HIDE DEF r
<1>4. ~Bound(row[c]) /\ ~Terminal(row[c]) /\ ~row[c].reconciled
      /\ ~Spoken(task[c], cancelling[c], late[c], OfferedTo(c)) /\ guest[c] = NoExecution
  BY <1>2, Here DEF RowFine, GuestFine, Terminal
<1>5. RowFine(r, lease) /\ GuestFine(r, guest[c]) /\ TaskFine(r, guest[c], task[c], OfferedTo(c))
  BY <1>2, <1>3, <1>4, Here DEF RowFine, GuestFine, TaskFine, Bound, Terminal, Spoken, NoTask
<1>6. Fine(r, guest[c], task[c], cancelling[c], late[c], OfferedTo(c), lease, machine.up)
  BY <1>3, <1>4, <1>5 DEF Fine
<1> QED
  BY <1>1, <1>3, <1>6, Here, LocalStep

(* The cancel request ends a pending Command and asks a bound one to stop. *)
LEMMA CancelInv ==
  ASSUME CommandInv, NEW c \in Commands, Cancel(c)
  PROVE  CommandInv'
<1> DEFINE r == IF Bound(row[c]) THEN [row[c] EXCEPT !.status = "stopping", !.cancel = TRUE]
                ELSE [row[c] EXCEPT !.status = "terminal", !.cancel = TRUE, !.reason = "cancelled"]
<1>1. Touches(c, r, guest[c], task[c], cancelling[c], late[c]) /\ Steady
  BY DEF CommandInv, TypeOK, Cancel, Touches, Steady
<1>2. row[c].status \in {"pending", "running"}
  BY DEF Cancel
<1>3. /\ r \in Row /\ r.epoch = row[c].epoch /\ r.reconciled = row[c].reconciled /\ r.final = row[c].final
      /\ Bound(row[c]) => r.status = "stopping" /\ r.reason = row[c].reason
      /\ ~Bound(row[c]) => r.status = "terminal"
  BY Here, ZenonT(60) DEF Row, Live, GuestOutcomes
<1> HIDE DEF r
<1>4. ~Terminal(row[c]) /\ ~row[c].reconciled
  BY <1>2, Here DEF RowFine, Terminal
<1>5. RowFine(r, lease) /\ GuestFine(r, guest[c])
  BY <1>2, <1>3, <1>4, Here DEF RowFine, GuestFine, Bound, Terminal
<1>6. TaskFine(r, guest[c], task[c], OfferedTo(c))
  BY <1>4, Here DEF TaskFine
<1>7. Fine(r, guest[c], task[c], cancelling[c], late[c], OfferedTo(c), lease, machine.up)
  BY <1>3, <1>4, <1>5, <1>6, Here DEF Fine, Bound
<1> QED
  BY <1>1, <1>3, <1>7, Here, LocalStep

(* FailPending ends a Command no lease was bound to.                       *)
LEMMA FailPendingInv ==
  ASSUME CommandInv, NEW c \in Commands, FailPending(c)
  PROVE  CommandInv'
<1> DEFINE r == [row[c] EXCEPT !.status = "terminal", !.reason = "dispatch_failed"]
<1>1. Touches(c, r, guest[c], task[c], cancelling[c], late[c]) /\ Steady
  BY ZenonT(60) DEF CommandInv, TypeOK, FailPending, Touches, Steady
<1>2. row[c].status = "pending" /\ ~Bound(row[c])
  BY DEF FailPending
<1>3. /\ r \in Row /\ r.epoch = row[c].epoch /\ r.reconciled = row[c].reconciled
      /\ r.status = "terminal"
  BY Here, ZenonT(60) DEF Row
<1> HIDE DEF r
<1>4. ~Terminal(row[c]) /\ ~row[c].reconciled
  BY <1>2, Here DEF RowFine, Terminal
<1>5. RowFine(r, lease) /\ GuestFine(r, guest[c])
  BY <1>2, <1>3, <1>4, Here DEF RowFine, GuestFine, Bound, Terminal
<1>6. TaskFine(r, guest[c], task[c], OfferedTo(c))
  BY <1>4, Here DEF TaskFine
<1>7. Fine(r, guest[c], task[c], cancelling[c], late[c], OfferedTo(c), lease, machine.up)
  BY <1>3, <1>4, <1>5, <1>6, Here DEF Fine, Bound
<1> QED
  BY <1>1, <1>3, <1>7, Here, LocalStep

(* RecoverCommand ends what a lost lease left, reconciled once it is       *)
(* fenced.                                                                 *)
LEMMA RecoverInv ==
  ASSUME CommandInv, NEW c \in Commands, RecoverCommand(c)
  PROVE  CommandInv'
<1> DEFINE fenced == row[c].epoch < lease.epoch \/ lease.fenced
           r == [row[c] EXCEPT !.status = "terminal",
                   !.reason = IF Terminal(row[c]) THEN @ ELSE "computer_lease_lost",
                   !.reconciled = fenced]
<1>1. Touches(c, r, guest[c], task[c], cancelling[c], late[c]) /\ Steady
  BY DEF CommandInv, TypeOK, RecoverCommand, Touches, Steady
<1>2. Bound(row[c]) /\ ~row[c].reconciled
  BY DEF RecoverCommand
<1>3. fenced \in BOOLEAN /\ (fenced => row[c].epoch < lease.epoch \/ lease.fenced)
  BY DEF CommandInv, TypeOK, Lease
<1> HIDE DEF fenced
<1>4. /\ r \in Row /\ r.epoch = row[c].epoch /\ r.final = row[c].final /\ r.status = "terminal"
      /\ r.reason = (IF Terminal(row[c]) THEN row[c].reason ELSE "computer_lease_lost")
      /\ r.reconciled = fenced
  BY <1>3, Here, ZenonT(60) DEF Row
<1> HIDE DEF r
<1>5. RowFine(r, lease) /\ GuestFine(r, guest[c])
  BY <1>2, <1>4, Here DEF RowFine, GuestFine, Bound, Terminal, GuestOutcomes
<1>6. TaskFine(r, guest[c], task[c], OfferedTo(c))
  BY <1>4, Here DEF TaskFine, Terminal
<1>7. Fine(r, guest[c], task[c], cancelling[c], late[c], OfferedTo(c), lease, machine.up)
  BY <1>3, <1>4, <1>5, <1>6, Here DEF Fine, Bound
<1> QED
  BY <1>1, <1>4, <1>7, Here, LocalStep

(* A task that is not over works for the current lease of its Command,     *)
(* whose row is not reconciled.                                            *)
LEMMA Working ==
  ASSUME CommandInv, NEW c \in Commands, task[c].stage \notin {"none", "ended"}
  PROVE  /\ machine.up /\ ~lease.fenced /\ Bound(row[c]) /\ row[c].epoch = lease.epoch
         /\ ~row[c].reconciled /\ task[c] # NoTask
<1>1. task[c] # NoTask /\ Spoken(task[c], cancelling[c], late[c], OfferedTo(c))
  BY DEF NoTask, Spoken
<1>2. ~row[c].reconciled
  BY <1>1, SpokenReconciled DEF Gone
<1> QED
  BY <1>1, <1>2, Here DEF CommandInv, Powered

(* Such a task may go on, or end, as far as it fits guestd and the row.    *)
LEMMA TaskStep ==
  ASSUME CommandInv, NEW c \in Commands, task[c].stage \notin {"none", "ended"},
         NEW r \in Row, NEW g \in Execution, NEW t \in Task, NEW l \in SUBSET Late,
         Touches(c, r, g, t, cancelling[c], l), Steady,
         RowFine(r, lease), GuestFine(r, g), TaskFine(r, g, t, OfferedTo(c)),
         r.epoch = row[c].epoch, r.reconciled => Gone(r, g, t, OfferedTo(c))
  PROVE  CommandInv'
<1>1. Fine(r, g, t, cancelling[c], l, OfferedTo(c), lease, machine.up)
  BY Working DEF Fine, Bound
<1> QED
  BY <1>1, Here, LocalStep

(* guestd sends the next retained record.                                  *)
LEMMA SendInv ==
  ASSUME CommandInv, NEW c \in Commands, SendHead(c)
  PROVE  CommandInv'
<1> DEFINE t == [task[c] EXCEPT !.head = "sent"]
<1>1. Touches(c, row[c], guest[c], t, cancelling[c], late[c]) /\ Steady
  BY DEF CommandInv, TypeOK, SendHead, Touches, Steady
<1>2. t \in Task /\ t.head = "sent" /\ t.stage = task[c].stage /\ t.kind = task[c].kind
      /\ t.result = task[c].result
  BY Here DEF Task
<1> HIDE DEF t
<1>3. task[c].stage = "attached"
  BY DEF SendHead, Attached
<1>4. guest[c].acknowledged <= MaxOutput
  <2>1. /\ guest[c].acknowledged \in 0..MaxOutput + 1 /\ guest[c].written \in 0..MaxOutput
        /\ guest[c].final \in 0..MaxOutput + 1
    BY Here DEF Execution, Sequences
  <2>2. guest[c].acknowledged < guest[c].written \/ guest[c].acknowledged < guest[c].final
    BY DEF SendHead
  <2> QED
    BY <2>1, <2>2, BoundAssumption
<1>5. TaskFine(row[c], guest[c], t, OfferedTo(c))
  BY <1>2, <1>3, <1>4, Here, SMTT(30) DEF TaskFine, NoTask
<1>6. ~row[c].reconciled
  BY <1>3, Working
<1> QED
  BY <1>1, <1>2, <1>3, <1>5, <1>6, Here, TaskStep, ZenonT(60)

(* The worker reads the result from the stream.                            *)
LEMMA ReceiveInv ==
  ASSUME CommandInv, NEW c \in Commands, ReceiveResult(c)
  PROVE  CommandInv'
<1> DEFINE t == IF guest[c].outcome = "invalid" THEN [task[c] EXCEPT !.stage = "fatal"]
                ELSE [task[c] EXCEPT !.result = "received"]
<1>1. Touches(c, row[c], guest[c], t, cancelling[c], late[c]) /\ Steady
  BY DEF CommandInv, TypeOK, ReceiveResult, Touches, Steady
<1>2. /\ t \in Task /\ t.head = task[c].head /\ t.kind = task[c].kind
      /\ \/ t.stage = "fatal" /\ t.result = task[c].result
         \/ t.stage = task[c].stage /\ t.result = "received" /\ guest[c].outcome # "invalid"
  BY Here DEF Task
<1> HIDE DEF t
<1>3. task[c].stage = "attached" /\ guest[c].state = "done"
  BY DEF ReceiveResult, Attached
<1>4. guest[c].outcome = "invalid" \/ guest[c].outcome \in GuestOutcomes
  BY <1>3, Here DEF GuestFine, Execution
<1>5. TaskFine(row[c], guest[c], t, OfferedTo(c))
  BY <1>2, <1>3, <1>4, HereTask DEF TaskFine, NoTask
<1>6. ~row[c].reconciled
  BY <1>3, Working
<1> QED
  BY <1>1, <1>2, <1>3, <1>5, <1>6, Here, TaskStep, ZenonT(60)

(* The stream ends after its result.                                       *)
LEMMA FinishInv ==
  ASSUME CommandInv, NEW c \in Commands, FinishStream(c)
  PROVE  CommandInv'
<1> DEFINE t == [task[c] EXCEPT !.stage = "completing"]
<1>1. Touches(c, row[c], guest[c], t, cancelling[c], late[c]) /\ Steady
  BY DEF CommandInv, TypeOK, FinishStream, Touches, Steady
<1>2. t \in Task /\ t.head = task[c].head /\ t.stage = "completing" /\ t.kind = task[c].kind
      /\ t.result = task[c].result
  BY Here DEF Task
<1> HIDE DEF t
<1>3. task[c].stage = "attached" /\ task[c].result = "recorded"
  BY DEF FinishStream, Attached
<1>5. TaskFine(row[c], guest[c], t, OfferedTo(c))
  BY <1>2, <1>3, HereTask DEF TaskFine, NoTask
<1>6. ~row[c].reconciled
  BY <1>3, Working
<1> QED
  BY <1>1, <1>2, <1>3, <1>5, <1>6, Here, TaskStep, ZenonT(60)

(* guestd takes the acknowledgement of the record the worker had accepted. *)
LEMMA AcknowledgeInv ==
  ASSUME CommandInv, NEW c \in Commands, AcknowledgeHead(c)
  PROVE  CommandInv'
<1> DEFINE t == [task[c] EXCEPT !.head = "next"]
           n == guest[c].acknowledged + 1
           g == [guest[c] EXCEPT !.acknowledged = n]
<1>1. Touches(c, row[c], g, t, cancelling[c], late[c]) /\ Steady
  BY DEF CommandInv, TypeOK, AcknowledgeHead, Touches, Steady
<1>2. t \in Task /\ t.head = "next" /\ t.stage = task[c].stage /\ t.kind = task[c].kind
      /\ t.result = task[c].result
  BY Here DEF Task
<1>3. task[c].stage = "attached" /\ task[c].head = "accepted"
  BY DEF AcknowledgeHead, Attached
<1>4. n \in Sequences
  <2>1. guest[c].acknowledged \in 0..MaxOutput + 1
    BY Here DEF Execution, Sequences
  <2>2. guest[c].acknowledged <= MaxOutput
    BY <1>3, Here DEF TaskFine
  <2> QED
    BY <2>1, <2>2, BoundAssumption DEF Sequences
<1> HIDE DEF n, t
<1>5. /\ g \in Execution /\ g.state = guest[c].state /\ g.epoch = guest[c].epoch /\ g.runs = guest[c].runs
      /\ g.outcome = guest[c].outcome /\ g.final = guest[c].final
  BY <1>4, Here DEF Execution
<1> HIDE DEF g
<1>6. guest[c].state # "absent"
  BY <1>3, Here DEF TaskFine
<1>7. TaskFine(row[c], g, t, OfferedTo(c)) /\ GuestFine(row[c], g)
  BY <1>2, <1>3, <1>5, <1>6, HereTask, HereGuest DEF TaskFine, GuestFine, NoTask
<1>8. ~row[c].reconciled
  BY <1>3, Working
<1> QED
  BY <1>1, <1>2, <1>3, <1>5, <1>7, <1>8, Here, TaskStep, ZenonT(60)

(* An append and a completion leave a row that fits.                       *)
LEMMA AppendedRow ==
  ASSUME CommandInv, NEW c \in Commands, NEW k \in Sequences, Admissible(c, k),
         NEW e \in BOOLEAN, NEW r, r = [row[c] EXCEPT !.accepted = k, !.ended = e]
  PROVE  /\ r \in Row /\ r.epoch = row[c].epoch /\ ~r.reconciled
         /\ Terminal(r) <=> Terminal(row[c])
         /\ RowFine(r, lease) /\ GuestFine(r, guest[c])
<1>3. /\ r \in Row /\ r.epoch = row[c].epoch /\ r.reconciled = row[c].reconciled /\ r.final = row[c].final
      /\ r.status = row[c].status /\ r.reason = row[c].reason
  BY Here, ZenonT(60) DEF Row
<1>4. ~row[c].reconciled
  BY DEF Admissible
<1>5. RowFine(r, lease) /\ GuestFine(r, guest[c])
  BY <1>3, Here DEF RowFine, GuestFine, Bound, Terminal
<1> QED
  BY <1>3, <1>4, <1>5 DEF Terminal

(* A row completed with what guestd retained is fine.                      *)
LEMMA CompletedRow ==
  ASSUME CommandInv, NEW c \in Commands, ~row[c].reconciled, Bound(row[c]),
         guest[c].state \in {"done", "released"}, guest[c].outcome \in GuestOutcomes,
         Completable(c),
         NEW r, r = [row[c] EXCEPT !.status = "terminal", !.reason = guest[c].outcome,
                                   !.final = guest[c].final]
  PROVE  /\ r \in Row /\ r.epoch = row[c].epoch /\ ~r.reconciled /\ Terminal(r)
         /\ RowFine(r, lease) /\ GuestFine(r, guest[c])
<1>1. /\ r \in Row /\ r.epoch = row[c].epoch /\ r.reconciled = row[c].reconciled
      /\ r.final = guest[c].final /\ r.status = "terminal" /\ r.reason = guest[c].outcome
  BY Here, ZenonT(60) DEF Row, Execution
<1>2. RowFine(r, lease) /\ GuestFine(r, guest[c])
  BY <1>1, Here DEF RowFine, GuestFine, Bound, Terminal
<1> QED
  BY <1>1, <1>2 DEF Terminal

(* AppendLog accepts the record at the head of the stream, or refuses it.  *)
LEMMA AppendInv ==
  ASSUME CommandInv, NEW c \in Commands, AppendLog(c)
  PROVE  CommandInv'
<1> DEFINE k == guest[c].acknowledged + 1
<1>1. task[c].stage = "attached" /\ task[c].head = "sent" /\ ~row[c].reconciled
  BY Working DEF AppendLog, Attached
<1>2. k \in Sequences
  <2>1. guest[c].acknowledged \in 0..MaxOutput + 1
    BY Here DEF Execution, Sequences
  <2>2. guest[c].acknowledged <= MaxOutput
    BY <1>1, Here, ZenonT(60) DEF TaskFine
  <2> QED
    BY <2>1, <2>2, BoundAssumption DEF Sequences
<1>3. CASE Admissible(c, k)
  <2> DEFINE e == (k = guest[c].final)
             r == [row[c] EXCEPT !.accepted = k, !.ended = e]
             t == [task[c] EXCEPT !.head = "accepted"]
  <2>1. Touches(c, r, guest[c], t, cancelling[c], late[c]) /\ Steady
    BY <1>3, ZenonT(60) DEF CommandInv, TypeOK, AppendLog, Appended, Touches, Steady
  <2>2. t \in Task /\ t.head = "accepted" /\ t.stage = task[c].stage /\ t.kind = task[c].kind
        /\ t.result = task[c].result
    BY Here DEF Task
  <2>3. /\ r \in Row /\ r.epoch = row[c].epoch /\ ~r.reconciled
        /\ Terminal(r) <=> Terminal(row[c])
        /\ RowFine(r, lease) /\ GuestFine(r, guest[c])
    <3>1. e \in BOOLEAN
      OBVIOUS
    <3> HIDE DEF k, e
    <3> QED
      BY <1>2, <1>3, <3>1, AppendedRow, ZenonT(60)
  <2> HIDE DEF r, t
  <2>4. TaskFine(r, guest[c], t, OfferedTo(c))
    BY <1>1, <2>2, <2>3, HereTask DEF TaskFine, NoTask
  <2> QED
    BY <1>1, <2>1, <2>2, <2>3, <2>4, Here, TaskStep, ZenonT(60)
<1>4. CASE ~Admissible(c, k)
  <2> DEFINE t == [task[c] EXCEPT !.stage = "fatal"]
  <2>1. Touches(c, row[c], guest[c], t, cancelling[c], late[c]) /\ Steady
    BY <1>4 DEF CommandInv, TypeOK, AppendLog, Touches, Steady
  <2>2. t \in Task /\ t.head = task[c].head /\ t.stage = "fatal" /\ t.kind = task[c].kind
        /\ t.result = task[c].result
    BY Here DEF Task
  <2> HIDE DEF t
  <2>3. TaskFine(row[c], guest[c], t, OfferedTo(c))
    BY <1>1, <2>2, HereTask DEF TaskFine, NoTask
  <2> QED
    BY <1>1, <2>1, <2>2, <2>3, Here, TaskStep, ZenonT(60)
<1> QED
  BY <1>3, <1>4

(* A task whose result is known keeps it, or ends.                         *)
LEMMA ResultTask ==
  ASSUME NEW r, NEW s, NEW g, NEW t, NEW u, NEW q, TaskFine(r, g, t, q), Terminal(r) => Terminal(s),
         g.state \in {"done", "released"}, g.outcome \in GuestOutcomes,
         u.kind = t.kind, u.head = t.head, u.stage \in {"attached", "ended", "fatal"}
  PROVE  TaskFine(s, g, u, q)
<1>1. u # NoTask
  BY DEF NoTask
<1> QED
  BY <1>1, ZenonT(60) DEF TaskFine

(* The report of a result and its repetition: the task keeps its result or *)
(* is over.                                                                *)
LEMMA CompletionInv ==
  ASSUME CommandInv, NEW c \in Commands, task[c].stage \in {"attached", "completing"},
         task[c].result # "none", NEW t \in Task, t.kind = task[c].kind, t.head = task[c].head,
         t.result # "none", t.stage \in {"attached", "ended", "fatal"},
         task' = [task EXCEPT ![c] = t],
         IF Completable(c) THEN row' = Completed(c) ELSE row' = row,
         UNCHANGED <<lease, machine, guest, cancelling, claim, late, revoked, faults>>
  PROVE  CommandInv'
<1>1. /\ ~row[c].reconciled /\ Bound(row[c])
      /\ guest[c].state \in {"done", "released"} /\ guest[c].outcome \in GuestOutcomes
  BY Working, Here, ZenonT(60) DEF TaskFine
<1>2. Steady
  BY DEF CommandInv, TypeOK, Steady
<1>3. CASE Completable(c)
  <2> DEFINE r == [row[c] EXCEPT !.status = "terminal", !.reason = guest[c].outcome,
                                 !.final = guest[c].final]
  <2>1. Touches(c, r, guest[c], t, cancelling[c], late[c])
    BY <1>3, ZenonT(60) DEF CommandInv, TypeOK, Completed, Touches
  <2>2. /\ r \in Row /\ r.epoch = row[c].epoch /\ ~r.reconciled /\ Terminal(r)
        /\ RowFine(r, lease) /\ GuestFine(r, guest[c])
    BY <1>1, <1>3, CompletedRow, ZenonT(60)
  <2> HIDE DEF r
  <2>3. TaskFine(r, guest[c], t, OfferedTo(c))
    BY <1>1, <2>2, HereTask, ResultTask, ZenonT(60)
  <2> QED
    BY <1>2, <2>1, <2>2, <2>3, Here, TaskStep, ZenonT(60)
<1>4. CASE ~Completable(c)
  <2>1. Touches(c, row[c], guest[c], t, cancelling[c], late[c])
    BY <1>4 DEF CommandInv, TypeOK, Touches
  <2>2. TaskFine(row[c], guest[c], t, OfferedTo(c))
    BY <1>1, HereTask, ResultTask, ZenonT(60)
  <2> QED
    BY <1>1, <1>2, <2>1, <2>2, Here, TaskStep, ZenonT(60)
<1> QED
  BY <1>3, <1>4

(* Complete records the result, or ends the task if it may not.            *)
LEMMA CompleteInv ==
  ASSUME CommandInv, NEW c \in Commands, Complete(c)
  PROVE  CommandInv'
<1> DEFINE t == IF Completable(c) THEN [task[c] EXCEPT !.result = "recorded"]
                ELSE [task[c] EXCEPT !.stage = "ended"]
<1>1. task[c].stage = "attached" /\ task[c].result = "received"
  BY DEF Complete, Attached
<1>2. /\ t \in Task /\ t.kind = task[c].kind /\ t.head = task[c].head
      /\ t.result # "none" /\ t.stage \in {"attached", "ended", "fatal"}
  BY <1>1, Here DEF Task
<1>3. /\ task' = [task EXCEPT ![c] = t]
      /\ IF Completable(c) THEN row' = Completed(c) ELSE row' = row
      /\ UNCHANGED <<lease, machine, guest, cancelling, claim, late, revoked, faults>>
  BY DEF CommandInv, TypeOK, Complete
<1> HIDE DEF t
<1> QED
  BY <1>1, <1>2, <1>3, CompletionInv, ZenonT(60)

(* The completion repeated after the stream closed.                        *)
LEMMA CompleteAgainInv ==
  ASSUME CommandInv, NEW c \in Commands, CompleteAgain(c)
  PROVE  CommandInv'
<1> DEFINE t == IF Completable(c) THEN [task[c] EXCEPT !.stage = "ended"]
                ELSE [task[c] EXCEPT !.stage = "fatal"]
<1>1. task[c].stage = "completing" /\ task[c].result # "none"
  BY Here DEF CompleteAgain, TaskFine
<1>2. /\ t \in Task /\ t.kind = task[c].kind /\ t.head = task[c].head
      /\ t.result # "none" /\ t.stage \in {"attached", "ended", "fatal"}
  BY <1>1, Here DEF Task
<1>3. /\ task' = [task EXCEPT ![c] = t]
      /\ IF Completable(c) THEN row' = Completed(c) ELSE row' = row
      /\ UNCHANGED <<lease, machine, guest, cancelling, claim, late, revoked, faults>>
  BY DEF CommandInv, TypeOK, CompleteAgain
<1> HIDE DEF t
<1> QED
  BY <1>1, <1>2, <1>3, CompletionInv, ZenonT(60)

(* Reconcile marks a settled Command whose process guestd released.        *)
LEMMA ReconcileInv ==
  ASSUME CommandInv, NEW c \in Commands, Reconcile(c)
  PROVE  CommandInv'
<1> DEFINE settled == /\ Terminal(row[c]) /\ row[c].epoch = lease.epoch
                      /\ CommandOutputSettled(row[c]) /\ ProducerStillAuthorized
           r == IF settled THEN [row[c] EXCEPT !.reconciled = TRUE] ELSE row[c]
           t == [task[c] EXCEPT !.stage = "ended"]
<1>1. task[c].stage = "released" /\ task[c].kind = "release"
  BY Here DEF Reconcile, TaskFine
<1>2. /\ ~row[c].reconciled /\ Bound(row[c]) /\ Terminal(row[c]) /\ OfferedTo(c) = {}
      /\ guest[c].state = "released"
  BY <1>1, Working, Here, ZenonT(60) DEF TaskFine
<1>3. Touches(c, r, guest[c], t, cancelling[c], late[c]) /\ Steady
  BY ZenonT(60) DEF CommandInv, TypeOK, Reconcile, Touches, Steady
<1>4. /\ t \in Task /\ t.head = task[c].head /\ t.stage = "ended" /\ t.kind = task[c].kind
      /\ t.result = task[c].result
  BY Here DEF Task
<1>5. settled => CommandOutputSettled(row[c])
  OBVIOUS
<1> HIDE DEF settled, t
<1>6. /\ r \in Row /\ r.epoch = row[c].epoch /\ r.status = row[c].status /\ r.final = row[c].final
      /\ r.reason = row[c].reason /\ r.ended = row[c].ended /\ r.accepted = row[c].accepted
      /\ r.reconciled => row[c].reconciled \/ settled
  BY Here, ZenonT(60) DEF Row
<1> HIDE DEF r
<1>7. RowFine(r, lease) /\ GuestFine(r, guest[c]) /\ TaskFine(r, guest[c], t, OfferedTo(c))
  <2>1. (Bound(r) <=> Bound(row[c])) /\ (Terminal(r) <=> Terminal(row[c]))
    BY <1>6 DEF Bound, Terminal
  <2>2. RowFine(r, lease)
    BY <1>2, <1>6, <2>1, HereRow DEF RowFine
  <2>3. GuestFine(r, guest[c])
    BY <1>6, <2>1, HereGuest DEF GuestFine
  <2>4. TaskFine(r, guest[c], t, OfferedTo(c))
    BY <1>1, <1>2, <1>4, <2>1, HereTask DEF TaskFine, NoTask
  <2> QED
    BY <2>2, <2>3, <2>4
<1>8. r.reconciled => Gone(r, guest[c], t, OfferedTo(c))
  BY <1>2, <1>4, <1>5, <1>6, ZenonT(60) DEF Gone, CommandOutputSettled
<1> QED
  BY <1>1, <1>3, <1>4, <1>6, <1>7, <1>8, Here, TaskStep, ZenonT(60)

-----------------------------------------------------------------------------
(* guestd: an execution appears, ends and is released, never backwards.    *)
Onward(g, h) ==
    /\ g.state = "absent" => h.acknowledged = 0
    /\ g.state # "absent" => h.state # "absent" /\ h.acknowledged = g.acknowledged
    /\ g.state \in {"done", "released"} => h.state \in {"done", "released"} /\ h.outcome = g.outcome
    /\ g.state = "released" => h.state = "released"

(* Nothing has run yet in an absent execution.                             *)
LEMMA NothingRuns == NoExecution.runs = 0 /\ NoExecution.acknowledged = 0
  BY DEF NoExecution

(* An execution left alone has moved on.                                   *)
LEMMA OnwardSame ==
  ASSUME NEW r, NEW g, GuestFine(r, g)
  PROVE  Onward(g, g)
<1>1. g.state = "absent" => g.acknowledged = 0
  BY NothingRuns, ZenonT(60) DEF GuestFine
<1> QED
  BY <1>1 DEF Onward

(* What a task knows of an execution stays true as the execution moves on. *)
LEMMA OnwardFine ==
  ASSUME CommandInv, NEW c \in Commands, NEW h, Onward(guest[c], h)
  PROVE  /\ TaskFine(row[c], h, task[c], OfferedTo(c))
         /\ Gone(row[c], guest[c], task[c], OfferedTo(c)) => Gone(row[c], h, task[c], OfferedTo(c))
<1>1. 0 <= MaxOutput
  BY BoundAssumption
<1>2. guest[c].state \in {"absent", "running", "done", "released"}
  BY Here, ZenonT(60) DEF Execution
<1> QED
  BY <1>1, <1>2, Here, ZenonT(60) DEF TaskFine, GuestFine, Gone, Onward, GuestOutcomes

(* A step on the execution alone that moves it on.                         *)
LEMMA GuestStep ==
  ASSUME CommandInv, NEW c \in Commands, NEW h \in Execution, NEW k \in Calls, NEW l \in SUBSET Late,
         Touches(c, row[c], h, task[c], k, l), Steady,
         GuestFine(row[c], h), Onward(guest[c], h),
         Spoken(task[c], k, l, OfferedTo(c)) => Spoken(task[c], cancelling[c], late[c], OfferedTo(c))
  PROVE  CommandInv'
<1>1. Fine(row[c], h, task[c], k, l, OfferedTo(c), lease, machine.up)
  BY Here, OnwardFine, ZenonT(60) DEF Fine
<1> QED
  BY <1>1, Here, LocalStep, ZenonT(60)

(* What guestd retains of a Command that is spoken for is of this lease.   *)
LEMMA RetainedHere ==
  ASSUME CommandInv, NEW c \in Commands, Spoken(task[c], cancelling[c], late[c], OfferedTo(c))
  PROVE  /\ Retained(c) <=> guest[c].state # "absent"
         /\ guest[c].state = "absent" => guest[c] = NoExecution /\ ~row[c].reconciled
  BY Here, SpokenReconciled, ZenonT(60) DEF Retained, GuestFine, Gone

(* A launch happens only where nothing is retained, so it is the first.    *)
LEMMA LaunchedFine ==
  ASSUME CommandInv, NEW c \in Commands, Spoken(task[c], cancelling[c], late[c], OfferedTo(c)),
         ~Retained(c), NEW h, h = Launched(guest[c])
  PROVE  /\ h \in Execution /\ GuestFine(row[c], h) /\ Onward(guest[c], h)
         /\ h.state = "running" /\ ~row[c].reconciled
<1>1. guest[c] = NoExecution /\ guest[c].state = "absent" /\ ~row[c].reconciled
  BY RetainedHere
<1>2. /\ row[c].epoch = lease.epoch /\ Bound(row[c])
      /\ lease.epoch \in 0..MaxLeases
  BY Here DEF CommandInv, TypeOK, Lease
<1>3. 1 \in 0..MaxLeases
  BY <1>2, BoundAssumption DEF Bound
<1>4. h = [NoExecution EXCEPT !.epoch = lease.epoch, !.state = "running", !.runs = 1]
  <2>0. guest[c].runs = 0
    BY <1>1, NothingRuns, ZenonT(60)
  <2>1. guest[c].runs + 1 = 1
    BY <2>0
  <2> QED
    BY <2>1, ZenonT(60) DEF Launched
<1>5. /\ h.epoch = lease.epoch /\ h.state = "running" /\ h.runs = 1 /\ h.outcome = "none"
      /\ h.final = 0 /\ h.acknowledged = 0
  BY <1>4 DEF NoExecution
<1>6. h \in Execution
  <2>1. 0 \in 0..MaxOutput /\ 0 \in Sequences
    BY BoundAssumption DEF Sequences
  <2> QED
    BY <1>2, <1>3, <1>4, <2>1, ZenonT(60) DEF NoExecution, Execution
<1>7. ~(Bound(row[c]) /\ row[c].reason \in GuestOutcomes)
  BY <1>1, Here, ZenonT(60) DEF GuestFine, NoExecution, GuestOutcomes
<1>8. GuestFine(row[c], h)
  BY <1>2, <1>5, <1>7 DEF GuestFine
<1> QED
  BY <1>1, <1>5, <1>6, <1>8 DEF Onward

(* A cancellation moves the execution on: a tombstone is put only where    *)
(* nothing is retained.                                                    *)
LEMMA CancelledFine ==
  ASSUME CommandInv, NEW c \in Commands, Spoken(task[c], cancelling[c], late[c], OfferedTo(c)),
         NEW h, h = Cancelled(c)
  PROVE  h \in Execution /\ GuestFine(row[c], h) /\ Onward(guest[c], h)
<1>1. CASE CancelRefused(c) \/ (Retained(c) /\ guest[c].state # "running")
  <2>1. h = guest[c]
    BY <1>1 DEF Cancelled
  <2>2. h \in Execution /\ GuestFine(row[c], h)
    BY <2>1, Here, ZenonT(60)
  <2>3. Onward(guest[c], h)
    BY <2>1, HereGuest, OnwardSame, ZenonT(60)
  <2> QED
    BY <2>2, <2>3
<1>2. CASE ~CancelRefused(c) /\ Retained(c) /\ guest[c].state = "running"
  <2>1. h = [guest[c] EXCEPT !.cancel = TRUE]
    BY <1>2 DEF Cancelled
  <2>2. /\ h \in Execution /\ h.epoch = guest[c].epoch /\ h.state = guest[c].state
        /\ h.runs = guest[c].runs /\ h.outcome = guest[c].outcome /\ h.final = guest[c].final
        /\ h.acknowledged = guest[c].acknowledged
    BY <2>1, Here, ZenonT(60) DEF Execution
  <2> QED
    BY <1>2, <2>2, Here, ZenonT(60) DEF Onward, GuestFine
<1>3. CASE ~CancelRefused(c) /\ ~Retained(c)
  <2>1. guest[c] = NoExecution /\ guest[c].state = "absent"
    BY <1>3, RetainedHere
  <2>2. h = [NoExecution EXCEPT !.epoch = lease.epoch, !.state = "done", !.outcome = "cancelled",
                                !.final = 1, !.runs = 0]
    BY <1>3, <2>1 DEF Cancelled, NoExecution
  <2>3. /\ row[c].epoch = lease.epoch /\ Bound(row[c])
        /\ lease.epoch \in 0..MaxLeases
    BY Here DEF CommandInv, TypeOK, Lease
  <2>4. /\ h.epoch = lease.epoch /\ h.state = "done" /\ h.runs = 0 /\ h.outcome = "cancelled"
        /\ h.final = 1 /\ h.acknowledged = 0
    BY <2>2 DEF NoExecution
  <2>5. h \in Execution
    <3>1. 0 \in 0..MaxOutput /\ 0 \in Sequences /\ 1 \in Sequences /\ 0 \in 0..MaxLeases
      BY BoundAssumption DEF Sequences
    <3> QED
      BY <2>2, <2>3, <3>1, ZenonT(60) DEF NoExecution, Execution, GuestOutcomes
  <2>6. ~(Bound(row[c]) /\ row[c].reason \in GuestOutcomes)
    BY <2>1, Here, ZenonT(60) DEF GuestFine, NoExecution, GuestOutcomes
  <2>7. GuestFine(row[c], h)
    BY <2>3, <2>4, <2>6 DEF GuestFine
  <2> QED
    BY <2>1, <2>4, <2>5, <2>7 DEF Onward
<1> QED
  BY <1>1, <1>2, <1>3

(* A release moves a finished execution on.                                *)
LEMMA ReleasedFine ==
  ASSUME CommandInv, NEW c \in Commands, ReleaseAllowed(c),
         NEW h, h = [guest[c] EXCEPT !.state = "released"]
  PROVE  h \in Execution /\ GuestFine(row[c], h) /\ Onward(guest[c], h) /\ h.state = "released"
<1>1. /\ h \in Execution /\ h.epoch = guest[c].epoch /\ h.state = "released"
      /\ h.runs = guest[c].runs /\ h.outcome = guest[c].outcome /\ h.final = guest[c].final
      /\ h.acknowledged = guest[c].acknowledged
  BY Here DEF Execution
<1>2. guest[c].state \in {"done", "released"}
  BY DEF ReleaseAllowed
<1> QED
  BY <1>1, <1>2, Here DEF Onward, GuestFine

(* A running process writes a record.                                      *)
LEMMA WritesInv ==
  ASSUME CommandInv, NEW c \in Commands, ProcessWrites(c)
  PROVE  CommandInv'
<1> DEFINE n == guest[c].written + 1
           h == [guest[c] EXCEPT !.written = n]
<1>1. Touches(c, row[c], h, task[c], cancelling[c], late[c]) /\ Steady
  BY DEF CommandInv, TypeOK, ProcessWrites, Touches, Steady
<1>2. n \in 0..MaxOutput
  <2>1. guest[c].written \in 0..MaxOutput /\ guest[c].written < MaxOutput
    BY Here DEF Execution, ProcessWrites
  <2> QED
    BY <2>1, BoundAssumption
<1>3. guest[c].state = "running"
  BY DEF ProcessWrites, Executing
<1> HIDE DEF n
<1>4. /\ h \in Execution /\ h.epoch = guest[c].epoch /\ h.state = guest[c].state
      /\ h.runs = guest[c].runs /\ h.outcome = guest[c].outcome /\ h.final = guest[c].final
      /\ h.acknowledged = guest[c].acknowledged
  BY <1>2, Here DEF Execution
<1> HIDE DEF h
<1>5. GuestFine(row[c], h) /\ Onward(guest[c], h)
  BY <1>3, <1>4, Here, ZenonT(60) DEF Onward, GuestFine
<1> QED
  BY <1>1, <1>4, <1>5, Here, GuestStep, ZenonT(60)

(* The process scope is reaped, or its reaping fails.                      *)
LEMMA EndsInv ==
  ASSUME CommandInv, NEW c \in Commands, ProcessEnds(c)
  PROVE  CommandInv'
<1>0. PICK outcome \in GuestOutcomes \cup {"invalid"} :
        /\ outcome = "scope_termination_failed" => faults < MaxFaults
        /\ guest' = [guest EXCEPT ![c].state = "done", ![c].outcome = outcome,
                                  ![c].final = guest[c].written + 1]
        /\ machine' = [machine EXCEPT !.recovery = @ \/ outcome = "scope_termination_failed"]
        /\ faults' = IF outcome = "scope_termination_failed" THEN faults + 1 ELSE faults
  BY ZenonT(60) DEF ProcessEnds
<1> DEFINE n == guest[c].written + 1
           h == [guest[c] EXCEPT !.state = "done", !.outcome = outcome, !.final = n]
<1>1. Touches(c, row[c], h, task[c], cancelling[c], late[c])
  BY <1>0, ZenonT(60) DEF CommandInv, TypeOK, ProcessEnds, Touches
<1>2. Steady
  <2>1. faults' \in 0..MaxFaults
    BY <1>0, BoundAssumption DEF CommandInv, TypeOK
  <2> DEFINE b == machine.recovery \/ outcome = "scope_termination_failed"
  <2>2. b \in BOOLEAN /\ machine' = [machine EXCEPT !.recovery = b]
    BY <1>0
  <2> HIDE DEF b
  <2>3. /\ machine' \in Machine /\ machine'.up = machine.up
        /\ machine'.serving = machine.serving /\ machine'.sealed = machine.sealed
    BY <2>2 DEF CommandInv, TypeOK, Machine
  <2> QED
    BY <2>1, <2>3 DEF ProcessEnds, Steady
<1>3. n \in Sequences
  <2>1. guest[c].written \in 0..MaxOutput
    BY Here DEF Execution
  <2> QED
    BY <2>1, BoundAssumption DEF Sequences
<1>4. guest[c].state = "running" /\ outcome # "none"
  BY <1>0 DEF ProcessEnds, Executing, GuestOutcomes
<1> HIDE DEF n
<1>5. /\ h \in Execution /\ h.epoch = guest[c].epoch /\ h.state = "done"
      /\ h.runs = guest[c].runs /\ h.outcome = outcome
      /\ h.acknowledged = guest[c].acknowledged
  BY <1>0, <1>3, Here, ZenonT(60) DEF Execution
<1> HIDE DEF h
<1>6. ~(Bound(row[c]) /\ row[c].reason \in GuestOutcomes)
  BY <1>4, Here, ZenonT(60) DEF GuestFine, GuestOutcomes
<1>7. GuestFine(row[c], h) /\ Onward(guest[c], h)
  BY <1>4, <1>5, <1>6, Here, ZenonT(60) DEF Onward, GuestFine
<1> QED
  BY <1>1, <1>2, <1>5, <1>7, Here, GuestStep, ZenonT(60)

(* guestd answers a start or a tail request.                               *)
LEMMA StartsInv ==
  ASSUME CommandInv, NEW c \in Commands, GuestStarts(c)
  PROVE  CommandInv'
<1> DEFINE reply == StartReply(c, task[c].kind)
           t == [task[c] EXCEPT !.stage = IF reply = "refused" THEN "fatal" ELSE "attached"]
           h == IF reply = "launched" THEN Launched(guest[c]) ELSE guest[c]
<1>1. task[c].stage = "requested" /\ task[c].kind \in {"start", "tail"} /\ ~row[c].reconciled
  BY Working DEF GuestStarts
<1>2. Spoken(task[c], cancelling[c], late[c], OfferedTo(c))
  BY <1>1 DEF Spoken, NoTask
<1>3. Touches(c, row[c], h, t, cancelling[c], late[c]) /\ Steady
  BY ZenonT(60) DEF CommandInv, TypeOK, GuestStarts, Touches, Steady
<1>4. /\ h \in Execution /\ GuestFine(row[c], h) /\ Onward(guest[c], h)
      /\ reply # "refused" => h.state # "absent"
  <2>1. CASE reply = "launched"
    <3>1. ~Retained(c)
      BY <2>1 DEF StartReply
    <3> QED
      BY <1>2, <2>1, <3>1, LaunchedFine
  <2>2. CASE reply # "launched"
    <3>1. reply # "refused" => Retained(c)
      BY <2>2 DEF StartReply
    <3>2. GuestFine(row[c], guest[c]) /\ guest[c] \in Execution
      BY Here
    <3>3. Onward(guest[c], guest[c])
      BY <3>2, OnwardSame, ZenonT(60)
    <3> QED
      BY <2>2, <3>1, <3>2, <3>3 DEF Retained
  <2> QED
    BY <2>1, <2>2
<1>5. /\ t \in Task /\ t.head = task[c].head /\ t.kind = task[c].kind /\ t.result = task[c].result
      /\ t.stage = IF reply = "refused" THEN "fatal" ELSE "attached"
  BY Here DEF Task
<1> HIDE DEF t, h, reply
<1>6. TaskFine(row[c], h, task[c], OfferedTo(c))
  BY <1>4, OnwardFine, ZenonT(60)
<1>7. TaskFine(row[c], h, t, OfferedTo(c))
  BY <1>1, <1>4, <1>5, <1>6, SMTT(30) DEF TaskFine, NoTask
<1> QED
  BY <1>1, <1>3, <1>4, <1>5, <1>7, Here, TaskStep, ZenonT(60)

(* guestd answers a cancellation.                                          *)
LEMMA CancelsInv ==
  ASSUME CommandInv, NEW c \in Commands, GuestCancels(c)
  PROVE  CommandInv'
<1> DEFINE h == Cancelled(c)
<1>1. CASE task[c].stage = "requested" /\ task[c].kind = "cancel" /\ cancelling' = cancelling
           /\ task' = [task EXCEPT ![c] = IF CancelRefused(c)
                                          THEN [task[c] EXCEPT !.stage = "ended"] ELSE Request("tail")]
  <2> DEFINE t == IF CancelRefused(c) THEN [task[c] EXCEPT !.stage = "ended"] ELSE Request("tail")
  <2>1. ~row[c].reconciled /\ Spoken(task[c], cancelling[c], late[c], OfferedTo(c))
    BY <1>1, Working DEF Spoken
  <2>2. Touches(c, row[c], h, t, cancelling[c], late[c]) /\ Steady
    BY <1>1, ZenonT(60) DEF CommandInv, TypeOK, GuestCancels, Touches, Steady
  <2>3. /\ t \in Task /\ t.head = "none" /\ t.result = "none"
        /\ \/ t.stage = "ended" /\ t.kind = "cancel"
           \/ t.stage = "requested" /\ t.kind = "tail"
    <3>1. CASE CancelRefused(c)
      <4>1. task[c].head = "none" /\ task[c].result = "none"
        BY <1>1, Here DEF TaskFine
      <4> QED
        BY <1>1, <3>1, <4>1, Here DEF Task
    <3>2. CASE ~CancelRefused(c)
      BY <3>2, ZenonT(60) DEF Task, Request, NoTask, Kinds
    <3> QED
      BY <3>1, <3>2
  <2> HIDE DEF t
  <2>4. h \in Execution /\ GuestFine(row[c], h) /\ Onward(guest[c], h)
    BY <2>1, CancelledFine, ZenonT(60)
  <2> HIDE DEF h
  <2>5. TaskFine(row[c], h, task[c], OfferedTo(c))
    BY <2>4, OnwardFine
  <2>6. TaskFine(row[c], h, t, OfferedTo(c))
    BY <2>3, <2>5 DEF TaskFine, NoTask, Kinds
  <2> QED
    BY <1>1, <2>1, <2>2, <2>3, <2>4, <2>6, Here, TaskStep, ZenonT(60)
<1>2. CASE cancelling[c] = "asking" /\ task' = task
           /\ cancelling' = [cancelling EXCEPT ![c] = IF CancelRefused(c) THEN "refused" ELSE "answered"]
  <2> DEFINE k == IF CancelRefused(c) THEN "refused" ELSE "answered"
  <2>1. Touches(c, row[c], h, task[c], k, late[c]) /\ Steady
    BY <1>2, ZenonT(60) DEF CommandInv, TypeOK, GuestCancels, Touches, Steady
  <2>2. Spoken(task[c], cancelling[c], late[c], OfferedTo(c)) /\ k \in Calls
    BY <1>2 DEF Spoken, Calls
  <2>3. h \in Execution /\ GuestFine(row[c], h) /\ Onward(guest[c], h)
    BY <2>2, CancelledFine, ZenonT(60)
  <2> HIDE DEF h, k
  <2> QED
    BY <2>1, <2>2, <2>3, Here, GuestStep, ZenonT(60)
<1> QED
  BY <1>1, <1>2 DEF GuestCancels

(* guestd answers a release.                                               *)
LEMMA ReleasesInv ==
  ASSUME CommandInv, NEW c \in Commands, GuestReleases(c)
  PROVE  CommandInv'
<1> DEFINE t == [task[c] EXCEPT !.stage = IF ReleaseAllowed(c) THEN "released" ELSE "ended"]
           h == IF ReleaseAllowed(c) THEN [guest[c] EXCEPT !.state = "released"] ELSE guest[c]
<1>1. task[c].stage = "requested" /\ task[c].kind = "release" /\ ~row[c].reconciled
  BY Working DEF GuestReleases
<1>2. Touches(c, row[c], h, t, cancelling[c], late[c]) /\ Steady
  BY ZenonT(60) DEF CommandInv, TypeOK, GuestReleases, Touches, Steady
<1>3. /\ t \in Task /\ t.head = task[c].head /\ t.kind = task[c].kind /\ t.result = task[c].result
      /\ t.stage = IF ReleaseAllowed(c) THEN "released" ELSE "ended"
  BY Here DEF Task
<1>4. /\ h \in Execution /\ GuestFine(row[c], h) /\ Onward(guest[c], h)
      /\ ReleaseAllowed(c) => h.state = "released"
  <2>1. CASE ReleaseAllowed(c)
    BY <2>1, ReleasedFine
  <2>2. CASE ~ReleaseAllowed(c)
    BY <2>2, Here DEF Onward, GuestFine, NoExecution
  <2> QED
    BY <2>1, <2>2
<1> HIDE DEF t, h
<1>5. TaskFine(row[c], h, task[c], OfferedTo(c))
  BY <1>4, OnwardFine
<1>6. TaskFine(row[c], h, t, OfferedTo(c))
  <2>1. t.stage \in {"released", "ended"}
    BY <1>3
  <2>2. t # NoTask /\ task[c] # NoTask
    BY <2>1, <1>1 DEF NoTask
  <2>3. t.result # "none" => FALSE
    BY <1>1, <1>3, <1>5, ZenonT(60) DEF TaskFine
  <2>4. t.stage = "released" => h.state = "released"
    BY <1>3, <1>4
  <2> QED
    BY <1>1, <1>3, <1>5, <2>1, <2>2, <2>3, <2>4, ZenonT(60) DEF TaskFine
<1> QED
  BY <1>1, <1>2, <1>3, <1>4, <1>6, Here, TaskStep, ZenonT(60)

-----------------------------------------------------------------------------
(* Streams that break, and what arrives of them later.                     *)
LEMMA AbandonedFine ==
  ASSUME CommandInv, NEW c \in Commands
  PROVE  /\ Abandoned(c) \in SUBSET Late /\ AbandonedCancel(c) \in SUBSET Late
         /\ Abandoned(c) # {} => task[c] # NoTask
         /\ AbandonedCancel(c) # {} => cancelling[c] # "none"
<1>1. task[c].stage = "requested" => [kind |-> task[c].kind, sequence |-> 0] \in Late
  BY HereTask, BoundAssumption, SMTT(30) DEF TaskFine, Late, Sequences
<1>2. task[c].head = "sent" => [kind |-> "append", sequence |-> guest[c].acknowledged + 1] \in Late
  <2>1. guest[c].acknowledged \in 0..MaxOutput + 1
    BY Here, ZenonT(60) DEF Execution, Sequences
  <2>2. task[c].head = "sent" => guest[c].acknowledged <= MaxOutput
    BY Here, ZenonT(60) DEF TaskFine
  <2>3. task[c].head = "sent" => guest[c].acknowledged + 1 \in Sequences
    BY <2>1, <2>2, BoundAssumption DEF Sequences
  <2> QED
    BY <2>3 DEF Late
<1>3. [kind |-> "cancel", sequence |-> 0] \in Late
  BY BoundAssumption DEF Late, Kinds, Sequences
<1> QED
  BY <1>1, <1>2, <1>3 DEF Abandoned, AbandonedCancel, NoTask

(* A task whose stream ended or closed is fine.                            *)
LEMMA ClosedFine ==
  ASSUME CommandInv, NEW c \in Commands, task[c].stage = "attached",
         NEW t, t = [task[c] EXCEPT !.stage = "ended"] \/ t = Closed(task[c])
  PROVE  t \in Task /\ TaskFine(row[c], guest[c], t, OfferedTo(c))
<1>1. /\ t \in Task /\ t.head = task[c].head /\ t.kind = task[c].kind /\ t.result = task[c].result
      /\ t.stage \in {"ended", "fatal"} \/ (t.stage = "completing" /\ task[c].result = "recorded")
  <2>1. CASE t = [task[c] EXCEPT !.stage = "ended"]
    BY <2>1, Here DEF Task
  <2>2. CASE t = Closed(task[c])
    BY <2>2, Here DEF Task, Closed
  <2> QED
    BY <2>1, <2>2
<1> QED
  BY <1>1, Here DEF TaskFine, NoTask

(* A stream breaks; its request may still be on the way.                   *)
LEMMA StreamBreaksInv ==
  ASSUME CommandInv, NEW c \in Commands, StreamBreaks(c)
  PROVE  CommandInv'
<1> DEFINE l == late[c] \cup Abandoned(c)
<1>0. PICK t : /\ task' = [task EXCEPT ![c] = t]
               /\ \/ t = [task[c] EXCEPT !.stage = "ended"]
                  \/ task[c].stage = "attached" /\ t = Closed(task[c])
  BY DEF StreamBreaks, CommandInv, TypeOK
<1>1. task[c].stage \in {"requested", "attached", "released"} /\ ~row[c].reconciled
  BY Working DEF StreamBreaks
<1>2. l \in SUBSET Late
  BY AbandonedFine, Here, ZenonT(60)
<1>3. Touches(c, row[c], guest[c], t, cancelling[c], l)
  BY <1>0 DEF CommandInv, TypeOK, StreamBreaks, Touches
<1>4. Steady
  <2>1. faults' \in 0..MaxFaults
    BY BoundAssumption DEF CommandInv, TypeOK, StreamBreaks
  <2> QED
    BY <2>1, ZenonT(60) DEF CommandInv, TypeOK, StreamBreaks, Steady
<1>5. t \in Task /\ TaskFine(row[c], guest[c], t, OfferedTo(c))
  <2>1. CASE task[c].stage = "attached"
    BY <1>0, <2>1, ClosedFine
  <2>2. CASE task[c].stage # "attached"
    <3>1. /\ t \in Task /\ t.head = task[c].head /\ t.kind = task[c].kind
          /\ t.result = task[c].result /\ t.stage = "ended"
      BY <1>0, <2>2, Here DEF Task
    <3> QED
      BY <3>1, HereTask, SMTT(30) DEF TaskFine, NoTask
  <2> QED
    BY <2>1, <2>2
<1> HIDE DEF l
<1> QED
  BY <1>1, <1>2, <1>3, <1>4, <1>5, Here, TaskStep, ZenonT(60)

(* A cancellation call breaks; its request may still be on the way.        *)
LEMMA CancellationBreaksInv ==
  ASSUME CommandInv, NEW c \in Commands, CancellationBreaks(c)
  PROVE  CommandInv'
<1> DEFINE l == late[c] \cup AbandonedCancel(c)
<1>1. cancelling[c] = "asking" /\ Spoken(task[c], cancelling[c], late[c], OfferedTo(c))
  BY DEF CancellationBreaks, Spoken
<1>2. l \in SUBSET Late /\ "refused" \in Calls
  BY AbandonedFine, Here, ZenonT(60) DEF Calls
<1>3. Touches(c, row[c], guest[c], task[c], "refused", l)
  BY DEF CommandInv, TypeOK, CancellationBreaks, Touches
<1>4. Steady
  <2>1. faults' \in 0..MaxFaults
    BY BoundAssumption DEF CommandInv, TypeOK, CancellationBreaks
  <2> QED
    BY <2>1, ZenonT(60) DEF CommandInv, TypeOK, CancellationBreaks, Steady
<1>5. Onward(guest[c], guest[c])
  BY HereGuest, OnwardSame, ZenonT(60)
<1> HIDE DEF l
<1> QED
  BY <1>1, <1>2, <1>3, <1>4, <1>5, Here, GuestStep, ZenonT(60)

(* A late start launches what was not launched, or nothing.                *)
LEMMA LateStartInv ==
  ASSUME CommandInv, NEW c \in Commands, Spoken(task[c], cancelling[c], late[c], OfferedTo(c)),
         NEW kind, LateStart(c, kind), NEW l \in SUBSET Late, late' = [late EXCEPT ![c] = l],
         UNCHANGED <<lease, machine, cancelling, claim, revoked, faults>>
  PROVE  CommandInv'
<1> DEFINE reply == StartReply(c, kind)
<1>1. Steady
  BY DEF CommandInv, TypeOK, Steady
<1>2. CASE reply = "launched"
  <2> DEFINE h == Launched(guest[c])
  <2>1. Touches(c, row[c], h, task[c], cancelling[c], l)
    BY <1>2 DEF CommandInv, TypeOK, LateStart, Touches
  <2>2. ~Retained(c)
    BY <1>2, ZenonT(60) DEF StartReply
  <2>3. h \in Execution /\ GuestFine(row[c], h) /\ Onward(guest[c], h)
    BY <2>2, LaunchedFine, ZenonT(60)
  <2> HIDE DEF h
  <2> QED
    BY <1>1, <2>1, <2>3, Here, GuestStep, ZenonT(60)
<1>3. CASE reply # "launched" /\ reply = "attached" /\ task[c].stage = "attached"
  <2> DEFINE t == Closed(task[c])
  <2>1. Touches(c, row[c], guest[c], t, cancelling[c], l)
    BY <1>3 DEF CommandInv, TypeOK, LateStart, Touches
  <2>2. ~row[c].reconciled
    BY <1>3, Working
  <2>3. t \in Task /\ TaskFine(row[c], guest[c], t, OfferedTo(c))
    BY <1>3, ClosedFine
  <2> HIDE DEF t
  <2> QED
    BY <1>1, <1>3, <2>1, <2>2, <2>3, Here, TaskStep, ZenonT(60)
<1>4. CASE reply # "launched" /\ ~(reply = "attached" /\ task[c].stage = "attached")
  <2>1. Touches(c, row[c], guest[c], task[c], cancelling[c], l)
    BY <1>4, ZenonT(60) DEF CommandInv, TypeOK, LateStart, Touches
  <2>2. Onward(guest[c], guest[c])
    BY HereGuest, OnwardSame, ZenonT(60)
  <2> QED
    BY <1>1, <2>1, <2>2, Here, GuestStep, ZenonT(60)
<1> QED
  BY <1>2, <1>3, <1>4, ZenonT(60)

(* A late request reaches guestd, after its sender gave up.                *)
LEMMA LateArrivesInv ==
  ASSUME CommandInv, NEW c \in Commands, LateArrives(c)
  PROVE  CommandInv'
<1>0. PICK m \in late[c] :
        /\ late' = [late EXCEPT ![c] = @ \ {m}]
        /\ CASE m.kind \in {"start", "tail"} -> LateStart(c, m.kind)
             [] m.kind = "cancel" -> guest' = [guest EXCEPT ![c] = Cancelled(c)] /\ UNCHANGED <<row, task>>
             [] m.kind = "release" -> /\ guest' = IF ReleaseAllowed(c)
                                                  THEN [guest EXCEPT ![c].state = "released"] ELSE guest
                                      /\ UNCHANGED <<row, task>>
             [] OTHER -> /\ row' = IF Admissible(c, m.sequence) THEN Appended(c, m.sequence) ELSE row
                         /\ UNCHANGED <<guest, task>>
  BY ZenonT(60) DEF LateArrives
<1> DEFINE l == late[c] \ {m}
<1>1. /\ l \in SUBSET Late /\ m.kind \in Kinds \cup {"append"} /\ m.sequence \in Sequences
      /\ Spoken(task[c], cancelling[c], late[c], OfferedTo(c))
  BY Here DEF Late, Spoken
<1>2. Steady /\ UNCHANGED <<lease, machine, cancelling, claim, revoked, faults>>
  BY ZenonT(60) DEF LateArrives, CommandInv, TypeOK, Steady
<1>3. late' = [late EXCEPT ![c] = l]
  BY <1>0
<1> HIDE DEF l
<1>4. Onward(guest[c], guest[c])
  BY HereGuest, OnwardSame, ZenonT(60)
<1>5. CASE m.kind \in {"start", "tail"}
  BY <1>0, <1>1, <1>2, <1>3, <1>5, LateStartInv, ZenonT(60)
<1>6. CASE m.kind = "cancel"
  <2> DEFINE h == Cancelled(c)
  <2>1. Touches(c, row[c], h, task[c], cancelling[c], l)
    BY <1>0, <1>2, <1>3, <1>6, ZenonT(60) DEF CommandInv, TypeOK, Touches
  <2>2. h \in Execution /\ GuestFine(row[c], h) /\ Onward(guest[c], h)
    BY <1>1, CancelledFine, ZenonT(60)
  <2> HIDE DEF h
  <2> QED
    BY <1>1, <1>2, <2>1, <2>2, Here, GuestStep, ZenonT(60)
<1>7. CASE m.kind = "release"
  <2> DEFINE h == IF ReleaseAllowed(c) THEN [guest[c] EXCEPT !.state = "released"] ELSE guest[c]
  <2>1. Touches(c, row[c], h, task[c], cancelling[c], l)
    BY <1>0, <1>2, <1>3, <1>7, ZenonT(60) DEF CommandInv, TypeOK, Touches
  <2>2. h \in Execution /\ GuestFine(row[c], h) /\ Onward(guest[c], h)
    <3>1. CASE ReleaseAllowed(c)
      BY <3>1, ReleasedFine
    <3>2. CASE ~ReleaseAllowed(c)
      BY <1>4, <3>2, Here
    <3> QED
      BY <3>1, <3>2
  <2> HIDE DEF h
  <2> QED
    BY <1>1, <1>2, <2>1, <2>2, Here, GuestStep, ZenonT(60)
<1>8. CASE m.kind = "append" /\ Admissible(c, m.sequence)
  <2> DEFINE k == m.sequence
             e == (k = guest[c].final)
             r == [row[c] EXCEPT !.accepted = k, !.ended = e]
  <2>1. Touches(c, r, guest[c], task[c], cancelling[c], l)
    BY <1>0, <1>2, <1>3, <1>8, ZenonT(60) DEF CommandInv, TypeOK, Appended, Touches
  <2>2. e \in BOOLEAN
    OBVIOUS
  <2> HIDE DEF e
  <2>3. /\ r \in Row /\ r.epoch = row[c].epoch /\ ~r.reconciled
        /\ Terminal(r) <=> Terminal(row[c])
        /\ RowFine(r, lease) /\ GuestFine(r, guest[c])
    BY <1>1, <1>8, <2>2, AppendedRow, ZenonT(60)
  <2> HIDE DEF r
  <2>4. TaskFine(r, guest[c], task[c], OfferedTo(c))
    BY <2>3, Here, ZenonT(60) DEF TaskFine
  <2>5. Fine(r, guest[c], task[c], cancelling[c], l, OfferedTo(c), lease, machine.up)
    BY <1>1, <2>3, <2>4, Here, ZenonT(60) DEF Fine, Bound
  <2> QED
    BY <1>1, <1>2, <2>1, <2>3, <2>5, Here, LocalStep, ZenonT(60)
<1>9. CASE m.kind = "append" /\ ~Admissible(c, m.sequence)
  <2>1. Touches(c, row[c], guest[c], task[c], cancelling[c], l)
    BY <1>0, <1>2, <1>3, <1>9, ZenonT(60) DEF CommandInv, TypeOK, Touches
  <2> QED
    BY <1>1, <1>2, <1>4, <2>1, Here, GuestStep, ZenonT(60)
<1> QED
  BY <1>1, <1>5, <1>6, <1>7, <1>8, <1>9, ZenonT(60) DEF Kinds

-----------------------------------------------------------------------------
(* The poll loop.                                                          *)
LEMMA Hushed ==
  ASSUME CommandInv, NEW c \in Commands, NEW k, NEW l,
         Spoken(NoTask, k, l, {}) => Spoken(task[c], cancelling[c], late[c], OfferedTo(c))
  PROVE  Fine(row[c], guest[c], NoTask, k, l, {}, lease, machine.up)
<1>1. TaskFine(row[c], guest[c], NoTask, {})
  BY ZenonT(60) DEF TaskFine, NoTask
<1>2. Gone(row[c], guest[c], task[c], OfferedTo(c)) => Gone(row[c], guest[c], NoTask, {})
  BY DEF Gone, NoTask
<1> QED
  BY <1>1, <1>2, Here, ZenonT(60) DEF Fine

(* A fine Command stays fine when its claim is gone.                       *)
LEMMA Unclaimed ==
  ASSUME CommandInv, NEW c \in Commands
  PROVE  Fine(row[c], guest[c], task[c], cancelling[c], late[c], {}, lease, machine.up)
<1>1. TaskFine(row[c], guest[c], task[c], {})
  BY Here, ZenonT(60) DEF TaskFine
<1>2. Spoken(task[c], cancelling[c], late[c], {}) => Spoken(task[c], cancelling[c], late[c], OfferedTo(c))
  BY DEF Spoken
<1>3. Gone(row[c], guest[c], task[c], OfferedTo(c)) => Gone(row[c], guest[c], task[c], {})
  BY DEF Gone
<1> QED
  BY <1>1, <1>2, <1>3, Here, ZenonT(60) DEF Fine

(* The worker reaps a task.                                                *)
LEMMA ReapTaskInv ==
  ASSUME CommandInv, NEW c \in Commands, ReapTask(c)
  PROVE  CommandInv'
<1>0. \A d \in Commands : OfferedTo(d) = {} /\ OfferedTo(d)' = {}
  BY DEF ReapTask, OfferedTo
<1>1. CASE /\ task' = [task EXCEPT ![c] = NoTask]
           /\ cancelling' = [cancelling EXCEPT ![c] = IF @ = "asked" THEN "none" ELSE @]
           /\ UNCHANGED <<machine, late>>
  <2> DEFINE k == IF cancelling[c] = "asked" THEN "none" ELSE cancelling[c]
  <2>1. Touches(c, row[c], guest[c], NoTask, k, late[c]) /\ Steady
    BY <1>1, ZenonT(60) DEF CommandInv, TypeOK, ReapTask, Touches, Steady
  <2>2. k \in Calls /\ NoTask \in Task
    BY Here, ZenonT(60) DEF Calls, NoTask, Task
  <2>3. Spoken(NoTask, k, late[c], {}) => Spoken(task[c], cancelling[c], late[c], OfferedTo(c))
    BY DEF Spoken
  <2> HIDE DEF k
  <2>4. Fine(row[c], guest[c], NoTask, k, late[c], OfferedTo(c), lease, machine.up)
    BY <1>0, <2>3, Hushed, ZenonT(60)
  <2> QED
    BY <2>1, <2>2, <2>4, Here, LocalStep, ZenonT(60)
<1>2. CASE /\ machine' = [machine EXCEPT !.serving = FALSE]
           /\ late' = [d \in Commands |-> late[d] \cup Abandoned(d) \cup AbandonedCancel(d)]
           /\ task' = [d \in Commands |-> NoTask]
           /\ cancelling' = [d \in Commands |-> "none"]
  <2>1. UNCHANGED <<row, lease, guest, claim, revoked, faults>>
    BY DEF ReapTask
  <2>2. /\ machine' \in Machine /\ machine'.up = machine.up /\ machine'.sealed = machine.sealed
        /\ ~machine'.serving
    BY <1>2, ZenonT(60) DEF CommandInv, TypeOK, Machine
  <2>3. late' \in [Commands -> SUBSET Late]
    <3>1. \A d \in Commands : late[d] \cup Abandoned(d) \cup AbandonedCancel(d) \in SUBSET Late
      BY AbandonedFine, Here, ZenonT(60)
    <3> QED
      BY <1>2, <3>1
  <2>4. task' \in [Commands -> Task] /\ cancelling' \in [Commands -> Calls]
    BY <1>2 DEF NoTask, Task, Calls
  <2>5. TypeOK'
    BY <2>1, <2>2, <2>3, <2>4 DEF CommandInv, TypeOK, Calls
  <2>6. Powered'
    BY <2>1, <2>2 DEF CommandInv, Powered
  <2>7. ASSUME NEW d \in Commands PROVE FineNow(d)'
    <3>1. task'[d] = NoTask /\ cancelling'[d] = "none" /\ row'[d] = row[d] /\ guest'[d] = guest[d]
      BY <1>2, <2>1
    <3>2. late'[d] # {} => late[d] # {} \/ task[d] # NoTask \/ cancelling[d] # "none"
      BY <1>2, AbandonedFine
    <3>3. Spoken(NoTask, "none", late'[d], {}) => Spoken(task[d], cancelling[d], late[d], OfferedTo(d))
      BY <3>2 DEF Spoken
    <3>4. Fine(row[d], guest[d], NoTask, "none", late'[d], {}, lease, machine.up)
      BY <3>3, Hushed
    <3> QED
      BY <1>0, <2>1, <2>2, <3>1, <3>4 DEF FineNow
  <2> QED
    BY <2>5, <2>6, <2>7 DEF CommandInv
<1> QED
  BY <1>1, <1>2 DEF ReapTask

(* The worker reaps a cancellation call.                                   *)
LEMMA ReapCancellationInv ==
  ASSUME CommandInv, NEW c \in Commands, ReapCancellation(c)
  PROVE  CommandInv'
<1> DEFINE k == IF cancelling[c] = "answered" /\ task[c] # NoTask THEN "asked" ELSE "none"
<1>1. Touches(c, row[c], guest[c], task[c], k, late[c]) /\ Steady
  BY ZenonT(60) DEF CommandInv, TypeOK, ReapCancellation, Touches, Steady
<1>2. k \in Calls /\ Spoken(task[c], cancelling[c], late[c], OfferedTo(c))
  BY DEF Calls, ReapCancellation, Spoken
<1>3. Onward(guest[c], guest[c])
  BY HereGuest, OnwardSame, ZenonT(60)
<1> HIDE DEF k
<1> QED
  BY <1>1, <1>2, <1>3, Here, GuestStep, ZenonT(60)

(* What an offer says of its Command.                                      *)
LEMMA OfferFacts ==
  ASSUME CommandInv, NEW c \in Commands, machine.serving
  PROVE  /\ Offer(c) = "start" => /\ row[c].status \in {"pending", "running"} /\ LaunchAvailable
                                  /\ Bound(row[c]) => row[c].epoch = lease.epoch
         /\ Offer(c) \in Kinds \ {"start"} =>
               row[c].epoch = lease.epoch /\ Bound(row[c]) /\ ~row[c].reconciled
         /\ Offer(c) = "release" => Terminal(row[c])
         /\ Offer(c) \in Kinds /\ Terminal(row[c]) => task[c] = NoTask
         /\ Offer(c) = "refuse" => ~Bound(row[c]) /\ ~Terminal(row[c])
<1>1. lease.epoch # 0
  BY DEF CommandInv, Powered
<1>2. row[c].status \in {"none", "pending", "running", "stopping", "terminal"}
  BY Here, ZenonT(60) DEF Row, Live
<1>3. RowFine(row[c], lease)
  BY Here, ZenonT(60)
<1>4. Offer(c) # "none" => \/ row[c].epoch = lease.epoch /\ (~Terminal(row[c]) \/ ~row[c].reconciled)
                           \/ row[c].status = "pending"
  BY ZenonT(60) DEF Offer, Candidate
<1>5. Offer(c) = "start" => ~Terminal(row[c]) /\ row[c].status # "stopping" /\ LaunchAvailable
  BY DEF Offer
<1>6. Offer(c) = "cancel" => row[c].status = "stopping"
  BY DEF Offer
<1>7. Offer(c) = "release" => Terminal(row[c])
  BY DEF Offer
<1>8. Offer(c) = "tail" => Terminal(row[c]) \/ Bound(row[c])
  BY DEF Offer
<1>9. Offer(c) = "refuse" => ~Bound(row[c]) /\ ~Terminal(row[c])
  BY DEF Offer
<1>10. Offer(c) \in Kinds /\ Terminal(row[c]) => task[c] = NoTask
  BY DEF Offer, Kinds, Terminal
<1>11. Offer(c) = "start" => row[c].status \in {"pending", "running"} /\ (Bound(row[c]) => row[c].epoch = lease.epoch)
  BY <1>1, <1>2, <1>3, <1>4, <1>5 DEF RowFine, Terminal, Bound
<1>12. Offer(c) \in {"cancel", "tail", "release"} =>
          row[c].epoch = lease.epoch /\ Bound(row[c]) /\ ~row[c].reconciled
  BY <1>1, <1>2, <1>3, <1>4, <1>6, <1>7, <1>8 DEF RowFine, Terminal, Bound
<1> QED
  BY <1>5, <1>7, <1>9, <1>10, <1>11, <1>12, ZenonT(60) DEF Kinds

(* claimNext hands out one Command, binding it to the lease if it is to    *)
(* start.                                                                  *)
LEMMA ClaimOneInv ==
  ASSUME CommandInv, ClaimNext, NEW c \in Offered,
         claim' = {[command |-> c, kind |-> Offer(c)]},
         row' = IF Offer(c) = "start"
                THEN [row EXCEPT ![c].status = "running", ![c].epoch = lease.epoch] ELSE row
  PROVE  CommandInv'
<1> DEFINE o == [command |-> c, kind |-> Offer(c)]
           r == IF Offer(c) = "start" THEN [row[c] EXCEPT !.status = "running", !.epoch = lease.epoch]
                ELSE row[c]
<1>0. c \in Commands /\ Offer(c) \in Kinds
  BY DEF Offered
<1>1. /\ machine.serving /\ machine.up /\ claim = {} /\ lease.epoch # 0 /\ lease.epoch \in 0..MaxLeases
      /\ UNCHANGED <<lease, machine, guest, task, cancelling, late, revoked, faults>>
  BY ZenonT(60) DEF ClaimNext, CommandInv, Powered, TypeOK, Lease
<1>2. row' = [row EXCEPT ![c] = r]
  BY <1>0, ZenonT(60) DEF CommandInv, TypeOK
<1>3. /\ r \in Row /\ r.reconciled = row[c].reconciled /\ r.final = row[c].final /\ r.reason = row[c].reason
      /\ IF Offer(c) = "start" THEN r.status = "running" /\ r.epoch = lease.epoch ELSE r = row[c]
  BY <1>0, <1>1, Here, ZenonT(60) DEF Row, Live
<1> HIDE DEF r
<1>4. o \in Claim /\ o.command = c /\ o.kind = Offer(c) /\ claim' = {o}
  BY <1>0 DEF Claim
<1> HIDE DEF o
<1>5. TypeOK'
  <2>1. claim' \in SUBSET Claim /\ \A p, q \in claim' : p = q
    BY <1>4
  <2> QED
    BY <1>0, <1>1, <1>2, <1>3, <2>1, ZenonT(60) DEF CommandInv, TypeOK
<1>6. Powered'
  BY <1>1 DEF CommandInv, Powered
<1>7. /\ r.epoch = lease.epoch /\ Bound(r) /\ ~r.reconciled
      /\ Terminal(r) <=> Terminal(row[c])
  <2>1. CASE Offer(c) = "start"
    <3>1. ~Terminal(row[c]) /\ ~row[c].reconciled
      BY <1>0, <1>1, <2>1, OfferFacts, Here DEF Terminal, RowFine
    <3> QED
      BY <1>1, <1>3, <2>1, <3>1 DEF Bound, Terminal
  <2>2. CASE Offer(c) # "start"
    BY <1>0, <1>1, <1>3, <2>2, OfferFacts
  <2> QED
    BY <2>1, <2>2
<1>8. RowFine(r, lease) /\ GuestFine(r, guest[c])
  <2>1. CASE Offer(c) = "start"
    <3>1. /\ row[c].status \in {"pending", "running"} /\ lease.capture = "none"
          /\ Bound(row[c]) => row[c].epoch = lease.epoch
      BY <1>0, <1>1, <2>1, OfferFacts DEF LaunchAvailable
    <3>2. ~Terminal(row[c]) /\ row[c].reason = "none" /\ row[c].final = 0
      BY <1>0, <3>1, Here DEF Terminal, RowFine
    <3>3. lease.epoch <= lease.epoch
      BY <1>1
    <3>4. RowFine(r, lease)
      BY <1>3, <1>7, <2>1, <3>1, <3>2, <3>3 DEF RowFine, Terminal
    <3>5. GuestFine(r, guest[c])
      BY <1>0, <1>3, <1>7, <2>1, <3>1, <3>2, Here DEF GuestFine, GuestOutcomes
    <3> QED
      BY <3>4, <3>5
  <2>2. CASE Offer(c) # "start"
    BY <1>0, <1>3, <2>2, Here
  <2> QED
    BY <2>1, <2>2
<1>9. TaskFine(r, guest[c], task[c], {o})
  <2>1. Terminal(row[c]) => task[c] = NoTask
    BY <1>0, <1>1, OfferFacts
  <2>2. Offer(c) = "release" => Terminal(row[c])
    BY <1>0, <1>1, OfferFacts
  <2> QED
    BY <1>0, <1>4, <1>7, <2>1, <2>2, Here DEF TaskFine, NoTask
<1>10. ASSUME NEW d \in Commands PROVE FineNow(d)'
  <2>1. CASE d = c
    <3>1. row'[c] = r /\ OfferedTo(c)' = {o}
      BY <1>0, <1>2, <1>4, ZenonT(60) DEF CommandInv, TypeOK, OfferedTo
    <3>2. Fine(r, guest[c], task[c], cancelling[c], late[c], {o}, lease, machine.up)
      BY <1>1, <1>7, <1>8, <1>9 DEF Fine
    <3> QED
      BY <1>1, <2>1, <3>1, <3>2, ZenonT(60) DEF FineNow
  <2>2. CASE d # c
    <3>1. row'[d] = row[d] /\ OfferedTo(d)' = {} /\ OfferedTo(d) = {}
      BY <1>0, <1>1, <1>2, <1>4, <2>2 DEF CommandInv, TypeOK, OfferedTo
    <3> QED
      BY <1>1, <3>1, ZenonT(60) DEF FineNow, CommandInv
  <2> QED
    BY <2>1, <2>2
<1> QED
  BY <1>5, <1>6, <1>10 DEF CommandInv

(* claimNext ends the Commands whose secrets are gone.                     *)
LEMMA RefuseInv ==
  ASSUME CommandInv, ClaimNext, claim' = claim,
         row' = [c \in Commands |->
                   IF Offer(c) # "refuse" THEN row[c]
                   ELSE [row[c] EXCEPT !.status = "terminal", !.reason = "secret_unavailable"]]
  PROVE  CommandInv'
<1>1. machine.serving /\ UNCHANGED <<lease, machine, guest, task, cancelling, late, revoked, faults>>
  BY ZenonT(60) DEF ClaimNext
<1>2. ASSUME NEW c \in Commands
      PROVE  row'[c] \in Row /\ FineNow(c)'
  <2> DEFINE r == row'[c]
  <2>1. OfferedTo(c)' = OfferedTo(c)
    BY ZenonT(60) DEF OfferedTo
  <2>2. CASE Offer(c) # "refuse"
    <3>1. row'[c] = row[c]
      BY <2>2, ZenonT(60)
    <3> QED
      BY <1>1, <2>1, <3>1, Here, ZenonT(60) DEF FineNow, CommandInv
  <2>3. CASE Offer(c) = "refuse"
    <3>1. /\ r \in Row /\ r.epoch = row[c].epoch /\ r.reconciled = row[c].reconciled
          /\ r.status = "terminal" /\ r.final = row[c].final
      BY <2>3, Here, ZenonT(60) DEF Row
    <3>2. ~Bound(row[c]) /\ ~Terminal(row[c]) /\ ~row[c].reconciled
      BY <1>1, <2>3, OfferFacts, Here, ZenonT(60) DEF RowFine
    <3> HIDE DEF r
    <3>3. RowFine(r, lease) /\ GuestFine(r, guest[c])
      BY <3>1, <3>2, Here, ZenonT(60) DEF RowFine, GuestFine, Bound, Terminal
    <3>4. TaskFine(r, guest[c], task[c], OfferedTo(c))
      BY <3>2, Here, ZenonT(60) DEF TaskFine
    <3>5. Fine(r, guest[c], task[c], cancelling[c], late[c], OfferedTo(c), lease, machine.up)
      BY <3>1, <3>2, <3>3, <3>4, Here, ZenonT(60) DEF Fine, Bound
    <3> USE DEF r
    <3> QED
      BY <1>1, <2>1, <3>1, <3>5, ZenonT(60) DEF FineNow
  <2> QED
    BY <2>2, <2>3, ZenonT(60)
<1>3. row' \in [Commands -> Row]
  <2>1. row' = [c \in Commands |-> row'[c]]
    BY ZenonT(60)
  <2> QED
    BY <1>2, <2>1, ZenonT(60)
<1>4. TypeOK' /\ Powered'
  BY <1>1, <1>3, ZenonT(60) DEF CommandInv, TypeOK, Powered
<1> QED
  BY <1>2, <1>4, ZenonT(60) DEF CommandInv

(* The two outcomes of claimNext.                                          *)
LEMMA ClaimNextInv ==
  ASSUME CommandInv, ClaimNext
  PROVE  CommandInv'
  BY ClaimOneInv, RefuseInv, ZenonT(60) DEF ClaimNext

(* The worker receives the claim and starts the work it names.             *)
LEMMA DeliverInv ==
  ASSUME CommandInv, DeliverClaim
  PROVE  CommandInv'
<1>0. PICK o \in claim : LET c == o.command IN
        IF o.kind = "cancel" /\ task[c] # NoTask
        THEN cancelling' = [cancelling EXCEPT ![c] = "asking"] /\ UNCHANGED task
        ELSE /\ task' = [task EXCEPT ![c] = Request(o.kind)]
             /\ cancelling' = [cancelling EXCEPT ![c] = IF o.kind = "cancel" THEN "asked" ELSE @]
  BY DEF DeliverClaim
<1> DEFINE c == o.command
           t == IF o.kind = "cancel" /\ task[c] # NoTask THEN task[c] ELSE Request(o.kind)
           k == IF o.kind # "cancel" THEN cancelling[c] ELSE IF task[c] # NoTask THEN "asking" ELSE "asked"
<1>1. c \in Commands /\ o.kind \in Kinds /\ o \in OfferedTo(c)
  BY DEF CommandInv, TypeOK, Claim, OfferedTo
<1>2. claim' = {} /\ UNCHANGED <<row, lease, machine, guest, late, revoked, faults>>
  BY DEF DeliverClaim
<1>3. t \in Task /\ k \in Calls
  BY <1>1, Here, ZenonT(60) DEF Request, NoTask, Task, Calls
<1>4. task' = [task EXCEPT ![c] = t] /\ cancelling' = [cancelling EXCEPT ![c] = k]
  BY <1>0, <1>1 DEF CommandInv, TypeOK
<1>5. Spoken(task[c], cancelling[c], late[c], OfferedTo(c)) /\ ~row[c].reconciled
  <2>1. Spoken(task[c], cancelling[c], late[c], OfferedTo(c))
    BY <1>1 DEF Spoken
  <2> QED
    BY <1>1, <2>1, SpokenReconciled DEF Gone
<1>6. TaskFine(row[c], guest[c], t, {})
  <2>1. TaskFine(row[c], guest[c], task[c], {})
    BY <1>1, Here, ZenonT(60) DEF TaskFine
  <2>2. o.kind = "release" => Terminal(row[c])
    BY <1>1, Here, ZenonT(60) DEF TaskFine
  <2>3. TaskFine(row[c], guest[c], Request(o.kind), {})
    BY <1>1, <2>2, ZenonT(60) DEF TaskFine, Request, NoTask
  <2> QED
    BY <2>1, <2>3
<1> HIDE DEF t, k, c
<1>7. TypeOK' /\ Powered'
  BY <1>1, <1>2, <1>3, <1>4 DEF CommandInv, TypeOK, Powered, Calls
<1>8. ASSUME NEW d \in Commands PROVE FineNow(d)'
  <2>1. OfferedTo(d)' = {}
    BY <1>2 DEF OfferedTo
  <2>2. CASE d = c
    <3>1. task'[c] = t /\ cancelling'[c] = k
      BY <1>1, <1>4 DEF CommandInv, TypeOK
    <3>2. Fine(row[c], guest[c], t, k, late[c], {}, lease, machine.up)
      BY <1>1, <1>5, <1>6, Here, ZenonT(60) DEF Fine
    <3> QED
      BY <1>2, <2>1, <2>2, <3>1, <3>2, ZenonT(60) DEF FineNow
  <2>3. CASE d # c
    <3>1. task'[d] = task[d] /\ cancelling'[d] = cancelling[d]
      BY <1>1, <1>4, <2>3 DEF CommandInv, TypeOK
    <3> QED
      BY <1>2, <2>1, <3>1, Unclaimed, ZenonT(60) DEF FineNow
  <2> QED
    BY <2>2, <2>3
<1> QED
  BY <1>7, <1>8 DEF CommandInv

(* The answer of claimNext is lost.                                        *)
LEMMA ClaimFailsInv ==
  ASSUME CommandInv, ClaimFails
  PROVE  CommandInv'
<1>1. claim' = {} /\ UNCHANGED <<row, lease, machine, guest, task, cancelling, late, revoked>>
  BY DEF ClaimFails
<1>2. faults' \in 0..MaxFaults
  BY BoundAssumption DEF ClaimFails, CommandInv, TypeOK
<1>3. TypeOK' /\ Powered'
  BY <1>1, <1>2 DEF CommandInv, TypeOK, Powered
<1>4. ASSUME NEW d \in Commands PROVE FineNow(d)'
  <2>1. OfferedTo(d)' = {}
    BY <1>1 DEF OfferedTo
  <2> QED
    BY <1>1, <2>1, Unclaimed DEF FineNow
<1> QED
  BY <1>3, <1>4 DEF CommandInv

-----------------------------------------------------------------------------
(* Leases, VMs and captures.                                               *)

(* A lease that keeps its epoch and is not reopened by a fence.            *)
LEMMA LeaseStep ==
  ASSUME CommandInv, NEW le \in Lease, lease' = le, le.epoch = lease.epoch,
         lease.fenced => le.fenced,
         le.capture = "capturing" =>
             lease.capture = "capturing" \/ \A c \in Commands : Bound(row[c]) => row[c].reconciled,
         faults' \in 0..MaxFaults, machine' \in Machine, machine'.up = machine.up, Powered',
         UNCHANGED <<row, guest, task, cancelling, claim, late, revoked>>
  PROVE  CommandInv'
<1>1. TypeOK'
  BY DEF CommandInv, TypeOK
<1>2. ASSUME NEW d \in Commands PROVE FineNow(d)'
  <2>1. OfferedTo(d)' = OfferedTo(d)
    BY DEF OfferedTo
  <2>2. RowFine(row[d], le)
    BY Here, ZenonT(60) DEF RowFine
  <2>3. Fine(row[d], guest[d], task[d], cancelling[d], late[d], OfferedTo(d), le, machine.up)
    BY <2>2, Here, ZenonT(60) DEF Fine
  <2> QED
    BY <2>1, <2>3, ZenonT(60) DEF FineNow
<1> QED
  BY <1>1, <1>2 DEF CommandInv

(* A lease of the next epoch is allocated, once the last one is fenced.    *)
LEMMA AllocateInv ==
  ASSUME CommandInv, AllocateLease
  PROVE  CommandInv'
<1> DEFINE n == lease.epoch + 1
<1>1. lease.fenced /\ n \in 0..MaxLeases /\ lease.epoch \in Nat /\ n > lease.epoch /\ n # 0
  BY BoundAssumption DEF AllocateLease, CommandInv, TypeOK, Lease
<1>2. /\ lease' = [epoch |-> n, expired |-> FALSE, fenced |-> FALSE, capture |-> "none"]
      /\ machine' = [up |-> TRUE, serving |-> TRUE, sealed |-> FALSE, recovery |-> FALSE]
      /\ UNCHANGED <<row, guest, task, cancelling, claim, late, revoked, faults>>
  BY DEF AllocateLease
<1> HIDE DEF n
<1>3. TypeOK'
  BY <1>1, <1>2, ZenonT(60) DEF CommandInv, TypeOK, Lease, Machine
<1>4. Powered'
  BY <1>1, <1>2 DEF Powered
<1>5. ASSUME NEW d \in Commands PROVE FineNow(d)'
  <2>1. OfferedTo(d)' = OfferedTo(d) /\ machine'.up
    BY <1>2 DEF OfferedTo
  <2>2. ~Spoken(task[d], cancelling[d], late[d], OfferedTo(d))
    BY <1>1, Here, ZenonT(60) DEF CommandInv, Powered
  <2>3. row[d].epoch \in Nat /\ row[d].epoch <= lease.epoch
    BY HereRow
  <2>4. row[d].epoch < lease'.epoch /\ row[d].epoch <= lease'.epoch /\ lease'.capture = "none"
    BY <1>1, <1>2, <2>3
  <2>5. RowFine(row[d], lease')
    BY <2>4, Here, ZenonT(60) DEF RowFine
  <2>6. Fine(row[d], guest[d], task[d], cancelling[d], late[d], OfferedTo(d), lease', TRUE)
    BY <2>2, <2>4, <2>5, Here, ZenonT(60) DEF Fine
  <2> QED
    BY <1>2, <2>1, <2>6, ZenonT(60) DEF FineNow
<1> QED
  BY <1>3, <1>4, <1>5 DEF CommandInv

(* The lease runs out, its VM still up.                                    *)
LEMMA LeaseExpiresInv ==
  ASSUME CommandInv, LeaseExpires
  PROVE  CommandInv'
<1> DEFINE le == [lease EXCEPT !.expired = TRUE]
<1>1. le \in Lease /\ le.epoch = lease.epoch /\ le.fenced = lease.fenced /\ le.capture = lease.capture
  BY ZenonT(60) DEF CommandInv, TypeOK, Lease
<1>2. lease' = le /\ UNCHANGED <<row, machine, guest, task, cancelling, claim, late, revoked>>
  BY DEF LeaseExpires
<1>3. faults' \in 0..MaxFaults
  BY BoundAssumption DEF LeaseExpires, CommandInv, TypeOK
<1> HIDE DEF le
<1>4. machine' \in Machine /\ machine'.up = machine.up /\ Powered'
  BY <1>1, <1>2 DEF CommandInv, TypeOK, Powered
<1> QED
  BY <1>1, <1>2, <1>3, <1>4, LeaseStep

(* The VM goes: every process, task, call and late request goes with it.   *)
LEMMA PowerOffInv ==
  ASSUME CommandInv, PowerOff, faults' \in 0..MaxFaults
  PROVE  CommandInv'
<1>1. /\ claim' = {} /\ UNCHANGED <<row, lease, guest, revoked>>
      /\ \A d \in Commands : task'[d] = NoTask /\ cancelling'[d] = "none" /\ late'[d] = {}
  BY DEF PowerOff
<1>2. machine' \in Machine /\ ~machine'.up /\ ~machine'.serving /\ ~machine'.sealed
  BY ZenonT(60) DEF PowerOff, CommandInv, TypeOK, Machine
<1>3. TypeOK'
  <2>1. task' \in [Commands -> Task] /\ cancelling' \in [Commands -> Calls] /\ late' \in [Commands -> SUBSET Late]
    BY DEF PowerOff, NoTask, Task, Calls
  <2> QED
    BY <1>1, <1>2, <2>1 DEF CommandInv, TypeOK, Calls
<1>4. Powered'
  BY <1>1, <1>2 DEF CommandInv, Powered
<1>5. ASSUME NEW d \in Commands PROVE FineNow(d)'
  <2>1. OfferedTo(d)' = {}
    BY <1>1 DEF OfferedTo
  <2>2. ~Spoken(NoTask, "none", {}, {})
    BY DEF Spoken
  <2>3. Fine(row[d], guest[d], NoTask, "none", {}, {}, lease, machine.up)
    BY <2>2, Hushed, ZenonT(60)
  <2>4. Fine(row[d], guest[d], NoTask, "none", {}, {}, lease, machine'.up)
    BY <2>2, <2>3, ZenonT(60) DEF Fine
  <2> QED
    BY <1>1, <2>1, <2>4 DEF FineNow
<1> QED
  BY <1>3, <1>4, <1>5 DEF CommandInv

(* The VM is stopped, or crashes.                                          *)
LEMMA MachineInv ==
  ASSUME CommandInv, MachineStops \/ MachineCrashes
  PROVE  CommandInv'
<1>1. PowerOff /\ faults' \in 0..MaxFaults
  BY BoundAssumption DEF MachineStops, MachineCrashes, CommandInv, TypeOK
<1> QED
  BY <1>1, PowerOffInv

(* The stop of the lease's VM is recorded: the lease is fenced.            *)
LEMMA ObserveStoppedInv ==
  ASSUME CommandInv, ObserveLeaseStopped
  PROVE  CommandInv'
<1> DEFINE le == [lease EXCEPT !.fenced = TRUE, !.capture = "none"]
<1>1. le \in Lease /\ le.epoch = lease.epoch /\ le.fenced /\ le.capture = "none"
  BY ZenonT(60) DEF CommandInv, TypeOK, Lease
<1>2. /\ lease' = le /\ ~machine.up
      /\ UNCHANGED <<row, machine, guest, task, cancelling, claim, late, revoked, faults>>
  BY DEF ObserveLeaseStopped
<1> HIDE DEF le
<1>3. machine' \in Machine /\ machine'.up = machine.up /\ Powered' /\ faults' \in 0..MaxFaults
  BY <1>1, <1>2 DEF CommandInv, TypeOK, Powered
<1> QED
  BY <1>1, <1>2, <1>3, LeaseStep

(* The steps of a capture, which begins with every bound Command           *)
(* reconciled.                                                             *)
LEMMA CaptureInv ==
  ASSUME CommandInv, Capture
  PROVE  CommandInv'
<1>0. lease \in Lease /\ machine \in Machine
  BY DEF CommandInv, TypeOK
<1>1. CASE BeginCapture
  <2> DEFINE le == [lease EXCEPT !.capture = "capturing"]
  <2>1. le \in Lease /\ le.epoch = lease.epoch /\ le.fenced = lease.fenced
    BY <1>0 DEF Lease
  <2>2. /\ lease' = le /\ ~lease.fenced /\ \A c \in Commands : Bound(row[c]) => row[c].reconciled
        /\ UNCHANGED <<row, machine, guest, task, cancelling, claim, late, revoked, faults>>
    BY <1>1 DEF BeginCapture, Busy, ProducerStillAuthorized
  <2>3. lease'.capture = "capturing"
    BY <1>0, <2>2 DEF Lease
  <2> HIDE DEF le
  <2>4. machine' \in Machine /\ machine'.up = machine.up /\ Powered' /\ faults' \in 0..MaxFaults
    BY <2>1, <2>2, <2>3 DEF CommandInv, TypeOK, Powered
  <2> QED
    BY <2>1, <2>2, <2>4, LeaseStep
<1>2. CASE SealCapture \/ ActivateCapture
  <2>1. PICK b \in BOOLEAN : /\ machine' = [machine EXCEPT !.sealed = b]
                             /\ b => lease.capture = "capturing"
    BY <1>2, ZenonT(60) DEF SealCapture, ActivateCapture
  <2>2. machine.serving /\ UNCHANGED <<row, lease, guest, task, cancelling, claim, late, revoked, faults>>
    BY <1>2 DEF SealCapture, ActivateCapture
  <2>3. /\ machine' \in Machine /\ machine'.up = machine.up /\ machine'.serving = machine.serving
        /\ machine'.sealed = b
    BY <1>0, <2>1 DEF Machine
  <2>4. Powered' /\ faults' \in 0..MaxFaults
    BY <2>1, <2>2, <2>3 DEF CommandInv, TypeOK, Powered
  <2> QED
    BY <1>0, <2>2, <2>3, <2>4, LeaseStep
<1>3. CASE CloseCapture
  <2> DEFINE le == [lease EXCEPT !.capture = "none"]
  <2>1. le \in Lease /\ le.epoch = lease.epoch /\ le.fenced = lease.fenced /\ le.capture = "none"
    BY <1>0 DEF Lease
  <2>2. /\ lease' = le /\ ~machine.sealed
        /\ UNCHANGED <<row, machine, guest, task, cancelling, claim, late, revoked, faults>>
    BY <1>3 DEF CloseCapture
  <2> HIDE DEF le
  <2>3. machine' \in Machine /\ machine'.up = machine.up /\ Powered' /\ faults' \in 0..MaxFaults
    BY <2>1, <2>2 DEF CommandInv, TypeOK, Powered
  <2> QED
    BY <2>1, <2>2, <2>3, LeaseStep
<1> QED
  BY <1>1, <1>2, <1>3 DEF Capture

-----------------------------------------------------------------------------
(* No Command was created and no lease allocated.                          *)
LEMMA InitInv == Init => CommandInv
<1> SUFFICES ASSUME Init PROVE CommandInv
  OBVIOUS
<1>0. 0 \in 0..MaxLeases /\ 0 \in 0..MaxOutput /\ 0 \in Sequences /\ 0 \in 0..MaxFaults
  BY BoundAssumption DEF Sequences
<1>1. TypeOK
  <2>1. row \in [Commands -> Row]
    BY <1>0, ZenonT(60) DEF Init, Row
  <2>2. guest \in [Commands -> Execution] /\ task \in [Commands -> Task]
    BY <1>0, ZenonT(60) DEF Init, Execution, Task, NoExecution, NoTask
  <2>3. lease \in Lease /\ machine \in Machine
    BY <1>0, ZenonT(60) DEF Init, Lease, Machine
  <2> QED
    BY <1>0, <2>1, <2>2, <2>3, ZenonT(60) DEF Init, TypeOK
<1>2. Powered
  BY ZenonT(60) DEF Init, Powered
<1>3. ASSUME NEW c \in Commands PROVE FineNow(c)
  <2>1. OfferedTo(c) = {}
    BY ZenonT(60) DEF Init, OfferedTo
  <2>2. /\ row[c].status = "none" /\ row[c].epoch = 0 /\ ~row[c].reconciled /\ row[c].reason = "none"
        /\ row[c].final = 0 /\ lease.epoch = 0 /\ lease.capture = "none"
        /\ guest[c] = NoExecution /\ task[c] = NoTask /\ cancelling[c] = "none" /\ late[c] = {}
    BY ZenonT(60) DEF Init
  <2>3. RowFine(row[c], lease)
    BY <2>2 DEF RowFine, Bound
  <2>4. GuestFine(row[c], guest[c]) /\ TaskFine(row[c], guest[c], task[c], {})
    <3>1. GuestFine(row[c], guest[c])
      BY <2>2, SMTT(30) DEF GuestFine, NoExecution, GuestOutcomes
    <3>2. TaskFine(row[c], guest[c], task[c], {})
      BY <2>2, SMTT(30) DEF TaskFine, NoTask
    <3> QED
      BY <3>1, <3>2
  <2>5. ~Spoken(task[c], cancelling[c], late[c], {})
    BY <2>2 DEF Spoken
  <2> QED
    BY <2>1, <2>2, <2>3, <2>4, <2>5, ZenonT(60) DEF FineNow, Fine
<1> QED
  BY <1>1, <1>2, <1>3 DEF CommandInv

(* The invariant is one of the variables alone.                            *)
LEMMA StutterInv == CommandInv /\ UNCHANGED vars => CommandInv'
<1> SUFFICES ASSUME CommandInv, UNCHANGED vars PROVE CommandInv'
  OBVIOUS
<1>1. TypeOK' /\ Powered'
  BY DEF vars, CommandInv, TypeOK, Powered
<1>2. ASSUME NEW c \in Commands PROVE FineNow(c)'
  <2>1. OfferedTo(c)' = OfferedTo(c)
    BY DEF vars, OfferedTo
  <2> QED
    BY <2>1, ZenonT(60) DEF vars, CommandInv, FineNow
<1> QED
  BY <1>1, <1>2 DEF CommandInv

(* Every step keeps the invariant.                                         *)
LEMMA NextInv == CommandInv /\ Next => CommandInv'
<1> SUFFICES ASSUME CommandInv, Next PROVE CommandInv'
  OBVIOUS
<1>1. ASSUME NEW c \in Commands, Submit(c) \/ Settle(c) PROVE CommandInv'
  BY <1>1, CreateInv, CancelInv, FailPendingInv, RecoverInv DEF Submit, Settle
<1>2. ASSUME NEW c \in Commands, Collect(c) PROVE CommandInv'
  BY <1>2, ReapTaskInv, ReapCancellationInv DEF Collect
<1>3. ASSUME NEW c \in Commands, Guest(c) \/ Process(c) PROVE CommandInv'
  BY <1>3, StartsInv, CancelsInv, ReleasesInv, WritesInv, EndsInv DEF Guest, Process
<1>4. ASSUME NEW c \in Commands, Stream(c) PROVE CommandInv'
  BY <1>4, SendInv, AppendInv, AcknowledgeInv, ReceiveInv, CompleteInv, FinishInv,
     CompleteAgainInv, ReconcileInv DEF Stream
<1>5. ASSUME NEW c \in Commands, Break(c) PROVE CommandInv'
  BY <1>5, StreamBreaksInv, CancellationBreaksInv, LateArrivesInv DEF Break
<1>6. CASE RevokeSecret
  <2>1. TypeOK' /\ Powered'
    BY <1>6 DEF RevokeSecret, CommandInv, TypeOK, Powered
  <2>2. ASSUME NEW c \in Commands PROVE FineNow(c)'
    <3>1. OfferedTo(c)' = OfferedTo(c)
      BY <1>6 DEF RevokeSecret, OfferedTo
    <3> QED
      BY <1>6, <3>1 DEF RevokeSecret, CommandInv, FineNow
  <2> QED
    BY <2>1, <2>2 DEF CommandInv
<1>7. CASE Loop
  BY <1>7, ClaimNextInv, DeliverInv, ClaimFailsInv DEF Loop
<1>8. CASE Leases
  BY <1>8, AllocateInv, LeaseExpiresInv, MachineInv, ObserveStoppedInv DEF Leases
<1>9. CASE Capture
  BY <1>9, CaptureInv
<1> QED
  BY <1>1, <1>2, <1>3, <1>4, <1>5, <1>6, <1>7, <1>8, <1>9 DEF Next

(* CommandInv holds in every reachable state.                              *)
THEOREM CommandInvariant == Spec => []CommandInv
<1>1. CommandInv /\ [Next]_vars => CommandInv'
  BY NextInv, StutterInv
<1> QED
  BY <1>1, InitInv, PTL DEF Spec

(* Every record stays within its type: output sequences within MaxOutput   *)
(* and its end record, epochs within the leases, one claim at a time.      *)
THEOREM TypeCorrect == Spec => []TypeOK
<1>1. CommandInv => TypeOK
  BY DEF CommandInv
<1> QED
  BY <1>1, CommandInvariant, PTL

(* startComputerBasicExec launches a Command's process at most once, and   *)
(* only for a row claimNext bound to a lease.                              *)
THEOREM Launched1 == Spec => []LaunchedOnce
<1>1. CommandInv => LaunchedOnce
  <2> SUFFICES ASSUME CommandInv, NEW c \in Commands
               PROVE  guest[c].runs <= IF Bound(row[c]) THEN 1 ELSE 0
    BY DEF LaunchedOnce
  <2> QED
    BY HereGuest DEF GuestFine, NoExecution
<1> QED
  BY <1>1, CommandInvariant, PTL

(* A completion applied to a commands row is the one guestd retained.      *)
THEOREM ResultTrue == Spec => []ResultIsTrue
<1>1. CommandInv => ResultIsTrue
  BY Here, ZenonT(60) DEF ResultIsTrue, GuestFine
<1> QED
  BY <1>1, CommandInvariant, PTL

(* A process that executes is one of the row's lease, which is not fenced. *)
LEMMA ExecutingLease ==
  ASSUME CommandInv, NEW c \in Commands, Executing(c)
  PROVE  Bound(row[c]) /\ row[c].epoch = lease.epoch /\ ~lease.fenced
<1>1. machine.up /\ guest[c].epoch = lease.epoch /\ guest[c].state = "running"
  BY ZenonT(60) DEF Executing, Retained
<1>2. GuestFine(row[c], guest[c])
  BY Here, ZenonT(60)
<1>3. Bound(row[c]) /\ guest[c].epoch = row[c].epoch
  BY <1>1, <1>2, ZenonT(60) DEF GuestFine
<1>4. ~lease.fenced
  BY <1>1 DEF CommandInv, Powered
<1> QED
  BY <1>1, <1>3, <1>4, ZenonT(60)

(* process_reconciled_at is only set once the process is gone.             *)
THEOREM ReconciledGone == Spec => []ReconciledIsGone
<1>1. CommandInv => ReconciledIsGone
  <2> SUFFICES ASSUME CommandInv, NEW c \in Commands, row[c].reconciled
               PROVE  /\ ~Executing(c)
                      /\ \/ row[c].epoch < lease.epoch \/ lease.fenced
                         \/ CommandOutputSettled(row[c]) /\ guest[c].state = "released"
    BY DEF ReconciledIsGone
  <2>1. \/ row[c].epoch < lease.epoch \/ lease.fenced
        \/ CommandOutputSettled(row[c]) /\ guest[c].state = "released"
    BY Here, ZenonT(60) DEF Gone
  <2>2. Executing(c) => row[c].epoch = lease.epoch /\ ~lease.fenced
    BY ExecutingLease
  <2>3. row[c].epoch \in Int
    BY HereRow
  <2> QED
    BY <2>1, <2>2, <2>3 DEF Executing
<1> QED
  BY <1>1, CommandInvariant, PTL

(* A sealed guestd runs no process and has no request coming to start one. *)
THEOREM SealedQuiet == Spec => []SealedIsQuiet
<1>1. CommandInv => SealedIsQuiet
  <2> SUFFICES ASSUME CommandInv, machine.sealed, NEW c \in Commands
               PROVE  ~Executing(c) /\ task[c].stage # "requested"
    BY DEF SealedIsQuiet
  <2>1. lease.capture = "capturing"
    BY DEF CommandInv, Powered
  <2>2. task[c].stage # "requested"
    BY <2>1, Working, Here, ZenonT(60) DEF RowFine
  <2>3. Executing(c) => Bound(row[c]) /\ row[c].epoch = lease.epoch /\ ~lease.fenced
    BY ExecutingLease
  <2>4. row[c].epoch \in Int
    BY HereRow
  <2>5. ~Executing(c)
    <3>0. Executing(c) => ~(row[c].epoch < lease.epoch) /\ ~lease.fenced
      BY <2>3, <2>4
    <3>1. row[c].reconciled /\ Executing(c) => Gone(row[c], guest[c], task[c], OfferedTo(c))
      BY <3>0, Here, ZenonT(60)
    <3>2. Bound(row[c]) => row[c].reconciled
      BY <2>1, HereRow DEF RowFine
    <3> QED
      BY <2>3, <3>1, <3>2 DEF Gone, Executing
  <2> QED
    BY <2>2, <2>5
<1> QED
  BY <1>1, CommandInvariant, PTL

=============================================================================
