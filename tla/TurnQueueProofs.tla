-------------------------- MODULE TurnQueueProofs --------------------------
(***************************************************************************)
(* The guarantees of TurnQueue for any set of Sessions and any number of   *)
(* Turns. InOrder is not inductive alone: Start needs that no other Turn   *)
(* of the Session is running, which OneRunning gives through executing.    *)
(***************************************************************************)
EXTENDS TurnQueue, TLAPS

QueueInv == QueueTypeOK /\ OneRunning /\ InOrder

\* One admission keeps the order: it appends after every admitted Turn.
LEMMA AdmitKeeps ==
    ASSUME MaxTurns \in Nat, QueueInv, NEW s \in Sessions, NEW n \in Ids, Admit(s, n)
    PROVE  QueueInv'
<1> USE DEF Ids, Live, Settled
<1>1. QueueTypeOK'
    BY DEF QueueInv, QueueTypeOK, Admit
<1>2. \A t \in Sessions, m \in Ids : status'[t][m] =
          IF t = s /\ m = n THEN "queued" ELSE status[t][m]
    BY DEF QueueInv, QueueTypeOK, Admit
<1>3. OneRunning'
    BY <1>2 DEF QueueInv, OneRunning, Admit
<1>4. InOrder'
    BY <1>2 DEF QueueInv, InOrder, Admit
<1> QED BY <1>1, <1>3, <1>4 DEF QueueInv

\* Starting the oldest unsettled Turn keeps both guarantees.
LEMMA StartKeeps ==
    ASSUME MaxTurns \in Nat, QueueInv, NEW s \in Sessions, NEW n \in Ids, Start(s, n)
    PROVE  QueueInv'
<1> USE DEF Ids, Live, Settled
<1>1. QueueTypeOK'
    BY DEF QueueInv, QueueTypeOK, Start
<1>2. \A t \in Sessions, m \in Ids : status'[t][m] =
          IF t = s /\ m = n THEN "running" ELSE status[t][m]
    BY DEF QueueInv, QueueTypeOK, Start
<1>3. \A t \in Sessions : executing'[t] = IF t = s THEN n ELSE executing[t]
    BY DEF QueueInv, QueueTypeOK, Start
<1>4. \A m \in Ids : status[s][m] # "running"
    BY DEF QueueInv, OneRunning, Start
<1>5. OneRunning'
    BY <1>2, <1>3, <1>4 DEF QueueInv, OneRunning
<1>6. InOrder'
    BY <1>2, <1>4 DEF QueueInv, InOrder, Start
<1> QED BY <1>1, <1>5, <1>6 DEF QueueInv

\* Settling any set of Turns keeps both guarantees.
LEMMA SettleKeeps ==
    ASSUME MaxTurns \in Nat, QueueInv, Settle
    PROVE  QueueInv'
<1>1. QueueTypeOK'
    BY DEF Settle, QueueTypeOK
<1>2. OneRunning'
    BY DEF Settle, OneRunning
<1>3. InOrder'
    BY DEF QueueInv, InOrder, Settle, Live, Settled, Ids
<1> QED BY <1>1, <1>2, <1>3 DEF QueueInv

\* In every behaviour of TurnQueue at most one Turn of a Session runs, it is
\* the one whose handler executes, and nothing overtakes an earlier Turn: what
\* a caller of Enqueue may rely on.
THEOREM QueueGuarantees ==
    ASSUME MaxTurns \in Nat
    PROVE  QueueSpec => [](OneRunning /\ InOrder)
<1>1. QueueInit => QueueInv
    BY DEF QueueInit, QueueInv, QueueTypeOK, OneRunning, InOrder, Ids, Live, Settled
<1>2. QueueInv /\ [QueueNext]_queueVars => QueueInv'
    <2> SUFFICES ASSUME QueueInv, [QueueNext]_queueVars PROVE QueueInv'
        OBVIOUS
    <2>1. CASE UNCHANGED queueVars
        BY <2>1 DEF QueueInv, QueueTypeOK, OneRunning, InOrder, queueVars
    <2>2. CASE QueueNext
        BY <2>2, AdmitKeeps, StartKeeps, SettleKeeps DEF QueueNext
    <2> QED BY <2>1, <2>2
<1>3. QueueInv => OneRunning /\ InOrder
    BY DEF QueueInv
<1> QED BY <1>1, <1>2, <1>3, PTL DEF QueueSpec
=============================================================================
