----------------------------- MODULE TurnQueue -----------------------------
(***************************************************************************)
(* What Helmr promises about the Turns of a Session, without processes,    *)
(* leases or holds: Turns are admitted in order, start in that order, one  *)
(* at a time, each at most once, and never change after they settle. A     *)
(* handler that was told to stop may outlive its Turn, but no Turn starts  *)
(* while the handler of an earlier one is still executing.                 *)
(***************************************************************************)
EXTENDS Integers

CONSTANTS Sessions, MaxTurns

VARIABLES
    status,     \* status[s][n]: the n-th Turn of Session s
    executing   \* executing[s]: the Turn whose handler may be executing, or 0

queueVars == <<status, executing>>

Ids == 1..MaxTurns
Live == {"queued", "running"}
Settled == {"completed", "failed", "interrupted", "cancelled"}

QueueInit ==
    /\ status = [s \in Sessions |-> [n \in Ids |-> "none"]]
    /\ executing = [s \in Sessions |-> 0]

\* The next Turn of the Session enters the queue.
Admit(s, n) ==
    /\ status[s][n] = "none"
    /\ \A m \in Ids : m < n => status[s][m] # "none"
    /\ status' = [status EXCEPT ![s][n] = "queued"]
    /\ UNCHANGED executing

\* Only the oldest unsettled Turn starts, after every handler before it ended.
Start(s, n) ==
    /\ status[s][n] = "queued"
    /\ \A m \in Ids : m < n => status[s][m] \in Settled
    /\ executing[s] = 0
    /\ status' = [status EXCEPT ![s][n] = "running"]
    /\ executing' = [executing EXCEPT ![s] = n]

\* One transaction may settle Turns of several Sessions and learn that some
\* handlers ended. A Turn that never started is never completed.
Settle ==
    /\ status' \in [Sessions -> [Ids -> Live \cup Settled \cup {"none"}]]
    /\ executing' \in [Sessions -> Ids \cup {0}]
    /\ \A s \in Sessions :
        /\ \A n \in Ids : \/ status'[s][n] = status[s][n]
                          \/ /\ status[s][n] \in Live
                             /\ status'[s][n] \in Settled
                             /\ status'[s][n] = "completed" => status[s][n] = "running"
        /\ executing'[s] \in {executing[s], 0}
        /\ \A n \in Ids : status'[s][n] = "running" => executing'[s] = n

QueueNext ==
    \/ \E s \in Sessions, n \in Ids : Admit(s, n) \/ Start(s, n)
    \/ Settle

QueueSpec == QueueInit /\ [][QueueNext]_queueVars

QueueTypeOK ==
    /\ status \in [Sessions -> [Ids -> Live \cup Settled \cup {"none"}]]
    /\ executing \in [Sessions -> Ids \cup {0}]

\* At most one Turn of a Session runs, and it is the one whose handler executes.
OneRunning ==
    \A s \in Sessions, n \in Ids : status[s][n] = "running" => executing[s] = n

\* No Turn has started while an earlier one still waits: what runs is older
\* than everything queued, and admission leaves no gaps.
InOrder ==
    \A s \in Sessions, m, n \in Ids : m < n =>
        /\ status[s][n] # "none" => status[s][m] # "none"
        /\ status[s][n] = "running" => status[s][m] \in Settled
=============================================================================
