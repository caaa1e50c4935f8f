----------------------- MODULE WorkerHostStepProofs ------------------------
(***************************************************************************)
(* A fenced lease has no VM, a Computer has one VM and a host offered for  *)
(* termination holds nothing, for any number of machines, Computers, hosts,*)
(* leases, restarts and late requests.                                     *)
(*                                                                         *)
(* FencedIsGone is not inductive: a stop is recorded by four handlers, two *)
(* of which may act for a process that is dead. HostInv adds what each of  *)
(* them relies on: an owner belongs to the process of its lease's epoch, a *)
(* process that recovered left only quarantined VMs, a terminated machine  *)
(* has none, and a late request speaks of leases nobody can own any more.  *)
(*                                                                         *)
(* The steps come in few shapes. What handlers do to rows is RowsStep; one *)
(* lemma per shape of the machine's part shows that HostInv is kept, and   *)
(* the actions are then shown to have one of these shapes: those of a      *)
(* machine's process here, the others in WorkerHostProofs.                 *)
(***************************************************************************)
EXTENDS WorkerHost, TLAPS

Phases == {"down", "starting", "authenticated", "recovered", "reported", "running", "draining",
           "joined", "final", "finalized", "done"}
Owners == {"none", "claimed", "admitted", "booted", "serving", "closing", "stopped"}
Ops == {"enroll", "authenticate", "report", "activate", "complete", "stopped", "deliver"}
Groups == [status : Serving \cup {"disabled"}, claim : Nat, primary : BOOLEAN]
Leased == [computer : Computer, host : Nat, epoch : Nat,
           state : {"assigned", "delivered", "ready", "lost", "fenced"}]
Files == [host : Nat, serial : Nat]
Processes == [phase : Phases, service : Nat, retried : BOOLEAN, host : Nat, serial : Nat,
              claim : Nat, groupClaim : Nat, epoch : Nat, quarantine : SUBSET Nat]
Requests == [op : Ops, machine : Machine, p : Processes, file : Files, lease : Nat]

Joined(m) == proc[m].phase \notin {"down", "starting"}
Employing(m) == proc[m].phase \in {"running", "draining", "joined"}
Fenced(l) == leases[l].state = "fenced"
Executing(l) == own[l] \in {"admitted", "booted", "serving"}
Sent(r) == r.op \notin {"enroll", "authenticate"}

Typed ==
    /\ group \in Groups
    /\ hosts \in Seq(HostRows)
    /\ leases \in Seq(Leased) /\ Len(leases) <= MaxLeases
    /\ \A l \in DOMAIN leases : leases[l].host \in DOMAIN hosts
    /\ file \in [Machine -> Files] /\ proc \in [Machine -> Processes]
    /\ own \in [1..MaxLeases -> Owners]
    /\ vm \subseteq DOMAIN leases
    /\ late \subseteq Requests
    /\ starts \in Nat

(* The stored secret and the process name a row of their own machine.      *)
Placed ==
    \A m \in Machine :
        /\ file[m] # NoFile => file[m].host \in DOMAIN hosts /\ hosts[file[m].host].machine = m
        /\ Joined(m) =>
              /\ proc[m].host \in DOMAIN hosts /\ hosts[proc[m].host].machine = m
              /\ proc[m].epoch <= hosts[proc[m].host].epoch
              /\ file[m] # NoFile => file[m].host = proc[m].host

(* Epochs of leases and of late requests are not ahead of their row, nor   *)
(* of the process that has the row now.                                    *)
Dated ==
    /\ \A l \in DOMAIN leases : leases[l].epoch <= hosts[leases[l].host].epoch
    /\ \A r \in late : Sent(r) =>
          /\ r.p.host \in DOMAIN hosts /\ hosts[r.p.host].machine = r.machine
          /\ r.p.epoch <= hosts[r.p.host].epoch
          /\ Joined(r.machine) /\ proc[r.machine].host = r.p.host => r.p.epoch <= proc[r.machine].epoch

(* No row, late request or other process has the service id of a process   *)
(* that is starting.                                                       *)
Unseen ==
    /\ \A h \in DOMAIN hosts : hosts[h].service <= starts
    /\ \A m \in Machine : proc[m].service <= starts
    /\ \A r \in late : r.p.service <= starts
    /\ \A m \in Machine : proc[m].phase = "starting" =>
          /\ proc[m].service # 0
          /\ \A h \in DOMAIN hosts : hosts[h].service # proc[m].service
          /\ \A r \in late : r.p.service # proc[m].service
          /\ \A n \in Machine : n # m => proc[n].service # proc[m].service

(* An allocation owner is part of the working process of its lease's epoch.*)
Employed ==
    \A l \in 1..MaxLeases : own[l] # "none" =>
        /\ l \in DOMAIN leases /\ Employing(MachineOf(l))
        /\ leases[l].host = proc[MachineOf(l)].host /\ leases[l].epoch = proc[MachineOf(l)].epoch

(* Where a VM is known to be absent.                                       *)
Absent ==
    /\ \A l \in vm : own[l] # "stopped" /\ MachineOf(l) \in up
    /\ \A m \in Machine \ up : proc[m].phase = "down"
    /\ \A l \in vm : proc[MachineOf(l)].phase = "recovered" => l \in proc[MachineOf(l)].quarantine

(* A late recovery report speaks of leases of earlier epochs, which nobody *)
(* owns and whose VMs are quarantined if they exist.                       *)
LateReports ==
    \A r \in late : r.op = "report" =>
        \A l \in DOMAIN leases : leases[l].host = r.p.host /\ leases[l].epoch < r.p.epoch =>
            own[l] = "none" /\ (l \in vm => l \in r.p.quarantine)

(* A late stop report speaks of a lease whose VM is gone for good: only a  *)
(* process of the lease's epoch could own it again.                        *)
LateStops ==
    \A r \in late : r.op = "stopped" =>
        /\ r.lease \in DOMAIN leases
        /\ leases[r.lease].host = r.p.host /\ leases[r.lease].epoch = r.p.epoch
        /\ r.lease \notin vm
        /\ \/ Fenced(r.lease)
           \/ own[r.lease] = "stopped"
           \/ /\ own[r.lease] = "none"
              /\ Joined(r.machine) /\ proc[r.machine].host = r.p.host => r.p.epoch < proc[r.machine].epoch

(* A fenced lease is gone; a Computer has one unfenced lease, and a        *)
(* termination_ready row has none.                                         *)
Gone == \A l \in DOMAIN leases : Fenced(l) => l \notin vm /\ ~Executing(l)
Single ==
    \A k, l \in DOMAIN leases : k # l /\ ~Fenced(k) /\ ~Fenced(l) => leases[k].computer # leases[l].computer
Emptied == \A l \in DOMAIN leases : hosts[leases[l].host].status = "termination_ready" => Fenced(l)

HostInv ==
    /\ Typed /\ Placed /\ Dated /\ Unseen /\ Employed /\ Absent
    /\ LateReports /\ LateStops /\ Gone /\ Single /\ Emptied

(* What the provers need to know of sequences.                             *)
LEMMA ElementOfSeq ==
  ASSUME NEW S, NEW seq \in Seq(S), NEW n \in 1..Len(seq)
  PROVE  seq[n] \in S
  OBVIOUS

(* A sequence is a function on 1..Len.                                     *)
LEMMA LenProperties ==
  ASSUME NEW S, NEW seq \in Seq(S)
  PROVE  Len(seq) \in Nat /\ seq \in [1..Len(seq) -> S] /\ DOMAIN seq = 1..Len(seq)
  OBVIOUS

(* The empty sequence.                                                     *)
LEMMA EmptySeq ==
  ASSUME NEW S
  PROVE  << >> \in Seq(S) /\ Len(<< >>) = 0
  OBVIOUS

(* Append keeps what was there and adds one element.                       *)
LEMMA AppendProperties ==
  ASSUME NEW S, NEW seq \in Seq(S), NEW elt \in S
  PROVE  /\ Append(seq, elt) \in Seq(S) /\ Len(Append(seq, elt)) = Len(seq) + 1
         /\ \A i \in 1..Len(seq) : Append(seq, elt)[i] = seq[i]
         /\ Append(seq, elt)[Len(seq) + 1] = elt
  OBVIOUS

(* Replacing one element of a sequence.                                    *)
LEMMA ExceptSeq ==
  ASSUME NEW S, NEW seq \in Seq(S), NEW i \in 1..Len(seq), NEW e \in S
  PROVE  /\ [seq EXCEPT ![i] = e] \in Seq(S) /\ Len([seq EXCEPT ![i] = e]) = Len(seq)
         /\ \A j \in 1..Len(seq) : [seq EXCEPT ![i] = e][j] = IF j = i THEN e ELSE seq[j]
  OBVIOUS

(* A function on 1..n is a sequence.                                       *)
LEMMA FunctionIsSeq ==
  ASSUME NEW S, NEW n \in Nat, NEW f \in [1..n -> S]
  PROVE  f \in Seq(S) /\ Len(f) = n
  OBVIOUS

(* A number is not below itself.                                           *)
LEMMA Itself == \A a \in Nat : a <= a /\ ~(a < a)
  OBVIOUS

(* An epoch that is not ahead of a row is older than the row's next one.   *)
LEMMA Older ==
  ASSUME NEW a \in Nat, NEW b \in Nat, NEW c \in Nat, a <= b, b < c
  PROVE  a < c /\ a <= c
  OBVIOUS

(* A lease is not ahead of its row.                                        *)
LEMMA Level ==
  ASSUME NEW a \in Nat, NEW b \in Nat, NEW c \in Nat, a <= b, c >= b, a >= c
  PROVE  a = c
  OBVIOUS

(* An epoch and the next.                                                  *)
LEMMA Successor ==
  ASSUME NEW a \in Nat
  PROVE  a <= a /\ a < a + 1 /\ a + 1 \in Nat
  OBVIOUS

LEMMA BelowSuccessor ==
  ASSUME NEW a \in Nat, NEW b \in Nat, a <= b
  PROVE  a <= b + 1 /\ ~(b < a)
  OBVIOUS

(* Rows are numbered from 1.                                               *)
LEMMA NumberedFromOne ==
  ASSUME NEW n \in Nat, NEW h \in 1..n
  PROVE  h # 0
  OBVIOUS

(* No credential file names no row.                                        *)
LEMMA NoFileHost == NoFile.host = 0
  BY DEF NoFile

(* Epochs only grow.                                                       *)
LEMMA Between ==
  ASSUME NEW a \in Nat, NEW b \in Nat, NEW c \in Nat, a <= b, c >= b
  PROVE  a <= c
  OBVIOUS

-----------------------------------------------------------------------------
(* What every handler does to the rows: hosts and leases are only added,   *)
(* keep their identity and go forward, a lease is fenced only when it is   *)
(* gone, and no row gets the service id of a starting process, except from *)
(* the processes ms themselves.                                            *)
Advances(h) ==
    /\ hosts'[h].machine = hosts[h].machine
    /\ hosts'[h].epoch >= hosts[h].epoch /\ hosts'[h].claim >= hosts[h].claim
    /\ hosts[h].status = "draining" => hosts'[h].status \in {"draining", "termination_ready", "lost"}
    /\ hosts[h].status = "termination_ready" => hosts'[h].status \in {"termination_ready", "lost"}
    /\ hosts[h].status = "lost" => hosts'[h].status = "lost"

(* A row is ready for an epoch only once no earlier lease of it is open,   *)
(* and its claim moves past a drain only when the drain is completed.      *)
Follows(h, row) ==
    /\ row.ready => \/ hosts[h].ready /\ row.epoch = hosts[h].epoch
                    \/ \A l \in OnHost(h) : leases[l].epoch >= row.epoch
    /\ hosts[h].status = "draining" /\ row.status = "draining" => row.claim = hosts[h].claim
    /\ hosts[h].status = "draining" /\ row.status = "termination_ready" => row.claim = hosts[h].claim + 1
    /\ hosts[h].status = "termination_ready" /\ row.status = "termination_ready" => row.claim = hosts[h].claim

(* A row is added for a machine without a live row and without open leases.*)
Enlisted(h) ==
    /\ ~hosts'[h].ready
    /\ LiveRows(hosts'[h].machine) = {} /\ OnMachine(hosts'[h].machine) \cap Unfenced = {}
    /\ \A k \in DOMAIN hosts' \ DOMAIN hosts : k = h

HostsStep ==
    /\ hosts' \in Seq(HostRows)
    /\ \A h \in DOMAIN hosts : h \in DOMAIN hosts' /\ Advances(h) /\ Follows(h, hosts'[h])
    /\ \A h \in DOMAIN hosts' \ DOMAIN hosts : Enlisted(h)
    /\ \A l \in DOMAIN leases : hosts'[leases[l].host].status = "termination_ready" => Fenced(l)

Serviced(ms) ==
    \A h \in DOMAIN hosts' :
        /\ hosts'[h].service <= starts
        /\ \A n \in Machine \ ms : proc[n].phase = "starting" => hosts'[h].service # proc[n].service

LeasesStep ==
    /\ leases' \in Seq(Leased) /\ Len(leases') = Len(leases)
    /\ \A l \in DOMAIN leases :
          /\ leases'[l].computer = leases[l].computer
          /\ leases'[l].host = leases[l].host /\ leases'[l].epoch = leases[l].epoch
          /\ Fenced(l) => Fenced(l)'
          /\ Fenced(l)' => Fenced(l) \/ (l \notin vm /\ ~Executing(l))

RowsStep(ms) == group' \in Groups /\ HostsStep /\ Serviced(ms) /\ LeasesStep

(* What every step does to host rows and leases.                           *)
Onward == HostsStep /\ (LeasesStep \/ \E c \in Computer, h \in DOMAIN hosts : Allocate(c, h))

(* The facts about rows that the shape lemmas use.                         *)
LEMMA RowTypes ==
  ASSUME Typed
  PROVE  /\ \A l \in DOMAIN leases :
               /\ l \in 1..MaxLeases
               /\ leases[l].host \in DOMAIN hosts /\ leases[l].epoch \in Nat
               /\ MachineOf(l) \in Machine
         /\ \A h \in DOMAIN hosts :
               /\ hosts[h].machine \in Machine
               /\ hosts[h].epoch \in Nat /\ hosts[h].claim \in Nat /\ hosts[h].service \in Nat
<1>1. /\ DOMAIN leases = 1..Len(leases) /\ Len(leases) \in Nat
      /\ \A l \in DOMAIN leases : leases[l] \in Leased
  BY ElementOfSeq, LenProperties DEF Typed
<1>2. \A h \in DOMAIN hosts : hosts[h] \in HostRows
  BY ElementOfSeq, LenProperties DEF Typed
<1>3. \A h \in DOMAIN hosts : /\ hosts[h].machine \in Machine /\ hosts[h].epoch \in Nat
                              /\ hosts[h].claim \in Nat /\ hosts[h].service \in Nat
  BY <1>2 DEF HostRows
<1>4. \A l \in DOMAIN leases : l \in 1..MaxLeases /\ leases[l].epoch \in Nat
  BY <1>1, BoundAssumption DEF Typed, Leased
<1> QED
  BY <1>3, <1>4 DEF Typed, MachineOf

(* What no handler changes of a lease or a host row.                       *)
LEMMA RowsKept ==
  ASSUME Typed, NEW ms, RowsStep(ms)
  PROVE  /\ DOMAIN leases' = DOMAIN leases
         /\ \A l \in DOMAIN leases :
               /\ leases'[l].computer = leases[l].computer
               /\ leases'[l].host = leases[l].host /\ leases'[l].epoch = leases[l].epoch
               /\ MachineOf(l)' = MachineOf(l)
               /\ Fenced(l) => Fenced(l)'
               /\ Fenced(l)' => Fenced(l) \/ (l \notin vm /\ ~Executing(l))
         /\ \A h \in DOMAIN hosts :
               /\ h \in DOMAIN hosts' /\ hosts'[h].machine = hosts[h].machine
               /\ hosts'[h].epoch >= hosts[h].epoch /\ hosts'[h].epoch \in Nat
         /\ \A h \in DOMAIN hosts' : hosts'[h].service \in Nat
<1>1. DOMAIN leases' = DOMAIN leases
  BY LenProperties DEF Typed, RowsStep, LeasesStep
<1>2. \A h \in DOMAIN hosts' : hosts'[h] \in HostRows
  BY ElementOfSeq, LenProperties DEF RowsStep, HostsStep
<1>3. \A h \in DOMAIN hosts' : hosts'[h].service \in Nat /\ hosts'[h].epoch \in Nat
  BY <1>2 DEF HostRows
<1>4. \A h \in DOMAIN hosts : h \in DOMAIN hosts' /\ hosts'[h].machine = hosts[h].machine
                              /\ hosts'[h].epoch >= hosts[h].epoch
  BY DEF RowsStep, HostsStep, Advances
<1>5. \A l \in DOMAIN leases : leases'[l].host = leases[l].host /\ leases[l].host \in DOMAIN hosts
  BY DEF RowsStep, LeasesStep, Typed
<1>6. \A l \in DOMAIN leases : MachineOf(l)' = MachineOf(l)
  BY <1>4, <1>5 DEF MachineOf
<1> QED
  BY <1>1, <1>3, <1>4, <1>6 DEF RowsStep, LeasesStep

(* The types of processes, late requests and VMs.                          *)
LEMMA LocalTypes ==
  ASSUME Typed
  PROVE  /\ \A m \in Machine : proc[m].epoch \in Nat /\ proc[m].service \in Nat
         /\ \A r \in late : /\ r.machine \in Machine
                           /\ r.p.epoch \in Nat /\ r.p.service \in Nat
         /\ \A l \in vm : l \in DOMAIN leases
<1>1. \A m \in Machine : proc[m] \in Processes
  BY DEF Typed
<1>2. \A r \in late : r.machine \in Machine /\ r.p \in Processes
  BY DEF Typed, Requests
<1>3. \A l \in vm : l \in DOMAIN leases
  BY DEF Typed
<1> QED
  BY <1>1, <1>2, <1>3 DEF Processes

(* A step of rows leaves secrets, processes and late requests placed and   *)
(* dated as they were.                                                     *)
StillPlaced ==
    \A m \in Machine :
        /\ file[m] # NoFile => file[m].host \in DOMAIN hosts' /\ hosts'[file[m].host].machine = m
        /\ Joined(m) =>
              /\ proc[m].host \in DOMAIN hosts' /\ hosts'[proc[m].host].machine = m
              /\ proc[m].epoch <= hosts'[proc[m].host].epoch
              /\ file[m] # NoFile => file[m].host = proc[m].host

StillDated ==
    \A r \in late : Sent(r) =>
        /\ r.p.host \in DOMAIN hosts' /\ hosts'[r.p.host].machine = r.machine
        /\ r.p.epoch <= hosts'[r.p.host].epoch
        /\ Joined(r.machine) /\ proc[r.machine].host = r.p.host => r.p.epoch <= proc[r.machine].epoch

(* Rows keep their machine and their epochs grow.                          *)
LEMMA PlacesKept ==
  ASSUME HostInv, NEW ms, RowsStep(ms)
  PROVE  StillPlaced /\ StillDated
<1> USE DEF HostInv
<1>k. ASSUME NEW h \in DOMAIN hosts, NEW e \in Nat, e <= hosts[h].epoch
      PROVE  h \in DOMAIN hosts' /\ hosts'[h].machine = hosts[h].machine /\ e <= hosts'[h].epoch
  <2>1. /\ h \in DOMAIN hosts' /\ hosts'[h].machine = hosts[h].machine
        /\ hosts'[h].epoch >= hosts[h].epoch /\ hosts'[h].epoch \in Nat /\ hosts[h].epoch \in Nat
    BY RowsKept, RowTypes, ZenonT(60)
  <2> QED
    BY <2>1, <1>k, Between, ZenonT(60)
<1>1. StillPlaced
  <2> SUFFICES ASSUME NEW m \in Machine
               PROVE  /\ file[m] # NoFile => file[m].host \in DOMAIN hosts' /\ hosts'[file[m].host].machine = m
                      /\ Joined(m) =>
                            /\ proc[m].host \in DOMAIN hosts' /\ hosts'[proc[m].host].machine = m
                            /\ proc[m].epoch <= hosts'[proc[m].host].epoch
                            /\ file[m] # NoFile => file[m].host = proc[m].host
    BY DEF StillPlaced
  <2>1. file[m] # NoFile => file[m].host \in DOMAIN hosts' /\ hosts'[file[m].host].machine = m
    BY RowsKept, ZenonT(60) DEF Placed
  <2>2. Joined(m) => /\ proc[m].host \in DOMAIN hosts /\ hosts[proc[m].host].machine = m
                     /\ proc[m].epoch <= hosts[proc[m].host].epoch
                     /\ file[m] # NoFile => file[m].host = proc[m].host
    BY DEF Placed
  <2>3. proc[m].epoch \in Nat
    BY LocalTypes
  <2> QED
    BY <2>1, <2>2, <2>3, <1>k, ZenonT(60)
<1>2. StillDated
  <2> SUFFICES ASSUME NEW r \in late, Sent(r)
               PROVE  /\ r.p.host \in DOMAIN hosts' /\ hosts'[r.p.host].machine = r.machine
                      /\ r.p.epoch <= hosts'[r.p.host].epoch
                      /\ Joined(r.machine) /\ proc[r.machine].host = r.p.host
                           => r.p.epoch <= proc[r.machine].epoch
    BY DEF StillDated
  <2>1. /\ r.p.host \in DOMAIN hosts /\ hosts[r.p.host].machine = r.machine
        /\ r.p.epoch <= hosts[r.p.host].epoch
        /\ Joined(r.machine) /\ proc[r.machine].host = r.p.host => r.p.epoch <= proc[r.machine].epoch
    BY DEF Dated
  <2>2. r.p.epoch \in Nat
    BY LocalTypes
  <2> QED
    BY <2>1, <2>2, <1>k, ZenonT(60)
<1> QED
  BY <1>1, <1>2

(* The conjuncts about rows alone.                                         *)
LEMMA RowsInv ==
  ASSUME HostInv, NEW ms, RowsStep(ms)
  PROVE  /\ leases' \in Seq(Leased) /\ Len(leases') <= MaxLeases
         /\ \A l \in DOMAIN leases' : leases'[l].host \in DOMAIN hosts'
         /\ \A l \in DOMAIN leases' : leases'[l].epoch <= hosts'[leases'[l].host].epoch
         /\ Single' /\ Emptied'
<1> USE DEF HostInv
<1>1. leases' \in Seq(Leased) /\ Len(leases') <= MaxLeases
  BY DEF Typed, RowsStep, LeasesStep
<1>2. \A l \in DOMAIN leases' : leases'[l].host \in DOMAIN hosts'
  BY RowsKept, RowTypes
<1>3. \A l \in DOMAIN leases' : leases'[l].epoch <= hosts'[leases'[l].host].epoch
  BY RowsKept, RowTypes DEF Dated
<1>4. Single'
  BY RowsKept DEF Single
<1>5. Emptied'
  BY RowsKept DEF Emptied, RowsStep, HostsStep
<1> QED
  BY <1>1, <1>2, <1>3, <1>4, <1>5

-----------------------------------------------------------------------------
(* The handlers of the control plane are steps of rows.                    *)
LEMMA SameHosts ==
  ASSUME HostInv, NEW ms, hosts' = hosts
  PROVE  HostsStep /\ Serviced(ms)
<1>1. HostsStep
  <2>1. \A h \in DOMAIN hosts : Follows(h, hosts[h])
    BY DEF Follows
  <2> QED
    BY <2>1, RowTypes DEF HostInv, Typed, HostsStep, Advances, Emptied
<1> QED
  BY <1>1 DEF HostInv, Unseen, Serviced

(* Leaving the leases alone.                                               *)
LEMMA SameLeases ==
  ASSUME HostInv, leases' = leases
  PROVE  LeasesStep
BY DEF HostInv, Typed, LeasesStep, Fenced

(* Replacing one host row by one that is no earlier in its life.           *)
LEMMA UpdatedHost ==
  ASSUME HostInv, NEW ms, NEW h \in DOMAIN hosts, NEW row \in HostRows,
         hosts' = [hosts EXCEPT ![h] = row],
         row.machine = hosts[h].machine, row.epoch >= hosts[h].epoch, row.claim >= hosts[h].claim,
         hosts[h].status = "draining" => row.status \in {"draining", "termination_ready", "lost"},
         hosts[h].status = "termination_ready" => row.status \in {"termination_ready", "lost"},
         hosts[h].status = "lost" => row.status = "lost",
         row.status = "termination_ready" => hosts[h].status = "termination_ready" \/ OnHost(h) = {},
         Follows(h, row),
         row.service <= starts,
         \A n \in Machine \ ms : proc[n].phase = "starting" => row.service # proc[n].service
  PROVE  HostsStep /\ Serviced(ms)
<1> USE DEF HostInv
<1>1. hosts' \in Seq(HostRows) /\ DOMAIN hosts' = DOMAIN hosts
      /\ hosts'[h] = row /\ \A k \in DOMAIN hosts : k # h => hosts'[k] = hosts[k]
  BY ExceptSeq, LenProperties DEF Typed
<1>2. \A k \in DOMAIN hosts : Advances(k)
  BY <1>1, RowTypes DEF Advances
<1>3. \A l \in DOMAIN leases : hosts'[leases[l].host].status = "termination_ready" => Fenced(l)
  <2> SUFFICES ASSUME NEW l \in DOMAIN leases, hosts'[leases[l].host].status = "termination_ready"
               PROVE  Fenced(l)
    OBVIOUS
  <2>1. CASE leases[l].host = h
    BY <2>1, <1>1 DEF Emptied, OnHost, Unfenced, Fenced
  <2>2. CASE leases[l].host # h
    BY <2>2, <1>1, RowTypes DEF Emptied
  <2> QED
    BY <2>1, <2>2
<1>4. Serviced(ms)
  BY <1>1 DEF Unseen, Serviced
<1>5. ASSUME NEW k \in DOMAIN hosts
      PROVE  Follows(k, hosts'[k])
  <2>1. CASE k = h
    BY <2>1, <1>1
  <2>2. CASE k # h
    <3>1. hosts'[k] = hosts[k]
      BY <2>2, <1>1
    <3> QED
      BY <3>1 DEF Follows
  <2> QED
    BY <2>1, <2>2
<1> QED
  BY <1>1, <1>2, <1>3, <1>4, <1>5 DEF HostsStep

(* Moving one unfenced lease on, short of the fence.                       *)
LEMMA ChangedLease ==
  ASSUME HostInv, NEW l \in DOMAIN leases, NEW st \in {"delivered", "ready", "lost"},
         leases' = [leases EXCEPT ![l].state = st], ~Fenced(l)
  PROVE  LeasesStep
<1> USE DEF HostInv
<1> DEFINE e == [leases[l] EXCEPT !.state = st]
<1>1. \A k \in DOMAIN leases : leases[k] \in Leased
  BY ElementOfSeq, LenProperties DEF Typed
<1>2. /\ e \in Leased /\ e.computer = leases[l].computer /\ e.host = leases[l].host
      /\ e.epoch = leases[l].epoch /\ e.state # "fenced"
  BY <1>1 DEF Leased
<1>3. leases' = [leases EXCEPT ![l] = e]
  BY <1>1 DEF Leased
<1> HIDE DEF e
<1>4. /\ leases' \in Seq(Leased) /\ Len(leases') = Len(leases)
      /\ leases'[l] = e /\ \A k \in DOMAIN leases : k # l => leases'[k] = leases[k]
  <2>1. /\ leases \in Seq(Leased) /\ DOMAIN leases = 1..Len(leases) /\ l \in 1..Len(leases)
        /\ e \in Leased
    BY <1>2, LenProperties DEF Typed
  <2> QED
    BY <2>1, <1>3, ExceptSeq
<1> QED
  BY <1>2, <1>4 DEF LeasesStep, Fenced

(* Fencing leases whose VMs are gone.                                      *)
LEMMA StoppedLeases ==
  ASSUME HostInv, NEW ls, \A l \in ls : l \in DOMAIN leases => l \notin vm /\ ~Executing(l),
         leases' = Stopped(ls)
  PROVE  LeasesStep /\ \A l \in ls : l \in DOMAIN leases => Fenced(l)'
<1> USE DEF HostInv
<1>1. /\ DOMAIN leases = 1..Len(leases) /\ Len(leases) \in Nat
      /\ \A k \in DOMAIN leases : leases[k] \in Leased
  BY ElementOfSeq, LenProperties DEF Typed
<1>2. \A k \in DOMAIN leases :
         /\ leases'[k] \in Leased /\ leases'[k].computer = leases[k].computer
         /\ leases'[k].host = leases[k].host /\ leases'[k].epoch = leases[k].epoch
         /\ leases'[k].state = IF k \in ls THEN "fenced" ELSE leases[k].state
  BY <1>1 DEF Stopped, Leased
<1>3. leases' \in [1..Len(leases) -> Leased]
  BY <1>1, <1>2 DEF Stopped
<1>4. leases' \in Seq(Leased) /\ Len(leases') = Len(leases)
  BY <1>1, <1>3, FunctionIsSeq
<1> QED
  BY <1>2, <1>4 DEF LeasesStep, Fenced

(* EnrollHost adds a row or takes up the row of the machine.               *)
LEMMA EnrollRows ==
  ASSUME HostInv, NEW m \in Machine, Enrolls(m), EnrollHost(m)
  PROVE  /\ RowsStep({})
         /\ EnrolledRow(m) \in DOMAIN hosts' /\ hosts'[EnrolledRow(m)].machine = m
         /\ EnrolledRow(m) \in Nat /\ hosts'[EnrolledRow(m)].serial \in Nat
<1> USE DEF HostInv
<1>0. leases' = leases /\ group' = group /\ group \in Groups
  BY DEF EnrollHost, Typed
<1>l. LeasesStep
  BY <1>0, SameLeases
<1>d. /\ DOMAIN hosts = 1..Len(hosts) /\ Len(hosts) \in Nat /\ hosts \in Seq(HostRows)
      /\ \A h \in DOMAIN hosts : hosts[h] \in HostRows
  BY LenProperties, ElementOfSeq DEF Typed
<1>s. \A n \in Machine : proc[n].phase = "starting" => proc[n].service # 0
  BY DEF Unseen
<1>1. CASE LiveRows(m) = {}
  <2> DEFINE row == [machine |-> m, status |-> "registering", claim |-> 1,
                     epoch |-> 0, service |-> 0, ready |-> FALSE, seen |-> "none",
                     serial |-> 1, secretClaim |-> 1, revoked |-> FALSE]
  <2>1. row \in HostRows /\ row.machine = m /\ row.service = 0 /\ row.serial = 1 /\ row.ready = FALSE
    BY DEF HostRows, Live
  <2>2. hosts' = Append(hosts, row) /\ EnrolledRow(m) = Len(hosts) + 1
    BY <1>1 DEF EnrollHost, EnrolledRow
  <2> HIDE DEF row
  <2>3. /\ hosts' \in Seq(HostRows) /\ DOMAIN hosts' = DOMAIN hosts \cup {Len(hosts) + 1}
        /\ \A h \in DOMAIN hosts : hosts'[h] = hosts[h]
        /\ hosts'[Len(hosts) + 1] = row
    BY <2>1, <2>2, <1>d, AppendProperties, LenProperties
  <2>4. HostsStep
    <3>1. \A h \in DOMAIN hosts : Follows(h, hosts'[h])
      BY <2>3 DEF Follows
    <3>2. \A h \in DOMAIN hosts' \ DOMAIN hosts : Enlisted(h)
      BY <1>1, <2>1, <2>3 DEF Enlisted, Enrolls
    <3> QED
      BY <2>3, <3>1, <3>2, RowTypes DEF HostsStep, Advances, Emptied
  <2>5. Serviced({})
    BY <2>1, <2>3, <1>s DEF Serviced, Unseen, Typed
  <2> QED
    BY <2>1, <2>2, <2>3, <2>4, <2>5, <1>0, <1>l, <1>d DEF RowsStep
<1>2. CASE LiveRows(m) # {}
  <2> DEFINE h == EnrolledRow(m)
             c == hosts[h].claim + 1
             i == hosts[h].serial + 1
             row == [hosts[h] EXCEPT !.claim = c, !.service = 0, !.ready = FALSE, !.seen = "none",
                                     !.serial = i, !.secretClaim = c, !.revoked = FALSE]
  <2>1. h \in LiveRows(m)
    BY <1>2 DEF EnrolledRow
  <2>2. h \in DOMAIN hosts /\ hosts[h].machine = m /\ hosts[h].status = "registering" /\ h \in Nat
    BY <2>1, <1>d DEF LiveRows, Enrolls
  <2>4. hosts[h] \in HostRows
    BY <2>2, <1>d
  <2>3. hosts' = [hosts EXCEPT ![h] = row]
    BY <1>2, <2>2, <2>4 DEF EnrollHost, HostRows
  <2> HIDE DEF h
  <2>c. c \in Nat /\ i \in Nat /\ c >= hosts[h].claim
    BY <2>4 DEF HostRows
  <2> HIDE DEF c, i
  <2>5. /\ row \in HostRows /\ row.machine = hosts[h].machine /\ row.epoch = hosts[h].epoch
        /\ row.claim = c /\ row.status = hosts[h].status /\ row.service = 0
        /\ row.serial \in Nat /\ row.ready = FALSE
    BY <2>4, <2>c, ZenonT(60) DEF HostRows, Live
  <2> HIDE DEF row
  <2>6. HostsStep /\ Serviced({})
    <3>1. row.epoch >= hosts[h].epoch /\ row.claim >= hosts[h].claim
      BY <2>2, <2>5, <2>c, RowTypes
    <3>2. row.service <= starts
      BY <2>5 DEF Typed
    <3>3. Follows(h, row)
      BY <2>2, <2>5 DEF Follows
    <3> QED
      BY <2>2, <2>3, <2>5, <3>1, <3>2, <3>3, <1>s, UpdatedHost, ZenonT(60)
  <2>7. h \in DOMAIN hosts' /\ hosts'[h] = row
    BY <2>2, <2>3, <1>d
  <2> QED
    BY <2>2, <2>5, <2>6, <2>7, <1>0, <1>l DEF RowsStep, h
<1> QED
  BY <1>1, <1>2

(* AuthenticateHost gives a new service the next epoch.                    *)
LEMMA AuthenticateRows ==
  ASSUME HostInv, NEW ms, NEW h, NEW serial, NEW service \in Nat,
         Authenticates(h, serial), AuthenticateHost(h, service), service <= starts,
         \A n \in Machine \ ms : proc[n].phase = "starting" => service # proc[n].service
  PROVE  /\ RowsStep(ms) /\ h \in DOMAIN hosts /\ hosts'[h].claim = hosts[h].claim
         /\ hosts[h].service # service => hosts'[h].epoch = hosts[h].epoch + 1
<1> USE DEF HostInv
<1>0. leases' = leases /\ group' = group /\ group \in Groups
  BY DEF AuthenticateHost, Typed
<1>l. LeasesStep
  BY <1>0, SameLeases
<1>h. h \in DOMAIN hosts /\ hosts[h].status \in Live
  BY DEF Authenticates
<1>1. CASE hosts[h].service = service
  <2>1. hosts' = hosts
    BY <1>1 DEF AuthenticateHost
  <2> QED
    BY <1>1, <2>1, <1>0, <1>l, <1>h, SameHosts DEF RowsStep
<1>2. CASE hosts[h].service # service
  <2> DEFINE e == hosts[h].epoch + 1
             st == IF hosts[h].status = "active" THEN "registering" ELSE hosts[h].status
             row == [hosts[h] EXCEPT !.epoch = e, !.service = service, !.ready = FALSE, !.seen = "none",
                                     !.status = st]
  <2>2. hosts[h] \in HostRows
    BY <1>h, LenProperties, ElementOfSeq DEF Typed
  <2>1. hosts' = [hosts EXCEPT ![h] = row]
    BY <1>2, <1>h, <2>2 DEF AuthenticateHost, HostRows
  <2>e. e \in Nat /\ e = hosts[h].epoch + 1 /\ st \in Live
        /\ st = IF hosts[h].status = "active" THEN "registering" ELSE hosts[h].status
    BY <1>h, <2>2 DEF HostRows, Live
  <2> HIDE DEF e, st
  <2>3. /\ row \in HostRows /\ row.machine = hosts[h].machine /\ row.epoch = e
        /\ row.claim = hosts[h].claim /\ row.service = service
        /\ row.status = st /\ row.ready = FALSE
    BY <2>2, <2>e, ZenonT(60) DEF HostRows
  <2> HIDE DEF row
  <2>4. HostsStep /\ Serviced(ms)
    <3>1. row.epoch >= hosts[h].epoch /\ row.claim >= hosts[h].claim
      BY <1>h, <2>3, <2>e, RowTypes
    <3>2. row.status \in Live /\ hosts[h].status # "termination_ready" /\ hosts[h].status # "lost"
          /\ row.status # "termination_ready"
      BY <1>h, <2>3, <2>e DEF Live
    <3>3. hosts[h].status = "draining" => row.status = "draining"
      BY <2>3, <2>e
    <3>4. Follows(h, row)
      BY <2>3, <3>2 DEF Follows
    <3> QED
      BY <1>h, <2>1, <2>3, <3>1, <3>2, <3>3, <3>4, UpdatedHost, ZenonT(60)
  <2>5. hosts'[h] = row
    BY <1>h, <2>1
  <2> QED
    BY <1>2, <2>3, <2>4, <2>5, <2>e, <1>0, <1>l, <1>h DEF RowsStep
<1> QED
  BY <1>1, <1>2

(* ActivateHost makes a row active.                                        *)
LEMMA ActivateRows ==
  ASSUME HostInv, NEW p, p.host \in DOMAIN hosts, Activates(p), ActivateHost(p)
  PROVE  RowsStep({})
<1> USE DEF HostInv
<1> DEFINE h == p.host
           st == IF "draining" \in {hosts[h].status, group.status, pool'} THEN "draining" ELSE "active"
           row == [hosts[h] EXCEPT !.ready = TRUE, !.status = st]
<1>0. leases' = leases
  BY DEF ActivateHost
<1>l. LeasesStep
  BY <1>0, SameLeases
<1>g. group' \in Groups
  <2>1. group \in Groups /\ group' = [group EXCEPT !.primary = group.primary \/ pool = "pending"]
    BY DEF ActivateHost, Typed, Groups
  <2> DEFINE b == group.primary \/ pool = "pending"
  <2>2. b \in BOOLEAN
    OBVIOUS
  <2> HIDE DEF b
  <2>3. [group EXCEPT !.primary = b] \in Groups
    BY <2>1, <2>2 DEF Groups
  <2> QED
    BY <2>1, <2>3 DEF b
<1>1. hosts[h] \in HostRows /\ h \in DOMAIN hosts /\ hosts[h].status \in Live
  BY LenProperties, ElementOfSeq DEF Typed, Activates
<1>2. hosts' = [hosts EXCEPT ![h] = row]
  BY <1>1, ZenonT(60) DEF ActivateHost, HostRows
<1>3. st \in {"draining", "active"} /\ (hosts[h].status = "draining" => st = "draining")
  OBVIOUS
<1>o. \A l \in OnHost(h) : leases[l].epoch >= hosts[h].epoch
  BY DEF Activates
<1> HIDE DEF h, st
<1>4. /\ row \in HostRows /\ row.machine = hosts[h].machine /\ row.epoch = hosts[h].epoch
      /\ row.claim = hosts[h].claim /\ row.service = hosts[h].service /\ row.status = st
  BY <1>1, <1>3, ZenonT(60) DEF HostRows, Live
<1> HIDE DEF row
<1>5. HostsStep /\ Serviced({})
  <2>1. row.epoch >= hosts[h].epoch /\ row.claim >= hosts[h].claim
    BY <1>1, <1>4, RowTypes
  <2>2. /\ row.service <= starts
        /\ \A n \in Machine : proc[n].phase = "starting" => row.service # proc[n].service
    BY <1>1, <1>4 DEF Unseen
  <2>3. hosts[h].status # "termination_ready" /\ hosts[h].status # "lost"
    BY <1>1 DEF Live
  <2>4. Follows(h, row)
    BY <1>3, <1>4, <1>o, <2>3 DEF Follows
  <2> QED
    BY <1>1, <1>2, <1>3, <1>4, <2>1, <2>2, <2>3, <2>4, UpdatedHost, ZenonT(60)
<1> QED
  BY <1>l, <1>g, <1>5 DEF RowsStep

(* CompleteHostDrain offers a row for termination once it has no unfenced  *)
(* lease.                                                                  *)
LEMMA CompleteRows ==
  ASSUME HostInv, NEW p, p.host \in DOMAIN hosts, Completes(p), CompleteHostDrain(p)
  PROVE  RowsStep({})
<1> USE DEF HostInv
<1> DEFINE h == p.host
           c == hosts[h].claim + 1
           row == [hosts[h] EXCEPT !.status = "termination_ready", !.claim = c, !.revoked = TRUE]
<1>0. leases' = leases /\ group' = group /\ group \in Groups
  BY DEF CompleteHostDrain, Typed
<1>l. LeasesStep
  BY <1>0, SameLeases
<1>1. CASE hosts[h].status = "termination_ready"
  <2>1. hosts' = hosts
    BY <1>1 DEF CompleteHostDrain
  <2> QED
    BY <2>1, <1>0, <1>l, SameHosts DEF RowsStep
<1>2. CASE hosts[h].status # "termination_ready"
  <2>1. hosts[h] \in HostRows /\ h \in DOMAIN hosts /\ hosts[h].status = "draining" /\ OnHost(h) = {}
    <3>1. hosts[h].status = "draining" /\ OnHost(h) = {}
      BY <1>2, ZenonT(60) DEF Completes
    <3>2. hosts \in Seq(HostRows)
      BY DEF Typed
    <3>3. h \in 1..Len(hosts)
      BY <3>2, LenProperties, ZenonT(60)
    <3> QED
      BY <3>1, <3>2, <3>3, ElementOfSeq, ZenonT(60)
  <2>2. hosts' = [hosts EXCEPT ![h] = row]
    BY <1>2, <2>1, ZenonT(60) DEF CompleteHostDrain, HostRows
  <2> HIDE DEF h
  <2>c. c \in Nat /\ c >= hosts[h].claim
    BY <2>1 DEF HostRows
  <2>d. c = hosts[h].claim + 1
    OBVIOUS
  <2> HIDE DEF c
  <2>3. /\ row \in HostRows /\ row.machine = hosts[h].machine /\ row.epoch = hosts[h].epoch
        /\ row.claim = c /\ row.service = hosts[h].service
        /\ row.status = "termination_ready" /\ row.ready = hosts[h].ready
    BY <2>1, <2>c, ZenonT(60) DEF HostRows, Live
  <2> HIDE DEF row
  <2>4. HostsStep /\ Serviced({})
    <3>1. row.epoch >= hosts[h].epoch /\ row.claim >= hosts[h].claim
      BY <2>1, <2>3, <2>c, RowTypes
    <3>2. /\ row.service <= starts
          /\ \A n \in Machine : proc[n].phase = "starting" => row.service # proc[n].service
      BY <2>1, <2>3 DEF Unseen
    <3>3. Follows(h, row)
      BY <2>1, <2>3, <2>d DEF Follows
    <3> QED
      BY <2>1, <2>2, <2>3, <3>1, <3>2, <3>3, UpdatedHost, ZenonT(60)
  <2> QED
    BY <2>4, <1>0, <1>l DEF RowsStep
<1> QED
  BY <1>1, <1>2

(* DeliverLease.                                                           *)
LEMMA DeliverRows ==
  ASSUME HostInv, NEW l, DeliverLease(l)
  PROVE  RowsStep({})
<1> USE DEF HostInv
<1>1. HostsStep /\ Serviced({}) /\ group' \in Groups
  BY SameHosts, ZenonT(60) DEF DeliverLease, Typed
<1>2. LeasesStep
  <2>1. CASE leases[l].state = "assigned" /\ Delivery(l) = "ok" /\ l \in DOMAIN leases
    BY <2>1, ChangedLease, ZenonT(60) DEF DeliverLease, Fenced
  <2>3. CASE leases[l].state = "assigned" /\ Delivery(l) = "ok" /\ l \notin DOMAIN leases
    <3>1. leases' = [leases EXCEPT ![l].state = "delivered"]
      BY <2>3 DEF DeliverLease
    <3>2. leases \in [1..Len(leases) -> Leased] /\ DOMAIN leases = 1..Len(leases)
      BY LenProperties DEF Typed
    <3>3. leases' = leases
      BY <2>3, <3>1, <3>2
    <3> QED
      BY <3>3, SameLeases
  <2>2. CASE ~(leases[l].state = "assigned" /\ Delivery(l) = "ok")
    BY <2>2, SameLeases DEF DeliverLease
  <2> QED
    BY <2>1, <2>2, <2>3
<1> QED
  BY <1>1, <1>2 DEF RowsStep

(* ObserveFreshLeaseReady.                                                 *)
LEMMA ReadyRows ==
  ASSUME HostInv, NEW l \in DOMAIN leases, ObserveFreshLeaseReady(l)
  PROVE  RowsStep({})
<1> USE DEF HostInv
<1>1. HostsStep /\ Serviced({}) /\ group' \in Groups
  BY SameHosts DEF ObserveFreshLeaseReady, Typed
<1>2. LeasesStep
  <2>1. CASE Readiness(l) = "ok"
    <3>1. ~Fenced(l)
      BY <2>1 DEF Readiness, Fenced
    <3> QED
      BY <2>1, <3>1, ChangedLease, ZenonT(60) DEF ObserveFreshLeaseReady
  <2>2. CASE Readiness(l) # "ok"
    BY <2>2, SameLeases DEF ObserveFreshLeaseReady
  <2> QED
    BY <2>1, <2>2
<1> QED
  BY <1>1, <1>2 DEF RowsStep

(* A stop report or a recovery report fences leases.                       *)
LEMMA StopRows ==
  ASSUME HostInv, NEW ls, \A l \in ls : l \in DOMAIN leases => l \notin vm /\ ~Executing(l),
         leases' = Stopped(ls), UNCHANGED <<group, hosts>>
  PROVE  RowsStep({})
BY SameHosts, StoppedLeases DEF HostInv, Typed, RowsStep

(* Leaving all rows alone.                                                 *)
LEMMA SameRows ==
  ASSUME HostInv, UNCHANGED rows
  PROVE  RowsStep({})
BY SameHosts, SameLeases DEF HostInv, Typed, RowsStep, rows

(* A host's row is only marked: its epoch and service stay.                *)
LEMMA MarkedRow ==
  ASSUME HostInv, NEW h \in DOMAIN hosts, NEW row \in HostRows, hosts' = [hosts EXCEPT ![h] = row],
         row.machine = hosts[h].machine, row.epoch = hosts[h].epoch, row.service = hosts[h].service,
         row.claim >= hosts[h].claim, row.ready = hosts[h].ready,
         \/ row.status = hosts[h].status /\ row.claim = hosts[h].claim
         \/ row.status = "lost"
         \/ row.status = "draining" /\ hosts[h].status = "active"
  PROVE  HostsStep /\ Serviced({})
<1>1. row.epoch >= hosts[h].epoch
  BY RowTypes DEF HostInv
<1>2. /\ row.service <= starts
      /\ \A n \in Machine : proc[n].phase = "starting" => row.service # proc[n].service
  BY DEF HostInv, Unseen
<1>3. Follows(h, row)
  BY DEF Follows
<1> QED
  BY <1>1, <1>2, <1>3, UpdatedHost, ZenonT(60)

(* A row is lost and its secret revoked.                                   *)
LEMMA LoseRow ==
  ASSUME HostInv, NEW h \in DOMAIN hosts, hosts' = Lose(h)
  PROVE  HostsStep /\ Serviced({})
<1> DEFINE c == hosts[h].claim + 1
           row == [hosts[h] EXCEPT !.status = "lost", !.claim = c, !.revoked = TRUE]
<1>1. hosts[h] \in HostRows
  BY LenProperties, ElementOfSeq DEF HostInv, Typed
<1>2. hosts' = [hosts EXCEPT ![h] = row]
  BY <1>1, ZenonT(60) DEF Lose, HostRows
<1>c. c \in Nat /\ c >= hosts[h].claim
  BY <1>1 DEF HostRows
<1> HIDE DEF c
<1>3. /\ row \in HostRows /\ row.machine = hosts[h].machine /\ row.epoch = hosts[h].epoch
      /\ row.claim = c /\ row.service = hosts[h].service
      /\ row.status = "lost" /\ row.ready = hosts[h].ready
  BY <1>1, <1>c, ZenonT(60) DEF HostRows, Live
<1> HIDE DEF row
<1>4. row.claim >= hosts[h].claim
  BY <1>c, <1>3
<1> QED
  BY <1>2, <1>3, <1>4, MarkedRow, ZenonT(60)

(* An active row begins to drain.                                          *)
LEMMA DrainRow ==
  ASSUME HostInv, NEW h \in DOMAIN hosts, hosts[h].status = "active", hosts' = Drained(h)
  PROVE  HostsStep /\ Serviced({})
<1> DEFINE c == hosts[h].claim + 1
           d == IF hosts[h].revoked THEN hosts[h].secretClaim ELSE c
           row == [hosts[h] EXCEPT !.status = "draining", !.claim = c, !.secretClaim = d]
<1>1. hosts[h] \in HostRows
  BY LenProperties, ElementOfSeq DEF HostInv, Typed
<1>2. hosts' = [hosts EXCEPT ![h] = row]
  BY <1>1, ZenonT(60) DEF Drained, HostRows
<1>c. c \in Nat /\ c >= hosts[h].claim /\ d \in Nat
  BY <1>1 DEF HostRows
<1> HIDE DEF c, d
<1>3. /\ row \in HostRows /\ row.machine = hosts[h].machine /\ row.epoch = hosts[h].epoch
      /\ row.claim = c /\ row.service = hosts[h].service
      /\ row.status = "draining" /\ row.ready = hosts[h].ready
  BY <1>1, <1>c, ZenonT(60) DEF HostRows, Live
<1> HIDE DEF row
<1>4. row.claim >= hosts[h].claim
  BY <1>c, <1>3
<1> QED
  BY <1>2, <1>3, <1>4, MarkedRow, ZenonT(60)

(* A row is seen, or not seen for too long.                                *)
LEMMA SeenRow ==
  ASSUME HostInv, NEW h \in DOMAIN hosts, NEW seen \in {"fresh", "paused", "stale"},
         hosts' = [hosts EXCEPT ![h].seen = seen]
  PROVE  HostsStep /\ Serviced({})
<1> DEFINE row == [hosts[h] EXCEPT !.seen = seen]
<1>1. hosts[h] \in HostRows
  BY LenProperties, ElementOfSeq DEF HostInv, Typed
<1>2. hosts' = [hosts EXCEPT ![h] = row]
  BY <1>1 DEF HostRows
<1>3. /\ row \in HostRows /\ row.machine = hosts[h].machine /\ row.epoch = hosts[h].epoch
      /\ row.claim = hosts[h].claim /\ row.service = hosts[h].service
      /\ row.status = hosts[h].status /\ row.ready = hosts[h].ready
  BY <1>1 DEF HostRows
<1> HIDE DEF row
<1>4. row.claim >= hosts[h].claim
  BY <1>1, <1>3 DEF HostRows
<1> QED
  BY <1>2, <1>3, <1>4, MarkedRow, ZenonT(60)

(* Shape 1: a handler changes rows, and requests that were late are gone.  *)
LEMMA RowStep ==
  ASSUME HostInv, RowsStep({}), UNCHANGED <<local, starts>>, late' \subseteq late
  PROVE  HostInv'
<1> USE DEF HostInv, local
<1>1. Typed'
  BY RowsInv, RowsKept, ZenonT(60) DEF Typed, RowsStep, HostsStep
<1>2. Placed'
  BY PlacesKept, ZenonT(60) DEF Placed, StillPlaced, Joined, NoFile
<1>3. Dated'
  BY PlacesKept, RowsInv, ZenonT(60) DEF Dated, StillDated, Joined, Sent
<1>4. Unseen'
  BY ZenonT(60) DEF Unseen, RowsStep, Serviced
<1>5. Employed'
  BY RowsKept DEF Employed, Employing
<1>6. Absent'
  BY RowsKept, ZenonT(60) DEF Absent, Typed
<1>7. LateReports'
  BY RowsKept, ZenonT(60) DEF LateReports
<1>8. LateStops'
  BY RowsKept DEF LateStops, Joined
<1>9. Gone'
  BY RowsKept, ZenonT(60) DEF Gone, Executing
<1> QED
  BY RowsInv, <1>1, <1>2, <1>3, <1>4, <1>5, <1>6, <1>7, <1>8, <1>9

(* Shape 2: the process of m goes on under the same row and epoch.         *)
Proceeds(m) ==
    /\ Joined(m) /\ Joined(m)'
    /\ proc' = [proc EXCEPT ![m] = proc'[m]] /\ proc'[m] \in Processes
    /\ proc'[m].host = proc[m].host /\ proc'[m].epoch = proc[m].epoch
    /\ proc'[m].service = proc[m].service
    /\ \/ proc'[m].phase = proc[m].phase /\ proc'[m].quarantine = proc[m].quarantine
       \/ proc'[m].phase # "recovered" /\ (Employing(m)' \/ \A l \in OnMachine(m) : own[l] = "none")

(* Rows take no service id of a process that goes on starting.             *)
LEMMA UnseenKept ==
  ASSUME Unseen, NEW ms, RowsStep(ms), UNCHANGED <<late, starts>>,
         \A n \in Machine : /\ proc'[n].service = proc[n].service
                            /\ proc'[n].phase = "starting" => n \notin ms /\ proc[n].phase = "starting"
  PROVE  Unseen'
<1>1. Serviced(ms) /\ late' = late /\ starts' = starts
  BY DEF RowsStep
<1>2. \A h \in DOMAIN hosts' : hosts'[h].service <= starts'
  BY <1>1, ZenonT(60) DEF Serviced
<1>3. /\ \A n \in Machine : proc'[n].service <= starts'
      /\ \A r \in late' : r.p.service <= starts'
  BY <1>1, ZenonT(60) DEF Unseen
<1>4. ASSUME NEW n \in Machine, proc'[n].phase = "starting"
      PROVE  /\ proc'[n].service # 0
             /\ \A h \in DOMAIN hosts' : hosts'[h].service # proc'[n].service
             /\ \A r \in late' : r.p.service # proc'[n].service
             /\ \A k \in Machine : k # n => proc'[k].service # proc'[n].service
  <2>1. n \in Machine \ ms /\ proc[n].phase = "starting" /\ proc'[n].service = proc[n].service
    BY <1>4, ZenonT(60)
  <2>2. \A h \in DOMAIN hosts' : hosts'[h].service # proc'[n].service
    BY <1>1, <2>1, ZenonT(60) DEF Serviced
  <2>3. /\ proc'[n].service # 0
        /\ \A r \in late' : r.p.service # proc'[n].service
        /\ \A k \in Machine : k # n => proc'[k].service # proc'[n].service
    BY <1>1, <2>1, ZenonT(60) DEF Unseen
  <2> QED
    BY <2>2, <2>3, ZenonT(60)
<1> QED
  BY <1>2, <1>3, <1>4, ZenonT(60) DEF Unseen

(* The same when no row changes.                                           *)
LEMMA UnseenSame ==
  ASSUME Unseen, UNCHANGED <<hosts, late, starts>>,
         \A n \in Machine : /\ proc'[n].service = proc[n].service
                            /\ proc'[n].phase = "starting" => proc[n].phase = "starting"
  PROVE  Unseen'
<1>1. hosts' = hosts /\ late' = late /\ starts' = starts
  OBVIOUS
<1>2. /\ \A h \in DOMAIN hosts' : hosts'[h].service <= starts'
      /\ \A n \in Machine : proc'[n].service <= starts'
      /\ \A r \in late' : r.p.service <= starts'
  BY <1>1, ZenonT(60) DEF Unseen
<1>3. ASSUME NEW n \in Machine, proc'[n].phase = "starting"
      PROVE  /\ proc'[n].service # 0
             /\ \A h \in DOMAIN hosts' : hosts'[h].service # proc'[n].service
             /\ \A r \in late' : r.p.service # proc'[n].service
             /\ \A k \in Machine : k # n => proc'[k].service # proc'[n].service
  BY <1>1, <1>3, ZenonT(60) DEF Unseen
<1> QED
  BY <1>2, <1>3, ZenonT(60) DEF Unseen

(* A process that proceeds keeps the invariant.                            *)
LEMMA ProgressStep ==
  ASSUME HostInv, NEW m \in Machine, RowsStep({}), Proceeds(m),
         UNCHANGED <<file, own, vm, up, late, starts>>
  PROVE  HostInv'
<1> USE DEF HostInv
<1>0. /\ \A n \in Machine : n # m => proc'[n] = proc[n]
      /\ proc'[m].host = proc[m].host /\ proc'[m].epoch = proc[m].epoch
      /\ proc'[m].service = proc[m].service
      /\ proc' \in [Machine -> Processes]
  BY ZenonT(60) DEF Typed, Proceeds
<1>j. \A n \in Machine : Joined(n)' <=> Joined(n)
  BY <1>0 DEF Joined, Proceeds
<1>h. \A n \in Machine : proc'[n].host = proc[n].host /\ proc'[n].epoch = proc[n].epoch
  BY <1>0, ZenonT(60)
<1>1. Typed'
  BY <1>0, RowsInv, RowsKept, ZenonT(60) DEF Typed, RowsStep, HostsStep
<1>2. Placed'
  <2> SUFFICES ASSUME NEW n \in Machine
               PROVE  /\ file[n] # NoFile => file[n].host \in DOMAIN hosts' /\ hosts'[file[n].host].machine = n
                      /\ Joined(n) =>
                            /\ proc[n].host \in DOMAIN hosts' /\ hosts'[proc[n].host].machine = n
                            /\ proc[n].epoch <= hosts'[proc[n].host].epoch
                            /\ file[n] # NoFile => file[n].host = proc[n].host
    BY <1>h, <1>j, ZenonT(60) DEF Placed, NoFile
  <2> QED
    BY PlacesKept, ZenonT(60) DEF StillPlaced
<1>3. Dated'
  <2> SUFFICES ASSUME NEW r \in late, Sent(r)
               PROVE  /\ r.p.host \in DOMAIN hosts' /\ hosts'[r.p.host].machine = r.machine
                      /\ r.p.epoch <= hosts'[r.p.host].epoch
                      /\ Joined(r.machine)' /\ proc'[r.machine].host = r.p.host
                           => r.p.epoch <= proc'[r.machine].epoch
    BY RowsInv, ZenonT(60) DEF Dated, Sent
  <2>1. r.machine \in Machine /\ proc'[r.machine].host = proc[r.machine].host
        /\ proc'[r.machine].epoch = proc[r.machine].epoch
    BY <1>0, LocalTypes, ZenonT(60)
  <2> QED
    BY <2>1, <1>j, PlacesKept, ZenonT(60) DEF StillDated
<1>4. Unseen'
  <2>1. \A n \in Machine : proc'[n].service = proc[n].service
    BY <1>0
  <2>2. \A n \in Machine : proc'[n].phase = "starting" => proc[n].phase = "starting"
    BY <1>0 DEF Proceeds, Joined
  <2> QED
    BY <2>1, <2>2, UnseenKept, ZenonT(60)
<1>5. Employed'
  <2> SUFFICES ASSUME NEW l \in 1..MaxLeases, own[l] # "none"
               PROVE  /\ l \in DOMAIN leases' /\ Employing(MachineOf(l))'
                      /\ leases'[l].host = proc'[MachineOf(l)].host
                      /\ leases'[l].epoch = proc'[MachineOf(l)].epoch
    BY RowsKept, ZenonT(60) DEF Employed
  <2>1. /\ l \in DOMAIN leases /\ MachineOf(l) \in Machine /\ MachineOf(l)' = MachineOf(l)
        /\ Employing(MachineOf(l))
        /\ leases[l].host = proc[MachineOf(l)].host /\ leases[l].epoch = proc[MachineOf(l)].epoch
    BY RowsKept, RowTypes, ZenonT(60) DEF Employed
  <2>2. Employing(MachineOf(l))'
    <3>1. CASE MachineOf(l) = m
      BY <2>1, <3>1, ZenonT(60) DEF Proceeds, Employing, OnMachine
    <3>2. CASE MachineOf(l) # m
      BY <2>1, <3>2, <1>0, ZenonT(60) DEF Employing
    <3> QED
      BY <3>1, <3>2
  <2> QED
    BY <1>0, <2>1, <2>2, RowsKept, ZenonT(60)
<1>6. Absent'
  <2>1. \A l \in vm : /\ l \in DOMAIN leases /\ MachineOf(l) \in Machine
                      /\ MachineOf(l)' = MachineOf(l)
    BY RowsKept, RowTypes, LocalTypes, ZenonT(60)
  <2>2. \A l \in vm : own[l] # "stopped" /\ MachineOf(l)' \in up
    BY <2>1, ZenonT(60) DEF Absent
  <2>3. \A n \in Machine \ up : proc'[n].phase = "down"
    BY <1>0 DEF Absent, Proceeds, Joined
  <2>4. \A n \in Machine : proc'[n].phase = "recovered" =>
            proc[n].phase = "recovered" /\ proc'[n].quarantine = proc[n].quarantine
    BY <1>0 DEF Proceeds
  <2>5. \A l \in vm : proc'[MachineOf(l)'].phase = "recovered" => l \in proc'[MachineOf(l)'].quarantine
    BY <2>1, <2>4, ZenonT(60) DEF Absent
  <2> QED
    BY <2>2, <2>3, <2>5 DEF Absent
<1>7. LateReports'
  BY RowsKept, ZenonT(60) DEF LateReports
<1>8. LateStops'
  BY <1>h, <1>j, RowsKept, LocalTypes, ZenonT(60) DEF LateStops
<1>9. Gone'
  BY RowsKept, ZenonT(60) DEF Gone, Executing
<1> QED
  BY RowsInv, <1>1, <1>2, <1>3, <1>4, <1>5, <1>6, <1>7, <1>8, <1>9, ZenonT(60)

(* Shape 3: the process of m ends, possibly with the machine, possibly     *)
(* leaving behind a request of its own that nobody repeats.                *)
EndShape(m, op) ==
    /\ Ended(m) /\ starts' = starts
    /\ file' = file \/ file' = [file EXCEPT ![m] = NoFile]
    /\ \/ up' = up /\ vm' = vm
       \/ up' = up \ {m} /\ vm' = vm \ OnMachine(m)
    /\ op = "activate" => Joined(m)
    /\ late' \subseteq late \cup {Request(op, m, 0)}

(* A process that ends keeps the invariant.                                *)
LEMMA EndStep ==
  ASSUME HostInv, NEW m \in Machine, RowsStep({}),
         NEW op \in {"enroll", "authenticate", "activate"}, EndShape(m, op)
  PROVE  HostInv'
<1> USE DEF HostInv
<1>0. /\ \A n \in Machine : n # m => proc'[n] = proc[n]
      /\ proc'[m].phase = "down" /\ proc'[m].service = 0 /\ Down \in Processes
      /\ proc' \in [Machine -> Processes]
  BY ZenonT(60) DEF Typed, EndShape, Ended, Down, Processes, Phases
<1>j. ~Joined(m)' /\ \A n \in Machine : Joined(n)' => Joined(n) /\ n # m
  BY <1>0 DEF Joined
<1>o. \A l \in 1..MaxLeases : own'[l] = IF l \in OnMachine(m) THEN "none" ELSE own[l]
  BY ZenonT(60) DEF EndShape, Ended
<1>s. starts' = starts
  BY DEF EndShape
<1>v. vm' \subseteq vm
  BY DEF EndShape
<1>u. \/ up' = up /\ vm' = vm
      \/ up' = up \ {m} /\ vm' = vm \ OnMachine(m)
  BY DEF EndShape
<1>l. \A r \in late' : r \in late \/ r = Request(op, m, 0)
  BY DEF EndShape
<1>f. /\ file' \in [Machine -> Files]
      /\ \A n \in Machine : file'[n] = file[n] \/ file'[n] = NoFile
      /\ \A n \in Machine : n # m => file'[n] = file[n]
  <2>1. file \in [Machine -> Files] /\ NoFile \in Files
    BY DEF Typed, NoFile, Files
  <2> QED
    BY <2>1 DEF EndShape
<1>r. /\ Request(op, m, 0) \in Requests
      /\ Request(op, m, 0).op = op /\ Request(op, m, 0).machine = m /\ Request(op, m, 0).p = proc[m]
  BY ZenonT(60) DEF Typed, Requests, Request, Ops
<1>k. \A h \in DOMAIN hosts : /\ h \in DOMAIN hosts' /\ hosts'[h].machine = hosts[h].machine
                             /\ hosts'[h].epoch >= hosts[h].epoch
                             /\ hosts'[h].epoch \in Nat /\ hosts[h].epoch \in Nat
  BY RowsKept, RowTypes, ZenonT(60)
<1>1. Typed'
  <2>1. own' \in [1..MaxLeases -> Owners]
    BY ZenonT(60) DEF EndShape, Ended, Typed, Owners
  <2>2. late' \subseteq Requests
    BY <1>l, <1>r, ZenonT(60) DEF Typed
  <2> QED
    BY <1>0, <1>s, <2>2, <1>f, <1>r, <1>v, <2>1, RowsInv, RowsKept, ZenonT(60) DEF Typed, RowsStep, HostsStep
<1>2. Placed'
  <2> SUFFICES ASSUME NEW n \in Machine
               PROVE  /\ file'[n] # NoFile => file'[n].host \in DOMAIN hosts' /\ hosts'[file'[n].host].machine = n
                      /\ Joined(n)' =>
                            /\ proc'[n].host \in DOMAIN hosts' /\ hosts'[proc'[n].host].machine = n
                            /\ proc'[n].epoch <= hosts'[proc'[n].host].epoch
                            /\ file'[n] # NoFile => file'[n].host = proc'[n].host
    BY ZenonT(60) DEF Placed, NoFile
  <2> QED
    <3>1. file'[n] # NoFile => file'[n].host \in DOMAIN hosts /\ hosts[file'[n].host].machine = n
      BY <1>f, Zenon DEF Placed
    <3>2. Joined(n)' => /\ proc'[n] = proc[n] /\ proc[n].host \in DOMAIN hosts
                        /\ hosts[proc[n].host].machine = n
                        /\ proc[n].epoch <= hosts[proc[n].host].epoch
                        /\ file'[n] # NoFile => file'[n].host = proc[n].host
      BY <1>0, <1>j, <1>f, ZenonT(60) DEF Placed
    <3>3. proc[n].epoch \in Nat
      BY LocalTypes, ZenonT(60)
    <3>4. file'[n] # NoFile => file'[n].host \in DOMAIN hosts' /\ hosts'[file'[n].host].machine = n
      BY <3>1, <1>k, ZenonT(60)
    <3>5. Joined(n)' => /\ proc[n].host \in DOMAIN hosts' /\ hosts'[proc[n].host].machine = n
                        /\ hosts'[proc[n].host].epoch >= hosts[proc[n].host].epoch
                        /\ hosts'[proc[n].host].epoch \in Nat /\ hosts[proc[n].host].epoch \in Nat
      BY <3>2, <1>k, ZenonT(60)
    <3>6. Joined(n)' => proc[n].epoch <= hosts'[proc[n].host].epoch
      BY <3>2, <3>3, <3>5, Between, ZenonT(60)
    <3> QED
      BY <3>2, <3>4, <3>5, <3>6, ZenonT(60)
<1>3. Dated'
  <2> SUFFICES ASSUME NEW r \in late', Sent(r)
               PROVE  /\ r.p.host \in DOMAIN hosts' /\ hosts'[r.p.host].machine = r.machine
                      /\ r.p.epoch <= hosts'[r.p.host].epoch
                      /\ Joined(r.machine)' /\ proc'[r.machine].host = r.p.host
                           => r.p.epoch <= proc'[r.machine].epoch
    BY RowsInv, ZenonT(60) DEF Dated, Sent
  <2>1. CASE r \in late
    <3>1. /\ r.p.host \in DOMAIN hosts /\ hosts[r.p.host].machine = r.machine
          /\ r.p.epoch <= hosts[r.p.host].epoch
          /\ Joined(r.machine) /\ proc[r.machine].host = r.p.host => r.p.epoch <= proc[r.machine].epoch
      BY <2>1, ZenonT(60) DEF Dated
    <3>2. r.machine \in Machine /\ r.p.epoch \in Nat
      BY <2>1, LocalTypes
    <3>3. /\ r.p.host \in DOMAIN hosts' /\ hosts'[r.p.host].machine = r.machine
          /\ r.p.epoch <= hosts'[r.p.host].epoch
      <4>1. /\ r.p.host \in DOMAIN hosts' /\ hosts'[r.p.host].machine = r.machine
            /\ hosts'[r.p.host].epoch >= hosts[r.p.host].epoch
            /\ hosts'[r.p.host].epoch \in Nat /\ hosts[r.p.host].epoch \in Nat
        BY <3>1, <1>k, ZenonT(60)
      <4> QED
        BY <3>1, <3>2, <4>1
    <3>4. Joined(r.machine)' => Joined(r.machine) /\ proc'[r.machine] = proc[r.machine]
      BY <3>2, <1>0, <1>j
    <3> QED
      BY <3>1, <3>3, <3>4, ZenonT(60)
  <2>2. CASE r = Request(op, m, 0)
    <3>1. Joined(m) /\ r.machine = m /\ r.p = proc[m]
      BY <2>2, <1>r, ZenonT(60) DEF Sent, EndShape
    <3>2. /\ proc[m].host \in DOMAIN hosts /\ hosts[proc[m].host].machine = m
          /\ proc[m].epoch <= hosts[proc[m].host].epoch
      BY <3>1, ZenonT(60) DEF Placed
    <3>3. proc[m].epoch \in Nat
      BY LocalTypes
    <3>4. /\ proc[m].host \in DOMAIN hosts' /\ hosts'[proc[m].host].machine = m
          /\ hosts'[proc[m].host].epoch >= hosts[proc[m].host].epoch
          /\ hosts'[proc[m].host].epoch \in Nat /\ hosts[proc[m].host].epoch \in Nat
      BY <3>2, <1>k, ZenonT(60)
    <3>5. r.p.epoch <= hosts'[proc[m].host].epoch
      BY <3>1, <3>2, <3>3, <3>4, Between, ZenonT(60)
    <3> QED
      BY <3>1, <3>4, <3>5, <1>j, ZenonT(60)
  <2> QED
    BY <2>1, <2>2, <1>l, ZenonT(60)
<1>4. Unseen'
  <2>1. \A n \in Machine : proc'[n].phase = "starting" => n # m /\ proc'[n] = proc[n]
    BY <1>0
  <2>2. \A n \in Machine : proc'[n].service <= starts
    <3>1. starts \in Nat
      BY DEF Typed
    <3>2. \A n \in Machine : proc[n].service <= starts
      BY DEF Unseen
    <3> QED
      BY <3>1, <3>2, <1>0
  <2>3. \A r \in late' : r \in late \/ r.p = proc[m]
    BY <1>l, <1>r, ZenonT(60)
  <2>4. \A h \in DOMAIN hosts' : hosts'[h].service <= starts
    BY DEF RowsStep, Serviced
  <2>5. \A r \in late' : r.p.service <= starts
    BY <2>3 DEF Unseen
  <2>6. ASSUME NEW n \in Machine, proc'[n].phase = "starting"
        PROVE  /\ proc'[n].service # 0
               /\ \A h \in DOMAIN hosts' : hosts'[h].service # proc'[n].service
               /\ \A r \in late' : r.p.service # proc'[n].service
               /\ \A k \in Machine : k # n => proc'[k].service # proc'[n].service
    <3>1. n # m /\ proc'[n] = proc[n] /\ proc[n].phase = "starting"
      BY <2>1, <2>6, ZenonT(60)
    <3>2. \A h \in DOMAIN hosts' : hosts'[h].service # proc'[n].service
      BY <3>1 DEF RowsStep, Serviced
    <3>3. \A r \in late' : r.p.service # proc'[n].service
      BY <3>1, <2>3 DEF Unseen
    <3>4. \A k \in Machine : k # n => proc'[k].service # proc'[n].service
      BY <3>1, <1>0, ZenonT(60) DEF Unseen
    <3> QED
      BY <3>1, <3>2, <3>3, <3>4, ZenonT(60) DEF Unseen
  <2> QED
    BY <1>s, <2>2, <2>4, <2>5, <2>6, ZenonT(60) DEF Unseen
<1>5. Employed'
  <2> SUFFICES ASSUME NEW l \in 1..MaxLeases, own'[l] # "none"
               PROVE  /\ l \in DOMAIN leases' /\ Employing(MachineOf(l))'
                      /\ leases'[l].host = proc'[MachineOf(l)'].host
                      /\ leases'[l].epoch = proc'[MachineOf(l)'].epoch
    BY ZenonT(60) DEF Employed
  <2>1. own[l] # "none" /\ l \notin OnMachine(m)
    BY <1>o
  <2>2. /\ l \in DOMAIN leases /\ MachineOf(l) \in Machine /\ MachineOf(l)' = MachineOf(l)
        /\ MachineOf(l) # m
    BY <2>1, RowsKept, RowTypes, ZenonT(60) DEF Employed, OnMachine
  <2>3. proc'[MachineOf(l)'] = proc[MachineOf(l)]
    BY <2>2, <1>0
  <2> QED
    BY <2>1, <2>2, <2>3, RowsKept, ZenonT(60) DEF Employed, Employing
<1>6. Absent'
  <2>1. \A l \in vm' : /\ l \in vm /\ l \in DOMAIN leases /\ l \in 1..MaxLeases
                       /\ MachineOf(l) \in Machine /\ MachineOf(l)' = MachineOf(l)
    BY <1>v, RowsKept, RowTypes, LocalTypes, ZenonT(60)
  <2>2. \A l \in vm' : own'[l] # "stopped"
    BY <2>1, <1>o, ZenonT(60) DEF Absent
  <2>3. \A l \in vm' : MachineOf(l)' \in up'
    BY <1>u, <2>1 DEF Absent, OnMachine
  <2>4. \A n \in Machine \ up' : proc'[n].phase = "down"
    BY <1>0, <1>u DEF Absent
  <2>5. \A l \in vm' : proc'[MachineOf(l)'].phase = "recovered" => l \in proc'[MachineOf(l)'].quarantine
    BY <2>1, <1>0 DEF Absent
  <2> QED
    BY <2>2, <2>3, <2>4, <2>5 DEF Absent
<1>7. LateReports'
  <2>1. \A r \in late' : r.op = "report" => r \in late
    BY <1>l, <1>r
  <2> QED
    BY <2>1, <1>o, <1>v, RowsKept, RowTypes, ZenonT(60) DEF LateReports
<1>8. LateStops'
  <2> SUFFICES ASSUME NEW r \in late, r.op = "stopped"
               PROVE  /\ r.lease \in DOMAIN leases'
                      /\ leases'[r.lease].host = r.p.host /\ leases'[r.lease].epoch = r.p.epoch
                      /\ r.lease \notin vm'
                      /\ \/ Fenced(r.lease)'
                         \/ own'[r.lease] = "stopped"
                         \/ /\ own'[r.lease] = "none"
                            /\ Joined(r.machine)' /\ proc'[r.machine].host = r.p.host
                                  => r.p.epoch < proc'[r.machine].epoch
    BY <1>l, <1>r, ZenonT(60) DEF LateStops
  <2>1. /\ r.lease \in DOMAIN leases /\ r.lease \in 1..MaxLeases /\ r.machine \in Machine
        /\ leases[r.lease].host = r.p.host /\ leases[r.lease].epoch = r.p.epoch
        /\ r.lease \notin vm'
    BY <1>v, RowTypes, LocalTypes, ZenonT(60) DEF LateStops
  <2>2. r.machine = MachineOf(r.lease)
    BY <2>1, ZenonT(60) DEF Dated, Sent, MachineOf
  <2>3. r.lease \in OnMachine(m) <=> r.machine = m
    BY <2>1, <2>2, ZenonT(60) DEF OnMachine
  <2>4. \/ Fenced(r.lease)'
        \/ own'[r.lease] = "stopped"
        \/ /\ own'[r.lease] = "none"
           /\ Joined(r.machine)' /\ proc'[r.machine].host = r.p.host
                 => r.p.epoch < proc'[r.machine].epoch
    <3>1. CASE r.machine = m
      BY <3>1, <2>1, <2>3, <1>o, <1>j, ZenonT(60)
    <3>2. CASE r.machine # m
      <4>1. own'[r.lease] = own[r.lease] /\ proc'[r.machine] = proc[r.machine]
        BY <3>2, <2>1, <2>3, <1>o, <1>0, ZenonT(60)
      <4> QED
        BY <4>1, <2>1, <1>j, RowsKept, ZenonT(60) DEF LateStops
    <3> QED
      BY <3>1, <3>2, ZenonT(60)
  <2> QED
    BY <2>1, <2>4, RowsKept, ZenonT(60)
<1>9. Gone'
  BY <1>o, <1>v, RowsKept, RowTypes, ZenonT(60) DEF Gone, Executing
<1> QED
  BY RowsInv, <1>1, <1>2, <1>3, <1>4, <1>5, <1>6, <1>7, <1>8, <1>9, ZenonT(60)


(* Shape 4: the owner of one lease acts, in the working process of m. A    *)
(* stop it has proved is only ever followed by the fence.                  *)
Acts(m, l) ==
    /\ l \in DOMAIN leases /\ MachineOf(l) = m /\ Employing(m)
    /\ leases[l].host = proc[m].host /\ leases[l].epoch = proc[m].epoch
    /\ own' = [own EXCEPT ![l] = own'[l]] /\ own'[l] \in Owners
    /\ vm' \in {vm, vm \cup {l}, vm \ {l}}
    /\ Fenced(l)' => l \notin vm' /\ ~Executing(l)'
    /\ own[l] = "stopped" => Fenced(l)'
    /\ own'[l] = "stopped" => l \notin vm'

(* An owner that acts keeps the invariant.                                 *)
LEMMA CustodyStep ==
  ASSUME HostInv, NEW m \in Machine, NEW l, RowsStep({}), Acts(m, l),
         UNCHANGED <<file, proc, up, late, starts>>
  PROVE  HostInv'
<1> USE DEF HostInv
<1>0. /\ l \in DOMAIN leases /\ l \in 1..MaxLeases /\ MachineOf(l) = m
      /\ own'[l] \in Owners
      /\ \A k \in 1..MaxLeases : k # l => own'[k] = own[k]
      /\ own' \in [1..MaxLeases -> Owners]
      /\ \A k : k # l => (k \in vm' <=> k \in vm)
      /\ vm' \subseteq DOMAIN leases
  BY RowTypes, ZenonT(60) DEF Typed, Acts
<1>1. Typed'
  BY <1>0, RowsInv, RowsKept, ZenonT(60) DEF Typed, RowsStep, HostsStep
<1>2. Placed'
  BY PlacesKept, ZenonT(60) DEF Placed, StillPlaced, Joined, NoFile
<1>3. Dated'
  BY PlacesKept, RowsInv, ZenonT(60) DEF Dated, StillDated, Joined, Sent
<1>4. Unseen'
  BY ZenonT(60) DEF Unseen, RowsStep, Serviced
<1>5. Employed'
  <2> SUFFICES ASSUME NEW k \in 1..MaxLeases, own'[k] # "none"
               PROVE  /\ k \in DOMAIN leases' /\ Employing(MachineOf(k)')
                      /\ leases'[k].host = proc[MachineOf(k)'].host
                      /\ leases'[k].epoch = proc[MachineOf(k)'].epoch
    BY DEF Employed, Employing
  <2>1. CASE k = l
    BY <2>1, <1>0, RowsKept, ZenonT(60) DEF Acts
  <2>2. CASE k # l
    BY <2>2, <1>0, RowsKept, ZenonT(60) DEF Employed
  <2> QED
    BY <2>1, <2>2
<1>6. Absent'
  <2>0. m \in up /\ proc[m].phase # "recovered"
    BY DEF Absent, Acts, Employing
  <2>1. \A k \in vm' : /\ k \in DOMAIN leases /\ k \in 1..MaxLeases /\ MachineOf(k)' = MachineOf(k)
                       /\ k # l => k \in vm
    BY <1>0, RowsKept, RowTypes, ZenonT(60)
  <2>2. \A k \in vm' : own'[k] # "stopped"
    BY <2>1, <1>0, ZenonT(60) DEF Absent, Acts
  <2>3. \A k \in vm' : MachineOf(k)' \in up
    BY <2>0, <2>1, <1>0, ZenonT(60) DEF Absent
  <2>4. \A k \in vm' : proc[MachineOf(k)'].phase = "recovered" => k \in proc[MachineOf(k)'].quarantine
    BY <2>0, <2>1, <1>0 DEF Absent
  <2> QED
    BY <2>2, <2>3, <2>4, ZenonT(60) DEF Absent
<1>7. LateReports'
  <2> SUFFICES ASSUME NEW r \in late, r.op = "report",
                      NEW k \in DOMAIN leases, leases[k].host = r.p.host, leases[k].epoch < r.p.epoch
               PROVE  own'[k] = "none" /\ (k \in vm' => k \in r.p.quarantine)
    BY RowsKept, ZenonT(60) DEF LateReports
  <2>1. CASE k = l
    <3>1. r.machine = m /\ (Joined(m) => r.p.epoch <= proc[m].epoch)
      BY <2>1, LocalTypes, ZenonT(60) DEF Dated, Sent, Acts, MachineOf
    <3>2. Joined(m) /\ leases[l].epoch = proc[m].epoch
      BY ZenonT(60) DEF Acts, Employing, Joined
    <3>3. r.p.epoch \in Nat /\ proc[m].epoch \in Nat
      BY LocalTypes, ZenonT(60)
    <3> QED
      BY <2>1, <3>1, <3>2, <3>3
  <2>2. CASE k # l
    BY <2>2, <1>0, RowTypes, ZenonT(60) DEF LateReports
  <2> QED
    BY <2>1, <2>2
<1>8. LateStops'
  <2> SUFFICES ASSUME NEW r \in late, r.op = "stopped"
               PROVE  /\ r.lease \in DOMAIN leases'
                      /\ leases'[r.lease].host = r.p.host /\ leases'[r.lease].epoch = r.p.epoch
                      /\ r.lease \notin vm'
                      /\ \/ Fenced(r.lease)'
                         \/ own'[r.lease] = "stopped"
                         \/ /\ own'[r.lease] = "none"
                            /\ Joined(r.machine) /\ proc[r.machine].host = r.p.host
                                  => r.p.epoch < proc[r.machine].epoch
    BY ZenonT(60) DEF LateStops, Joined
  <2>1. CASE r.lease # l
    BY <2>1, <1>0, RowsKept, RowTypes, ZenonT(60) DEF LateStops
  <2>2. CASE r.lease = l
    <3>1. r.machine = m
      BY <2>2, ZenonT(60) DEF Dated, Sent, Acts, MachineOf, LateStops
    <3>e. leases[l].host = r.p.host /\ leases[l].epoch = r.p.epoch
      BY <2>2, ZenonT(60) DEF LateStops
    <3>j. Joined(m) /\ leases[l].host = proc[m].host /\ leases[l].epoch = proc[m].epoch
      BY ZenonT(60) DEF Acts, Employing, Joined
    <3>2. Joined(m) /\ proc[m].host = r.p.host /\ proc[m].epoch = r.p.epoch /\ r.p.epoch \in Nat
      BY <3>e, <3>j, LocalTypes, ZenonT(60)
    <3>3. Fenced(l) \/ own[l] = "stopped"
      BY <2>2, <3>1, <3>2, Itself, ZenonT(60) DEF LateStops
    <3>4. Fenced(l)' /\ l \notin vm'
      BY <3>3, <1>0, RowsKept, ZenonT(60) DEF Acts
    <3> QED
      BY <2>2, <3>4, RowsKept, ZenonT(60) DEF LateStops
  <2> QED
    BY <2>1, <2>2, ZenonT(60)
<1>9. Gone'
  <2> SUFFICES ASSUME NEW k \in DOMAIN leases, Fenced(k)'
               PROVE  k \notin vm' /\ ~Executing(k)'
    BY RowsKept, ZenonT(60) DEF Gone
  <2>1. CASE k = l
    BY <2>1, ZenonT(60) DEF Acts
  <2>2. CASE k # l
    BY <2>2, <1>0, RowsKept, RowTypes, ZenonT(60) DEF Gone, Executing
  <2> QED
    BY <2>1, <2>2
<1> QED
  BY RowsInv, <1>1, <1>2, <1>3, <1>4, <1>5, <1>6, <1>7, <1>8, <1>9, ZenonT(60)

(* Shape 5: the client of a request that m may repeat gives up on it. A    *)
(* recovery report is sent when every VM is stopped or quarantined, a stop *)
(* report when the VM is gone.                                             *)
LEMMA DelayStep ==
  ASSUME HostInv, NEW m \in Machine, NEW op \in {"report", "complete", "stopped", "deliver"}, NEW l \in Nat,
         Joined(m), op = "report" => proc[m].phase = "recovered",
         op = "stopped" => l \in OnMachine(m) /\ own[l] = "stopped",
         late' = late \cup {Request(op, m, l)},
         UNCHANGED <<group, hosts, leases, local, starts>>
  PROVE  HostInv'
<1> USE DEF HostInv, local
<1> DEFINE q == Request(op, m, l)
<1>r. q \in Requests /\ q.op = op /\ q.machine = m /\ q.p = proc[m] /\ q.lease = l
  BY ZenonT(60) DEF Typed, Requests, Request, Ops
<1> HIDE DEF q
<1>l. late' = late \cup {q}
  BY ZenonT(60) DEF q
<1>1. Typed'
  BY <1>r, <1>l, ZenonT(60) DEF Typed
<1>2. Placed'
  BY ZenonT(60) DEF Placed, Joined, NoFile
<1>3. Dated'
  <2> SUFFICES ASSUME NEW r \in late', Sent(r)
               PROVE  /\ r.p.host \in DOMAIN hosts /\ hosts[r.p.host].machine = r.machine
                      /\ r.p.epoch <= hosts[r.p.host].epoch
                      /\ Joined(r.machine) /\ proc[r.machine].host = r.p.host
                           => r.p.epoch <= proc[r.machine].epoch
    BY ZenonT(60) DEF Dated, Sent, Joined
  <2>1. CASE r \in late
    BY <2>1, ZenonT(60) DEF Dated
  <2>2. CASE r = q
    BY <2>2, <1>r, LocalTypes, Itself, ZenonT(60) DEF Placed
  <2> QED
    BY <1>l, <2>1, <2>2, ZenonT(60)
<1>4. Unseen'
  <2>1. \A r \in late' : r \in late \/ r.p = proc[m]
    BY <1>r, <1>l, ZenonT(60)
  <2>2. \A r \in late' : r.p.service <= starts
    BY <2>1, ZenonT(60) DEF Unseen
  <2>3. \A n \in Machine : proc[n].phase = "starting" => n # m
    BY ZenonT(60) DEF Joined
  <2>4. \A n \in Machine : proc[n].phase = "starting" => \A r \in late' : r.p.service # proc[n].service
    BY <2>1, <2>3, ZenonT(60) DEF Unseen
  <2> QED
    BY <2>2, <2>4, ZenonT(60) DEF Unseen
<1>5. Employed'
  BY ZenonT(60) DEF Employed, Employing, MachineOf
<1>6. Absent'
  BY ZenonT(60) DEF Absent, MachineOf
<1>7. LateReports'
  <2> SUFFICES ASSUME NEW r \in late', r.op = "report", NEW k \in DOMAIN leases,
                      leases[k].host = r.p.host, leases[k].epoch < r.p.epoch
               PROVE  own[k] = "none" /\ (k \in vm => k \in r.p.quarantine)
    BY DEF LateReports
  <2>1. CASE r \in late
    BY <2>1, ZenonT(60) DEF LateReports
  <2>2. CASE r = q
    <3>1. proc[m].phase = "recovered" /\ leases[k].host = proc[m].host /\ k \in 1..MaxLeases
      BY <2>2, <1>r, RowTypes, ZenonT(60)
    <3>2. MachineOf(k) = m
      BY <3>1, ZenonT(60) DEF Placed, MachineOf
    <3>3. own[k] = "none"
      BY <3>1, <3>2, ZenonT(60) DEF Employed, Employing
    <3> QED
      BY <2>2, <3>1, <3>2, <3>3, <1>r, ZenonT(60) DEF Absent
  <2> QED
    BY <1>l, <2>1, <2>2, ZenonT(60)
<1>8. LateStops'
  <2> SUFFICES ASSUME NEW r \in late', r.op = "stopped"
               PROVE  /\ r.lease \in DOMAIN leases
                      /\ leases[r.lease].host = r.p.host /\ leases[r.lease].epoch = r.p.epoch
                      /\ r.lease \notin vm
                      /\ \/ Fenced(r.lease)
                         \/ own[r.lease] = "stopped"
                         \/ /\ own[r.lease] = "none"
                            /\ Joined(r.machine) /\ proc[r.machine].host = r.p.host
                                  => r.p.epoch < proc[r.machine].epoch
    BY ZenonT(60) DEF LateStops, Joined, Fenced
  <2>1. CASE r \in late
    BY <2>1, ZenonT(60) DEF LateStops
  <2>2. CASE r = q
    <3>1. /\ l \in DOMAIN leases /\ l \in 1..MaxLeases /\ MachineOf(l) = m /\ own[l] = "stopped"
          /\ r.lease = l /\ r.p = proc[m]
      BY <2>2, <1>r, RowTypes, ZenonT(60) DEF OnMachine
    <3> QED
      BY <3>1, ZenonT(60) DEF Employed, Absent
  <2> QED
    BY <1>l, <2>1, <2>2, ZenonT(60)
<1>9. Gone' /\ Single' /\ Emptied'
  BY ZenonT(60) DEF Gone, Single, Emptied, Fenced, Executing
<1> QED
  BY <1>1, <1>2, <1>3, <1>4, <1>5, <1>6, <1>7, <1>8, <1>9, ZenonT(60)

-----------------------------------------------------------------------------
(* A process starts, exchanges its secret or recovers and a lease is       *)
(* placed; then the steps of a machine's process.                          *)

(* Shape 6: a process starts under a service id of its own.                *)
LEMMA StartStep ==
  ASSUME HostInv, NEW m \in Machine, Start(m)
  PROVE  HostInv'
<1> USE DEF HostInv
<1>u. UNCHANGED <<group, hosts, leases, file, own, vm, up, late>> /\ m \in up /\ starts' = starts + 1
  BY DEF Start, rows
<1>0. /\ \A n \in Machine : n # m => proc'[n] = proc[n]
      /\ proc'[m].phase = "starting" /\ proc'[m].service = starts + 1 /\ starts \in Nat
      /\ proc[m].phase = "down"
      /\ proc' \in [Machine -> Processes]
  <2> DEFINE p == [Down EXCEPT !.phase = "starting", !.service = starts + 1]
  <2>1. p \in Processes /\ p.phase = "starting" /\ p.service = starts + 1
    <3>1. Down \in Processes
      BY DEF Down, Processes, Phases
    <3>2. starts + 1 \in Nat
      BY DEF Typed
    <3> QED
      BY <3>1, <3>2, ZenonT(60) DEF Processes, Phases
  <2>2. proc' = [proc EXCEPT ![m] = p] /\ proc[m].phase = "down"
    BY DEF Start, Phase
  <2> HIDE DEF p
  <2> QED
    BY <2>1, <2>2 DEF Typed
<1>j. \A n \in Machine : Joined(n)' <=> Joined(n)
  BY <1>0 DEF Joined
<1>e. \A n \in Machine : Joined(n)' => proc'[n] = proc[n]
  BY <1>0 DEF Joined
<1>1. Typed'
  <2>1. starts' \in Nat
    BY <1>u, <1>0, Successor, ZenonT(60)
  <2> QED
    BY <1>u, <1>0, <2>1, ZenonT(60) DEF Typed
<1>2. Placed'
  BY <1>u, <1>j, <1>e, ZenonT(60) DEF Placed, NoFile
<1>3. Dated'
  BY <1>u, <1>j, <1>e, LocalTypes, ZenonT(60) DEF Dated, Sent
<1>4. Unseen'
  <2>1. /\ \A h \in DOMAIN hosts : hosts[h].service \in Nat /\ hosts[h].service <= starts
        /\ \A n \in Machine : proc[n].service \in Nat /\ proc[n].service <= starts
        /\ \A r \in late : r.p.service \in Nat /\ r.p.service <= starts
    BY RowTypes, LocalTypes, ZenonT(60) DEF Unseen
  <2>2. /\ \A h \in DOMAIN hosts : hosts[h].service <= starts + 1
        /\ \A n \in Machine : proc'[n].service <= starts + 1
        /\ \A r \in late : r.p.service <= starts + 1
    <3>1. starts \in Nat /\ starts + 1 <= starts + 1
      BY <1>0, Successor, ZenonT(60)
    <3>2. ASSUME NEW n \in Machine PROVE proc'[n].service <= starts + 1
      <4>1. CASE n = m
        BY <4>1, <3>1, <1>0, ZenonT(60)
      <4>2. CASE n # m
        BY <4>2, <3>1, <2>1, <1>0, BelowSuccessor, ZenonT(60)
      <4> QED
        BY <4>1, <4>2
    <3> QED
      BY <3>1, <3>2, <2>1, BelowSuccessor, ZenonT(60)
  <2>3. ASSUME NEW n \in Machine, proc'[n].phase = "starting"
        PROVE  /\ proc'[n].service # 0
               /\ \A h \in DOMAIN hosts : hosts[h].service # proc'[n].service
               /\ \A r \in late : r.p.service # proc'[n].service
               /\ \A k \in Machine : k # n => proc'[k].service # proc'[n].service
    <3>1. CASE n = m
      BY <3>1, <2>1, <1>0
    <3>2. CASE n # m
      <4>1. proc'[n] = proc[n] /\ proc[n].phase = "starting"
        BY <3>2, <2>3, <1>0
      <4>2. \A k \in Machine : k # n => proc'[k].service # proc'[n].service
        BY <4>1, <2>1, <1>0 DEF Unseen
      <4> QED
        BY <4>1, <4>2, ZenonT(60) DEF Unseen
    <3> QED
      BY <3>1, <3>2, ZenonT(60)
  <2> QED
    BY <1>u, <2>2, <2>3 DEF Unseen
<1>5. Employed'
  BY <1>u, <1>0, RowTypes, ZenonT(60) DEF Employed, Employing, MachineOf
<1>6. Absent'
  <2>1. \A l \in vm : MachineOf(l) \in Machine /\ MachineOf(l)' = MachineOf(l)
    BY <1>u, RowTypes, LocalTypes DEF MachineOf
  <2>2. \A l \in vm : proc'[MachineOf(l)'].phase = "recovered" => l \in proc'[MachineOf(l)'].quarantine
    BY <2>1, <1>0 DEF Absent
  <2>3. \A n \in Machine \ up : proc'[n].phase = "down"
    BY <1>u, <1>0 DEF Absent
  <2> QED
    BY <2>1, <2>2, <2>3, <1>u, ZenonT(60) DEF Absent
<1>7. LateReports'
  BY <1>u DEF LateReports
<1>8. LateStops'
  BY <1>u, <1>j, <1>e, LocalTypes, ZenonT(60) DEF LateStops, Fenced
<1>9. Gone' /\ Single' /\ Emptied'
  BY <1>u DEF Gone, Single, Emptied, Fenced, Executing
<1> QED
  BY <1>1, <1>2, <1>3, <1>4, <1>5, <1>6, <1>7, <1>8, <1>9

(* Shape 7: a starting process stores the secret of a row of its machine,  *)
(* or removes the one it has.                                              *)
LEMMA SecretStep ==
  ASSUME HostInv, NEW m \in Machine, RowsStep({}), proc[m].phase = "starting",
         NEW f \in Files, file' = [file EXCEPT ![m] = f],
         f # NoFile => f.host \in DOMAIN hosts' /\ hosts'[f.host].machine = m,
         NEW b \in BOOLEAN, proc' = [proc EXCEPT ![m] = [proc[m] EXCEPT !.retried = b]],
         UNCHANGED <<own, vm, up, late, starts>>
  PROVE  HostInv'
<1> USE DEF HostInv
<1>0. /\ \A n \in Machine : n # m => proc'[n] = proc[n] /\ file'[n] = file[n]
      /\ \A n \in Machine : proc'[n].phase = proc[n].phase /\ proc'[n].service = proc[n].service
      /\ proc' \in [Machine -> Processes] /\ file' \in [Machine -> Files] /\ file'[m] = f
  BY ZenonT(60) DEF Typed, Processes
<1>j. \A n \in Machine : Joined(n)' <=> Joined(n)
  BY <1>0 DEF Joined
<1>e. \A n \in Machine : Joined(n) => proc'[n] = proc[n] /\ file'[n] = file[n] /\ n # m
  BY <1>0 DEF Joined
<1>1. Typed'
  BY <1>0, RowsInv, RowsKept DEF Typed, RowsStep, HostsStep
<1>2. Placed'
  <2> SUFFICES ASSUME NEW n \in Machine
               PROVE  /\ file'[n] # NoFile => file'[n].host \in DOMAIN hosts' /\ hosts'[file'[n].host].machine = n
                      /\ Joined(n)' =>
                            /\ proc'[n].host \in DOMAIN hosts' /\ hosts'[proc'[n].host].machine = n
                            /\ proc'[n].epoch <= hosts'[proc'[n].host].epoch
                            /\ file'[n] # NoFile => file'[n].host = proc'[n].host
    BY DEF Placed, NoFile
  <2>1. CASE n = m
    BY <2>1, <1>0, <1>j, <1>e
  <2>2. CASE n # m
    BY <2>2, <1>0, <1>j, PlacesKept, ZenonT(60) DEF StillPlaced
  <2> QED
    BY <2>1, <2>2
<1>3. Dated'
  <2> SUFFICES ASSUME NEW r \in late, Sent(r)
               PROVE  /\ r.p.host \in DOMAIN hosts' /\ hosts'[r.p.host].machine = r.machine
                      /\ r.p.epoch <= hosts'[r.p.host].epoch
                      /\ Joined(r.machine)' /\ proc'[r.machine].host = r.p.host
                           => r.p.epoch <= proc'[r.machine].epoch
    BY RowsInv DEF Dated, Sent
  <2> QED
    BY <1>j, <1>e, LocalTypes, PlacesKept, ZenonT(60) DEF StillDated
<1>4. Unseen'
  BY <1>0 DEF Unseen, RowsStep, Serviced
<1>5. Employed'
  <2> SUFFICES ASSUME NEW l \in 1..MaxLeases, own[l] # "none"
               PROVE  /\ l \in DOMAIN leases' /\ Employing(MachineOf(l))'
                      /\ leases'[l].host = proc'[MachineOf(l)'].host
                      /\ leases'[l].epoch = proc'[MachineOf(l)'].epoch
    BY DEF Employed
  <2>1. /\ l \in DOMAIN leases /\ MachineOf(l) \in Machine /\ MachineOf(l)' = MachineOf(l)
        /\ Employing(MachineOf(l))
    BY RowsKept, RowTypes DEF Employed
  <2>2. proc'[MachineOf(l)'] = proc[MachineOf(l)]
    BY <2>1, <1>e DEF Employing, Joined
  <2> QED
    BY <2>1, <2>2, RowsKept DEF Employed, Employing
<1>6. Absent'
  <2>1. \A l \in vm : /\ l \in DOMAIN leases /\ MachineOf(l) \in Machine
                      /\ MachineOf(l)' = MachineOf(l)
    BY RowsKept, RowTypes, LocalTypes
  <2>2. \A n \in Machine : proc'[n].phase = "recovered" => proc'[n] = proc[n]
    BY <1>0
  <2>3. \A l \in vm : proc'[MachineOf(l)'].phase = "recovered" => l \in proc'[MachineOf(l)'].quarantine
    BY <2>1, <2>2 DEF Absent
  <2>4. \A n \in Machine \ up : proc'[n].phase = "down"
    BY <1>0 DEF Absent
  <2> QED
    BY <2>1, <2>3, <2>4 DEF Absent
<1>7. LateReports'
  BY RowsKept DEF LateReports
<1>8. LateStops'
  BY <1>j, <1>e, RowsKept, LocalTypes DEF LateStops
<1>9. Gone'
  BY RowsKept DEF Gone, Executing
<1> QED
  BY RowsInv, <1>1, <1>2, <1>3, <1>4, <1>5, <1>6, <1>7, <1>8, <1>9

(* Shape 8: the secret is exchanged. The service id is new to the row, so  *)
(* the epoch is new to every lease and late request.                       *)
LEMMA AuthenticatedStep ==
  ASSUME HostInv, NEW m \in Machine, RowsStep({m}), proc[m].phase = "starting",
         file[m] # NoFile, hosts'[file[m].host].epoch = hosts[file[m].host].epoch + 1,
         proc' = [proc EXCEPT ![m] = proc'[m]], proc'[m] \in Processes,
         proc'[m].phase = "authenticated", proc'[m].service = proc[m].service,
         proc'[m].host = file[m].host, proc'[m].epoch = hosts'[file[m].host].epoch,
         UNCHANGED <<file, own, vm, up, late, starts>>
  PROVE  HostInv'
<1> USE DEF HostInv
<1>0. /\ \A n \in Machine : n # m => proc'[n] = proc[n]
      /\ \A n \in Machine : proc'[n].service = proc[n].service
      /\ proc' \in [Machine -> Processes]
  BY ZenonT(60) DEF Typed
<1>j. Joined(m)' /\ ~Joined(m) /\ \A n \in Machine : n # m => (Joined(n)' <=> Joined(n))
  BY <1>0 DEF Joined
<1>h. /\ file[m].host \in DOMAIN hosts /\ hosts[file[m].host].machine = m
      /\ hosts[file[m].host].epoch < proc'[m].epoch /\ proc'[m].epoch \in Nat
  <2>1. file[m].host \in DOMAIN hosts /\ hosts[file[m].host].machine = m
    BY ZenonT(60) DEF Placed
  <2>2. hosts[file[m].host].epoch \in Nat
    BY <2>1, RowTypes, ZenonT(60)
  <2>3. proc'[m].epoch = hosts[file[m].host].epoch + 1
    BY ZenonT(60)
  <2> QED
    BY <2>1, <2>2, <2>3, Successor, ZenonT(60)
<1>k. /\ file[m].host \in DOMAIN hosts' /\ hosts'[file[m].host].machine = m
      /\ proc'[m].epoch <= hosts'[file[m].host].epoch
  <2>1. file[m].host \in DOMAIN hosts' /\ hosts'[file[m].host].machine = m
    BY <1>h, RowsKept, ZenonT(60)
  <2>2. proc'[m].epoch = hosts'[file[m].host].epoch
    BY ZenonT(60)
  <2> QED
    BY <1>h, <2>1, <2>2, Successor, ZenonT(60)
<1>1. Typed'
  BY <1>0, RowsInv, RowsKept, ZenonT(60) DEF Typed, RowsStep, HostsStep
<1>2. Placed'
  <2> SUFFICES ASSUME NEW n \in Machine
               PROVE  /\ file[n] # NoFile => file[n].host \in DOMAIN hosts' /\ hosts'[file[n].host].machine = n
                      /\ Joined(n)' =>
                            /\ proc'[n].host \in DOMAIN hosts' /\ hosts'[proc'[n].host].machine = n
                            /\ proc'[n].epoch <= hosts'[proc'[n].host].epoch
                            /\ file[n] # NoFile => file[n].host = proc'[n].host
    BY ZenonT(60) DEF Placed, NoFile
  <2>1. CASE n = m
    BY <2>1, <1>h, <1>k, ZenonT(60)
  <2>2. CASE n # m
    BY <2>2, <1>0, <1>j, PlacesKept, ZenonT(60) DEF StillPlaced
  <2> QED
    BY <2>1, <2>2, ZenonT(60)
<1>3. Dated'
  <2> SUFFICES ASSUME NEW r \in late, Sent(r)
               PROVE  /\ r.p.host \in DOMAIN hosts' /\ hosts'[r.p.host].machine = r.machine
                      /\ r.p.epoch <= hosts'[r.p.host].epoch
                      /\ Joined(r.machine)' /\ proc'[r.machine].host = r.p.host
                           => r.p.epoch <= proc'[r.machine].epoch
    BY RowsInv, ZenonT(60) DEF Dated, Sent
  <2>1. /\ r.p.host \in DOMAIN hosts /\ hosts[r.p.host].machine = r.machine
        /\ r.p.epoch <= hosts[r.p.host].epoch /\ r.machine \in Machine /\ r.p.epoch \in Nat
    BY LocalTypes, ZenonT(60) DEF Dated
  <2>4. /\ r.p.host \in DOMAIN hosts' /\ hosts'[r.p.host].machine = r.machine
        /\ r.p.epoch <= hosts'[r.p.host].epoch
    BY PlacesKept, ZenonT(60) DEF StillDated
  <2>5. hosts[r.p.host].epoch \in Nat
    BY <2>1, RowTypes, ZenonT(60)
  <2>2. CASE r.machine = m
    <3>1. r.p.host = file[m].host => r.p.epoch <= proc'[m].epoch
      BY <2>1, <2>5, <1>h, Older, ZenonT(60)
    <3> QED
      BY <2>2, <2>4, <3>1, ZenonT(60)
  <2>3. CASE r.machine # m
    BY <2>1, <2>3, <2>4, <1>0, <1>j, ZenonT(60) DEF Dated
  <2> QED
    BY <2>2, <2>3, ZenonT(60)
<1>4. Unseen'
  <2>1. \A n \in Machine : proc'[n].phase = "starting" => n # m /\ proc[n].phase = "starting"
    BY <1>0, ZenonT(60)
  <2> QED
    BY <2>1, <1>0, UnseenKept, ZenonT(60)
<1>5. Employed'
  <2> SUFFICES ASSUME NEW l \in 1..MaxLeases, own[l] # "none"
               PROVE  /\ l \in DOMAIN leases' /\ Employing(MachineOf(l))'
                      /\ leases'[l].host = proc'[MachineOf(l)'].host
                      /\ leases'[l].epoch = proc'[MachineOf(l)'].epoch
    BY ZenonT(60) DEF Employed
  <2>1. /\ l \in DOMAIN leases /\ MachineOf(l) \in Machine /\ MachineOf(l)' = MachineOf(l)
        /\ Employing(MachineOf(l))
    BY RowsKept, RowTypes, ZenonT(60) DEF Employed
  <2>2. proc'[MachineOf(l)'] = proc[MachineOf(l)]
    BY <2>1, <1>0, ZenonT(60) DEF Employing
  <2> QED
    BY <2>1, <2>2, RowsKept, ZenonT(60) DEF Employed, Employing
<1>6. Absent'
  <2>1. \A l \in vm : /\ l \in DOMAIN leases /\ MachineOf(l) \in Machine
                      /\ MachineOf(l)' = MachineOf(l)
    BY RowsKept, RowTypes, LocalTypes, ZenonT(60)
  <2>2. \A n \in Machine : proc'[n].phase = "recovered" => proc'[n] = proc[n]
    BY <1>0
  <2>3. \A l \in vm : proc'[MachineOf(l)'].phase = "recovered" => l \in proc'[MachineOf(l)'].quarantine
    BY <2>1, <2>2, ZenonT(60) DEF Absent
  <2>4. \A n \in Machine \ up : proc'[n].phase = "down"
    BY <1>0, ZenonT(60) DEF Absent
  <2> QED
    BY <2>1, <2>3, <2>4, ZenonT(60) DEF Absent
<1>7. LateReports'
  <2>1. DOMAIN leases' = DOMAIN leases
        /\ \A l \in DOMAIN leases : leases'[l].host = leases[l].host /\ leases'[l].epoch = leases[l].epoch
    BY RowsKept, ZenonT(60)
  <2> QED
    BY <2>1, ZenonT(60) DEF LateReports
<1>8. LateStops'
  <2> SUFFICES ASSUME NEW r \in late, r.op = "stopped"
               PROVE  /\ r.lease \in DOMAIN leases'
                      /\ leases'[r.lease].host = r.p.host /\ leases'[r.lease].epoch = r.p.epoch
                      /\ r.lease \notin vm
                      /\ \/ Fenced(r.lease)'
                         \/ own[r.lease] = "stopped"
                         \/ /\ own[r.lease] = "none"
                            /\ Joined(r.machine)' /\ proc'[r.machine].host = r.p.host
                                  => r.p.epoch < proc'[r.machine].epoch
    BY ZenonT(60) DEF LateStops
  <2>1. r.machine \in Machine /\ r.p.epoch \in Nat /\ r.p.host \in DOMAIN hosts
        /\ r.p.epoch <= hosts[r.p.host].epoch
    BY LocalTypes, ZenonT(60) DEF Dated, Sent
  <2>2. CASE r.machine = m
    <3>1. hosts[r.p.host].epoch \in Nat
      BY <2>1, RowTypes, ZenonT(60)
    <3>2. r.p.host = file[m].host => r.p.epoch < proc'[m].epoch
      BY <2>1, <3>1, <1>h, Older, ZenonT(60)
    <3> QED
      BY <2>2, <3>2, RowsKept, ZenonT(60) DEF LateStops
  <2>3. CASE r.machine # m
    BY <2>1, <2>3, <1>0, <1>j, RowsKept, ZenonT(60) DEF LateStops
  <2> QED
    BY <2>2, <2>3, ZenonT(60)
<1>9. Gone'
  BY RowsKept, ZenonT(60) DEF Gone, Executing
<1> QED
  BY RowsInv, <1>1, <1>2, <1>3, <1>4, <1>5, <1>6, <1>7, <1>8, <1>9

(* Shape 9: startup recovery stops what it can and quarantines the rest.   *)
LEMMA RecoverStep ==
  ASSUME HostInv, NEW m \in Machine, Recover(m)
  PROVE  HostInv'
<1> USE DEF HostInv
<1>u. UNCHANGED <<group, hosts, leases, file, own, up, late, starts>> /\ proc[m].phase = "authenticated"
  BY DEF Recover, rows, budget, Phase
<1>q. PICK q \in SUBSET (vm \cap OnMachine(m)) :
        /\ vm' = vm \ (OnMachine(m) \ q)
        /\ proc' = [proc EXCEPT ![m].phase = "recovered", ![m].quarantine = q]
  BY ZenonT(60) DEF Recover
<1>s. q \subseteq Nat /\ vm' \subseteq vm
  BY <1>q, RowTypes DEF Typed
<1>0. /\ \A n \in Machine : n # m => proc'[n] = proc[n]
      /\ \A n \in Machine : /\ proc'[n].service = proc[n].service /\ proc'[n].host = proc[n].host
                            /\ proc'[n].epoch = proc[n].epoch
      /\ proc'[m].phase = "recovered" /\ proc'[m].quarantine = q
      /\ proc' \in [Machine -> Processes]
  <2> DEFINE p == [proc[m] EXCEPT !.phase = "recovered", !.quarantine = q]
  <2>1. proc[m] \in Processes
    BY ZenonT(60) DEF Typed
  <2>2. /\ p \in Processes /\ p.phase = "recovered" /\ p.quarantine = q
        /\ p.service = proc[m].service /\ p.host = proc[m].host /\ p.epoch = proc[m].epoch
    BY <2>1, <1>s, ZenonT(60) DEF Processes, Phases
  <2>3. proc' = [proc EXCEPT ![m] = p]
    BY <1>q, <2>1, ZenonT(60) DEF Typed, Processes
  <2> HIDE DEF p
  <2> QED
    BY <2>2, <2>3, ZenonT(60) DEF Typed
<1>j. \A n \in Machine : Joined(n)' <=> Joined(n)
  BY <1>u, <1>0 DEF Joined
<1>1. Typed'
  BY <1>u, <1>0, <1>s, ZenonT(60) DEF Typed
<1>2. Placed'
  BY <1>u, <1>0, <1>j, ZenonT(60) DEF Placed, NoFile
<1>3. Dated'
  BY <1>u, <1>0, <1>j, LocalTypes, ZenonT(60) DEF Dated, Sent
<1>4. Unseen'
  <2>1. \A n \in Machine : proc'[n].phase = "starting" => proc[n].phase = "starting"
    BY <1>0, ZenonT(60)
  <2> QED
    BY <2>1, <1>u, <1>0, UnseenSame, ZenonT(60)
<1>5. Employed'
  BY <1>u, <1>0, RowTypes, ZenonT(60) DEF Employed, Employing, MachineOf
<1>6. Absent'
  <2>1. \A l \in vm' : l \in vm /\ l \in DOMAIN leases /\ MachineOf(l) \in Machine /\ MachineOf(l)' = MachineOf(l)
    BY <1>u, <1>s, RowTypes, LocalTypes, ZenonT(60) DEF MachineOf
  <2>2. \A l \in vm' : MachineOf(l) = m => l \in q
    BY <2>1, <1>q DEF OnMachine
  <2>3. \A l \in vm' : proc'[MachineOf(l)'].phase = "recovered" => l \in proc'[MachineOf(l)'].quarantine
    <3> SUFFICES ASSUME NEW l \in vm', proc'[MachineOf(l)'].phase = "recovered"
                 PROVE  l \in proc'[MachineOf(l)'].quarantine
      OBVIOUS
    <3>1. CASE MachineOf(l) = m
      BY <3>1, <2>1, <2>2, <1>0, ZenonT(60)
    <3>2. CASE MachineOf(l) # m
      BY <3>2, <2>1, <1>0, ZenonT(60) DEF Absent
    <3> QED
      BY <3>1, <3>2, ZenonT(60)
  <2>4. \A n \in Machine \ up : proc'[n].phase = "down"
    BY <1>u, <1>0, ZenonT(60) DEF Absent
  <2> QED
    BY <2>1, <2>3, <2>4, <1>u, ZenonT(60) DEF Absent
<1>7. LateReports'
  BY <1>u, <1>s, ZenonT(60) DEF LateReports
<1>8. LateStops'
  BY <1>u, <1>0, <1>s, <1>j, LocalTypes, ZenonT(60) DEF LateStops, Fenced
<1>9. Gone' /\ Single' /\ Emptied'
  BY <1>u, <1>s, ZenonT(60) DEF Gone, Single, Emptied, Fenced, Executing
<1> QED
  BY <1>1, <1>2, <1>3, <1>4, <1>5, <1>6, <1>7, <1>8, <1>9

(* The lease an allocation adds.                                           *)
LEMMA AllocatedLease ==
  ASSUME HostInv, NEW c \in Computer, NEW h \in DOMAIN hosts, Allocate(c, h)
  PROVE  LET N == Len(leases) + 1 IN
         /\ DOMAIN leases' = DOMAIN leases \cup {N} /\ N \notin DOMAIN leases /\ N \in 1..MaxLeases
         /\ leases' \in Seq(Leased) /\ Len(leases') = N /\ Len(leases') <= MaxLeases
         /\ \A l \in DOMAIN leases : leases'[l] = leases[l]
         /\ leases'[N].computer = c /\ leases'[N].host = h
         /\ leases'[N].epoch = hosts[h].epoch /\ leases'[N].state = "assigned"
<1> USE DEF HostInv
<1> DEFINE e == [computer |-> c, host |-> h, epoch |-> hosts[h].epoch, state |-> "assigned"]
           N == Len(leases) + 1
<1>d. /\ DOMAIN leases = 1..Len(leases) /\ Len(leases) \in Nat /\ Len(leases) < MaxLeases
      /\ leases \in Seq(Leased)
  BY LenProperties, ZenonT(60) DEF Typed, Allocate
<1>h. h \in Nat /\ hosts[h].epoch \in Nat
  <2>1. DOMAIN hosts = 1..Len(hosts) /\ Len(hosts) \in Nat /\ hosts[h].epoch \in Nat
    BY RowTypes, LenProperties, ZenonT(60) DEF Typed
  <2> QED
    BY <2>1
<1>e. e \in Leased
  BY <1>h, ZenonT(60) DEF Leased
<1>a. leases' = Append(leases, e)
  BY ZenonT(60) DEF Allocate
<1>f. e.computer = c /\ e.host = h /\ e.epoch = hosts[h].epoch /\ e.state = "assigned"
  OBVIOUS
<1> HIDE DEF e
<1>n. /\ DOMAIN leases' = DOMAIN leases \cup {N} /\ N \notin DOMAIN leases /\ N \in 1..MaxLeases
      /\ leases' \in Seq(Leased) /\ Len(leases') = N /\ N <= MaxLeases
      /\ \A l \in DOMAIN leases : leases'[l] = leases[l]
      /\ leases'[N] = e
  BY <1>a, <1>d, <1>e, AppendProperties, BoundAssumption
<1> QED
  BY <1>n, <1>f

(* Shape 10: a lease is placed on a host. Nobody has owned it before.      *)
LEMMA AllocateStep ==
  ASSUME HostInv, NEW c \in Computer, NEW h \in DOMAIN hosts, Allocate(c, h)
  PROVE  HostInv'
<1> USE DEF HostInv
<1> DEFINE N == Len(leases) + 1
<1>u. UNCHANGED <<group, hosts, file, proc, own, vm, up, late, starts>>
  BY ZenonT(60) DEF Allocate, local, budget
<1>e. h \in Nat /\ hosts[h].epoch \in Nat
  <2>1. h \in 1..Len(hosts)
    BY LenProperties, ZenonT(60) DEF Typed
  <2>2. h \in Nat
    BY <2>1, SMT
  <2> QED
    BY <2>2, RowTypes, ZenonT(60)
<1>a. hosts[h].status = "active" /\ \A l \in Unfenced : leases[l].computer # c
  BY ZenonT(60) DEF Allocate
<1>n. /\ DOMAIN leases' = DOMAIN leases \cup {N} /\ N \notin DOMAIN leases /\ N \in 1..MaxLeases
      /\ leases' \in Seq(Leased) /\ Len(leases') <= MaxLeases
      /\ \A l \in DOMAIN leases : leases'[l] = leases[l]
  BY AllocatedLease, ZenonT(60)
<1>f. /\ leases'[N].computer = c /\ leases'[N].host = h
      /\ leases'[N].epoch = hosts[h].epoch /\ leases'[N].state = "assigned"
  BY AllocatedLease, ZenonT(60)
<1> HIDE DEF N
<1>o. own[N] = "none" /\ N \notin vm
  BY <1>n, ZenonT(60) DEF Employed, Typed
<1>1. Typed'
  BY <1>u, <1>n, <1>f, ZenonT(60) DEF Typed
<1>2. Placed'
  BY <1>u, ZenonT(60) DEF Placed, Joined, NoFile
<1>3. Dated'
  <2>1. \A l \in DOMAIN leases' : leases'[l].epoch <= hosts[leases'[l].host].epoch
    <3> SUFFICES ASSUME NEW l \in DOMAIN leases'
                 PROVE  leases'[l].epoch <= hosts[leases'[l].host].epoch
      OBVIOUS
    <3>1. CASE l = N
      BY <3>1, <1>f, <1>e, Successor, ZenonT(60)
    <3>2. CASE l # N
      BY <3>2, <1>n, ZenonT(60) DEF Dated
    <3> QED
      BY <3>1, <3>2
  <2> QED
    BY <2>1, <1>u, ZenonT(60) DEF Dated, Sent, Joined
<1>4. Unseen'
  BY <1>u, ZenonT(60) DEF Unseen
<1>5. Employed'
  BY <1>u, <1>n, <1>o, ZenonT(60) DEF Employed, Employing, MachineOf
<1>6. Absent'
  BY <1>u, <1>n, <1>o, LocalTypes, ZenonT(60) DEF Absent, MachineOf
<1>7. LateReports'
  <2>1. \A r \in late : r.op = "report" => ~(h = r.p.host /\ hosts[h].epoch < r.p.epoch)
    <3> SUFFICES ASSUME NEW r \in late, r.op = "report", h = r.p.host
                 PROVE  ~(hosts[h].epoch < r.p.epoch)
      OBVIOUS
    <3>1. r.p.epoch <= hosts[h].epoch /\ r.p.epoch \in Nat
      BY LocalTypes, ZenonT(60) DEF Dated, Sent
    <3> QED
      BY <3>1, <1>e, BelowSuccessor, ZenonT(60)
  <2> QED
    BY <2>1, <1>u, <1>n, <1>f, ZenonT(60) DEF LateReports
<1>8. LateStops'
  <2>1. \A r \in late : r.op = "stopped" => r.lease \in DOMAIN leases /\ leases'[r.lease] = leases[r.lease]
    BY <1>n, ZenonT(60) DEF LateStops
  <2> QED
    BY <2>1, <1>u, <1>n, ZenonT(60) DEF LateStops, Joined, Fenced
<1>9. Gone'
  BY <1>u, <1>n, <1>f, ZenonT(60) DEF Gone, Fenced, Executing
<1>10. Single'
  <2>1. \A l \in DOMAIN leases : ~Fenced(l) => leases[l].computer # c
    BY <1>a, ZenonT(60) DEF Fenced, Unfenced
  <2>2. \A l \in DOMAIN leases : ~Fenced(l)' => ~Fenced(l)
    BY <1>n, ZenonT(60) DEF Fenced
  <2> SUFFICES ASSUME NEW k \in DOMAIN leases', NEW l \in DOMAIN leases', k # l, ~Fenced(k)', ~Fenced(l)'
               PROVE  leases'[k].computer # leases'[l].computer
    BY ZenonT(60) DEF Single
  <2>3. CASE k = N
    BY <2>1, <2>2, <2>3, <1>n, <1>f, ZenonT(60)
  <2>4. CASE l = N
    BY <2>1, <2>2, <2>4, <1>n, <1>f, ZenonT(60)
  <2>5. CASE k # N /\ l # N
    BY <2>2, <2>5, <1>n, ZenonT(60) DEF Single
  <2> QED
    BY <2>3, <2>4, <2>5
<1>11. Emptied'
  BY <1>u, <1>a, <1>n, <1>f, ZenonT(60) DEF Emptied, Fenced
<1> QED
  BY <1>1, <1>2, <1>3, <1>4, <1>5, <1>6, <1>7, <1>8, <1>9, <1>10, <1>11

-----------------------------------------------------------------------------
(* The steps of a machine.                                                 *)
LEMMA EndPlain ==
  ASSUME HostInv, NEW m \in Machine, RowsStep({}), Ended(m), UNCHANGED <<file, vm, up, late, starts>>
  PROVE  HostInv' /\ Onward
<1>1. late' \subseteq late \cup {Request("enroll", m, 0)}
  OBVIOUS
<1> QED
  BY <1>1, EndStep DEF EndShape, RowsStep, Onward

(* The process takes over the row that answered its request.               *)
LEMMA PrincipalFields ==
  ASSUME HostInv, NEW ms, RowsStep(ms), NEW m \in Machine, NEW h \in DOMAIN hosts
  PROVE  /\ Principal(m, h) \in Processes
         /\ Principal(m, h).phase = proc[m].phase /\ Principal(m, h).service = proc[m].service
         /\ Principal(m, h).host = h /\ Principal(m, h).epoch = hosts'[h].epoch
         /\ Principal(m, h).quarantine = proc[m].quarantine
<1> USE DEF HostInv
<1>1. proc[m] \in Processes /\ file[m].serial \in Nat /\ group.claim \in Nat /\ h \in Nat
  BY LenProperties DEF Typed, Files, Groups
<1>2. hosts'[h] \in HostRows
  BY RowsKept, LenProperties, ElementOfSeq, ZenonT(60) DEF RowsStep, HostsStep
<1>3. hosts'[h].claim \in Nat /\ hosts'[h].epoch \in Nat
  BY <1>2 DEF HostRows
<1> QED
  BY <1>1, <1>3, ZenonT(60) DEF Principal, Processes

(* The process enrolls and stores the secret.                              *)
LEMMA EnrollInv ==
  ASSUME HostInv, NEW m \in Machine, Enroll(m)
  PROVE  HostInv' /\ Onward
<1> USE DEF HostInv
<1>0. proc[m].phase = "starting" /\ UNCHANGED <<vm, up, late, starts>>
  BY ZenonT(60) DEF Enroll, Phase, budget
<1>1. CASE Enrolls(m)
  <2> DEFINE f == [host |-> EnrolledRow(m), serial |-> hosts'[EnrolledRow(m)].serial]
  <2>1. EnrollHost(m) /\ file' = [file EXCEPT ![m] = f] /\ UNCHANGED <<proc, own>>
    BY <1>1 DEF Enroll
  <2>2. /\ RowsStep({}) /\ f \in Files /\ f.host = EnrolledRow(m)
        /\ EnrolledRow(m) \in DOMAIN hosts' /\ hosts'[EnrolledRow(m)].machine = m
    BY <1>1, <2>1, EnrollRows, ZenonT(60) DEF Files
  <2>3. /\ proc[m].retried \in BOOLEAN
        /\ proc' = [proc EXCEPT ![m] = [proc[m] EXCEPT !.retried = proc[m].retried]]
    BY <2>1 DEF Typed, Processes
  <2> HIDE DEF f
  <2> QED
    BY <1>0, <2>1, <2>2, <2>3, SecretStep, ZenonT(60) DEF RowsStep, Onward
<1>2. CASE ~Enrolls(m)
  BY <1>0, <1>2, SameRows, EndPlain, ZenonT(60) DEF Enroll
<1> QED
  BY <1>1, <1>2

(* The process exchanges its secret for a session.                         *)
LEMMA AuthenticateInv ==
  ASSUME HostInv, NEW m \in Machine, Authenticate(m)
  PROVE  HostInv' /\ Onward
<1> USE DEF HostInv
<1>0. /\ proc[m].phase = "starting" /\ file[m] # NoFile /\ UNCHANGED <<vm, up, late, starts>>
      /\ proc[m].service \in Nat /\ proc[m].service <= starts
      /\ file[m].host \in DOMAIN hosts
  BY LocalTypes DEF Authenticate, Phase, budget, Placed, Unseen
<1>1. CASE Authenticates(file[m].host, file[m].serial)
  <2>1. /\ AuthenticateHost(file[m].host, proc[m].service) /\ UNCHANGED <<file, own>>
        /\ proc' = [proc EXCEPT ![m] = [Principal(m, file[m].host) EXCEPT !.phase = "authenticated",
                                                                         !.retried = FALSE]]
    BY <1>1 DEF Authenticate
  <2>2. \A n \in Machine \ {m} : proc[n].phase = "starting" => proc[m].service # proc[n].service
    BY DEF Unseen
  <2>3. hosts[file[m].host].service # proc[m].service
    BY <1>0, ZenonT(60) DEF Unseen
  <2>4. RowsStep({m}) /\ hosts'[file[m].host].epoch = hosts[file[m].host].epoch + 1
    <3> DEFINE ms == {m}
    <3>1. \A n \in Machine \ ms : proc[n].phase = "starting" => proc[m].service # proc[n].service
      BY <2>2
    <3> HIDE DEF ms
    <3>2. RowsStep(ms)
      BY <1>0, <1>1, <2>1, <3>1, AuthenticateRows
    <3>3. hosts'[file[m].host].epoch = hosts[file[m].host].epoch + 1
      <4>1. hosts[file[m].host] \in HostRows
        BY <1>0, LenProperties, ElementOfSeq DEF Typed
      <4> QED
        BY <1>0, <2>1, <2>3, <4>1, ZenonT(60) DEF AuthenticateHost, HostRows
    <3> QED
      BY <3>2, <3>3 DEF ms
  <2> DEFINE p == [Principal(m, file[m].host) EXCEPT !.phase = "authenticated", !.retried = FALSE]
  <2>5. /\ p \in Processes /\ p.phase = "authenticated" /\ p.service = proc[m].service
        /\ p.host = file[m].host /\ p.epoch = hosts'[file[m].host].epoch
    <3> DEFINE q == Principal(m, file[m].host)
    <3>1. /\ q \in Processes /\ q.service = proc[m].service
          /\ q.host = file[m].host /\ q.epoch = hosts'[file[m].host].epoch
      BY <1>0, <2>4, PrincipalFields, ZenonT(60)
    <3> HIDE DEF q
    <3>2. p = [q EXCEPT !.phase = "authenticated", !.retried = FALSE]
      BY DEF q
    <3> QED
      BY <3>1, <3>2, ZenonT(60) DEF Processes, Phases
  <2> HIDE DEF p
  <2>6. proc'[m] = p /\ proc' = [proc EXCEPT ![m] = proc'[m]]
    BY <2>1 DEF p, Typed
  <2> QED
    BY <1>0, <2>1, <2>4, <2>5, <2>6, AuthenticatedStep, ZenonT(60) DEF RowsStep, Onward
<1>2. CASE ~Authenticates(file[m].host, file[m].serial) /\ proc[m].retried
  BY <1>0, <1>2, SameRows, EndPlain DEF Authenticate
<1>3. CASE ~Authenticates(file[m].host, file[m].serial) /\ ~proc[m].retried
  <2>1. /\ UNCHANGED rows /\ file' = [file EXCEPT ![m] = NoFile] /\ own' = own
        /\ proc' = [proc EXCEPT ![m].retried = TRUE]
    BY <1>3 DEF Authenticate
  <2>2. proc' = [proc EXCEPT ![m] = [proc[m] EXCEPT !.retried = TRUE]]
    BY <2>1 DEF Typed, Processes
  <2>3. NoFile \in Files
    BY DEF NoFile, Files
  <2> QED
    BY <1>0, <2>1, <2>2, <2>3, SameRows, SecretStep, ZenonT(60) DEF RowsStep, Onward
<1> QED
  BY <1>1, <1>2, <1>3, ZenonT(60)

(* The process refreshes its session.                                      *)
LEMMA RefreshInv ==
  ASSUME HostInv, NEW m \in Machine, Refresh(m)
  PROVE  HostInv' /\ Onward
<1> USE DEF HostInv
<1>0. /\ Joined(m) /\ UNCHANGED <<file, vm, up, late, starts>>
      /\ proc[m].service \in Nat /\ proc[m].service <= starts
  BY LocalTypes, ZenonT(60) DEF Refresh, Credentialed, Joined, budget, Unseen
<1>1. CASE Authenticates(file[m].host, file[m].serial)
  <2>1. AuthenticateHost(file[m].host, proc[m].service) /\ file[m].host \in DOMAIN hosts
    BY <1>1, ZenonT(60) DEF Refresh, Authenticates
  <2>2. \A n \in Machine : proc[n].phase = "starting" => proc[m].service # proc[n].service
    BY <1>0, ZenonT(60) DEF Unseen, Joined
  <2>3. RowsStep({})
    BY <1>0, <1>1, <2>1, <2>2, AuthenticateRows, ZenonT(60)
  <2>4. file[m].host = proc[m].host
    <3>1. file[m].host \in 1..Len(hosts) /\ Len(hosts) \in Nat
      BY <2>1, LenProperties, ZenonT(60) DEF Typed
    <3>2. file[m] # NoFile
      <4>1. file[m].host # 0
        BY <3>1, NumberedFromOne, ZenonT(60)
      <4> QED
        BY <4>1, NoFileHost, ZenonT(60)
    <3> QED
      BY <1>0, <3>2, ZenonT(60) DEF Placed
  <2>5. CASE hosts'[file[m].host].epoch = proc[m].epoch
    <3>1. proc' = [proc EXCEPT ![m] = Principal(m, file[m].host)] /\ own' = own
      BY <1>1, <2>5, ZenonT(60) DEF Refresh
    <3>2. proc'[m] = Principal(m, file[m].host) /\ proc' = [proc EXCEPT ![m] = proc'[m]]
      BY <3>1 DEF Typed
    <3>3. /\ proc'[m] \in Processes /\ proc'[m].phase = proc[m].phase /\ proc'[m].service = proc[m].service
          /\ proc'[m].host = proc[m].host /\ proc'[m].epoch = proc[m].epoch
          /\ proc'[m].quarantine = proc[m].quarantine
      <4>1. /\ Principal(m, file[m].host) \in Processes
            /\ Principal(m, file[m].host).phase = proc[m].phase
            /\ Principal(m, file[m].host).service = proc[m].service
            /\ Principal(m, file[m].host).host = file[m].host
            /\ Principal(m, file[m].host).epoch = hosts'[file[m].host].epoch
            /\ Principal(m, file[m].host).quarantine = proc[m].quarantine
        BY <2>1, <2>3, PrincipalFields, ZenonT(60)
      <4> QED
        BY <2>4, <2>5, <3>2, <4>1, ZenonT(60)
    <3>4. Proceeds(m)
      BY <1>0, <3>2, <3>3, ZenonT(60) DEF Proceeds, Joined
    <3> QED
      BY <1>0, <2>3, <3>1, <3>4, ProgressStep DEF RowsStep, Onward
  <2>6. CASE hosts'[file[m].host].epoch # proc[m].epoch
    BY <1>0, <1>1, <2>3, <2>6, EndPlain, ZenonT(60) DEF Refresh
  <2> QED
    BY <2>5, <2>6, ZenonT(60)
<1>2. CASE ~Authenticates(file[m].host, file[m].serial)
  BY <1>0, <1>2, SameRows, EndPlain, ZenonT(60) DEF Refresh
<1> QED
  BY <1>1, <1>2

(* A process moves to another phase in which it need not be recovering.    *)
LEMMA PhaseChange ==
  ASSUME HostInv, NEW m \in Machine, Joined(m), NEW q \in SUBSET Nat,
         NEW ph \in Phases \ {"down", "starting", "recovered"},
         proc' = [proc EXCEPT ![m].phase = ph, ![m].quarantine = q],
         ph \in {"running", "draining", "joined"} \/ \A l \in OnMachine(m) : own[l] = "none"
  PROVE  Proceeds(m)
<1> DEFINE p == [proc[m] EXCEPT !.phase = ph, !.quarantine = q]
<1>1. proc[m] \in Processes
  BY DEF HostInv, Typed
<1>2. /\ p \in Processes /\ p.phase = ph /\ p.host = proc[m].host /\ p.epoch = proc[m].epoch
      /\ p.service = proc[m].service
  BY <1>1, ZenonT(60) DEF Processes
<1>3. proc' = [proc EXCEPT ![m] = p]
  BY <1>1, ZenonT(60) DEF Processes, HostInv, Typed
<1> HIDE DEF p
<1>4. proc'[m] = p /\ proc' = [proc EXCEPT ![m] = proc'[m]]
  BY <1>3, ZenonT(60) DEF HostInv, Typed
<1> QED
  BY <1>2, <1>4 DEF Proceeds, Joined, Employing

(* The process of m goes to another phase.                                 *)
LEMMA PhaseStep ==
  ASSUME HostInv, NEW m \in Machine, Joined(m),
         NEW ph \in Phases \ {"down", "starting", "recovered"},
         proc' = [proc EXCEPT ![m].phase = ph],
         ph \in {"running", "draining", "joined"} \/ \A l \in OnMachine(m) : own[l] = "none",
         RowsStep({}), UNCHANGED <<file, own, vm, up, late, starts>>
  PROVE  HostInv' /\ Onward
<1>1. proc[m] \in Processes
  BY DEF HostInv, Typed
<1>2. proc[m].quarantine \in SUBSET Nat
  BY <1>1 DEF Processes
<1>3. proc' = [proc EXCEPT ![m].phase = ph, ![m].quarantine = proc[m].quarantine]
  BY <1>1, ZenonT(60) DEF Processes, HostInv, Typed
<1>4. Proceeds(m)
  BY <1>2, <1>3, PhaseChange, ZenonT(60)
<1> QED
  BY <1>4, ProgressStep DEF RowsStep, Onward

(* A process that does not work employs no owner.                          *)
LEMMA Idle ==
  ASSUME HostInv, NEW m \in Machine, ~Employing(m)
  PROVE  \A l \in OnMachine(m) : l \in DOMAIN leases /\ own[l] = "none"
BY RowTypes DEF HostInv, Employed, OnMachine

(* The process reports what startup recovery found.                        *)
LEMMA ReportInv ==
  ASSUME HostInv, NEW m \in Machine, Report(m)
  PROVE  HostInv' /\ Onward
<1> USE DEF HostInv
<1>0. /\ proc[m].phase = "recovered" /\ UNCHANGED <<file, own, vm, up, late, starts>>
      /\ Joined(m) /\ ~Employing(m)
  BY DEF Report, Phase, budget, Joined, Employing
<1>1. PICK ls \in SUBSET Recoverable(proc[m]) :
         /\ ObserveRecoveredHost(ls)
         /\ proc' = IF ls = Recoverable(proc[m])
                    THEN [proc EXCEPT ![m].phase = "reported", ![m].quarantine = {}] ELSE proc
  BY DEF Report
<1>2. ASSUME NEW l \in ls
      PROVE  l \in DOMAIN leases /\ l \notin vm /\ ~Executing(l)
  <2>1. l \in DOMAIN leases /\ leases[l].host = proc[m].host /\ l \notin proc[m].quarantine
    BY DEF Recoverable, OnHost, Unfenced
  <2>2. MachineOf(l) = m
    BY <1>0, <2>1, ZenonT(60) DEF Placed, MachineOf
  <2>3. own[l] = "none"
    BY <1>0, <2>1, <2>2, Idle, ZenonT(60) DEF OnMachine
  <2>4. l \notin vm
    BY <1>0, <2>1, <2>2, ZenonT(60) DEF Absent
  <2> QED
    BY <2>1, <2>3, <2>4 DEF Executing
<1>3. RowsStep({})
  BY <1>1, <1>2, StopRows DEF ObserveRecoveredHost
<1>4. CASE ls = Recoverable(proc[m])
  <2>1. proc' = [proc EXCEPT ![m].phase = "reported", ![m].quarantine = {}]
    BY <1>1, <1>4
  <2>2. Proceeds(m)
    BY <1>0, <2>1, Idle, PhaseChange, ZenonT(60) DEF Phases
  <2> QED
    BY <1>0, <1>3, <2>2, ProgressStep, ZenonT(60) DEF RowsStep, Onward
<1>5. CASE ls # Recoverable(proc[m])
  BY <1>0, <1>1, <1>3, <1>5, RowStep DEF RowsStep, Onward, local
<1> QED
  BY <1>4, <1>5

(* The process activates its row.                                          *)
LEMMA ActivateInv ==
  ASSUME HostInv, NEW m \in Machine, Activate(m)
  PROVE  HostInv' /\ Onward
<1> USE DEF HostInv
<1>0. Joined(m) /\ UNCHANGED <<file, vm, up, late, starts>>
  BY DEF Activate, Phase, budget, Joined
<1>1. CASE Activates(proc[m])
  <2> DEFINE ph == IF hosts'[proc[m].host].status = "draining" THEN "draining" ELSE "running"
  <2>1. ActivateHost(proc[m]) /\ own' = own /\ proc' = [proc EXCEPT ![m].phase = ph]
    BY <1>1 DEF Activate
  <2>2. RowsStep({})
    BY <1>0, <1>1, <2>1, ActivateRows DEF Placed
  <2>3. ph \in {"running", "draining"} /\ ph \in Phases \ {"down", "starting", "recovered"}
    BY DEF Phases
  <2> HIDE DEF ph
  <2> QED
    BY <1>0, <2>1, <2>2, <2>3, PhaseStep, ZenonT(60)
<1>2. CASE ~Activates(proc[m])
  BY <1>0, <1>2, SameRows, EndPlain DEF Activate
<1> QED
  BY <1>1, <1>2

(* The process observes the status of its row.                             *)
LEMMA ObserveInv ==
  ASSUME HostInv, NEW m \in Machine, Observe(m)
  PROVE  HostInv' /\ Onward
<1> USE DEF HostInv
<1>0. Joined(m) /\ UNCHANGED <<group, leases, file, own, vm, up, late, starts>>
  BY DEF Observe, Working, Joined
<1>1. PICK seen \in {"fresh", "paused"} : hosts' = [hosts EXCEPT ![proc[m].host].seen = seen]
  BY ZenonT(60) DEF Observe
<1>2. HostsStep /\ Serviced({})
  BY <1>0, <1>1, SeenRow, ZenonT(60) DEF Placed
<1>3. RowsStep({})
  BY <1>0, <1>2, SameLeases, ZenonT(60) DEF RowsStep, Typed
<1>4. CASE proc' = proc
  BY <1>0, <1>3, <1>4, RowStep DEF RowsStep, Onward, local
<1>5. CASE proc' = [proc EXCEPT ![m].phase = "draining"]
  BY <1>0, <1>3, <1>5, PhaseStep, ZenonT(60) DEF Phases
<1> QED
  BY <1>4, <1>5 DEF Observe

(* The process drains its owners and finalizes.                            *)
LEMMA DrainInv ==
  ASSUME HostInv, NEW m \in Machine, DrainStep(m) \/ FinalizeDrain(m)
  PROVE  HostInv' /\ Onward
<1> USE DEF HostInv
<1>0. Joined(m) /\ RowsStep({}) /\ UNCHANGED <<file, up, vm, late, starts>>
  BY SameRows DEF DrainStep, FinalizeDrain, Phase, budget, Joined
<1>1. CASE DrainStep(m)
  <2> DEFINE ph == IF proc[m].phase = "draining" THEN "joined" ELSE "final"
  <2>1. own' = own /\ \A l \in OnMachine(m) : own[l] = "none"
    BY <1>1 DEF DrainStep, Quiet
  <2>2. proc' = [proc EXCEPT ![m].phase = ph]
    BY <1>1 DEF DrainStep, Typed, Processes
  <2>3. ph \in Phases \ {"down", "starting", "recovered"}
    BY DEF Phases
  <2> HIDE DEF ph
  <2> QED
    BY <1>0, <2>1, <2>2, <2>3, PhaseStep, ZenonT(60)
<1>2. CASE FinalizeDrain(m) /\ vm \cap OnMachine(m) = {}
  <2>1. proc' = [proc EXCEPT ![m].phase = "finalized"] /\ own' = own /\ ~Employing(m)
    BY <1>2 DEF FinalizeDrain, Phase, Employing
  <2> QED
    BY <1>0, <2>1, Idle, PhaseStep, ZenonT(60) DEF Phases
<1>3. CASE FinalizeDrain(m) /\ vm \cap OnMachine(m) # {}
  BY <1>0, <1>3, EndPlain DEF FinalizeDrain
<1> QED
  BY <1>1, <1>2, <1>3

(* The process completes the drain and is done.                            *)
LEMMA CompleteInv ==
  ASSUME HostInv, NEW m \in Machine, Complete(m)
  PROVE  HostInv' /\ Onward
<1> USE DEF HostInv
<1>0. Joined(m) /\ ~Employing(m) /\ UNCHANGED <<file, vm, up, late, starts>>
  BY DEF Complete, Phase, budget, Joined, Employing
<1>1. CASE Completes(proc[m])
  <2>1. CompleteHostDrain(proc[m]) /\ own' = own /\ proc' = [proc EXCEPT ![m].phase = "done"]
    BY <1>1 DEF Complete
  <2>2. RowsStep({})
    BY <1>0, <1>1, <2>1, CompleteRows DEF Placed
  <2> QED
    BY <1>0, <2>1, <2>2, Idle, PhaseStep, ZenonT(60) DEF Phases
<1>2. CASE ~Completes(proc[m])
  BY <1>0, <1>2, SameRows, EndPlain DEF Complete
<1> QED
  BY <1>1, <1>2

(* A process that ends, with or without its machine.                       *)
LEMMA CrashInv ==
  ASSUME HostInv, NEW m \in Machine, Crash(m) \/ Terminate(m)
  PROVE  HostInv' /\ Onward
<1>1. RowsStep({}) /\ Ended(m) /\ late' \subseteq late \cup {Request("enroll", m, 0)} /\ starts' = starts
  BY SameRows, ZenonT(60) DEF Crash, Terminate, budget
<1>2. CASE Crash(m)
  BY <1>1, <1>2, EndStep, ZenonT(60) DEF Crash, EndShape, RowsStep, Onward
<1>3. CASE Terminate(m)
  BY <1>1, <1>3, EndStep, ZenonT(60) DEF Terminate, EndShape, RowsStep, Onward
<1> QED
  BY <1>2, <1>3

(* A request is delayed past its caller, which a startup request ends.     *)
LEMMA DelayInv ==
  ASSUME HostInv, NEW m \in Machine, DelayRequest(m)
  PROVE  HostInv' /\ Onward
<1> USE DEF HostInv
<1>1. ASSUME NEW op \in {"enroll", "authenticate", "activate"}, op = "activate" => Joined(m),
             Delay(Request(op, m, 0))
      PROVE  HostInv' /\ Onward
  <2>1. /\ RowsStep({}) /\ Ended(m) /\ late' \subseteq late \cup {Request(op, m, 0)}
        /\ UNCHANGED <<file, vm, up, starts>>
    BY <1>1, SameRows, ZenonT(60) DEF Delay, Request
  <2> QED
    BY <1>1, <2>1, EndStep DEF EndShape, RowsStep, Onward
<1>2. ASSUME NEW op \in {"report", "complete", "stopped", "deliver"}, NEW l \in Nat, Joined(m),
             op = "report" => proc[m].phase = "recovered",
             op = "stopped" => l \in OnMachine(m) /\ own[l] = "stopped",
             Delay(Request(op, m, l))
      PROVE  HostInv' /\ Onward
  <2>1. /\ RowsStep({}) /\ UNCHANGED <<group, hosts, leases, local, starts>>
        /\ late' = late \cup {Request(op, m, l)}
    BY <1>2, SameRows, ZenonT(60) DEF Delay, Request, rows, local
  <2> QED
    BY <1>2, <2>1, DelayStep, ZenonT(60) DEF RowsStep, Onward
<1>3. CASE Phase(m, "starting") /\ Delay(Request("enroll", m, 0))
  BY <1>1, <1>3
<1>4. CASE Phase(m, "starting") /\ Delay(Request("authenticate", m, 0))
  BY <1>1, <1>4
<1>5. CASE NextOp(m) # "work" /\ Delay(Request(NextOp(m), m, 0))
  <2>1. /\ Joined(m)
        /\ \/ NextOp(m) = "report" /\ proc[m].phase = "recovered"
           \/ NextOp(m) \in {"activate", "complete"}
    BY <1>5 DEF NextOp, Phase, Joined
  <2>2. CASE NextOp(m) = "activate"
    BY <1>1, <1>5, <2>1, <2>2, ZenonT(60)
  <2>3. CASE NextOp(m) = "report"
    BY <1>2, <1>5, <2>1, <2>3, ZenonT(60)
  <2>4. CASE NextOp(m) = "complete"
    BY <1>2, <1>5, <2>1, <2>4, ZenonT(60)
  <2> QED
    BY <2>1, <2>2, <2>3, <2>4, ZenonT(60)
<1>6. ASSUME NEW l \in OnMachine(m), Sends(m), Owns(m, l, "stopped"), Delay(Request("stopped", m, l))
      PROVE  HostInv' /\ Onward
  <2>1. l \in Nat /\ Joined(m) /\ own[l] = "stopped"
    <3>1. l \in DOMAIN leases /\ Joined(m) /\ own[l] = "stopped"
      BY <1>6, ZenonT(60) DEF OnMachine, Sends, Working, Joined, Owns
    <3>2. l \in 1..MaxLeases
      BY <3>1, RowTypes, ZenonT(60) DEF HostInv
    <3> QED
      BY <3>1, <3>2
  <2> QED
    BY <1>2, <1>6, <2>1, ZenonT(60)
<1>7. ASSUME NEW l \in OnMachine(m), Sends(m), Delay(Request("deliver", m, l))
      PROVE  HostInv' /\ Onward
  <2>1. l \in Nat /\ Joined(m)
    <3>1. l \in DOMAIN leases /\ Joined(m)
      BY <1>7, ZenonT(60) DEF OnMachine, Sends, Working, Joined
    <3>2. l \in 1..MaxLeases
      BY <3>1, RowTypes, ZenonT(60) DEF HostInv
    <3> QED
      BY <3>1, <3>2
  <2> QED
    BY <1>2, <1>7, <2>1, ZenonT(60)
<1> QED
  BY <1>3, <1>4, <1>5, <1>6, <1>7, ZenonT(60) DEF DelayRequest

(* The steps of one machine.                                               *)
LEMMA MachineInv ==
  ASSUME HostInv, NEW m \in Machine, MachineStep(m)
  PROVE  HostInv' /\ Onward
<1>1. Start(m) \/ Recover(m) => UNCHANGED rows
  BY DEF Start, Recover
<1>2. Start(m) \/ Recover(m) => HostInv' /\ Onward
  BY <1>1, StartStep, RecoverStep, SameRows DEF RowsStep, Onward
<1> QED
  BY <1>2, EnrollInv, AuthenticateInv, RefreshInv, ReportInv, ActivateInv, ObserveInv,
     DrainInv, CompleteInv, CrashInv, DelayInv DEF MachineStep
=============================================================================
