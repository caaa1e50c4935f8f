-------------------------- MODULE WorkerHostProofs --------------------------
(***************************************************************************)
(* Every action of WorkerHost has one of the shapes of                     *)
(* WorkerHostStepProofs, so HostInv is invariant; from it follow the       *)
(* safety invariants about fences, VMs and termination, for every value of *)
(* the constants.                                                          *)
(*                                                                         *)
(* Activation, slots and receipts need more: FleetInv says which row has a *)
(* machine's open leases and of which epochs they are, ReceiptInv what     *)
(* became of the host a receipt was opened for. Both rest on Onward, what  *)
(* every step does to the rows.                                            *)
(***************************************************************************)
EXTENDS WorkerHostStepProofs

-----------------------------------------------------------------------------
(* The steps of an allocation owner.                                       *)
LEMMA OwnerFacts ==
  ASSUME HostInv, NEW m \in Machine, NEW l \in DOMAIN leases, NEW st \in Owners \ {"none"}, Owns(m, l, st)
  PROVE  /\ own[l] = st /\ l \in 1..MaxLeases /\ MachineOf(l) = m /\ Employing(m)
         /\ leases[l].host = proc[m].host /\ leases[l].epoch = proc[m].epoch
         /\ Fenced(l) => l \notin vm
         /\ st = "stopped" => l \notin vm
         /\ Executing(l) => ~Fenced(l)
BY RowTypes DEF HostInv, Owns, OnMachine, Employed, Gone, Absent

(* An owner in custody changes to st; the rows stay.                       *)
LEMMA OwnerStays ==
  ASSUME HostInv, NEW m \in Machine, NEW l \in DOMAIN leases,
         MachineOf(l) = m, Employing(m), leases[l].host = proc[m].host, leases[l].epoch = proc[m].epoch,
         own[l] # "stopped", NEW st \in Owners, own' = [own EXCEPT ![l] = st],
         vm' \in {vm, vm \cup {l}, vm \ {l}}, UNCHANGED <<rows, file, proc, up, late, starts>>,
         Fenced(l) => l \notin vm' /\ st \notin {"admitted", "booted", "serving"},
         st = "stopped" => l \notin vm'
  PROVE  HostInv' /\ Onward
<1>1. RowsStep({}) /\ leases' = leases
  BY SameRows DEF rows
<1>2. own'[l] = st /\ own' = [own EXCEPT ![l] = own'[l]]
  BY RowTypes, ZenonT(60) DEF HostInv, Typed
<1>3. Acts(m, l)
  BY <1>1, <1>2 DEF Acts, Fenced, Executing
<1> QED
  BY <1>1, <1>3, CustodyStep DEF RowsStep, Onward

(* The steps of an owner that change no row.                               *)
LEMMA CustodyInv ==
  ASSUME HostInv, NEW m \in Machine, NEW l \in DOMAIN leases,
         Discover(m, l) \/ Boot(m, l) \/ EndRun(m, l) \/ StopVM(m, l)
  PROVE  HostInv' /\ Onward
<1> USE DEF HostInv, Owners
<1>1. CASE Discover(m, l)
  <2>1. /\ proc[m].phase \in Working /\ leases[l].host = proc[m].host /\ leases[l].epoch = proc[m].epoch
        /\ own[l] = "none" /\ own' = [own EXCEPT ![l] = "claimed"] /\ ~Fenced(l)
        /\ UNCHANGED <<rows, file, proc, vm, up, late, starts>>
    BY <1>1 DEF Discover, OnHost, Unfenced, Fenced, budget
  <2>2. Employing(m) /\ MachineOf(l) = m
    BY <2>1 DEF Working, Employing, Joined, Placed, MachineOf
  <2> QED
    BY <2>1, <2>2, OwnerStays, ZenonT(60)
<1>2. CASE Boot(m, l)
  <2>1. /\ Owns(m, l, "admitted") /\ own' = [own EXCEPT ![l] = "booted"] /\ vm' = vm \cup {l}
        /\ UNCHANGED <<rows, file, proc, up, late, starts>>
    BY <1>2 DEF Boot, budget
  <2>2. /\ own[l] = "admitted" /\ MachineOf(l) = m /\ Employing(m)
        /\ leases[l].host = proc[m].host /\ leases[l].epoch = proc[m].epoch /\ ~Fenced(l)
    BY <2>1, OwnerFacts DEF Executing
  <2> QED
    BY <2>1, <2>2, OwnerStays, ZenonT(60)
<1>3. CASE EndRun(m, l)
  <2> DEFINE st == IF own[l] = "admitted" THEN "claimed" ELSE "closing"
  <2>0. PICK from \in {"admitted", "booted", "serving"} : Owns(m, l, from)
    BY <1>3, ZenonT(60) DEF EndRun
  <2>1. /\ own' = [own EXCEPT ![l] = st]
        /\ UNCHANGED <<rows, file, proc, vm, up, late, starts>>
    BY <1>3 DEF EndRun
  <2>2. /\ own[l] = from /\ MachineOf(l) = m /\ Employing(m)
        /\ leases[l].host = proc[m].host /\ leases[l].epoch = proc[m].epoch /\ ~Fenced(l)
    BY <2>0, OwnerFacts DEF Executing
  <2>3. st \in {"claimed", "closing"}
    OBVIOUS
  <2> HIDE DEF st
  <2> QED
    BY <2>1, <2>2, <2>3, OwnerStays, ZenonT(60)
<1>4. CASE StopVM(m, l)
  <2>1. /\ Owns(m, l, "closing") /\ own' = [own EXCEPT ![l] = "stopped"] /\ vm' = vm \ {l}
        /\ UNCHANGED <<rows, file, proc, up, late, starts>>
    BY <1>4 DEF StopVM, budget
  <2>2. /\ own[l] = "closing" /\ MachineOf(l) = m /\ Employing(m)
        /\ leases[l].host = proc[m].host /\ leases[l].epoch = proc[m].epoch
    BY <2>1, OwnerFacts, ZenonT(60)
  <2> QED
    BY <2>1, <2>2, OwnerStays, ZenonT(60)
<1> QED
  BY <1>1, <1>2, <1>3, <1>4

(* The owner sends a request about its lease.                              *)
LEMMA DeliverInv ==
  ASSUME HostInv, NEW m \in Machine, NEW l \in DOMAIN leases, Deliver(m, l)
  PROVE  HostInv' /\ Onward
<1> USE DEF HostInv, Owners
<1> DEFINE st == IF Delivery(l) = "ok" THEN "admitted" ELSE "closing"
<1>1. /\ Owns(m, l, "claimed") /\ DeliverLease(l) /\ own' = [own EXCEPT ![l] = st]
      /\ UNCHANGED <<file, proc, vm, up, late, starts>>
  BY DEF Deliver, budget
<1>2. /\ own[l] = "claimed" /\ l \in 1..MaxLeases /\ MachineOf(l) = m /\ Employing(m)
      /\ leases[l].host = proc[m].host /\ leases[l].epoch = proc[m].epoch /\ (Fenced(l) => l \notin vm)
  BY <1>1, OwnerFacts
<1>3. RowsStep({})
  BY <1>1, DeliverRows
<1>4. leases' = leases \/ (leases' = [leases EXCEPT ![l].state = "delivered"] /\ leases[l].state = "assigned")
  BY <1>1 DEF DeliverLease
<1>5. Fenced(l)' => Fenced(l)
  <2>1. leases[l] \in Leased
    BY ElementOfSeq, LenProperties DEF Typed
  <2> QED
    BY <1>4, <2>1 DEF Fenced, Leased
<1>6. Fenced(l)' => st = "closing"
  BY <1>5 DEF Fenced, Delivery
<1>7. st \in {"admitted", "closing"}
  OBVIOUS
<1> HIDE DEF st
<1>8. own'[l] = st /\ own' = [own EXCEPT ![l] = own'[l]]
  BY <1>1, <1>2 DEF Typed
<1>9. Acts(m, l)
  BY <1>1, <1>2, <1>5, <1>6, <1>7, <1>8 DEF Acts, Executing
<1> QED
  BY <1>1, <1>3, <1>9, CustodyStep DEF RowsStep, Onward

(* The owner reports its VM ready.                                         *)
LEMMA ReadyInv ==
  ASSUME HostInv, NEW m \in Machine, NEW l \in DOMAIN leases, Ready(m, l)
  PROVE  HostInv' /\ Onward
<1> USE DEF HostInv, Owners
<1> DEFINE st == IF Readiness(l) = "ok" THEN "serving" ELSE "closing"
<1>1. /\ Owns(m, l, "booted") /\ ObserveFreshLeaseReady(l) /\ own' = [own EXCEPT ![l] = st]
      /\ UNCHANGED <<file, proc, vm, up, late, starts>>
  BY DEF Ready, budget
<1>2. /\ own[l] = "booted" /\ l \in 1..MaxLeases /\ MachineOf(l) = m /\ Employing(m)
      /\ leases[l].host = proc[m].host /\ leases[l].epoch = proc[m].epoch /\ ~Fenced(l)
  BY <1>1, OwnerFacts DEF Executing
<1>3. RowsStep({})
  BY <1>1, ReadyRows
<1>4. leases' = leases \/ leases' = [leases EXCEPT ![l].state = "ready"]
  BY <1>1 DEF ObserveFreshLeaseReady
<1>5. leases[l] \in Leased
  BY ElementOfSeq, LenProperties DEF Typed
<1>6. ~Fenced(l)'
  BY <1>2, <1>4, <1>5 DEF Fenced, Leased
<1>7. st \in {"serving", "closing"}
  OBVIOUS
<1> HIDE DEF st
<1>8. own'[l] = st /\ own' = [own EXCEPT ![l] = own'[l]]
  BY <1>1, <1>2 DEF Typed
<1>9. Acts(m, l)
  BY <1>1, <1>2, <1>6, <1>7, <1>8 DEF Acts
<1> QED
  BY <1>1, <1>3, <1>9, CustodyStep DEF RowsStep, Onward

(* The owner reports the stop it has proved.                               *)
LEMMA ReportStoppedInv ==
  ASSUME HostInv, NEW m \in Machine, NEW l \in DOMAIN leases, ReportStopped(m, l)
  PROVE  HostInv' /\ Onward
<1> USE DEF HostInv, Owners
<1>1. /\ Owns(m, l, "stopped") /\ ObserveLeaseStopped(l) /\ own' = [own EXCEPT ![l] = "none"]
      /\ UNCHANGED <<file, proc, vm, up, late, starts>>
  BY DEF ReportStopped, budget
<1>2. /\ own[l] = "stopped" /\ l \in 1..MaxLeases /\ MachineOf(l) = m /\ Employing(m)
      /\ leases[l].host = proc[m].host /\ leases[l].epoch = proc[m].epoch /\ l \notin vm
  BY <1>1, OwnerFacts
<1> DEFINE ls == {l}
<1>3. leases' = Stopped(ls) /\ UNCHANGED <<group, hosts>>
  BY <1>1 DEF ObserveLeaseStopped
<1>4. \A k \in ls : k \in DOMAIN leases => k \notin vm /\ ~Executing(k)
  BY <1>2 DEF Executing
<1>5. l \in ls
  OBVIOUS
<1> HIDE DEF ls
<1>6. RowsStep({}) /\ Fenced(l)'
  BY <1>3, <1>4, <1>5, StopRows, StoppedLeases
<1>8. own'[l] = "none" /\ own' = [own EXCEPT ![l] = own'[l]]
  BY <1>1, <1>2, ZenonT(60) DEF Typed
<1>9. Acts(m, l)
  BY <1>1, <1>2, <1>6, <1>8 DEF Acts, Executing
<1> QED
  BY <1>1, <1>6, <1>9, CustodyStep DEF RowsStep, Onward

(* The steps of one owner.                                                 *)
LEMMA OwnerInv ==
  ASSUME HostInv, NEW m \in Machine, NEW l \in DOMAIN leases, OwnerStep(m, l)
  PROVE  HostInv' /\ Onward
BY CustodyInv, DeliverInv, ReadyInv, ReportStoppedInv DEF OwnerStep

-----------------------------------------------------------------------------
(* The steps of the control plane.                                         *)
LEMMA LateInv ==
  ASSUME HostInv, NEW r \in late, HandleLate(r) \/ DropLate(r)
  PROVE  HostInv' /\ Onward
<1> USE DEF HostInv
<1>0. UNCHANGED <<local, starts>> /\ late' \subseteq late
  BY DEF HandleLate, DropLate, budget
<1>m. r.machine \in Machine /\ r.p.service \in Nat /\ r.p.service <= starts
  BY LocalTypes DEF Unseen
<1>h. Sent(r) => r.p.host \in DOMAIN hosts
  BY DEF Dated
<1>1. CASE DropLate(r)
  BY <1>0, <1>1, SameRows, RowStep DEF DropLate, RowsStep, Onward
<1>2. CASE Handle(r)
  <2>1. RowsStep({})
    <3>1. CASE r.op = "enroll" /\ Enrolls(r.machine) /\ EnrollHost(r.machine)
      BY <1>m, <3>1, EnrollRows
    <3>2. CASE r.op = "authenticate" /\ Authenticates(r.file.host, r.file.serial)
                 /\ AuthenticateHost(r.file.host, r.p.service)
      <4>1. \A n \in Machine : proc[n].phase = "starting" => r.p.service # proc[n].service
        BY DEF Unseen
      <4> QED
        BY <1>m, <3>2, <4>1, AuthenticateRows
    <3>3. CASE r.op = "report" /\ \E ls \in SUBSET Recoverable(r.p) : ObserveRecoveredHost(ls)
      <4>1. PICK ls \in SUBSET Recoverable(r.p) : ObserveRecoveredHost(ls)
        BY <3>3
      <4>2. ASSUME NEW l \in ls
            PROVE  l \notin vm /\ ~Executing(l)
        BY <3>3 DEF Recoverable, OnHost, Unfenced, LateReports, Executing
      <4> QED
        BY <4>1, <4>2, StopRows DEF ObserveRecoveredHost
    <3>4. CASE r.op = "activate" /\ Activates(r.p) /\ ActivateHost(r.p)
      BY <1>h, <3>4, ActivateRows DEF Sent
    <3>5. CASE r.op = "complete" /\ Completes(r.p) /\ CompleteHostDrain(r.p)
      BY <1>h, <3>5, CompleteRows DEF Sent
    <3>6. CASE r.op = "stopped" /\ ObserveLeaseStopped(r.lease)
      <4> DEFINE ls == {r.lease}
      <4>1. leases' = Stopped(ls) /\ UNCHANGED <<group, hosts>>
        BY <3>6 DEF ObserveLeaseStopped
      <4>2. r.lease \in DOMAIN leases /\ r.lease \notin vm /\ ~Executing(r.lease)
        BY <3>6 DEF LateStops, Gone, Executing
      <4>3. \A l \in ls : l \in DOMAIN leases => l \notin vm /\ ~Executing(l)
        BY <4>2
      <4> HIDE DEF ls
      <4> QED
        BY <4>1, <4>3, StopRows
    <3>7. CASE r.op = "deliver" /\ DeliverLease(r.lease)
      BY <3>7, DeliverRows
    <3> QED
      BY <1>2, <3>1, <3>2, <3>3, <3>4, <3>5, <3>6, <3>7 DEF Handle
  <2> QED
    BY <1>0, <2>1, RowStep DEF RowsStep, Onward
<1> QED
  BY <1>1, <1>2 DEF HandleLate

(* A lease expires, and is lost until it is fenced.                        *)
LEMMA ExpireInv ==
  ASSUME HostInv, NEW l \in DOMAIN leases, ExpireLease(l)
  PROVE  HostInv' /\ Onward
<1>1. /\ ~Fenced(l) /\ leases' = [leases EXCEPT ![l].state = "lost"]
      /\ UNCHANGED <<group, hosts, local, late, starts>>
  BY DEF ExpireLease, Fenced
<1>2. RowsStep({})
  BY <1>1, ChangedLease, SameHosts, ZenonT(60) DEF RowsStep, HostInv, Typed
<1> QED
  BY <1>1, <1>2, RowStep DEF RowsStep, Onward

(* A host row is marked and the leases stay.                               *)
LEMMA MarkInv ==
  ASSUME HostInv, HostsStep, Serviced({}), UNCHANGED <<group, leases, local, late, starts>>
  PROVE  HostInv' /\ Onward
<1>1. RowsStep({})
  BY SameLeases DEF RowsStep, HostInv, Typed
<1> QED
  BY <1>1, RowStep DEF RowsStep, Onward

(* The provider confirmed that the machine is gone: no process, no VM.     *)
LEMMA ConfirmInv ==
  ASSUME HostInv, NEW h \in DOMAIN hosts, ConfirmProviderAbsent(h)
  PROVE  HostInv' /\ Onward
<1> USE DEF HostInv
<1>1. /\ hosts[h].machine \notin up /\ leases' = Stopped(OnHost(h))
      /\ hosts' = hosts \/ hosts' = Lose(h)
      /\ UNCHANGED <<group, local, late, starts>>
  BY DEF ConfirmProviderAbsent, budget
<1>2. HostsStep /\ Serviced({})
  BY <1>1, SameHosts, LoseRow
<1>3. ASSUME NEW l \in OnHost(h)
      PROVE  l \in DOMAIN leases /\ l \notin vm /\ ~Executing(l)
  <2>1. l \in DOMAIN leases /\ MachineOf(l) = hosts[h].machine /\ MachineOf(l) \in Machine
    BY RowTypes DEF OnHost, Unfenced, MachineOf
  <2>2. l \notin vm /\ proc[MachineOf(l)].phase = "down"
    BY <1>1, <2>1 DEF Absent
  <2>3. own[l] = "none"
    BY <2>1, <2>2, Idle DEF Employing, OnMachine
  <2> QED
    BY <2>1, <2>2, <2>3 DEF Executing
<1> DEFINE ls == OnHost(h)
<1>4. leases' = Stopped(ls) /\ \A l \in ls : l \in DOMAIN leases => l \notin vm /\ ~Executing(l)
  BY <1>1, <1>3
<1> HIDE DEF ls
<1>5. LeasesStep
  BY <1>4, StoppedLeases
<1>6. RowsStep({})
  BY <1>1, <1>2, <1>5 DEF RowsStep, Typed
<1> QED
  BY <1>1, <1>6, RowStep DEF RowsStep, Onward

(* The steps of the control plane on one host row.                         *)
LEMMA HostStepInv ==
  ASSUME HostInv, NEW h \in DOMAIN hosts, HostStep(h)
  PROVE  HostInv' /\ Onward
<1>1. CASE GoStale(h)
  BY <1>1, SeenRow, MarkInv, ZenonT(60) DEF GoStale
<1>2. CASE FenceStaleHost(h)
  BY <1>2, LoseRow, MarkInv DEF FenceStaleHost, budget
<1>3. CASE DrainHost(h)
  BY <1>3, DrainRow, MarkInv DEF DrainHost
<1>4. CASE SelectScaleIn(h)
  BY <1>4, DrainRow, MarkInv DEF SelectScaleIn
<1>5. CASE MarkHostLost(h)
  BY <1>5, LoseRow, MarkInv DEF MarkHostLost
<1>6. CASE ConfirmProviderAbsent(h)
  BY <1>6, ConfirmInv
<1>7. ASSUME NEW c \in Computer, Allocate(c, h)
      PROVE  HostInv' /\ Onward
  <2>1. HostInv' /\ HostsStep
    BY <1>7, AllocateStep, SameHosts, ZenonT(60) DEF Allocate
  <2> QED
    BY <1>7, <2>1 DEF Onward
<1> QED
  BY <1>1, <1>2, <1>3, <1>4, <1>5, <1>6, <1>7 DEF HostStep

(* The secrets of the hosts of a group are revoked.                        *)
LEMMA RevokeInv ==
  ASSUME HostInv, RevokeGroupHostCredentials
  PROVE  HostInv' /\ Onward
<1> USE DEF HostInv
<1>0. UNCHANGED <<group, leases, local, late, starts>>
  BY DEF RevokeGroupHostCredentials
<1>1. /\ DOMAIN hosts = 1..Len(hosts) /\ Len(hosts) \in Nat
      /\ \A h \in DOMAIN hosts : hosts[h] \in HostRows
  BY ElementOfSeq, LenProperties DEF Typed
<1>2. DOMAIN hosts' = DOMAIN hosts
  BY DEF RevokeGroupHostCredentials
<1>3. ASSUME NEW h \in DOMAIN hosts
      PROVE  /\ hosts'[h] \in HostRows /\ hosts'[h].machine = hosts[h].machine
             /\ hosts'[h].epoch = hosts[h].epoch /\ hosts'[h].service = hosts[h].service
             /\ hosts'[h].claim >= hosts[h].claim /\ hosts'[h].ready = hosts[h].ready
             /\ hosts'[h].status = "lost" \/ (hosts'[h].status = hosts[h].status /\ hosts'[h].claim = hosts[h].claim)
  <2> DEFINE c == hosts[h].claim + 1
  <2>1. hosts[h] \in HostRows
    BY <1>1
  <2>2. c \in Nat /\ c >= hosts[h].claim /\ hosts[h].claim \in Nat
    BY <2>1 DEF HostRows
  <2>3. CASE hosts[h].status \in Live
    <3>1. hosts'[h] = Lose(h)[h]
      BY <2>3 DEF RevokeGroupHostCredentials
    <3>2. hosts'[h] = [hosts[h] EXCEPT !.status = "lost", !.claim = c, !.revoked = TRUE]
      BY <2>1, <3>1 DEF Lose, HostRows
    <3> HIDE DEF c
    <3> QED
      BY <2>1, <2>2, <3>2, ZenonT(60) DEF HostRows
  <2>4. CASE hosts[h].status \notin Live
    <3>1. hosts'[h] = [hosts[h] EXCEPT !.revoked = TRUE]
      BY <2>4 DEF RevokeGroupHostCredentials
    <3>2. /\ hosts'[h] \in HostRows /\ hosts'[h].machine = hosts[h].machine
          /\ hosts'[h].epoch = hosts[h].epoch /\ hosts'[h].service = hosts[h].service
          /\ hosts'[h].claim = hosts[h].claim /\ hosts'[h].status = hosts[h].status
          /\ hosts'[h].ready = hosts[h].ready
      BY <2>1, <3>1, ZenonT(60) DEF HostRows
    <3>3. hosts'[h].claim >= hosts[h].claim
      BY <2>2, <3>2
    <3> QED
      BY <3>2, <3>3
  <2> QED
    BY <2>3, <2>4
<1>4. hosts' \in Seq(HostRows)
  <2>1. hosts' = [h \in 1..Len(hosts) |-> hosts'[h]]
    BY <1>1 DEF RevokeGroupHostCredentials
  <2>2. \A h \in 1..Len(hosts) : hosts'[h] \in HostRows
    BY <1>1, <1>3
  <2>3. hosts' \in [1..Len(hosts) -> HostRows]
    BY <2>1, <2>2
  <2> QED
    BY <1>1, <2>3, FunctionIsSeq
<1>5. HostsStep
  <2>1. \A h \in DOMAIN hosts : Advances(h)
    BY <1>1, <1>3, RowTypes DEF Advances
  <2>2. \A l \in DOMAIN leases : hosts'[leases[l].host].status = "termination_ready" => Fenced(l)
    BY <1>3, RowTypes DEF Emptied
  <2>3. \A h \in DOMAIN hosts : Follows(h, hosts'[h])
    BY <1>3 DEF Follows
  <2> QED
    BY <1>2, <1>4, <2>1, <2>2, <2>3 DEF HostsStep
<1>6. Serviced({})
  BY <1>2, <1>3 DEF Serviced, Unseen
<1> QED
  BY <1>0, <1>5, <1>6, MarkInv

(* The operator changes the group or the pool.                             *)
LEMMA TransitionInv ==
  ASSUME HostInv, NEW to \in {"active", "paused", "draining", "disabled"},
         TransitionGroup(to) \/ TransitionPool(to)
  PROVE  HostInv' /\ Onward
<1> USE DEF HostInv
<1>1. UNCHANGED <<hosts, leases, local, late, starts>>
  BY DEF TransitionGroup, TransitionPool
<1>2. group' \in Groups
  <2>1. group \in Groups
    BY DEF Typed
  <2>2. CASE TransitionGroup(to)
    <3>1. group.claim + 1 \in Nat /\ group.primary \in BOOLEAN
      BY <2>1 DEF Groups
    <3>2. (group.primary /\ to # "draining") \in BOOLEAN
      BY <3>1
    <3> QED
      BY <2>2, <3>1, <3>2 DEF TransitionGroup, Groups, Serving
  <2>3. CASE TransitionPool(to)
    BY <2>1, <2>3 DEF TransitionPool
  <2> QED
    BY <2>2, <2>3
<1>3. RowsStep({})
  BY <1>1, <1>2, SameHosts, SameLeases DEF RowsStep
<1> QED
  BY <1>1, <1>3, RowStep DEF RowsStep, Onward

-----------------------------------------------------------------------------
(* Every step keeps the invariant and takes no host row back.              *)
LEMMA NextInv ==
  ASSUME HostInv, [Next]_vars
  PROVE  HostInv' /\ Onward
<1>1. CASE UNCHANGED vars
  <2>1. UNCHANGED <<rows, local, late, starts>>
    BY <1>1 DEF vars, rows, local, budget
  <2> QED
    BY <2>1, SameRows, RowStep DEF RowsStep, Onward
<1>2. CASE Next
  BY <1>2, MachineInv, OwnerInv, HostStepInv, ExpireInv, LateInv, RevokeInv, TransitionInv DEF Next
<1> QED
  BY <1>1, <1>2

(* No machine has enrolled and no lease was placed.                        *)
LEMMA InitInv ==
  ASSUME Init
  PROVE  HostInv
<1> USE DEF Init
<1>1. /\ hosts \in Seq(HostRows) /\ leases \in Seq(Leased) /\ Len(leases) = 0
      /\ DOMAIN hosts = {} /\ DOMAIN leases = {}
  BY EmptySeq
<1>2. Down \in Processes /\ NoFile \in Files
  BY ZenonT(60) DEF Down, Processes, Phases, NoFile, Files
<1>3. group \in Groups
  BY DEF Groups, Serving
<1>4. Typed
  BY <1>1, <1>2, <1>3, BoundAssumption DEF Typed, Owners
<1>d. \A m \in Machine : proc[m].phase = "down" /\ proc[m].service = 0 /\ file[m] = NoFile
  BY ZenonT(60) DEF Down
<1>p. Placed /\ Absent
  BY <1>1, <1>d DEF Placed, Absent, Joined
<1>5. Placed /\ Unseen /\ Absent
  BY <1>1, <1>d, <1>p DEF Unseen
<1> QED
  BY <1>1, <1>4, <1>5, ZenonT(60) DEF HostInv, Dated, Employed, LateReports, LateStops, Gone, Single, Emptied

(* HostInv holds in every reachable state, whatever the numbers of         *)
(* machines, Computers, rows, restarts and late requests: it is the        *)
(* inductive strengthening from which the three invariants below follow.   *)
THEOREM HostInvariant == Spec => []HostInv
<1>1. Init => HostInv
  BY InitInv
<1>2. HostInv /\ [Next]_vars => HostInv'
  BY NextInv
<1> QED
  BY <1>1, <1>2, PTL DEF Spec

(* Whichever of stop report, startup recovery, provider absence or late    *)
(* request fenced a lease, its VM is gone and nobody may boot it again.    *)
THEOREM FencedGone == Spec => []FencedIsGone
<1>1. HostInv => FencedIsGone
  BY DEF HostInv, Gone, Fenced, Executing, FencedIsGone
<1> QED
  BY <1>1, HostInvariant, PTL

(* No Computer ever runs in two VMs, across machines, restarts, fences and *)
(* reallocations: what runs or may boot is unfenced, and allocation leaves *)
(* a Computer one unfenced lease.                                          *)
THEOREM OneVM == Spec => []OneVMPerComputer
<1>1. HostInv => OneVMPerComputer
  BY DEF HostInv, Gone, Single, Fenced, Executing, OneVMPerComputer
<1> QED
  BY <1>1, HostInvariant, PTL

(* A row offered to the scaler for termination has no VM and no unfenced   *)
(* lease, and gets none later.                                             *)
THEOREM TerminationReadyEmpty == Spec => []TerminationReadyIsEmpty
<1>1. HostInv => TerminationReadyIsEmpty
  BY LocalTypes DEF HostInv, Emptied, Gone, Fenced, OnHost, Unfenced, TerminationReadyIsEmpty
<1> QED
  BY <1>1, HostInvariant, PTL

(* No handler, and no late request of a dead process, takes a host row     *)
(* back to an earlier epoch, claim or stage of its life.                   *)
THEOREM HostsOnlyAdvance == Spec => HostsAdvance
<1> DEFINE A == \A h \in DOMAIN hosts :
                   /\ hosts'[h].epoch >= hosts[h].epoch /\ hosts'[h].claim >= hosts[h].claim
                   /\ hosts[h].status = "draining" =>
                         hosts'[h].status \in {"draining", "termination_ready", "lost"}
                   /\ hosts[h].status = "termination_ready" => hosts'[h].status \in {"termination_ready", "lost"}
                   /\ hosts[h].status = "lost" => hosts'[h].status = "lost"
<1>1. HostInv /\ [Next]_vars => A
  BY NextInv DEF Onward, HostsStep, Advances
<1>2. HostInv /\ [Next]_vars => [A]_vars
  BY <1>1
<1> HIDE DEF A
<1>3. Spec => [][A]_vars
  BY <1>2, HostInvariant, PTL DEF Spec
<1> QED
  BY <1>3 DEF HostsAdvance, A

-----------------------------------------------------------------------------
(* Rows, slots and receipts                                                *)

(* A machine has one live row; while it has one, the leases of its other   *)
(* rows are fenced.                                                        *)
Sole ==
    \A h, k \in DOMAIN hosts :
        hosts[h].machine = hosts[k].machine /\ hosts[h].status \in Live /\ hosts[k].status \in Live => h = k
Cleared ==
    \A h \in DOMAIN hosts, l \in DOMAIN leases :
        hosts[h].status \in Live /\ MachineOf(l) = hosts[h].machine /\ leases[l].host # h => Fenced(l)

(* A row is ready in an epoch only when the leases of earlier ones are     *)
(* fenced.                                                                 *)
Renewed ==
    \A l \in DOMAIN leases :
        hosts[leases[l].host].ready /\ leases[l].epoch # hosts[leases[l].host].epoch => Fenced(l)

(* The unfenced leases of a machine are of one row.                        *)
Together ==
    \A k, l \in DOMAIN leases :
        ~Fenced(k) /\ ~Fenced(l) /\ MachineOf(k) = MachineOf(l) => leases[k].host = leases[l].host

FleetInv == Sole /\ Cleared /\ Renewed /\ Together

(* Handlers keep FleetInv: a live row was live before, a new row finds its *)
(* machine clear, and a row becomes ready only when its host is clear.     *)
LEMMA FleetRows ==
  ASSUME HostInv, FleetInv, HostsStep, LeasesStep
  PROVE  FleetInv'
<1> USE DEF HostInv, FleetInv
<1>l. /\ DOMAIN leases' = DOMAIN leases
      /\ \A l \in DOMAIN leases : /\ leases'[l].host = leases[l].host /\ leases'[l].epoch = leases[l].epoch
                                  /\ leases[l].host \in DOMAIN hosts
                                  /\ Fenced(l) => Fenced(l)'
  BY LenProperties DEF LeasesStep, Typed
<1>h. ASSUME NEW h \in DOMAIN hosts
      PROVE  /\ h \in DOMAIN hosts' /\ hosts'[h].machine = hosts[h].machine
             /\ hosts'[h].status \in Live => hosts[h].status \in Live
  <2>1. hosts[h] \in HostRows
    BY ElementOfSeq, LenProperties DEF Typed
  <2>2. hosts[h].status \in Live \cup {"termination_ready", "lost"}
    BY <2>1 DEF HostRows
  <2> QED
    BY <2>2 DEF HostsStep, Advances, Live
<1>m. \A l \in DOMAIN leases : MachineOf(l)' = MachineOf(l)
  BY <1>l, <1>h DEF MachineOf
<1>n. ASSUME NEW h \in DOMAIN hosts' \ DOMAIN hosts
      PROVE  /\ \A k \in DOMAIN hosts : hosts[k].machine = hosts'[h].machine => hosts[k].status \notin Live
             /\ \A l \in DOMAIN leases : MachineOf(l) = hosts'[h].machine => Fenced(l)
             /\ \A k \in DOMAIN hosts' \ DOMAIN hosts : k = h
  BY ZenonT(60) DEF HostsStep, Enlisted, LiveRows, OnMachine, Unfenced, Fenced
<1>1. Sole'
  <2> SUFFICES ASSUME NEW h \in DOMAIN hosts', NEW k \in DOMAIN hosts',
                      hosts'[h].machine = hosts'[k].machine, hosts'[h].status \in Live, hosts'[k].status \in Live
               PROVE  h = k
    BY ZenonT(60) DEF Sole
  <2>1. CASE h \in DOMAIN hosts /\ k \in DOMAIN hosts
    BY <2>1, <1>h, ZenonT(60) DEF Sole
  <2>2. CASE h \in DOMAIN hosts /\ k \notin DOMAIN hosts
    BY <2>2, <1>h, <1>n, ZenonT(60)
  <2>3. CASE h \notin DOMAIN hosts /\ k \in DOMAIN hosts
    BY <2>3, <1>h, <1>n, ZenonT(60)
  <2>4. CASE h \notin DOMAIN hosts /\ k \notin DOMAIN hosts
    BY <2>4, <1>n, ZenonT(60)
  <2> QED
    BY <2>1, <2>2, <2>3, <2>4
<1>2. Cleared'
  <2> SUFFICES ASSUME NEW h \in DOMAIN hosts', NEW l \in DOMAIN leases,
                      hosts'[h].status \in Live, MachineOf(l) = hosts'[h].machine, leases[l].host # h
               PROVE  Fenced(l)
    BY <1>l, <1>m, ZenonT(60) DEF Cleared
  <2>1. CASE h \in DOMAIN hosts
    BY <2>1, <1>h, ZenonT(60) DEF Cleared
  <2>2. CASE h \notin DOMAIN hosts
    BY <2>2, <1>n, ZenonT(60)
  <2> QED
    BY <2>1, <2>2
<1>3. Renewed'
  <2> SUFFICES ASSUME NEW l \in DOMAIN leases, hosts'[leases[l].host].ready,
                      leases[l].epoch # hosts'[leases[l].host].epoch, ~Fenced(l)
               PROVE  FALSE
    BY <1>l, ZenonT(60) DEF Renewed
  <2> DEFINE h == leases[l].host
  <2>1. h \in DOMAIN hosts /\ l \in OnHost(h)
    BY <1>l DEF OnHost, Unfenced, Fenced
  <2>2. leases[l].epoch <= hosts[h].epoch /\ leases[l].epoch \in Nat /\ hosts[h].epoch \in Nat
    BY <2>1, RowTypes, ZenonT(60) DEF Dated
  <2>3. hosts'[h].epoch >= hosts[h].epoch /\ hosts'[h].epoch \in Nat
    <3>1. hosts'[h] \in HostRows
      BY <2>1, <1>h, ElementOfSeq, LenProperties, ZenonT(60) DEF HostsStep
    <3> QED
      BY <2>1, <3>1, ZenonT(60) DEF HostsStep, Advances, HostRows
  <2>4. \/ hosts[h].ready /\ hosts'[h].epoch = hosts[h].epoch
        \/ leases[l].epoch >= hosts'[h].epoch
    BY <2>1, ZenonT(60) DEF HostsStep, Follows
  <2>5. ~(hosts[h].ready /\ hosts'[h].epoch = hosts[h].epoch)
    BY ZenonT(60) DEF Renewed
  <2> HIDE DEF h
  <2>6. leases[l].epoch = hosts'[h].epoch
    BY <2>2, <2>3, <2>4, <2>5, Level, ZenonT(60)
  <2> QED
    BY <2>6 DEF h
<1>4. Together'
  BY <1>l, <1>m DEF Together
<1> QED
  BY <1>1, <1>2, <1>3, <1>4

(* An allocation keeps FleetInv: the row it chooses is the live one of its *)
(* machine, in its present epoch.                                          *)
LEMMA FleetAllocate ==
  ASSUME HostInv, FleetInv, NEW c \in Computer, NEW h \in DOMAIN hosts, Allocate(c, h)
  PROVE  FleetInv'
<1> USE DEF HostInv, FleetInv
<1>u. hosts' = hosts /\ hosts[h].status \in Live
  BY DEF Allocate, Live
<1>n. PICK N \in 1..MaxLeases :
      /\ DOMAIN leases' = DOMAIN leases \cup {N} /\ N \notin DOMAIN leases
      /\ \A l \in DOMAIN leases : leases'[l] = leases[l]
      /\ leases'[N].host = h /\ leases'[N].epoch = hosts[h].epoch /\ leases'[N].state = "assigned"
  BY AllocatedLease, ZenonT(60)
<1>m. /\ \A l \in DOMAIN leases : MachineOf(l)' = MachineOf(l) /\ (Fenced(l)' <=> Fenced(l))
      /\ MachineOf(N)' = hosts[h].machine /\ ~Fenced(N)'
  <2>1. \A l \in DOMAIN leases : MachineOf(l)' = MachineOf(l) /\ (Fenced(l)' <=> Fenced(l))
    BY <1>u, <1>n, ZenonT(60) DEF MachineOf, Fenced
  <2>2. MachineOf(N)' = hosts[h].machine
    BY <1>u, <1>n, ZenonT(60) DEF MachineOf
  <2>3. ~Fenced(N)'
    BY <1>n DEF Fenced
  <2> QED
    BY <2>1, <2>2, <2>3
<1>1. Sole'
  BY <1>u DEF Sole
<1>2. Cleared'
  <2> SUFFICES ASSUME NEW k \in DOMAIN hosts, NEW l \in DOMAIN leases', hosts[k].status \in Live,
                      MachineOf(l)' = hosts[k].machine, leases'[l].host # k
               PROVE  Fenced(l)'
    BY <1>u, ZenonT(60) DEF Cleared
  <2>1. CASE l = N
    BY <2>1, <1>u, <1>n, <1>m, ZenonT(60) DEF Sole
  <2>2. CASE l \in DOMAIN leases
    BY <2>2, <1>n, <1>m, ZenonT(60) DEF Cleared
  <2> QED
    BY <2>1, <2>2, <1>n
<1>3. Renewed'
  BY <1>u, <1>n, <1>m, ZenonT(60) DEF Renewed
<1>4. Together'
  <2>1. ASSUME NEW k \in DOMAIN leases, ~Fenced(k), MachineOf(k) = hosts[h].machine
        PROVE  leases[k].host = h
    BY <2>1, <1>u, ZenonT(60) DEF Cleared
  <2> SUFFICES ASSUME NEW k \in DOMAIN leases', NEW l \in DOMAIN leases', ~Fenced(k)', ~Fenced(l)',
                      MachineOf(k)' = MachineOf(l)'
               PROVE  leases'[k].host = leases'[l].host
    BY ZenonT(60) DEF Together
  <2>2. CASE k = N /\ l = N
    BY <2>2
  <2>3. CASE k = N /\ l \in DOMAIN leases
    BY <2>1, <2>3, <1>n, <1>m, ZenonT(60)
  <2>4. CASE l = N /\ k \in DOMAIN leases
    BY <2>1, <2>4, <1>n, <1>m, ZenonT(60)
  <2>5. CASE k \in DOMAIN leases /\ l \in DOMAIN leases
    BY <2>5, <1>n, <1>m, ZenonT(60) DEF Together
  <2> QED
    BY <2>2, <2>3, <2>4, <2>5, <1>n, ZenonT(60)
<1> QED
  BY <1>1, <1>2, <1>3, <1>4

-----------------------------------------------------------------------------
(* The receipts of scale-in. A host's row is where its receipt left it, or *)
(* was offered for termination under the next claim, or is lost.           *)
Receipts == [host : Nat, claim : Nat, completed : BOOLEAN]

Traced(row, claim) ==
    \/ row.status = "lost"
    \/ row.status = "draining" /\ row.claim = claim
    \/ row.status = "termination_ready" /\ row.claim = claim + 1

Retired(h) == hosts[h].status = "lost" /\ hosts[h].machine \notin up /\ OnHost(h) = {}

ReceiptInv ==
    /\ receipts \in Seq(Receipts)
    /\ \A o, q \in PendingReceipts : o = q
    /\ \A o \in DOMAIN receipts :
          /\ receipts[o].host \in DOMAIN hosts
          /\ Traced(hosts[receipts[o].host], receipts[o].claim)
          /\ receipts[o].completed => Retired(receipts[o].host)

(* Only selection and confirmed absence write receipts, and no machine     *)
(* comes back.                                                             *)
LEMMA ReceiptsWritten ==
  ASSUME [Next]_vars
  PROVE  /\ up' \subseteq up
         /\ \/ receipts' = receipts
            \/ \E h \in DOMAIN hosts : SelectScaleIn(h) \/ ConfirmProviderAbsent(h)
<1> DEFINE G == up' \subseteq up /\ receipts' = receipts
<1>1. ASSUME NEW m \in Machine, MachineStep(m)
      PROVE  G
  <2>1. CASE Start(m) \/ Recover(m) \/ Crash(m) \/ DrainStep(m) \/ FinalizeDrain(m) \/ Terminate(m)
    BY <2>1 DEF Start, Recover, Crash, DrainStep, FinalizeDrain, Terminate, rows
  <2>2. CASE Enroll(m) \/ Authenticate(m) \/ Refresh(m)
    BY <2>2 DEF Enroll, Authenticate, Refresh, EnrollHost, AuthenticateHost, rows
  <2>3. CASE Report(m) \/ Observe(m)
    BY <2>3 DEF Report, Observe, ObserveRecoveredHost
  <2>4. CASE Activate(m) \/ Complete(m)
    BY <2>4, ZenonT(60) DEF Activate, Complete, ActivateHost, CompleteHostDrain, rows
  <2>5. CASE DelayRequest(m)
    BY <2>5, ZenonT(60) DEF DelayRequest, Delay, rows
  <2> QED
    BY <1>1, <2>1, <2>2, <2>3, <2>4, <2>5 DEF MachineStep
<1>2. ASSUME NEW m \in Machine, NEW l \in DOMAIN leases, OwnerStep(m, l)
      PROVE  G
  BY <1>2 DEF OwnerStep, Discover, Deliver, Boot, Ready, EndRun, StopVM, ReportStopped,
              DeliverLease, ObserveFreshLeaseReady, ObserveLeaseStopped, rows
<1>3. ASSUME NEW h \in DOMAIN hosts, HostStep(h)
      PROVE  up' \subseteq up /\ (receipts' = receipts \/ SelectScaleIn(h) \/ ConfirmProviderAbsent(h))
  BY <1>3, ZenonT(60) DEF HostStep, GoStale, FenceStaleHost, DrainHost, SelectScaleIn, MarkHostLost,
              ConfirmProviderAbsent, Allocate, local
<1>4. ASSUME NEW r \in late, HandleLate(r) \/ DropLate(r)
      PROVE  G
  <2>1. up' = up
    BY <1>4 DEF HandleLate, DropLate, local
  <2>2. Handle(r) => receipts' = receipts
    BY ZenonT(60) DEF Handle, EnrollHost, AuthenticateHost, ObserveRecoveredHost, ActivateHost, CompleteHostDrain,
           ObserveLeaseStopped, DeliverLease
  <2> QED
    BY <1>4, <2>1, <2>2 DEF HandleLate, DropLate, rows
<1>5. ASSUME NEW l \in DOMAIN leases, ExpireLease(l)
      PROVE  G
  BY <1>5 DEF ExpireLease, local
<1>6. ASSUME RevokeGroupHostCredentials \/ \E to \in {"active", "paused", "draining", "disabled"} :
                                              TransitionGroup(to) \/ TransitionPool(to)
      PROVE  G
  BY <1>6 DEF RevokeGroupHostCredentials, TransitionGroup, TransitionPool, local
<1>7. ASSUME UNCHANGED vars
      PROVE  G
  BY <1>7 DEF vars, rows, local
<1> QED
  BY <1>1, <1>2, <1>3, <1>4, <1>5, <1>6, <1>7 DEF Next

(* A step keeps what a receipt says of its host.                           *)
LEMMA ReceiptKept ==
  ASSUME HostInv, HostInv', Onward, up' \subseteq up, NEW h \in DOMAIN hosts, NEW claim \in Nat,
         Traced(hosts[h], claim)
  PROVE  h \in DOMAIN hosts' /\ Traced(hosts'[h], claim) /\ (Retired(h) => Retired(h)')
<1>1. h \in DOMAIN hosts' /\ Advances(h) /\ Follows(h, hosts'[h])
  BY DEF Onward, HostsStep
<1>2. hosts[h].status = "lost" => hosts'[h].status = "lost"
  BY <1>1 DEF Advances
<1>3. Traced(hosts'[h], claim)
  <2>1. CASE hosts[h].status = "lost"
    BY <2>1, <1>2 DEF Traced
  <2>2. CASE hosts[h].status = "draining" /\ hosts[h].claim = claim
    BY <2>2, <1>1 DEF Advances, Follows, Traced
  <2>3. CASE hosts[h].status = "termination_ready" /\ hosts[h].claim = claim + 1
    BY <2>3, <1>1, ZenonT(60) DEF Advances, Follows, Traced
  <2> QED
    BY <2>1, <2>2, <2>3 DEF Traced
<1>4. ASSUME Retired(h)
      PROVE  Retired(h)'
  <2>1. hosts'[h].status = "lost" /\ hosts'[h].machine \notin up'
    BY <1>1, <1>2, <1>4 DEF Retired, Advances
  <2>2. CASE LeasesStep
    <3>1. DOMAIN leases' = DOMAIN leases
      BY <2>2, LenProperties, ZenonT(60) DEF LeasesStep, HostInv, Typed
    <3>2. \A l \in DOMAIN leases : leases[l].host = h => Fenced(l)
      BY <1>4 DEF Retired, OnHost, Unfenced, Fenced
    <3>3. \A l \in DOMAIN leases' : leases'[l].host = h => Fenced(l)'
      BY <2>2, <3>1, <3>2, ZenonT(60) DEF LeasesStep
    <3> QED
      BY <2>1, <3>3 DEF Retired, OnHost, Unfenced, Fenced
  <2>3. ASSUME NEW c \in Computer, NEW k \in DOMAIN hosts, Allocate(c, k)
        PROVE  Retired(h)'
    <3>1. PICK N \in 1..MaxLeases :
             /\ DOMAIN leases' = DOMAIN leases \cup {N}
             /\ \A l \in DOMAIN leases : leases'[l] = leases[l]
             /\ leases'[N].host = k
      BY <2>3, AllocatedLease, ZenonT(60)
    <3>2. k # h
      BY <2>3, <1>4, ZenonT(60) DEF Allocate, Retired
    <3>3. OnHost(h)' = OnHost(h)
      BY <2>3, <3>1, <3>2 DEF OnHost, Unfenced
    <3> QED
      BY <2>1, <3>3, <1>4, ZenonT(60) DEF Retired
  <2> QED
    BY <2>2, <2>3 DEF Onward
<1> QED
  BY <1>1, <1>3, <1>4

(* SelectScaleIn opens one receipt, for the claim it makes.                *)
LEMMA ReceiptOpened ==
  ASSUME HostInv, receipts \in Seq(Receipts), NEW h \in DOMAIN hosts, SelectScaleIn(h)
  PROVE  \E n \in Nat : /\ DOMAIN receipts' = DOMAIN receipts \cup {n} /\ n \notin DOMAIN receipts
                        /\ \A o \in DOMAIN receipts : receipts'[o] = receipts[o]
                        /\ receipts'[n].host = h /\ receipts'[n].claim = hosts[h].claim + 1
                        /\ receipts'[n].completed = FALSE /\ receipts' \in Seq(Receipts)
<1> DEFINE e == [host |-> h, claim |-> hosts[h].claim + 1, completed |-> FALSE]
<1>1. hosts[h].claim \in Nat
  BY RowTypes, ZenonT(60) DEF HostInv
<1>2. DOMAIN hosts = 1..Len(hosts) /\ Len(hosts) \in Nat
  BY LenProperties, ZenonT(60) DEF HostInv, Typed
<1>3. DOMAIN receipts = 1..Len(receipts) /\ Len(receipts) \in Nat
  BY LenProperties, ZenonT(60)
<1>4. receipts' = Append(receipts, e)
  BY ZenonT(60) DEF SelectScaleIn
<1>5. h \in Nat /\ hosts[h].claim + 1 \in Nat
  BY <1>1, <1>2
<1>6. e \in Receipts /\ e.host = h /\ e.claim = hosts[h].claim + 1 /\ e.completed = FALSE
  BY <1>5, ZenonT(60) DEF Receipts
<1> HIDE DEF e
<1>7. /\ receipts' \in Seq(Receipts) /\ Len(receipts') = Len(receipts) + 1
      /\ \A o \in 1..Len(receipts) : receipts'[o] = receipts[o]
      /\ receipts'[Len(receipts) + 1] = e
  BY <1>4, <1>6, AppendProperties
<1>8. DOMAIN receipts' = 1..Len(receipts')
  BY <1>7, LenProperties, ZenonT(60)
<1>9. PICK n \in Nat : n = Len(receipts) + 1
  BY <1>3
<1>10. DOMAIN receipts' = DOMAIN receipts \cup {n} /\ n \notin DOMAIN receipts
  BY <1>3, <1>7, <1>8, <1>9
<1> QED
  BY <1>3, <1>6, <1>7, <1>9, <1>10, ZenonT(60)

(* Every step keeps the receipts true.                                     *)
LEMMA ReceiptsKept ==
  ASSUME HostInv, ReceiptInv, [Next]_vars
  PROVE  ReceiptInv'
<1> USE DEF ReceiptInv
<1>1. HostInv' /\ Onward /\ up' \subseteq up
  BY NextInv, ReceiptsWritten
<1>d. /\ DOMAIN receipts = 1..Len(receipts) /\ Len(receipts) \in Nat
      /\ \A o \in DOMAIN receipts : receipts[o] \in Receipts
  BY LenProperties, ElementOfSeq
<1>2. ASSUME NEW o \in DOMAIN receipts
      PROVE  /\ receipts[o].claim \in Nat /\ receipts[o].completed \in BOOLEAN
             /\ receipts[o].host \in DOMAIN hosts'
             /\ Traced(hosts'[receipts[o].host], receipts[o].claim)
             /\ \A h \in DOMAIN hosts : h = receipts[o].host /\ receipts[o].completed => Retired(h)'
  <2>1. receipts[o].claim \in Nat /\ receipts[o].completed \in BOOLEAN
    BY <1>d DEF Receipts
  <2>2. /\ receipts[o].host \in DOMAIN hosts /\ Traced(hosts[receipts[o].host], receipts[o].claim)
        /\ receipts[o].completed => Retired(receipts[o].host)
    OBVIOUS
  <2>3. PICK h \in DOMAIN hosts : h = receipts[o].host
    BY <2>2
  <2>4. h \in DOMAIN hosts' /\ Traced(hosts'[h], receipts[o].claim) /\ (Retired(h) => Retired(h)')
    BY <1>1, <2>1, <2>2, <2>3, ReceiptKept, ZenonT(60)
  <2> QED
    BY <2>1, <2>2, <2>3, <2>4, ZenonT(60)
<1>3. CASE receipts' = receipts
  <2>1. \A o \in DOMAIN receipts : receipts[o].completed => Retired(receipts[o].host)'
    BY <1>2, <1>3
  <2> QED
    BY <1>2, <1>3, <2>1, ZenonT(60) DEF PendingReceipts
<1>4. ASSUME NEW h \in DOMAIN hosts, SelectScaleIn(h)
      PROVE  ReceiptInv'
  <2>1. hosts[h] \in HostRows
    BY LenProperties, ElementOfSeq, ZenonT(60) DEF HostInv, Typed
  <2>4. PICK n \in Nat : /\ DOMAIN receipts' = DOMAIN receipts \cup {n} /\ n \notin DOMAIN receipts
                         /\ \A o \in DOMAIN receipts : receipts'[o] = receipts[o]
                         /\ receipts'[n].host = h /\ receipts'[n].claim = hosts[h].claim + 1
                         /\ receipts'[n].completed = FALSE /\ receipts' \in Seq(Receipts)
    BY <1>4, ReceiptOpened, ZenonT(60)
  <2>5. \A o, q \in PendingReceipts' : o = q
    <3>1. PendingReceipts = {}
      BY <1>4, ZenonT(60) DEF SelectScaleIn
    <3>2. \A o \in PendingReceipts' : o = n
      BY <3>1, <2>4, ZenonT(60) DEF PendingReceipts
    <3> QED
      BY <3>2
  <2>6. hosts'[h].status = "draining" /\ hosts'[h].claim = hosts[h].claim + 1
    BY <1>4, <2>1, ZenonT(60) DEF SelectScaleIn, Drained, HostRows
  <2>7. h \in DOMAIN hosts' /\ Traced(hosts'[h], hosts[h].claim + 1)
    BY <1>1, <2>6, ZenonT(60) DEF Traced, Onward, HostsStep
  <2>8. ASSUME NEW o \in DOMAIN receipts'
        PROVE  /\ receipts'[o].host \in DOMAIN hosts'
               /\ Traced(hosts'[receipts'[o].host], receipts'[o].claim)
               /\ receipts'[o].completed => Retired(receipts[o].host)'
    <3>1. CASE o = n
      BY <3>1, <2>4, <2>7, ZenonT(60)
    <3>2. CASE o \in DOMAIN receipts
      BY <3>2, <2>4, <1>2, ZenonT(60)
    <3> QED
      BY <3>1, <3>2, <2>4, ZenonT(60)
  <2> QED
    BY <2>4, <2>5, <2>8, ZenonT(60) DEF PendingReceipts
<1>5. ASSUME NEW h \in DOMAIN hosts, ConfirmProviderAbsent(h)
      PROVE  ReceiptInv'
  <2>1. /\ DOMAIN receipts' = DOMAIN receipts /\ receipts' = [o \in DOMAIN receipts |-> receipts'[o]]
        /\ \A o \in DOMAIN receipts :
              receipts'[o] = [receipts[o] EXCEPT !.completed = receipts[o].completed \/ receipts[o].host = h]
    BY <1>5, <1>d DEF ConfirmProviderAbsent, Receipts
  <2>2. ASSUME NEW o \in DOMAIN receipts
        PROVE  /\ receipts'[o] \in Receipts
               /\ receipts'[o].host = receipts[o].host /\ receipts'[o].claim = receipts[o].claim
               /\ receipts'[o].completed <=> receipts[o].completed \/ receipts[o].host = h
    <3> DEFINE b == receipts[o].completed \/ receipts[o].host = h
    <3>1. b \in BOOLEAN /\ receipts[o] \in Receipts
      BY <1>d
    <3>2. receipts'[o] = [receipts[o] EXCEPT !.completed = b]
      BY <2>1
    <3> HIDE DEF b
    <3>3. /\ receipts'[o] \in Receipts
          /\ receipts'[o].host = receipts[o].host /\ receipts'[o].claim = receipts[o].claim
          /\ receipts'[o].completed = b
      BY <3>1, <3>2, ZenonT(60) DEF Receipts
    <3> QED
      BY <3>3, ZenonT(60) DEF b
  <2>3. receipts' \in Seq(Receipts)
    BY <2>1, <2>2, <1>d, FunctionIsSeq
  <2>4. \A o, q \in PendingReceipts' : o = q
    BY <2>1, <2>2 DEF PendingReceipts
  <2>5. Retired(h)'
    <3>1. hosts'[h].status = "lost"
      <4>1. hosts[h] \in HostRows
        BY LenProperties, ElementOfSeq, ZenonT(60) DEF HostInv, Typed
      <4> QED
        BY <1>5, <4>1 DEF ConfirmProviderAbsent, Lose, HostRows
    <3>2. hosts'[h].machine \notin up'
      BY <1>1, <1>5 DEF ConfirmProviderAbsent, Onward, HostsStep, Advances
    <3>3. \A l \in DOMAIN leases' : leases'[l].host = h => leases'[l].state = "fenced"
      <4>1. \A l \in DOMAIN leases : leases[l] \in Leased
        BY ElementOfSeq, LenProperties DEF HostInv, Typed
      <4> QED
        BY <1>5, <4>1 DEF ConfirmProviderAbsent, Stopped, OnHost, Unfenced, Leased
    <3> QED
      BY <3>1, <3>2, <3>3, ZenonT(60) DEF Retired, OnHost, Unfenced
  <2>6. ASSUME NEW o \in DOMAIN receipts'
        PROVE  /\ receipts'[o].host \in DOMAIN hosts'
               /\ Traced(hosts'[receipts'[o].host], receipts'[o].claim)
               /\ receipts'[o].completed => Retired(receipts[o].host)'
    <3>1. o \in DOMAIN receipts /\ receipts'[o].host = receipts[o].host
      BY <2>1, <2>2
    <3>2. PICK k \in DOMAIN hosts : k = receipts[o].host
      BY <3>1, ZenonT(60)
    <3>3. receipts'[o].completed => Retired(k)'
      BY <2>2, <2>5, <3>1, <3>2, <1>2, ZenonT(60)
    <3> QED
      BY <2>2, <3>1, <3>2, <3>3, <1>2, ZenonT(60)
  <2> QED
    BY <2>3, <2>4, <2>6
<1> QED
  BY <1>3, <1>4, <1>5, ReceiptsWritten, ZenonT(60)

-----------------------------------------------------------------------------
(* FleetInv and ReceiptInv hold in every reachable state: they strengthen  *)
(* the three invariants below, which speak of rows and VMs together.       *)
THEOREM FleetInvariant == Spec => [](FleetInv /\ ReceiptInv)
<1>1. Init => FleetInv /\ ReceiptInv
  <2> SUFFICES ASSUME Init
               PROVE  FleetInv /\ ReceiptInv
    OBVIOUS
  <2>1. DOMAIN hosts = {} /\ DOMAIN leases = {} /\ DOMAIN receipts = {} /\ receipts \in Seq(Receipts)
    BY EmptySeq DEF Init
  <2>2. FleetInv
    BY <2>1, ZenonT(60) DEF FleetInv, Sole, Cleared, Renewed, Together
  <2> QED
    BY <2>1, <2>2 DEF ReceiptInv, PendingReceipts
<1>2. HostInv /\ FleetInv /\ ReceiptInv /\ [Next]_vars => FleetInv' /\ ReceiptInv'
  <2> SUFFICES ASSUME HostInv, FleetInv, ReceiptInv, [Next]_vars
               PROVE  FleetInv' /\ ReceiptInv'
    OBVIOUS
  <2>1. Onward
    BY NextInv
  <2> QED
    BY <2>1, FleetRows, FleetAllocate, ReceiptsKept DEF Onward
<1> QED
  BY <1>1, <1>2, HostInvariant, PTL DEF Spec

(* A host that passed activation starts clean: the machine's other rows    *)
(* were cleared when this one was enrolled, and its own earlier epochs     *)
(* when it was activated.                                                  *)
THEOREM ActiveRecovered == Spec => []ActiveIsRecovered
<1>1. HostInv /\ FleetInv => ActiveIsRecovered
  <2> SUFFICES ASSUME HostInv, FleetInv, NEW h \in DOMAIN hosts,
                      hosts[h].status \in {"active", "draining"}, hosts[h].ready,
                      NEW l \in DOMAIN leases, MachineOf(l) = hosts[h].machine,
                      leases[l].host # h \/ leases[l].epoch # hosts[h].epoch
               PROVE  leases[l].state = "fenced" /\ l \notin vm
    BY DEF ActiveIsRecovered, OnMachine
  <2>1. Fenced(l)
    <3>1. CASE leases[l].host # h
      BY <3>1 DEF FleetInv, Cleared, Live
    <3>2. CASE leases[l].host = h
      BY <3>2 DEF FleetInv, Renewed
    <3> QED
      BY <3>1, <3>2
  <2> QED
    BY <2>1 DEF HostInv, Gone, Fenced
<1> QED
  BY <1>1, HostInvariant, FleetInvariant, PTL

-----------------------------------------------------------------------------
(* Counting leases and receipts                                            *)

INSTANCE FiniteSetTheorems

(* The unfenced leases of a row are finitely many.                         *)
LEMMA OnHostFinite ==
  ASSUME Typed, NEW h
  PROVE  IsFiniteSet(OnHost(h))
<1>1. DOMAIN leases = 1..Len(leases) /\ Len(leases) \in Nat
  BY LenProperties DEF Typed
<1>2. IsFiniteSet(DOMAIN leases)
  BY <1>1, FS_Interval
<1>3. OnHost(h) \subseteq DOMAIN leases
  BY DEF OnHost, Unfenced
<1> QED
  BY <1>2, <1>3, FS_Subset

(* An allocation counts the row's unfenced leases, lost ones included.     *)
Bounded == \A h \in DOMAIN hosts : Cardinality(OnHost(h)) <= Slots

(* A step that adds no lease leaves a row no more unfenced ones.           *)
LEMMA BoundedRows ==
  ASSUME HostInv, Bounded, HostsStep, LeasesStep
  PROVE  Bounded'
<1> SUFFICES ASSUME NEW h \in DOMAIN hosts'
             PROVE  Cardinality(OnHost(h)') <= Slots
  BY DEF Bounded
<1>l. /\ DOMAIN leases' = DOMAIN leases
      /\ \A l \in DOMAIN leases : /\ leases'[l].host = leases[l].host
                                  /\ Fenced(l) => Fenced(l)'
  BY LenProperties, ZenonT(60) DEF LeasesStep, HostInv, Typed
<1>1. OnHost(h)' \subseteq OnHost(h)
  BY <1>l DEF OnHost, Unfenced, Fenced
<1>2. IsFiniteSet(OnHost(h))
  BY OnHostFinite DEF HostInv
<1>3. IsFiniteSet(OnHost(h)') /\ Cardinality(OnHost(h)') <= Cardinality(OnHost(h))
  BY <1>1, <1>2, FS_Subset
<1>4. Cardinality(OnHost(h)') \in Nat /\ Cardinality(OnHost(h)) \in Nat /\ Slots \in Nat
  BY <1>2, <1>3, FS_CardinalityType, BoundAssumption, ZenonT(60)
<1>5. CASE h \in DOMAIN hosts
  <2>1. Cardinality(OnHost(h)) <= Slots
    BY <1>5 DEF Bounded
  <2> QED
    BY <1>3, <1>4, <2>1
<1>6. CASE h \notin DOMAIN hosts
  <2>1. \A l \in DOMAIN leases : leases[l].host \in DOMAIN hosts
    BY RowTypes DEF HostInv
  <2>2. OnHost(h) = {}
    BY <1>6, <2>1 DEF OnHost, Unfenced
  <2>3. OnHost(h)' = {}
    BY <1>1, <2>2
  <2> QED
    BY <1>4, <2>3, FS_EmptySet
<1> QED
  BY <1>5, <1>6

(* A lease is placed only on a host with a free slot.                      *)
LEMMA BoundedAllocate ==
  ASSUME HostInv, Bounded, NEW c \in Computer, NEW h \in DOMAIN hosts, Allocate(c, h)
  PROVE  Bounded'
<1>u. hosts' = hosts /\ Cardinality(OnHost(h)) < Slots
  BY ZenonT(60) DEF Allocate
<1>n. PICK N \in 1..MaxLeases :
        /\ DOMAIN leases' = DOMAIN leases \cup {N} /\ N \notin DOMAIN leases
        /\ \A l \in DOMAIN leases : leases'[l] = leases[l]
        /\ leases'[N].host = h /\ leases'[N].state = "assigned"
  BY AllocatedLease, ZenonT(60)
<1> SUFFICES ASSUME NEW k \in DOMAIN hosts
             PROVE  Cardinality(OnHost(k)') <= Slots
  BY <1>u DEF Bounded
<1>1. CASE k = h
  <2>1. OnHost(h)' = OnHost(h) \cup {N} /\ N \notin OnHost(h)
    BY <1>n DEF OnHost, Unfenced, Fenced
  <2>2. IsFiniteSet(OnHost(h))
    BY OnHostFinite DEF HostInv
  <2>3. Cardinality(OnHost(h)') = Cardinality(OnHost(h)) + 1 /\ Cardinality(OnHost(h)) \in Nat
    BY <2>1, <2>2, FS_AddElement, FS_CardinalityType, ZenonT(60)
  <2> QED
    BY <1>1, <2>3, <1>u, BoundAssumption, SMTT(30)
<1>2. CASE k # h
  <2>1. OnHost(k)' = OnHost(k)
    BY <1>2, <1>n DEF OnHost, Unfenced, Fenced
  <2> QED
    BY <2>1 DEF Bounded
<1> QED
  BY <1>1, <1>2

(* No row ever has more unfenced leases than its host has slots.           *)
THEOREM SlotsBounded == Spec => []Bounded
<1>1. Init => Bounded
  BY EmptySeq DEF Init, Bounded
<1>2. HostInv /\ Bounded /\ [Next]_vars => Bounded'
  <2> SUFFICES ASSUME HostInv, Bounded, [Next]_vars
               PROVE  Bounded'
    OBVIOUS
  <2>1. Onward
    BY NextInv
  <2> QED
    BY <2>1, BoundedRows, BoundedAllocate DEF Onward
<1> QED
  BY <1>1, <1>2, HostInvariant, PTL DEF Spec

(* A machine never runs more VMs than its slots, across restarts, epochs   *)
(* and enrollments: its VMs belong to unfenced leases of one row, and an   *)
(* allocation counts those, lost ones included.                            *)
THEOREM SlotsHeld == Spec => []WithinSlots
<1>1. HostInv /\ FleetInv /\ Bounded => WithinSlots
  <2> SUFFICES ASSUME HostInv, FleetInv, Bounded, NEW m \in Machine
               PROVE  Cardinality(vm \cap OnMachine(m)) <= Slots
    BY DEF WithinSlots
  <2>1. CASE vm \cap OnMachine(m) = {}
    BY <2>1, FS_EmptySet, BoundAssumption
  <2>2. CASE vm \cap OnMachine(m) # {}
    <3>1. PICK l \in vm : l \in OnMachine(m)
      BY <2>2
    <3> DEFINE h == leases[l].host
    <3>2. \A k \in vm : k \in DOMAIN leases /\ ~Fenced(k)
      BY LocalTypes DEF HostInv, Gone
    <3>3. \A k \in vm \cap OnMachine(m) : leases[k].host = h
      BY <3>1, <3>2 DEF FleetInv, Together, OnMachine
    <3>4. vm \cap OnMachine(m) \subseteq OnHost(h)
      BY <3>2, <3>3 DEF OnHost, Unfenced, Fenced
    <3>5. h \in DOMAIN hosts
      BY <3>1, <3>2, RowTypes DEF HostInv
    <3> HIDE DEF h
    <3>6. IsFiniteSet(OnHost(h)) /\ Cardinality(OnHost(h)) <= Slots
      BY <3>5, OnHostFinite DEF HostInv, Bounded
    <3>7. /\ IsFiniteSet(vm \cap OnMachine(m))
          /\ Cardinality(vm \cap OnMachine(m)) <= Cardinality(OnHost(h))
      BY <3>4, <3>6, FS_Subset
    <3>8. Cardinality(vm \cap OnMachine(m)) \in Nat /\ Cardinality(OnHost(h)) \in Nat /\ Slots \in Nat
      BY <3>6, <3>7, FS_CardinalityType, BoundAssumption, ZenonT(60)
    <3> QED
      BY <3>6, <3>7, <3>8
  <2> QED
    BY <2>1, <2>2
<1> QED
  BY <1>1, HostInvariant, FleetInvariant, SlotsBounded, PTL

(* The scaler may believe its receipts: one is pending at most, it is      *)
(* blocked only by the loss of its host, and complete only when the        *)
(* machine is gone and none of its leases is open.                         *)
THEOREM ReceiptsTrue == Spec => []ReceiptsHold
<1>1. ReceiptInv => ReceiptsHold
  <2> SUFFICES ASSUME ReceiptInv
               PROVE  ReceiptsHold
    OBVIOUS
  <2>1. Cardinality(PendingReceipts) <= 1
    <3>1. CASE PendingReceipts = {}
      BY <3>1, FS_EmptySet
    <3>2. CASE PendingReceipts # {}
      <4>1. PICK o \in PendingReceipts : TRUE
        BY <3>2
      <4>2. PendingReceipts = {o}
        BY <4>1 DEF ReceiptInv
      <4>3. Cardinality({o}) = 1
        BY FS_Singleton
      <4> QED
        BY <4>2, <4>3
    <3> QED
      BY <3>1, <3>2
  <2>2. ASSUME NEW o \in DOMAIN receipts
        PROVE  /\ ReceiptPhase(o) = "blocked" => hosts[receipts[o].host].status = "lost"
               /\ receipts[o].completed =>
                     hosts[receipts[o].host].machine \notin up /\ OnHost(receipts[o].host) = {}
    <3>1. Traced(hosts[receipts[o].host], receipts[o].claim)
      BY DEF ReceiptInv
    <3>2. receipts[o].completed => Retired(receipts[o].host)
      BY DEF ReceiptInv
    <3>3. ReceiptPhase(o) = "blocked" => hosts[receipts[o].host].status = "lost"
      BY <3>1, ZenonT(60) DEF Traced, ReceiptPhase
    <3> QED
      BY <3>2, <3>3, ZenonT(60) DEF Retired
  <2> QED
    BY <2>1, <2>2, ZenonT(60) DEF ReceiptsHold
<1> QED
  BY <1>1, FleetInvariant, PTL
=============================================================================
