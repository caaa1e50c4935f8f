----------------------------- MODULE WorkerHost -----------------------------
(***************************************************************************)
(* Worker hosts of one group with one pool: enrollment, host secrets,      *)
(* epochs, startup recovery, activation, Computer leases placed on a host, *)
(* planned drain, scale-in receipts and every way a host is declared lost. *)
(* The control plane's handlers lock group, pool and host rows, so each is *)
(* one action over the rows. A machine runs at most one worker process;    *)
(* VMs outlive it. A request of the process passes the authorization       *)
(* middleware and then its handler: a request whose client gave up or died *)
(* in between waits in late, to be handled at any later time or never.     *)
(***************************************************************************)
EXTENDS Naturals, Sequences, FiniteSets

CONSTANTS
    Machine,        \* provider resources, each with one worker installed
    Computer,
    Slots,          \* VM slots a host activates with
    MaxHosts,       \* worker_hosts rows
    MaxLeases,      \* computer_leases rows
    MaxStarts,      \* worker processes started, on all machines
    MaxFaults,      \* late requests, missed or unhealthy observations, missed renewals
    MaxControls,    \* operator and scaler commands on hosts
    MaxTransitions  \* group and pool transitions

ASSUME BoundAssumption ==
    /\ IsFiniteSet(Machine) /\ IsFiniteSet(Computer)
    /\ {Slots, MaxHosts, MaxLeases, MaxStarts, MaxFaults, MaxControls, MaxTransitions} \subseteq Nat

VARIABLES
    group,      \* worker_groups: status, claim_version, whether the pool is primary
    pool,       \* worker_pools.status, "absent" before the first enrollment
    hosts,      \* worker_hosts with the one secret that may be unrevoked
    leases,     \* computer_leases
    receipts,   \* worker_scale_in_operations, one per operation key
    file,       \* the host secret stored on each machine
    proc,       \* the worker process of each machine
    own,        \* the process's allocation owner of each lease
    vm,         \* leases whose VM runs on the machine of their host
    up,         \* machines the provider has not terminated
    late,
    starts, faults, controls, transitions

rows == <<group, pool, hosts, leases, receipts>>
local == <<file, proc, own, vm, up>>
budget == <<starts, faults, controls, transitions>>
vars == <<rows, local, late, budget>>

Live == {"registering", "active", "draining"}
Serving == {"active", "paused", "draining"}

HostRows == [machine : Machine, status : Live \cup {"termination_ready", "lost"},
             claim : Nat, epoch : Nat, service : Nat, ready : BOOLEAN,
             seen : {"none", "fresh", "paused", "stale"},
             serial : Nat, secretClaim : Nat, revoked : BOOLEAN]
LeaseRows == [computer : Computer, host : 1..MaxHosts, epoch : Nat,
              state : {"assigned", "delivered", "ready", "lost", "fenced"}]

NoFile == [host |-> 0, serial |-> 0]
Down == [phase |-> "down", service |-> 0, retried |-> FALSE, host |-> 0, serial |-> 0,
         claim |-> 0, groupClaim |-> 0, epoch |-> 0, quarantine |-> {}]

Unfenced == {l \in DOMAIN leases : leases[l].state # "fenced"}
OnHost(h) == {l \in Unfenced : leases[l].host = h}
MachineOf(l) == hosts[leases[l].host].machine
OnMachine(m) == {l \in DOMAIN leases : MachineOf(l) = m}
LiveRows(m) == {h \in DOMAIN hosts : hosts[h].machine = m /\ hosts[h].status \in Live}

Init ==
    /\ group = [status |-> "active", claim |-> 1, primary |-> FALSE]
    /\ pool = "absent"
    /\ hosts = <<>> /\ leases = <<>> /\ receipts = <<>>
    /\ file = [m \in Machine |-> NoFile]
    /\ proc = [m \in Machine |-> Down]
    /\ own = [l \in 1..MaxLeases |-> "none"]
    /\ vm = {} /\ up = Machine /\ late = {}
    /\ starts = 0 /\ faults = 0 /\ controls = 0 /\ transitions = 0

Fault == faults < MaxFaults /\ faults' = faults + 1
NoFault == UNCHANGED faults

-----------------------------------------------------------------------------
(* Handlers of the control plane: what each requires, and the rows after it *)

Lose(h) == [hosts EXCEPT ![h].status = "lost", ![h].claim = @ + 1, ![h].revoked = TRUE]

\* Mutant: custody is asked of the live rows of the resource only.
Enrolls_liveOnly(m) ==
    /\ group.status \in {"active", "paused"}
    /\ \A h \in LiveRows(m) : OnHost(h) = {}
    /\ pool \in {"absent", "pending", "active"}
    /\ \A h \in LiveRows(m) : hosts[h].status = "registering"
    /\ LiveRows(m) = {} => Len(hosts) < MaxHosts

(* EnrollHost: custody is asked of every row of the resource, lost ones    *)
(* included. A live row is taken over only while it is registering.        *)
Enrolls(m) ==
    /\ group.status \in {"active", "paused"}
    /\ OnMachine(m) \cap Unfenced = {}
    /\ pool \in {"absent", "pending", "active"}
    /\ \A h \in LiveRows(m) : hosts[h].status = "registering"
    /\ LiveRows(m) = {} => Len(hosts) < MaxHosts

EnrolledRow(m) == IF LiveRows(m) = {} THEN Len(hosts) + 1 ELSE CHOOSE h \in LiveRows(m) : TRUE

EnrollHost(m) ==
    /\ pool' = IF pool = "absent" THEN "pending" ELSE pool
    /\ hosts' = IF LiveRows(m) = {}
                THEN Append(hosts, [machine |-> m, status |-> "registering", claim |-> 1,
                                    epoch |-> 0, service |-> 0, ready |-> FALSE, seen |-> "none",
                                    serial |-> 1, secretClaim |-> 1, revoked |-> FALSE])
                ELSE LET row == hosts[EnrolledRow(m)] IN
                     [hosts EXCEPT ![EnrolledRow(m)] =
                         [row EXCEPT !.claim = @ + 1, !.service = 0, !.ready = FALSE, !.seen = "none",
                                     !.serial = @ + 1, !.secretClaim = row.claim + 1, !.revoked = FALSE]]
    /\ UNCHANGED <<group, leases, receipts>>

(* AuthenticateWorkerHostSecret: a new service opens the next epoch.       *)
Authenticates(h, serial) ==
    /\ h \in DOMAIN hosts
    /\ hosts[h].serial = serial /\ ~hosts[h].revoked /\ hosts[h].secretClaim = hosts[h].claim
    /\ hosts[h].status \in Live
    /\ group.status \in Serving
    /\ pool \in {"pending", "active", "draining"}

AuthenticateHost(h, service) ==
    /\ hosts' = IF hosts[h].service = service THEN hosts
                ELSE [hosts EXCEPT ![h] =
                         [hosts[h] EXCEPT !.epoch = @ + 1, !.service = service, !.ready = FALSE, !.seen = "none",
                                          !.status = IF @ = "active" THEN "registering" ELSE @]]
    /\ UNCHANGED <<group, pool, leases, receipts>>

(* The middleware's Authorize...WorkerHostSecret, by kind of request.      *)
Current(p) ==
    /\ hosts[p.host].claim = p.claim /\ group.claim = p.groupClaim
    /\ hosts[p.host].epoch = p.epoch
    /\ group.status \in Serving

Claims(p) ==
    /\ Current(p)
    /\ hosts[p.host].serial = p.serial /\ ~hosts[p.host].revoked
    /\ hosts[p.host].secretClaim = p.claim

Recovering(h) == hosts[h].status = "registering" \/ (hosts[h].status = "draining" /\ ~hosts[h].ready)

DrainReplay(p) ==
    /\ hosts[p.host].serial = p.serial /\ hosts[p.host].revoked
    /\ hosts[p.host].status = "termination_ready"
    /\ hosts[p.host].epoch = p.epoch
    /\ hosts[p.host].secretClaim = p.claim /\ hosts[p.host].claim = p.claim + 1

Authorized(op, p) ==
    CASE op = "report" -> Claims(p) /\ Recovering(p.host) /\ pool \in {"pending", "active", "draining"}
      [] op = "activate" -> Claims(p) /\ hosts[p.host].status \in Live /\ pool \in {"pending", "active", "draining"}
      [] op = "complete" -> (Claims(p) /\ hosts[p.host].status \in {"active", "draining"}
                                /\ pool \in {"active", "draining"}) \/ DrainReplay(p)
      [] OTHER -> Claims(p) /\ hosts[p.host].status \in {"active", "draining"} /\ pool \in {"active", "draining"}

(* ObserveRecoveredHost: every lease of an earlier epoch outside the       *)
(* quarantine is recorded stopped, in a transaction of its own that locks  *)
(* and checks the host again. A transaction may time out on a lock.        *)
Recoverable(p) ==
    {l \in OnHost(p.host) : leases[l].epoch < p.epoch /\ l \notin p.quarantine}

Reports(p) == Current(p) /\ Recovering(p.host)

Stopped(ls) ==
    [l \in DOMAIN leases |-> IF l \in ls THEN [leases[l] EXCEPT !.state = "fenced"] ELSE leases[l]]

ObserveRecoveredHost(ls) ==
    /\ leases' = Stopped(ls)
    /\ UNCHANGED <<group, pool, hosts, receipts>>

(* ActivateHost: the handler checks the epoch, not the claims again. An    *)
(* unfenced lease of an earlier epoch, quarantined or not, refuses it.     *)
Activates(p) ==
    /\ group.status \in Serving
    /\ hosts[p.host].epoch = p.epoch
    /\ pool \in {"pending", "active", "draining"}
    /\ pool = "pending" => group.status # "draining"
    /\ \A l \in OnHost(p.host) : leases[l].epoch >= p.epoch
    /\ hosts[p.host].status \in Live

ActivateHost(p) ==
    /\ pool' = IF pool = "pending" THEN "active" ELSE pool
    /\ group' = [group EXCEPT !.primary = @ \/ pool = "pending"]
    /\ hosts' = [hosts EXCEPT ![p.host].ready = TRUE,
                              ![p.host].status = IF "draining" \in {@, group.status, pool'}
                                                 THEN "draining" ELSE "active"]
    /\ UNCHANGED <<leases, receipts>>

(* CompleteHostDrain, with its replay on a row that is already ready.      *)
Completes(p) ==
    /\ group.status \in Serving
    /\ hosts[p.host].epoch = p.epoch
    /\ \/ /\ hosts[p.host].status = "draining"
          /\ hosts[p.host].claim \in {p.claim, p.claim + 1}
          /\ ~hosts[p.host].revoked /\ hosts[p.host].secretClaim = hosts[p.host].claim
          /\ OnHost(p.host) = {}
       \/ hosts[p.host].status = "termination_ready" /\ hosts[p.host].claim = p.claim + 1

CompleteHostDrain(p) ==
    /\ hosts' = IF hosts[p.host].status = "termination_ready" THEN hosts
                ELSE [hosts EXCEPT ![p.host].status = "termination_ready",
                                   ![p.host].claim = @ + 1, ![p.host].revoked = TRUE]
    /\ UNCHANGED <<group, pool, leases, receipts>>

(* lockMaterializationHost and firstExecution of DeliverLease and          *)
(* ObserveFreshLeaseReady.                                                 *)
Supplies(p) ==
    /\ Current(p)
    /\ pool \in {"active", "draining"}
    /\ hosts[p.host].status \in {"active", "draining"}
    /\ hosts[p.host].seen \in {"fresh", "paused"}

FirstExecution(h) ==
    IF hosts[h].status = "draining" /\ group.status = "active" /\ pool = "active"
    THEN IF hosts[h].seen = "paused" THEN "wait" ELSE "ok"
    ELSE IF "draining" \in {group.status, pool, hosts[h].status} THEN "closed"
    ELSE IF group.status = "active" /\ hosts[h].seen = "fresh" THEN "ok" ELSE "wait"

Delivery(l) ==
    IF leases[l].state \in {"lost", "fenced"} THEN "closed"
    ELSE IF leases[l].state # "assigned" THEN "ok" ELSE FirstExecution(leases[l].host)

DeliverLease(l) ==
    /\ leases' = IF leases[l].state = "assigned" /\ Delivery(l) = "ok"
                 THEN [leases EXCEPT ![l].state = "delivered"] ELSE leases
    /\ UNCHANGED <<group, pool, hosts, receipts>>

Readiness(l) ==
    IF leases[l].state \in {"lost", "fenced"} THEN "closed"
    ELSE IF leases[l].state = "ready" THEN "ok" ELSE FirstExecution(leases[l].host)

ObserveFreshLeaseReady(l) ==
    /\ leases' = IF Readiness(l) = "ok" THEN [leases EXCEPT ![l].state = "ready"] ELSE leases
    /\ UNCHANGED <<group, pool, hosts, receipts>>

(* ObserveLeaseStopped: idempotent once the lease is fenced.               *)
StopReports(p) == Current(p) /\ hosts[p.host].status \in {"active", "draining"}

ObserveLeaseStopped(l) ==
    /\ leases' = Stopped({l})
    /\ UNCHANGED <<group, pool, hosts, receipts>>

-----------------------------------------------------------------------------
(* The worker process of a machine                                         *)

Phase(m, ph) == proc[m].phase = ph
Working == {"running", "draining"}

(* The process ends; its allocation owners are gone and its VMs stay.      *)
Ended(m) ==
    /\ proc' = [proc EXCEPT ![m] = Down]
    /\ own' = [l \in 1..MaxLeases |-> IF l \in OnMachine(m) THEN "none" ELSE own[l]]

(* systemd starts the worker, which takes the process lock and a new       *)
(* service id.                                                             *)
Start(m) ==
    /\ m \in up /\ Phase(m, "down") /\ starts < MaxStarts
    /\ starts' = starts + 1
    /\ proc' = [proc EXCEPT ![m] = [Down EXCEPT !.phase = "starting", !.service = starts + 1]]
    /\ UNCHANGED <<rows, file, own, vm, up, late, faults, controls, transitions>>

(* Without a stored secret the worker enrolls and stores the one it gets.  *)
Enroll(m) ==
    /\ Phase(m, "starting") /\ file[m] = NoFile
    /\ IF Enrolls(m)
       THEN /\ EnrollHost(m)
            /\ file' = [file EXCEPT ![m] = [host |-> EnrolledRow(m), serial |-> hosts'[EnrolledRow(m)].serial]]
            /\ UNCHANGED <<proc, own>>
       ELSE Ended(m) /\ UNCHANGED <<rows, file>>
    /\ UNCHANGED <<vm, up, late, budget>>

(* The stored secret is exchanged for a credential. A refused secret is    *)
(* removed and the worker enrolls again, once.                             *)
Principal(m, h) ==
    [proc[m] EXCEPT !.host = h, !.serial = file[m].serial, !.claim = hosts'[h].claim,
                    !.groupClaim = group.claim, !.epoch = hosts'[h].epoch]

Authenticate(m) ==
    /\ Phase(m, "starting") /\ file[m] # NoFile
    /\ IF Authenticates(file[m].host, file[m].serial)
       THEN /\ AuthenticateHost(file[m].host, proc[m].service)
            /\ proc' = [proc EXCEPT ![m] = [Principal(m, file[m].host) EXCEPT !.phase = "authenticated",
                                                                               !.retried = FALSE]]
            /\ UNCHANGED <<file, own>>
       ELSE /\ UNCHANGED rows
            /\ IF proc[m].retried THEN Ended(m) /\ UNCHANGED file
               ELSE /\ file' = [file EXCEPT ![m] = NoFile]
                    /\ proc' = [proc EXCEPT ![m].retried = TRUE]
                    /\ UNCHANGED own
    /\ UNCHANGED <<vm, up, late, budget>>

(* The operation the process sends next in its phase.                      *)
NextOp(m) ==
    CASE Phase(m, "recovered") -> "report"
      [] Phase(m, "reported") -> "activate"
      [] Phase(m, "finalized") -> "complete"
      [] OTHER -> "work"

Credentialed(m) == proc[m].phase \notin {"down", "starting", "done"}

(* hostCredential: a refused request exchanges the secret again under the  *)
(* same service. A refusal, or another epoch, ends the host's authority.   *)
Refresh(m) ==
    /\ Credentialed(m) /\ proc[m].phase \notin {"authenticated", "final"}
    /\ ~Authorized(NextOp(m), proc[m])
    /\ IF Authenticates(file[m].host, file[m].serial)
       THEN /\ AuthenticateHost(file[m].host, proc[m].service)
            /\ IF hosts'[file[m].host].epoch = proc[m].epoch
               THEN proc' = [proc EXCEPT ![m] = Principal(m, file[m].host)] /\ UNCHANGED own
               ELSE Ended(m)
       ELSE UNCHANGED rows /\ Ended(m)
    /\ UNCHANGED <<file, vm, up, late, budget>>

(* recoverLocalVMState: every VM found is stopped, or quarantined when it  *)
(* cannot be proved absent.                                                *)
Recover(m) ==
    /\ Phase(m, "authenticated")
    /\ \E q \in SUBSET (vm \cap OnMachine(m)) :
          /\ vm' = vm \ (OnMachine(m) \ q)
          /\ proc' = [proc EXCEPT ![m].phase = "recovered", ![m].quarantine = q]
    /\ UNCHANGED <<rows, file, own, up, late, budget>>

(* workerStartupRecovery. While a lease stays pending the worker retries,  *)
(* and gives up after a bounded number of conflicts.                       *)
Report(m) ==
    /\ Phase(m, "recovered") /\ Authorized("report", proc[m])
    /\ \E ls \in SUBSET Recoverable(proc[m]) :
          /\ ObserveRecoveredHost(ls)
          /\ proc' = IF ls = Recoverable(proc[m]) THEN [proc EXCEPT ![m].phase = "reported", ![m].quarantine = {}] ELSE proc
    /\ UNCHANGED <<file, own, vm, up, late, budget>>

(* The answer says whether the host is active or draining.                 *)
Activate(m) ==
    /\ Phase(m, "reported") /\ Authorized("activate", proc[m])
    /\ IF Activates(proc[m])
       THEN /\ ActivateHost(proc[m])
            /\ proc' = [proc EXCEPT ![m].phase = IF hosts'[proc[m].host].status = "draining"
                                                 THEN "draining" ELSE "running"]
            /\ UNCHANGED own
       ELSE Ended(m) /\ UNCHANGED rows
    /\ UNCHANGED <<file, vm, up, late, budget>>

(* RecordObservation, at every observation period: with it the worker      *)
(* learns that its host is draining.                                       *)
Observe(m) ==
    /\ proc[m].phase \in Working \cup {"joined"} /\ Authorized("work", proc[m])
    /\ \E seen \in {"fresh", "paused"} :
          /\ hosts' = [hosts EXCEPT ![proc[m].host].seen = seen]
          /\ IF seen = "fresh" THEN NoFault ELSE Fault
    /\ proc' = IF Phase(m, "running") /\ hosts[proc[m].host].status = "draining"
               THEN [proc EXCEPT ![m].phase = "draining"] ELSE proc
    /\ UNCHANGED <<group, pool, leases, receipts, file, own, vm, up, late, starts, controls, transitions>>

(* A crash, a fatal error, or a shutdown that does not drain.              *)
Crash(m) ==
    /\ proc[m].phase \notin {"down", "done"}
    /\ Ended(m)
    /\ UNCHANGED <<rows, file, vm, up, late, budget>>

(* completeServerDirectedDrain: wait until no owner and no lease is left,  *)
(* stop claiming, wait again, take the final inventory, complete.          *)
Quiet(m) ==
    /\ \A l \in OnMachine(m) : own[l] = "none"
    /\ Authorized("work", proc[m])
    /\ hosts[proc[m].host].status = "draining"
    /\ OnHost(proc[m].host) = {}

DrainStep(m) ==
    /\ proc[m].phase \in {"draining", "joined"} /\ Quiet(m)
    /\ proc' = [proc EXCEPT ![m].phase = IF @ = "draining" THEN "joined" ELSE "final"]
    /\ UNCHANGED <<rows, file, own, vm, up, late, budget>>

FinalizeDrain(m) ==
    /\ Phase(m, "final")
    /\ IF vm \cap OnMachine(m) = {}
       THEN proc' = [proc EXCEPT ![m].phase = "finalized"] /\ UNCHANGED own
       ELSE Ended(m)
    /\ UNCHANGED <<rows, file, vm, up, late, budget>>

Complete(m) ==
    /\ Phase(m, "finalized") /\ Authorized("complete", proc[m])
    /\ IF Completes(proc[m])
       THEN CompleteHostDrain(proc[m]) /\ proc' = [proc EXCEPT ![m].phase = "done"] /\ UNCHANGED own
       ELSE UNCHANGED rows /\ Ended(m)
    /\ UNCHANGED <<file, vm, up, late, budget>>

-----------------------------------------------------------------------------
(* Allocation owners: discovery, delivery, boot, readiness, stop           *)

Owns(m, l, state) == l \in OnMachine(m) /\ own[l] = state
Sends(m) == proc[m].phase \in Working \cup {"joined"} /\ Authorized("work", proc[m])

(* ListHostAllocations returns the unfenced leases of the host's epoch; an *)
(* owner takes custody of one it does not hold. Claiming stops once joined.*)
Discover(m, l) ==
    /\ proc[m].phase \in Working /\ Sends(m)
    /\ l \in OnHost(proc[m].host) /\ leases[l].epoch = proc[m].epoch
    /\ own[l] = "none"
    /\ own' = [own EXCEPT ![l] = "claimed"]
    /\ UNCHANGED <<rows, file, proc, vm, up, late, budget>>

(* A closed allocation sends the owner to cleanup, a refusal is retried.   *)
Deliver(m, l) ==
    /\ Sends(m) /\ Owns(m, l, "claimed") /\ Supplies(proc[m])
    /\ Delivery(l) # "wait"
    /\ DeliverLease(l)
    /\ own' = [own EXCEPT ![l] = IF Delivery(l) = "ok" THEN "admitted" ELSE "closing"]
    /\ UNCHANGED <<file, proc, vm, up, late, budget>>

(* From here on the owner only ever cleans up: it never boots twice.       *)
Boot(m, l) ==
    /\ proc[m].phase \in Working \cup {"joined"} /\ Owns(m, l, "admitted")
    /\ own' = [own EXCEPT ![l] = "booted"]
    /\ vm' = vm \cup {l}
    /\ UNCHANGED <<rows, file, proc, up, late, budget>>

Ready(m, l) ==
    /\ Sends(m) /\ Owns(m, l, "booted") /\ Supplies(proc[m])
    /\ Readiness(l) # "wait"
    /\ ObserveFreshLeaseReady(l)
    /\ own' = [own EXCEPT ![l] = IF Readiness(l) = "ok" THEN "serving" ELSE "closing"]
    /\ UNCHANGED <<file, proc, vm, up, late, budget>>

(* The run ends: hibernation, VM exit, lease refused or expired, an error. *)
(* Before the boot the owner delivers again; after it, it cleans up.       *)
EndRun(m, l) ==
    /\ \E from \in {"admitted", "booted", "serving"} : Owns(m, l, from)
    /\ IF own[l] = "admitted" /\ leases[l].state # "lost" THEN Fault ELSE NoFault
    /\ own' = [own EXCEPT ![l] = IF @ = "admitted" THEN "claimed" ELSE "closing"]
    /\ UNCHANGED <<rows, file, proc, vm, up, late, starts, controls, transitions>>

\* Mutant: the stop is reported while the VM may still be there.
StopVM_unproved(m, l) ==
    /\ Owns(m, l, "closing")
    /\ own' = [own EXCEPT ![l] = "stopped"]
    /\ UNCHANGED <<rows, file, proc, vm, up, late, budget>>

(* cleanup: the VM is proved absent before the stop is reported.           *)
StopVM(m, l) ==
    /\ Owns(m, l, "closing")
    /\ vm' = vm \ {l}
    /\ own' = [own EXCEPT ![l] = "stopped"]
    /\ UNCHANGED <<rows, file, proc, up, late, budget>>

ReportStopped(m, l) ==
    /\ Sends(m) /\ Owns(m, l, "stopped")
    /\ ObserveLeaseStopped(l)
    /\ own' = [own EXCEPT ![l] = "none"]
    /\ UNCHANGED <<file, proc, vm, up, late, budget>>

-----------------------------------------------------------------------------
(* Requests that outlive their client                                      *)

(* A request passes authentication or the middleware and its client sees   *)
(* an error. The client may send it again, except for enrollment,          *)
(* authentication and activation, whose failure ends the process.          *)
Request(op, m, l) == [op |-> op, machine |-> m, p |-> proc[m], file |-> file[m], lease |-> l]

Delay(r) ==
    /\ Fault
    /\ late' = late \cup {r}
    /\ IF r.op \in {"enroll", "authenticate", "activate"} THEN Ended(r.machine) ELSE UNCHANGED <<proc, own>>
    /\ UNCHANGED <<rows, file, vm, up, starts, controls, transitions>>

DelayRequest(m) ==
    \/ Phase(m, "starting") /\ file[m] = NoFile /\ Delay(Request("enroll", m, 0))
    \/ Phase(m, "starting") /\ file[m] # NoFile /\ Delay(Request("authenticate", m, 0))
    \/ /\ NextOp(m) # "work" /\ Authorized(NextOp(m), proc[m])
       /\ Delay(Request(NextOp(m), m, 0))
    \/ \E l \in OnMachine(m) : Sends(m) /\ Owns(m, l, "stopped") /\ Delay(Request("stopped", m, l))
    \/ \E l \in OnMachine(m) : Sends(m) /\ Owns(m, l, "claimed") /\ Delay(Request("deliver", m, l))

Handle(r) ==
    \/ r.op = "enroll" /\ Enrolls(r.machine) /\ EnrollHost(r.machine)
    \/ /\ r.op = "authenticate" /\ Authenticates(r.file.host, r.file.serial)
       /\ AuthenticateHost(r.file.host, r.p.service)
    \/ /\ r.op = "report" /\ Reports(r.p)
       /\ \E ls \in SUBSET Recoverable(r.p) : ObserveRecoveredHost(ls)
    \/ r.op = "activate" /\ Activates(r.p) /\ ActivateHost(r.p)
    \/ r.op = "complete" /\ Completes(r.p) /\ CompleteHostDrain(r.p)
    \/ r.op = "stopped" /\ StopReports(r.p) /\ ObserveLeaseStopped(r.lease)
    \/ r.op = "deliver" /\ Supplies(r.p) /\ DeliverLease(r.lease)

HandleLate(r) ==
    /\ r \in late /\ late' = late \ {r}
    /\ Handle(r)
    /\ UNCHANGED <<local, budget>>

DropLate(r) ==
    /\ r \in late /\ late' = late \ {r}
    /\ UNCHANGED <<rows, local, budget>>

-----------------------------------------------------------------------------
(* Dispatch, the stale-host fencer, lease expiry                           *)

\* Mutant: an expired lease no longer blocks the next one.
Allocate_expired(c, h) ==
    /\ Len(leases) < MaxLeases
    /\ \A l \in Unfenced : leases[l].computer # c \/ leases[l].state = "lost"
    /\ group.status = "active" /\ group.primary /\ pool = "active"
    /\ hosts[h].status = "active" /\ hosts[h].seen = "fresh"
    /\ Cardinality(OnHost(h)) < Slots
    /\ leases' = Append(leases, [computer |-> c, host |-> h, epoch |-> hosts[h].epoch,
                                 state |-> "assigned"])
    /\ UNCHANGED <<group, pool, hosts, receipts, local, late, budget>>

\* Mutant: an expired lease no longer takes a slot.
Allocate_freesLost(c, h) ==
    /\ Len(leases) < MaxLeases
    /\ \A l \in Unfenced : leases[l].computer # c
    /\ group.status = "active" /\ group.primary /\ pool = "active"
    /\ hosts[h].status = "active" /\ hosts[h].seen = "fresh"
    /\ Cardinality({l \in OnHost(h) : leases[l].state # "lost"}) < Slots
    /\ leases' = Append(leases, [computer |-> c, host |-> h, epoch |-> hosts[h].epoch,
                                 state |-> "assigned"])
    /\ UNCHANGED <<group, pool, hosts, receipts, local, late, budget>>

\* Mutant: every host that is not lost may get work.
Allocate_notLost(c, h) ==
    /\ Len(leases) < MaxLeases
    /\ \A l \in Unfenced : leases[l].computer # c
    /\ group.status = "active" /\ group.primary /\ pool = "active"
    /\ hosts[h].status # "lost" /\ hosts[h].seen = "fresh"
    /\ Cardinality(OnHost(h)) < Slots
    /\ leases' = Append(leases, [computer |-> c, host |-> h, epoch |-> hosts[h].epoch,
                                 state |-> "assigned"])
    /\ UNCHANGED <<group, pool, hosts, receipts, local, late, budget>>

(* AllocateFreshLease: the Computer has no unfenced lease, the host admits *)
(* and has a slot left over the leases that are not fenced.                *)
Allocate(c, h) ==
    /\ Len(leases) < MaxLeases
    /\ \A l \in Unfenced : leases[l].computer # c
    /\ group.status = "active" /\ group.primary /\ pool = "active"
    /\ hosts[h].status = "active" /\ hosts[h].seen = "fresh"
    /\ Cardinality(OnHost(h)) < Slots
    /\ leases' = Append(leases, [computer |-> c, host |-> h, epoch |-> hosts[h].epoch,
                                 state |-> "assigned"])
    /\ UNCHANGED <<group, pool, hosts, receipts, local, late, budget>>

(* ExpireLease: a delivered lease was not renewed in time, or the host     *)
(* left the lease's epoch. An undelivered lease has no expiry.             *)
ExpireLease(l) ==
    /\ leases[l].state \in {"assigned", "delivered", "ready"}
    /\ LET h == hosts[leases[l].host] IN
       \/ (h.epoch # leases[l].epoch \/ h.status \notin {"active", "draining"}) /\ NoFault
       \/ leases[l].state # "assigned" /\ IF own[l] = "none" THEN NoFault ELSE Fault
    /\ leases' = [leases EXCEPT ![l].state = "lost"]
    /\ UNCHANGED <<group, pool, hosts, receipts, local, late, starts, controls, transitions>>

(* Time passes without an observation.                                     *)
GoStale(h) ==
    /\ hosts[h].status \in Live /\ hosts[h].seen \in {"fresh", "paused"}
    /\ IF proc[hosts[h].machine].phase \in Working \cup {"joined"} THEN Fault ELSE NoFault
    /\ hosts' = [hosts EXCEPT ![h].seen = "stale"]
    /\ UNCHANGED <<group, pool, leases, receipts, local, late, starts, controls, transitions>>

\* Mutant: a draining host is never fenced for silence.
FenceStaleHost_notDraining(h) ==
    /\ hosts[h].status \in {"registering", "active"} /\ hosts[h].seen \in {"none", "stale"}
    /\ hosts' = Lose(h)
    /\ UNCHANGED <<group, pool, leases, receipts, local, late, budget>>

(* RecheckAndFenceStaleWorkerHost: the leases stay unfenced. The grace of  *)
(* a host that was never observed may have passed at any moment.           *)
FenceStaleHost(h) ==
    /\ hosts[h].status \in Live /\ hosts[h].seen \in {"none", "stale"}
    /\ hosts' = Lose(h)
    /\ UNCHANGED <<group, pool, leases, receipts, local, late, budget>>

-----------------------------------------------------------------------------
(* Operators, the scaler and the provider                                  *)

Control == controls < MaxControls /\ controls' = controls + 1
Transition == transitions < MaxTransitions /\ transitions' = transitions + 1

(* DrainWorkerHost also carries the live secret to the new claim.          *)
Drained(h) ==
    [hosts EXCEPT ![h].status = "draining", ![h].claim = @ + 1,
                  ![h].secretClaim = IF hosts[h].revoked THEN @ ELSE hosts[h].claim + 1]

(* BeginHostDrain and DrainHost.                                           *)
DrainHost(h) ==
    /\ Control
    /\ group.status \in Serving /\ pool \in {"active", "draining"}
    /\ hosts[h].status = "active"
    /\ hosts' = Drained(h)
    /\ UNCHANGED <<group, pool, leases, receipts, local, late, starts, faults, transitions>>

PendingReceipts == {o \in DOMAIN receipts : ~receipts[o].completed}

\* Mutant: the receipt records the claim read before the drain.
SelectScaleIn_claimBefore(h) ==
    /\ Control
    /\ PendingReceipts = {}
    /\ group.status = "active" /\ pool = "active"
    /\ hosts[h].status = "active" /\ hosts[h].seen = "fresh"
    /\ OnHost(h) = {}
    /\ hosts' = Drained(h)
    /\ receipts' = Append(receipts, [host |-> h, claim |-> hosts[h].claim, completed |-> FALSE])
    /\ UNCHANGED <<group, pool, leases, local, late, starts, faults, transitions>>

(* A retry of the same key only reads the receipt. Queued demand refuses   *)
(* the selection too; a seed or an allocation retained for a checkpoint    *)
(* would not, but neither exists here.                                     *)
SelectScaleIn(h) ==
    /\ Control
    /\ PendingReceipts = {}
    /\ group.status = "active" /\ pool = "active"
    /\ hosts[h].status = "active" /\ hosts[h].seen = "fresh"
    /\ OnHost(h) = {}
    /\ hosts' = Drained(h)
    /\ receipts' = Append(receipts, [host |-> h, claim |-> hosts[h].claim + 1, completed |-> FALSE])
    /\ UNCHANGED <<group, pool, leases, local, late, starts, faults, transitions>>

(* GetScaleInOperation.                                                    *)
ReceiptPhase(o) ==
    LET h == hosts[receipts[o].host] IN
    IF receipts[o].completed THEN "completed"
    ELSE IF h.status = "draining" /\ h.claim = receipts[o].claim THEN "draining"
    ELSE IF h.status = "termination_ready" /\ h.claim = receipts[o].claim + 1 THEN "termination_ready"
    ELSE "blocked"

(* MarkHostLost by an operator; FenceHost, the host's own report that its  *)
(* machine is being taken away, has the same effect on the row.            *)
MarkHostLost(h) ==
    /\ Control
    /\ hosts[h].status \in Live
    /\ hosts' = Lose(h)
    /\ UNCHANGED <<group, pool, leases, receipts, local, late, starts, faults, transitions>>

RevokeGroupHostCredentials ==
    /\ Control
    /\ hosts' = [h \in DOMAIN hosts |->
                    IF hosts[h].status \in Live THEN Lose(h)[h] ELSE [hosts[h] EXCEPT !.revoked = TRUE]]
    /\ UNCHANGED <<group, pool, leases, receipts, local, late, starts, faults, transitions>>

(* ObserveProviderAbsentHost and ConfirmHostProviderAbsent, one transaction*)
(* per host: its leases are recorded stopped and its receipt completed.    *)
ConfirmProviderAbsent(h) ==
    /\ hosts[h].machine \notin up
    /\ hosts[h].status # "lost" \/ OnHost(h) # {} \/ \E o \in PendingReceipts : receipts[o].host = h
    /\ leases' = Stopped(OnHost(h))
    /\ hosts' = IF hosts[h].status = "lost" THEN hosts ELSE Lose(h)
    /\ receipts' = [o \in DOMAIN receipts |->
                       [receipts[o] EXCEPT !.completed = @ \/ receipts[o].host = h]]
    /\ UNCHANGED <<group, pool, local, late, budget>>

(* The provider terminates the machine with everything on it.              *)
Terminate(m) ==
    /\ m \in up /\ up' = up \ {m}
    /\ Ended(m)
    /\ vm' = vm \ OnMachine(m)
    /\ file' = [file EXCEPT ![m] = NoFile]
    /\ UNCHANGED <<rows, late, budget>>

(* transitionGroup.                                                        *)
TransitionGroup(to) ==
    /\ Transition
    /\ \/ group.status = "active" /\ to \in {"paused", "draining"}
       \/ group.status = "paused" /\ to \in {"active", "draining"}
       \/ /\ group.status = "draining" /\ to = "disabled"
          /\ pool \in {"absent", "disabled"}
          /\ \A h \in DOMAIN hosts : hosts[h].status \notin Live
    /\ to \in {"draining", "disabled"} => Unfenced = {}
    /\ group' = [status |-> to, claim |-> group.claim + 1, primary |-> group.primary /\ to # "draining"]
    /\ UNCHANGED <<pool, hosts, leases, receipts, local, late, starts, faults, controls>>

(* TransitionWorkerPoolLifecycle of a pool that is not primary.            *)
TransitionPool(to) ==
    /\ Transition
    /\ group.status \in Serving /\ ~group.primary /\ Unfenced = {}
    /\ \/ pool = "active" /\ to = "draining"
       \/ /\ pool \in {"pending", "draining"} /\ to = "disabled"
          /\ \A h \in DOMAIN hosts : hosts[h].status \notin Live
    /\ pool' = to
    /\ UNCHANGED <<group, hosts, leases, receipts, local, late, starts, faults, controls>>

-----------------------------------------------------------------------------
MachineStep(m) ==
    \/ Start(m) \/ Enroll(m) \/ Authenticate(m) \/ Refresh(m) \/ Recover(m) \/ Report(m)
    \/ Activate(m) \/ Observe(m) \/ Crash(m) \/ DrainStep(m) \/ FinalizeDrain(m) \/ Complete(m)
    \/ DelayRequest(m) \/ Terminate(m)

OwnerStep(m, l) ==
    \/ Discover(m, l) \/ Deliver(m, l) \/ Boot(m, l) \/ Ready(m, l) \/ EndRun(m, l)
    \/ StopVM(m, l) \/ ReportStopped(m, l)

HostStep(h) ==
    \/ GoStale(h) \/ FenceStaleHost(h) \/ DrainHost(h) \/ SelectScaleIn(h) \/ MarkHostLost(h)
    \/ ConfirmProviderAbsent(h) \/ \E c \in Computer : Allocate(c, h)

Next ==
    \/ \E m \in Machine : MachineStep(m)
    \/ \E m \in Machine, l \in DOMAIN leases : OwnerStep(m, l)
    \/ \E h \in DOMAIN hosts : HostStep(h)
    \/ \E l \in DOMAIN leases : ExpireLease(l)
    \/ \E r \in late : HandleLate(r) \/ DropLate(r)
    \/ RevokeGroupHostCredentials
    \/ \E to \in {"active", "paused", "draining", "disabled"} : TransitionGroup(to) \/ TransitionPool(to)

Spec == Init /\ [][Next]_vars

(* The loops of a live worker go on, an owner whose lease was lost ends    *)
(* its run, and the fencer notices a silent host. Nothing restarts a       *)
(* worker for sure, and nothing ends the run of a Computer that is served: *)
(* a planned drain has no deadline and hibernates nothing.                 *)
WorkerLoop(m) ==
    \/ Enroll(m) \/ Authenticate(m) \/ Refresh(m) \/ Recover(m) \/ Report(m) \/ Activate(m)
    \/ DrainStep(m) \/ FinalizeDrain(m) \/ Complete(m)

OwnerLoop(m, l) ==
    /\ l \in DOMAIN leases
    /\ \/ Discover(m, l) \/ Deliver(m, l) \/ Boot(m, l) \/ Ready(m, l)
       \/ leases[l].state = "lost" /\ EndRun(m, l)
       \/ StopVM(m, l) \/ ReportStopped(m, l)

FallSilent(h) == h \in DOMAIN hosts /\ proc[hosts[h].machine].phase \notin Working \cup {"joined"} /\ GoStale(h)

Fairness ==
    /\ \A m \in Machine : WF_vars(WorkerLoop(m)) /\ WF_vars(Observe(m))
    /\ \A m \in Machine, l \in 1..MaxLeases : WF_vars(OwnerLoop(m, l))
    /\ \A h \in 1..MaxHosts : WF_vars(FallSilent(h)) /\ WF_vars(h \in DOMAIN hosts /\ FenceStaleHost(h))

LiveSpec == Spec /\ Fairness

-----------------------------------------------------------------------------
(* Properties                                                              *)

(* The rows, the machines and the bounds have their types.                 *)
TypeOK ==
    /\ group \in [status : Serving \cup {"disabled"}, claim : Nat, primary : BOOLEAN]
    /\ pool \in {"absent", "pending", "active", "draining", "disabled"}
    /\ hosts \in Seq(HostRows) /\ Len(hosts) <= MaxHosts
    /\ leases \in Seq(LeaseRows) /\ Len(leases) <= MaxLeases
    /\ receipts \in Seq([host : 1..MaxHosts, claim : Nat, completed : BOOLEAN])
    /\ file \in [Machine -> [host : 0..MaxHosts, serial : Nat]]
    /\ \A m \in Machine : proc[m].host \in 0..Len(hosts) /\ proc[m].quarantine \subseteq 1..MaxLeases
    /\ own \in [1..MaxLeases -> {"none", "claimed", "admitted", "booted", "serving", "closing", "stopped"}]
    /\ vm \subseteq DOMAIN leases /\ up \subseteq Machine
    /\ Cardinality(late) <= MaxFaults

(* Fencing a lease is a physical receipt: a fenced lease has no VM on any  *)
(* machine and no owner that may still boot or serve one, whichever of     *)
(* stop report, startup recovery, provider absence or a late request of a  *)
(* dead process fenced it.                                                 *)
FencedIsGone ==
    \A l \in DOMAIN leases :
        leases[l].state = "fenced" => l \notin vm /\ own[l] \notin {"admitted", "booted", "serving"}

(* A Computer never runs in two VMs, on one machine or on two, and no      *)
(* second owner is admitted to boot it while one runs.                     *)
OneVMPerComputer ==
    \A k, l \in DOMAIN leases :
        /\ k # l /\ leases[k].computer = leases[l].computer
        /\ k \in vm \/ own[k] = "admitted"
        => l \notin vm /\ own[l] # "admitted"

(* termination_ready tells the scaler that the host's work is over: no VM  *)
(* and no unfenced lease of that row exists then or later.                 *)
TerminationReadyIsEmpty ==
    \A h \in DOMAIN hosts : hosts[h].status = "termination_ready" =>
        OnHost(h) = {} /\ \A l \in vm : leases[l].host # h

(* A host that passed activation starts clean: its machine holds no VM and *)
(* no unfenced lease of an earlier epoch or of an earlier row.             *)
ActiveIsRecovered ==
    \A h \in DOMAIN hosts : hosts[h].status \in {"active", "draining"} /\ hosts[h].ready =>
        \A l \in OnMachine(hosts[h].machine) :
            leases[l].host # h \/ leases[l].epoch # hosts[h].epoch => leases[l].state = "fenced" /\ l \notin vm

(* The VMs a machine really runs never exceed its slots, across restarts,  *)
(* epochs and enrollments.                                                 *)
WithinSlots ==
    \A m \in Machine : Cardinality(vm \cap OnMachine(m)) <= Slots

(* At most one scale-in is pending; its receipt stays with the host it     *)
(* drained and is blocked only when that host was declared lost; it is     *)
(* completed only when the machine is gone and no lease of it is open.     *)
ReceiptsHold ==
    /\ Cardinality(PendingReceipts) <= 1
    /\ \A o \in DOMAIN receipts :
          /\ ReceiptPhase(o) = "blocked" => hosts[receipts[o].host].status = "lost"
          /\ receipts[o].completed =>
                hosts[receipts[o].host].machine \notin up /\ OnHost(receipts[o].host) = {}

(* A row only moves forward: epoch and claim never decrease, a drain is    *)
(* never undone and a row that was retired never serves again.             *)
HostsAdvance ==
    [][\A h \in DOMAIN hosts :
         /\ hosts'[h].epoch >= hosts[h].epoch /\ hosts'[h].claim >= hosts[h].claim
         /\ hosts[h].status = "draining" => hosts'[h].status \in {"draining", "termination_ready", "lost"}
         /\ hosts[h].status = "termination_ready" => hosts'[h].status \in {"termination_ready", "lost"}
         /\ hosts[h].status = "lost" => hosts'[h].status = "lost"]_vars

(* A drain waits for nothing but the Computers the host serves: unless one *)
(* of them is served forever, the host becomes termination_ready, or it    *)
(* was lost on the way; no draining host stays behind a dead, silent or    *)
(* waiting worker (completeServerDirectedDrain).                           *)
Serves(h) == h \in DOMAIN hosts /\ \E l \in OnHost(h) : own[l] = "serving"

DrainingEnds ==
    \A h \in 1..MaxHosts :
        []<>~Serves(h) =>
            ((h \in DOMAIN hosts /\ hosts[h].status = "draining")
                ~> (h \in DOMAIN hosts /\ hosts[h].status \in {"termination_ready", "lost"}))
=============================================================================
