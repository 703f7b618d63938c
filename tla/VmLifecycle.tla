----------------------------- MODULE VmLifecycle -----------------------------
(***************************************************************************)
(* create, clone, start, stop and destroy as sequences of steps on the host*)
(* by concurrent vmctl processes and service workers under the host-wide   *)
(* lifecycle lock, together with `vmctl reconcile --policy-only`, which    *)
(* takes no lock.  Between any two steps another process may move, the     *)
(* process may be killed or interrupted, or the host may reboot; every     *)
(* checked command may fail, and unchecked ones may fail silently.         *)
(*                                                                         *)
(* A network is abstracted to its libvirt status and its DHCP host names;  *)
(* the nftables policy to the VMs it was rendered for; a disk to whether it*)
(* is complete; local artifacts to the kinds of files that exist.          *)
(***************************************************************************)
EXTENDS Naturals, FiniteSets

CONSTANTS Attempt,      \* invocations of a command or service entry point
          Vm,           \* VM names
          Net,          \* libvirt network names
          None,         \* nobody holds the lock
          Mode,         \* Mode[v]: "group", "nat-auto" or "nat-custom"
          NetOf,        \* NetOf[v]: the libvirt network of v's config
          Configured,   \* VMs with a file in configs/ (not stdin, not service)
          CustomDir,    \* VMs whose config sets paths.vm_data_dir
          Provisioned,  \* VMs that exist to begin with
          ImageCached,  \* TRUE: the base image of new VMs has been downloaded
          Tasking,      \* what each invocation may be asked to do
          Faults        \* the faults that may strike

Group == {v \in Vm : Mode[v] = "group"}
FaultKinds == {"raise", "cleanup", "crash", "interrupt", "reboot"}
Ops == {"create", "clone", "start", "stop", "destroy", "reconcile"}

ASSUME NoneAssumption == None \notin Attempt
ASSUME ModeAssumption == Mode \in [Vm -> {"group", "nat-auto", "nat-custom"}]
ASSUME NetAssumption ==
    /\ NetOf \in [Vm -> Net]
    /\ \A v, w \in Vm : v \notin Group /\ NetOf[v] = NetOf[w] => v = w
ASSUME SetsAssumption ==
    /\ Configured \subseteq Vm
    /\ CustomDir \subseteq Vm
    /\ Provisioned \subseteq Vm
    /\ Provisioned \cap Group \subseteq Configured
    /\ ImageCached \in BOOLEAN
    /\ Faults \subseteq FaultKinds
ASSUME TaskAssumption ==
    Tasking \subseteq [Attempt -> [op : Ops, vm : Vm, src : Vm, svc : BOOLEAN]]

VARIABLES
  task,    \* the invocation each attempt carries out
  pc,      \* the next step of each attempt
  stage,   \* "pre" before the domain is installed, "post" afterwards
  err,     \* the exception an attempt is unwinding with
  ran,     \* source_was_running, of a clone: "waiting" once it has begun to stop
           \* the guest, "yes" when stop_vm_domain has returned that it ran
  seen,    \* the network mode a start or destroy works with
  named,   \* the state a destroy has loaded names the VM's data directory
  plan,    \* the records a reconcile works with
  lock,    \* the attempt that holds the lifecycle lock
  domain, disk, files, state,        \* per VM: libvirt, images, artifacts, vm/state
  netUp, dhcp,                       \* per network: libvirt status, DHCP hosts
  base,                              \* the cached base image
  rules,                             \* the VMs the nftables policy is rendered for
  booted                             \* the host has rebooted

\* What most steps leave alone, for the UNCHANGED conjuncts.
quiet == <<task, stage, ran, seen, named, plan, lock, booted>>
still == <<quiet, err>>
images == <<domain, disk, files, state>>
nets == <<netUp, dhcp, base, rules>>
host == <<images, nets>>
vars == <<task, pc, stage, err, ran, seen, named, plan, lock, domain, disk,
          files, state, netUp, dhcp, base, rules, booted>>

Op(a) == task[a].op
V(a) == task[a].vm
Src(a) == task[a].src

Cleaning == {"undefine", "netdown", "storage", "artifacts", "forget"}
Building == {"stop", "stopping", "read", "nets", "rules", "copy", "copying",
             "natnet", "seed", "install"}
Locked == Cleaning \cup Building \cup
          {"prepare", "save", "write", "image", "fetch", "disk", "load", "boot",
           "finally", "unlock"}
Ended == {"refused", "done", "failed", "crashed"}
PCs == Locked \cup Ended \cup {"idle", "check", "lock"}

\* Labels an attempt can be at without the lock: service mode prepares before it
\* locks, start loads the state before it locks, reconcile never locks.
Outside(a) == \/ pc[a] \in {"idle", "check", "lock"} \cup Ended
              \/ pc[a] = "prepare" /\ task[a].svc
              \/ pc[a] = "load" /\ Op(a) = "start"
              \/ Op(a) = "reconcile"

Modes == {"group", "nat", "nat-auto", "nat-custom", "none"}

\* The host as a series of successful creates leaves it.
Init ==
    /\ task \in Tasking
    /\ pc = [a \in Attempt |-> "idle"]
    /\ stage = [a \in Attempt |-> "pre"]
    /\ err = [a \in Attempt |-> "none"]
    /\ ran = [a \in Attempt |-> "no"]
    /\ seen = [a \in Attempt |-> "none"]
    /\ named = [a \in Attempt |-> FALSE]
    /\ plan = [a \in Attempt |-> [recs |-> {}, live |-> {}, torn |-> FALSE]]
    /\ lock = None
    /\ domain \in {d \in [Vm -> {"none", "off", "running"}] :
                     \A v \in Vm : d[v] = "none" <=> v \notin Provisioned}
    /\ disk = [v \in Vm |-> IF v \in Provisioned THEN "whole" ELSE "none"]
    /\ files = [v \in Vm |-> IF v \in Provisioned THEN {"key", "data", "seed"} ELSE {}]
    /\ state = [v \in Vm |-> IF v \in Provisioned THEN "saved" ELSE "none"]
    /\ netUp = [n \in Net |-> IF \E v \in Provisioned : NetOf[v] = n
                              THEN "active" ELSE "absent"]
    /\ dhcp = [n \in Net |-> {v \in (Configured \cap Group) \cup Provisioned :
                                NetOf[v] = n /\ \E w \in Provisioned : NetOf[w] = n}]
    /\ base = IF ImageCached THEN "whole" ELSE "none"
    /\ rules = Provisioned \cap Configured
    /\ booted = FALSE
-----------------------------------------------------------------------------
Goto(a, l) == pc' = [pc EXCEPT ![a] = l]

\* The body of clone's try statement; its except clause is Cleaning.
InTry(a) == Op(a) = "clone" /\ (pc[a] \in Building \/ stage[a] = "post")

\* Wrong: the service clone has no finally clause.
HandlerWithoutFinally(a) == IF InTry(a) /\ ~task[a].svc THEN "undefine" ELSE "unlock"

\* Where an exception takes an attempt: the CLI clone rolls back, the service
\* clone only runs its finally clause, everything else just leaves the lock.
Handler(a) == IF pc[a] \in Cleaning /\ Op(a) = "clone" THEN "finally"
              ELSE IF ~InTry(a) THEN "unlock"
              ELSE IF task[a].svc THEN "finally" ELSE "undefine"

Raise(a) == /\ err' = [err EXCEPT ![a] = "raised"]
            /\ Goto(a, IF Op(a) = "reconcile" THEN "failed" ELSE Handler(a))

Advance(a, l) == Goto(a, l) /\ UNCHANGED err

Begin(a) ==
    /\ pc[a] = "idle"
    /\ Goto(a, CASE Op(a) = "create" -> IF task[a].svc THEN "prepare" ELSE "lock"
                 [] Op(a) = "clone" -> IF task[a].svc THEN "prepare" ELSE "check"
                 [] Op(a) = "start" -> "load"
                 [] Op(a) \in {"stop", "destroy"} -> "lock"
                 [] Op(a) = "reconcile" -> "read")
    /\ UNCHANGED <<still, host>>

\* Clone refuses a missing source and an existing target, before it locks.
Check(a) ==
    /\ pc[a] = "check"
    /\ Goto(a, IF /\ domain[Src(a)] # "none" /\ domain[V(a)] = "none"
                  /\ disk[Src(a)] # "none"   /\ disk[V(a)] = "none"
               THEN "lock" ELSE "refused")
    /\ UNCHANGED <<still, host>>

\* The network a start works with: its state file, read before the lock.
LoadForStart(a) ==
    /\ pc[a] = "load" /\ Op(a) = "start"
    /\ seen' = [seen EXCEPT ![a] = IF state[V(a)] = "saved" THEN Mode[V(a)] ELSE "none"]
    /\ Goto(a, "lock")
    /\ UNCHANGED <<task, stage, err, ran, named, plan, lock, booted, host>>

\* Wrong: only a nat-custom VM reconciles when it starts.
StartNextCustom(a) == IF seen[a] = "nat-custom" THEN "read" ELSE "boot"

\* What start does about networking, then what it is for.
StartNext(a) == IF seen[a] \in {"group", "nat-custom"} THEN "read" ELSE "boot"

\* Wrong: the lock is keyed by the VM's name.
TakeLockForVm(a) ==
    /\ pc[a] = "lock" /\ lock = None
    /\ lock' = V(a)
    /\ Goto(a, IF Op(a) = "stop" THEN "stop" ELSE "load")
    /\ UNCHANGED <<task, stage, err, ran, seen, named, plan, booted, host>>

TakeLock(a) ==
    /\ pc[a] = "lock" /\ lock = None
    /\ lock' = a
    /\ Goto(a, CASE Op(a) \in {"create", "clone"} ->
                      IF task[a].svc THEN "save" ELSE "prepare"
                 [] Op(a) = "start" -> StartNext(a)
                 [] Op(a) = "stop" -> "stop"
                 [] Op(a) = "destroy" -> "load")
    /\ UNCHANGED <<task, stage, err, ran, seen, named, plan, booted, host>>

FindBusy(a) ==
    /\ pc[a] = "lock" /\ lock # None
    /\ Goto(a, "refused")
    /\ UNCHANGED <<still, host>>
-----------------------------------------------------------------------------
(* Preparing and saving the definition. *)

\* Wrong: a clone takes its source's key pair for its own.
PrepareForCreate(a) ==
    /\ pc[a] = "prepare"
    /\ files' = IF Op(a) = "clone" THEN files
                ELSE [files EXCEPT ![V(a)] = @ \cup {"key"}]
    /\ Goto(a, IF ~task[a].svc THEN "save"
               ELSE IF Op(a) = "clone" THEN "check" ELSE "lock")
    /\ UNCHANGED <<still, domain, disk, state, nets>>

\* prepare_vm_definition: the admin key pair is generated unless it exists.
Prepare(a) ==
    /\ pc[a] = "prepare"
    /\ files' = [files EXCEPT ![V(a)] = @ \cup {"key"}]
    /\ Goto(a, IF ~task[a].svc THEN "save"
               ELSE IF Op(a) = "clone" THEN "check" ELSE "lock")
    /\ UNCHANGED <<still, domain, disk, state, nets>>

\* The rest of the preparation, or the CLI's validate_networking_changes, raises.
PrepareFails(a) ==
    /\ pc[a] = "prepare" /\ "raise" \in Faults
    /\ files' = [files EXCEPT ![V(a)] = @ \cup {"key"}]
    /\ err' = [err EXCEPT ![a] = "raised"]
    /\ Goto(a, IF task[a].svc THEN "failed" ELSE "unlock")
    /\ UNCHANGED <<quiet, domain, disk, state, nets>>

\* save_vm_state opens the file for writing, which empties it...
Save(a) ==
    /\ pc[a] = "save"
    /\ state' = [state EXCEPT ![V(a)] = "torn"]
    /\ Goto(a, "write")
    /\ UNCHANGED <<still, domain, disk, files, nets>>

\* ...and the contents reach it when it is closed.
Write(a) ==
    /\ pc[a] = "write"
    /\ state' = [state EXCEPT ![V(a)] = "saved"]
    /\ Goto(a, IF stage[a] = "post" THEN "read"
               ELSE IF Op(a) = "clone" THEN "stop"
               ELSE IF V(a) \in Group THEN "read" ELSE "image")
    /\ UNCHANGED <<still, domain, disk, files, nets>>
-----------------------------------------------------------------------------
(* reconcile_networking *)

\* Only an operation on a grouped VM converges libvirt networks as well.
Full(a) == CASE Op(a) \in {"create", "clone"} -> V(a) \in Group
             [] Op(a) \in {"start", "destroy"} -> seen[a] = "group"
             [] OTHER -> FALSE

\* configured_vm_records: a standalone VM has a record once its state file exists;
\* an empty file yields a record without a network.
Records == {v \in Configured : v \in Group \/ state[v] # "none"}
Live == {v \in Records : state[v] = "saved" \/ (v \in Group /\ state[v] = "torn")}

ReadRecords(a) ==
    /\ pc[a] = "read"
    /\ plan' = [plan EXCEPT ![a] =
                 [recs |-> Records, live |-> Live,
                  torn |-> \E v \in Records \ Group : state[v] = "torn"]]
    /\ Goto(a, IF Full(a) THEN "nets" ELSE "rules")
    /\ UNCHANGED <<task, stage, err, ran, seen, named, lock, booted, host>>

\* DHCP hosts a network should have, and the networks that are not as they should.
Hosts(a, n) == {v \in plan[a].recs : NetOf[v] = n}
Drifted(a) == {n \in {NetOf[v] : v \in plan[a].recs} :
                 netUp[n] # "active" \/ dhcp[n] # Hosts(a, n)}

\* ensure_libvirt_network: defines a missing network, starts an inactive one,
\* updates its DHCP hosts.
EnsureNet(a) ==
    /\ pc[a] = "nets"
    /\ \E n \in Drifted(a) :
         /\ netUp' = [netUp EXCEPT ![n] = "active"]
         /\ dhcp' = [dhcp EXCEPT ![n] = Hosts(a, n)]
    /\ UNCHANGED <<still, pc, images, base, rules>>

\* A net-define, net-start or net-update fails part of the way.
EnsureNetFails(a) ==
    /\ pc[a] = "nets" /\ "raise" \in Faults
    /\ \E n \in Drifted(a) :
         \/ /\ netUp[n] = "absent"
            /\ netUp' = [netUp EXCEPT ![n] = "inactive"]
            /\ dhcp' = [dhcp EXCEPT ![n] = Hosts(a, n)]
         \/ /\ netUp[n] # "absent"
            /\ netUp' = [netUp EXCEPT ![n] = "active"]
            /\ \E h \in dhcp[n] \cup Hosts(a, n) :
                 dhcp' = [dhcp EXCEPT ![n] =
                            IF h \in Hosts(a, n) THEN @ \cup {h} ELSE @ \ {h}]
    /\ Raise(a)
    /\ UNCHANGED <<quiet, images, base, rules>>

\* A record without a subnet makes build_libvirt_network_xml raise.
NetsRaise(a) ==
    /\ pc[a] = "nets" /\ plan[a].torn
    /\ Raise(a)
    /\ UNCHANGED <<quiet, host>>

NetsDone(a) ==
    /\ pc[a] = "nets" /\ ~plan[a].torn /\ Drifted(a) = {}
    /\ Advance(a, "rules")
    /\ UNCHANGED <<quiet, host>>

AfterRules(a) == CASE Op(a) = "create" -> IF stage[a] = "pre" THEN "image" ELSE "unlock"
                   [] Op(a) = "clone" -> IF stage[a] = "pre" THEN "copy" ELSE "finally"
                   [] Op(a) = "start" -> "boot"
                   [] Op(a) = "reconcile" -> "done"
                   [] OTHER -> "unlock"

\* apply_nftables_plan replaces the managed tables in one batch.
ApplyRules(a) ==
    /\ pc[a] = "rules"
    /\ rules' = plan[a].live
    /\ Advance(a, AfterRules(a))
    /\ UNCHANGED <<quiet, images, netUp, dhcp, base>>

\* The batch is rejected and nothing changes, or the verification after it fails.
ApplyRulesFails(a) ==
    /\ pc[a] = "rules" /\ "raise" \in Faults
    /\ rules' \in {rules, plan[a].live}
    /\ Raise(a)
    /\ UNCHANGED <<quiet, images, netUp, dhcp, base>>
-----------------------------------------------------------------------------
(* Building the VM. *)

\* ensure_base_image: whatever is at the path is used; wget -O creates the file
\* before the first byte arrives.
Image(a) ==
    /\ pc[a] = "image"
    /\ IF base = "none" THEN base' = "partial" /\ Advance(a, "fetch")
                        ELSE base' = base /\ Advance(a, "disk")
    /\ UNCHANGED <<quiet, images, netUp, dhcp, rules>>

Fetched(a) ==
    /\ pc[a] = "fetch"
    /\ base' = "whole"
    /\ Advance(a, "disk")
    /\ UNCHANGED <<quiet, images, netUp, dhcp, rules>>

\* create_vm_disk: an existing disk is reused.
MakeDisk(a) ==
    /\ pc[a] = "disk"
    /\ disk' = [disk EXCEPT ![V(a)] = IF @ = "none" THEN base ELSE @]
    /\ Advance(a, "seed")
    /\ UNCHANGED <<quiet, domain, files, state, nets>>

\* stop_vm_domain, of stop's VM or of clone's source.
Stoppable(a) == IF Op(a) = "clone" THEN Src(a) ELSE V(a)
AfterStop(a) == IF Op(a) = "stop" THEN "unlock"
                ELSE IF V(a) \in Group THEN "read" ELSE "copy"

StopMissing(a) ==
    /\ pc[a] = "stop" /\ domain[Stoppable(a)] = "none"
    /\ Raise(a)
    /\ UNCHANGED <<quiet, host>>

StopStopped(a) ==
    /\ pc[a] = "stop" /\ domain[Stoppable(a)] = "off"
    /\ Advance(a, AfterStop(a))
    /\ UNCHANGED <<quiet, host>>

\* The guest powers off on request or is forced off when the wait times out; the
\* unchecked virsh destroy may also fail.
StopRunning(a) ==
    /\ pc[a] = "stop" /\ domain[Stoppable(a)] = "running"
    /\ \/ domain' = [domain EXCEPT ![Stoppable(a)] = "off"]
       \/ "cleanup" \in Faults /\ UNCHANGED domain
    /\ ran' = [ran EXCEPT ![a] = "waiting"]
    /\ Advance(a, "stopping")
    /\ UNCHANGED <<task, stage, seen, named, plan, lock, booted, disk, files, state, nets>>

\* Only now does stop_vm_domain return and the caller learn that it ran.
StopReturns(a) ==
    /\ pc[a] = "stopping"
    /\ ran' = [ran EXCEPT ![a] = "yes"]
    /\ Advance(a, AfterStop(a))
    /\ UNCHANGED <<task, stage, seen, named, plan, lock, booted, host>>

\* copy_qcow2_image: rm -f of the target, then qemu-img convert starts.
CopyStarts(a) ==
    /\ pc[a] = "copy"
    /\ disk' = [disk EXCEPT ![V(a)] = "partial"]
    /\ Advance(a, "copying")
    /\ UNCHANGED <<quiet, domain, files, state, nets>>

AfterDisk(a) == IF V(a) \in Group THEN "seed" ELSE "natnet"

\* Wrong: the exit status of qemu-img convert is not looked at.
CopyUnchecked(a) ==
    /\ pc[a] = "copying"
    /\ disk' \in {disk, [disk EXCEPT ![V(a)] = disk[Src(a)]]}
    /\ Advance(a, AfterDisk(a))
    /\ UNCHANGED <<quiet, domain, files, state, nets>>

\* prepare_cloned_guest_disk follows; it leaves the disk complete.
CopyEnds(a) ==
    /\ pc[a] = "copying"
    /\ disk[Src(a)] # "none" /\ domain[Src(a)] # "running"
    /\ disk' = [disk EXCEPT ![V(a)] = disk[Src(a)]]
    /\ Advance(a, AfterDisk(a))
    /\ UNCHANGED <<quiet, domain, files, state, nets>>

\* No source image, or one that a running guest has locked.
CopyImpossible(a) ==
    /\ pc[a] = "copying"
    /\ disk[Src(a)] = "none" \/ domain[Src(a)] = "running"
    /\ Raise(a)
    /\ UNCHANGED <<quiet, host>>

\* render_templates and create_seed_iso.  create makes the seed before the
\* standalone network, clone after it.
Seed(a) ==
    /\ pc[a] = "seed"
    /\ files' = [files EXCEPT ![V(a)] = @ \cup {"data", "seed"}]
    /\ Advance(a, IF Op(a) = "create" THEN
                     (IF V(a) \in Group THEN "install" ELSE "natnet")
                  ELSE "install")
    /\ UNCHANGED <<quiet, domain, disk, state, nets>>

SeedFails(a) ==
    /\ pc[a] = "seed" /\ "raise" \in Faults
    /\ files' = [files EXCEPT ![V(a)] = @ \cup {"data"}]
    /\ Raise(a)
    /\ UNCHANGED <<quiet, domain, disk, state, nets>>

\* create_nat_network: a network that is defined already is only activated.
NatNetDefined(n, v, up) ==
    /\ netUp' = [netUp EXCEPT ![n] = up]
    /\ dhcp' = [dhcp EXCEPT ![n] = IF netUp[n] = "absent" THEN {v} ELSE @]

\* Wrong: a network that is defined is taken to be active.
NatNetTrusted(a) ==
    /\ pc[a] = "natnet"
    /\ LET n == NetOf[V(a)]
       IN  NatNetDefined(n, V(a), IF netUp[n] = "absent" THEN "active" ELSE netUp[n])
    /\ Advance(a, IF Op(a) = "create" THEN "install" ELSE "seed")
    /\ UNCHANGED <<quiet, images, base, rules>>

NatNet(a) ==
    /\ pc[a] = "natnet"
    /\ NatNetDefined(NetOf[V(a)], V(a), "active")
    /\ Advance(a, IF Op(a) = "create" THEN "install" ELSE "seed")
    /\ UNCHANGED <<quiet, images, base, rules>>

NatNetFails(a) ==
    /\ pc[a] = "natnet" /\ "raise" \in Faults
    /\ netUp[NetOf[V(a)]] # "active"
    /\ NatNetDefined(NetOf[V(a)], V(a), "inactive")
    /\ Raise(a)
    /\ UNCHANGED <<quiet, images, base, rules>>

\* virt_install returns at once when the domain exists.
Bootable(v) == netUp[NetOf[v]] = "active" /\ disk[v] # "none"

Install(a) ==
    /\ pc[a] = "install"
    /\ domain[V(a)] # "none" \/ Bootable(V(a))
    /\ domain' = [domain EXCEPT ![V(a)] = IF @ = "none" THEN "running" ELSE @]
    /\ stage' = [stage EXCEPT ![a] = "post"]
    /\ Advance(a, "save")
    /\ UNCHANGED <<task, ran, seen, named, plan, lock, booted, disk, files, state, nets>>
-----------------------------------------------------------------------------
(* start_vm_domain: start's VM, or clone's source in its finally clause. *)
Startable(a) == IF Op(a) = "clone" THEN Src(a) ELSE V(a)
Starting(a) == \/ pc[a] = "boot"
               \/ pc[a] = "finally" /\ ran[a] = "yes"

Boot(a) ==
    /\ Starting(a)
    /\ \/ domain[Startable(a)] = "running"
       \/ domain[Startable(a)] = "off" /\ Bootable(Startable(a))
    /\ domain' = [domain EXCEPT ![Startable(a)] = "running"]
    /\ Advance(a, "unlock")
    /\ UNCHANGED <<quiet, disk, files, state, nets>>

BootFails(a) ==
    /\ Starting(a)
    /\ domain[Startable(a)] # "running"
    /\ "raise" \in Faults \/ domain[Startable(a)] = "none" \/ ~Bootable(Startable(a))
    /\ err' = [err EXCEPT ![a] = "start"]
    /\ Goto(a, "unlock")
    /\ UNCHANGED <<quiet, host>>

NothingToRestart(a) ==
    /\ pc[a] = "finally" /\ ran[a] # "yes"
    /\ Advance(a, "unlock")
    /\ UNCHANGED <<quiet, host>>
-----------------------------------------------------------------------------
(* Destroying a VM, and rolling a clone back. *)

\* merged_vm_network: a libvirt network that lists the VM as a DHCP host is taken
\* to be its own NAT network, unless the state file names a group.
Discovered(v) == netUp[NetOf[v]] # "absent" /\ v \in dhcp[NetOf[v]]
MergedModeLive(v) == IF Discovered(v) THEN "nat"  \* Wrong: what libvirt says replaces the record.
                     ELSE IF state[v] = "saved" THEN Mode[v] ELSE "none"
MergedMode(v) == IF state[v] = "saved" /\ v \in Group THEN "group"
                 ELSE IF Discovered(v) THEN "nat"
                 ELSE IF state[v] = "saved" THEN Mode[v] ELSE "none"

LoadForDestroy(a) ==
    /\ pc[a] = "load" /\ Op(a) = "destroy"
    /\ seen' = [seen EXCEPT ![a] = MergedMode(V(a))]
    /\ named' = [named EXCEPT ![a] = state[V(a)] = "saved"]
    /\ Goto(a, "undefine")
    /\ UNCHANGED <<task, stage, err, ran, plan, lock, booted, host>>

\* The network a cleanup takes down: a clone knows its own definition.
OwnNetMode(a) == IF Op(a) = "clone"
                 THEN (IF V(a) \in Group THEN "group" ELSE "nat") ELSE seen[a]
TakesNetDown(a) == OwnNetMode(a) \in {"nat", "nat-custom"}

\* Wrong: without virsh destroy, undefine does nothing to a running domain.
UndefineStopped(a) ==
    /\ pc[a] = "undefine"
    /\ IF domain[V(a)] # "off" THEN UNCHANGED <<domain, disk, files>>
       ELSE /\ domain' = [domain EXCEPT ![V(a)] = "none"]
            /\ disk' = [disk EXCEPT ![V(a)] = "none"]
            /\ files' = [files EXCEPT ![V(a)] = @ \ {"seed"}]
    /\ Goto(a, IF TakesNetDown(a) THEN "netdown" ELSE "storage")
    /\ UNCHANGED <<still, state, nets>>

\* virsh destroy and then virsh undefine --remove-all-storage, both unchecked.
ForceOff(a) ==
    /\ pc[a] = "undefine" /\ domain[V(a)] = "running"
    /\ domain' = [domain EXCEPT ![V(a)] = "off"]
    /\ UNCHANGED <<still, pc, disk, files, state, nets>>

Undefine(a) ==
    /\ pc[a] = "undefine" /\ domain[V(a)] # "running"
    /\ IF domain[V(a)] = "none" THEN UNCHANGED <<domain, disk, files>>
       ELSE /\ domain' = [domain EXCEPT ![V(a)] = "none"]
            /\ disk' = [disk EXCEPT ![V(a)] = "none"]
            /\ files' = [files EXCEPT ![V(a)] = @ \ {"seed"}]
    /\ Goto(a, IF TakesNetDown(a) THEN "netdown" ELSE "storage")
    /\ UNCHANGED <<still, state, nets>>

\* net-destroy and then net-undefine, with the removal of left-over bridges, unchecked.
NetStop(a) ==
    /\ pc[a] = "netdown" /\ netUp[NetOf[V(a)]] = "active"
    /\ netUp' = [netUp EXCEPT ![NetOf[V(a)]] = "inactive"]
    /\ UNCHANGED <<still, pc, images, dhcp, base, rules>>

NetDown(a) ==
    /\ pc[a] = "netdown" /\ netUp[NetOf[V(a)]] # "active"
    /\ netUp' = [netUp EXCEPT ![NetOf[V(a)]] = "absent"]
    /\ dhcp' = [dhcp EXCEPT ![NetOf[V(a)]] = {}]
    /\ Goto(a, "storage")
    /\ UNCHANGED <<still, images, base, rules>>

\* Wrong: the seed image is left to virsh undefine --remove-all-storage.
RemoveDiskOnly(a) ==
    /\ pc[a] = "storage"
    /\ disk' = [disk EXCEPT ![V(a)] = "none"]
    /\ Goto(a, "artifacts")
    /\ UNCHANGED <<still, domain, files, state, nets>>

\* cleanup_vm_storage
RemoveStorage(a) ==
    /\ pc[a] = "storage"
    /\ disk' = [disk EXCEPT ![V(a)] = "none"]
    /\ files' = [files EXCEPT ![V(a)] = @ \ {"seed"}]
    /\ Goto(a, "artifacts")
    /\ UNCHANGED <<still, domain, state, nets>>

\* Wrong: the rendered data directory is kept.
RemoveKeyOnly(a) ==
    /\ pc[a] = "artifacts"
    /\ files' = [files EXCEPT ![V(a)] = @ \ {"key"}]
    /\ Goto(a, "forget")
    /\ UNCHANGED <<still, domain, disk, state, nets>>

\* The data directory a cleanup removes is the one the definition or the state names,
\* else the default one, which is not where the config of a CustomDir VM put it.
FindsData(a) == Op(a) = "clone" \/ named[a] \/ V(a) \notin CustomDir

\* cleanup_local_vm_artifacts, up to its last line...
RemoveArtifacts(a) ==
    /\ pc[a] = "artifacts"
    /\ files' = [files EXCEPT ![V(a)] = @ \ (IF FindsData(a) THEN {"key", "data"}
                                                         ELSE {"key"})]
    /\ Goto(a, "forget")
    /\ UNCHANGED <<still, domain, disk, state, nets>>

\* Wrong: the destroy of a standalone VM does not reconcile.
ForgetQuietly(a) ==
    /\ pc[a] = "forget"
    /\ state' = [state EXCEPT ![V(a)] = "none"]
    /\ Goto(a, IF Op(a) = "clone" THEN "finally"
               ELSE IF seen[a] = "group" THEN "read" ELSE "unlock")
    /\ UNCHANGED <<still, domain, disk, files, nets>>

\* ...which is delete_vm_state.  destroy then reconciles; a rolled-back clone
\* goes on to its finally clause and does not.
Forget(a) ==
    /\ pc[a] = "forget"
    /\ state' = [state EXCEPT ![V(a)] = "none"]
    /\ Goto(a, IF Op(a) = "clone" THEN "finally"
               ELSE IF seen[a] \in {"group", "nat", "nat-custom"} THEN "read"
               ELSE "unlock")
    /\ UNCHANGED <<still, domain, disk, files, nets>>

\* An unchecked cleanup command fails and the cleanup goes on.
CleanupFails(a) ==
    /\ "cleanup" \in Faults
    /\ pc[a] \in {"undefine", "netdown", "storage"}
    /\ Goto(a, CASE pc[a] = "undefine" ->
                      IF TakesNetDown(a) THEN "netdown" ELSE "storage"
                 [] pc[a] = "netdown" -> "storage"
                 [] pc[a] = "storage" -> "artifacts")
    /\ UNCHANGED <<still, host>>
-----------------------------------------------------------------------------
(* Leaving, and faults. *)

\* Wrong: no finally around the body, so that an error skips the release.
UnlockOnSuccess(a) ==
    /\ pc[a] = "unlock"
    /\ lock' = IF err[a] = "none" THEN None ELSE lock
    /\ Goto(a, IF err[a] = "none" THEN "done" ELSE "failed")
    /\ UNCHANGED <<task, stage, err, ran, seen, named, plan, booted, host>>

Unlock(a) ==
    /\ pc[a] = "unlock"
    /\ lock' = None
    /\ Goto(a, IF err[a] = "none" THEN "done" ELSE "failed")
    /\ UNCHANGED <<task, stage, err, ran, seen, named, plan, booted, host>>

\* A checked command, or the Python around it, raises before it has any effect.
\* "load" stands for destroy's validation and snapshot removal as well.
Fails(a) ==
    /\ "raise" \in Faults
    /\ \/ pc[a] \in {"save", "write", "fetch", "disk", "copy", "copying", "install"}
       \/ pc[a] \in {"image"} /\ base = "none"
       \/ pc[a] = "load" /\ Op(a) = "destroy"
       \/ pc[a] \in {"artifacts", "forget"}
    /\ Raise(a)
    /\ UNCHANGED <<quiet, host>>

\* Ctrl-C: KeyboardInterrupt is not an Exception, so clone does not roll back; in
\* the finally clause it cuts the restart of the source short.
Interrupt(a) ==
    /\ "interrupt" \in Faults
    /\ ~Outside(a) /\ pc[a] # "unlock"
    /\ err' = [err EXCEPT ![a] = IF Starting(a) /\ pc[a] = "finally" THEN "start"
                                                             ELSE "interrupted"]
    /\ Goto(a, IF pc[a] # "finally" /\ (InTry(a) \/ (Op(a) = "clone" /\ pc[a] \in Cleaning))
               THEN "finally" ELSE "unlock")
    /\ UNCHANGED <<quiet, host>>

\* Wrong: a lock that outlives its process, such as a pid file.
CrashKeepsLock(a) ==
    /\ "crash" \in Faults
    /\ pc[a] \notin Ended \cup {"idle"}
    /\ Goto(a, "crashed")
    /\ UNCHANGED <<task, stage, err, ran, seen, named, plan, lock, booted, host>>

\* The process is killed; the kernel drops its lock.
Crash(a) ==
    /\ "crash" \in Faults
    /\ pc[a] \notin Ended \cup {"idle"}
    /\ Goto(a, "crashed")
    /\ lock' = IF lock = a THEN None ELSE lock
    /\ UNCHANGED <<task, stage, err, ran, seen, named, plan, booted, host>>

\* The host restarts, once: guests are off, autostarted networks come back, the
\* nftables tables do not.
Reboot ==
    /\ "reboot" \in Faults /\ ~booted
    /\ booted' = TRUE
    /\ pc' = [a \in Attempt |-> IF pc[a] \in Ended \cup {"idle"} THEN pc[a] ELSE "crashed"]
    /\ lock' = None
    /\ domain' = [v \in Vm |-> IF domain[v] = "running" THEN "off" ELSE domain[v]]
    /\ rules' = {}
    /\ UNCHANGED <<task, stage, err, ran, seen, named, plan, disk, files, state, netUp,
                   dhcp, base>>

\* What an invocation does when no command is made to fail.
Proceed(a) ==
    \/ Check(a) \/ LoadForStart(a) \/ TakeLock(a) \/ FindBusy(a)
    \/ Prepare(a) \/ Save(a) \/ Write(a)
    \/ ReadRecords(a) \/ EnsureNet(a) \/ NetsRaise(a) \/ NetsDone(a) \/ ApplyRules(a)
    \/ Image(a) \/ Fetched(a) \/ MakeDisk(a)
    \/ StopMissing(a) \/ StopStopped(a) \/ StopRunning(a) \/ StopReturns(a)
    \/ CopyStarts(a) \/ CopyEnds(a) \/ CopyImpossible(a)
    \/ Seed(a) \/ NatNet(a) \/ Install(a)
    \/ Boot(a) \/ BootFails(a) \/ NothingToRestart(a)
    \/ LoadForDestroy(a) \/ ForceOff(a) \/ Undefine(a) \/ NetStop(a) \/ NetDown(a)
    \/ RemoveStorage(a) \/ RemoveArtifacts(a) \/ Forget(a) \/ Unlock(a)

\* A command, or the Python around it, fails on its own account.
Breaks(a) ==
    \/ PrepareFails(a) \/ EnsureNetFails(a) \/ ApplyRulesFails(a)
    \/ SeedFails(a) \/ NatNetFails(a) \/ CleanupFails(a) \/ Fails(a)

Next == \/ \E a \in Attempt :
             Begin(a) \/ Proceed(a) \/ Breaks(a) \/ Interrupt(a) \/ Crash(a)
        \/ Reboot

Spec == Init /\ [][Next]_vars

\* A process that has started keeps being scheduled and its commands return.  No
\* failure is counted on to end an operation that would otherwise go on for ever.
FairSpec == Spec /\ \A a \in Attempt : WF_vars(Proceed(a))
=============================================================================
