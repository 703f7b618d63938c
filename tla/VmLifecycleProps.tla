--------------------------- MODULE VmLifecycleProps ---------------------------
(***************************************************************************)
(* What the lifecycle operations promise, stated over VmLifecycle.         *)
(***************************************************************************)
EXTENDS VmLifecycle

(* Type correctness of the host's and the attempts' state. *)
TypeOK ==
    /\ task \in Tasking
    /\ pc \in [Attempt -> PCs]
    /\ stage \in [Attempt -> {"pre", "post"}]
    /\ err \in [Attempt -> {"none", "raised", "interrupted", "start"}]
    /\ ran \in [Attempt -> {"no", "waiting", "yes"}]
    /\ seen \in [Attempt -> Modes]
    /\ named \in [Attempt -> BOOLEAN]
    /\ plan \in [Attempt -> [recs : SUBSET Vm, live : SUBSET Vm, torn : BOOLEAN]]
    /\ lock \in Attempt \cup {None}
    /\ domain \in [Vm -> {"none", "off", "running"}]
    /\ disk \in [Vm -> {"none", "partial", "whole"}]
    /\ files \in [Vm -> SUBSET {"key", "data", "seed"}]
    /\ state \in [Vm -> {"none", "torn", "saved"}]
    /\ netUp \in [Net -> {"absent", "inactive", "active"}]
    /\ dhcp \in [Net -> SUBSET Vm]
    /\ base \in {"none", "partial", "whole"}
    /\ rules \subseteq Vm
    /\ booted \in BOOLEAN

(* The lock is held by exactly the attempt that is inside the with statement of
   its operation, whatever fails, dies or is interrupted. *)
LockTracksHolder == \A a \in Attempt : lock = a <=> ~Outside(a)

(* At every instant, after any crash too, each libvirt domain has a state file to
   find its artifacts by: create and clone save it before virt-install, destroy
   deletes it after virsh undefine.  (An undefine that fails silently is the one
   exception, so the claim is made where unchecked commands succeed.) *)
DomainHasState ==
    "cleanup" \notin Faults =>
        \A v \in Vm : domain[v] # "none" => state[v] # "none"

\* A clone between the start of the copy and its end or the removal of what it made.
Halfway(a) == Op(a) = "clone" /\ pc[a] \in {"copying", "undefine", "netdown", "storage"}
\* A clone that has ended, or is about to, without a roll back that went through.
Abandons(a) == /\ Op(a) = "clone"
               /\ \/ pc[a] = "crashed"
                  \/ err[a] \in {"interrupted", "start"}
                  \/ err[a] # "none" /\ (task[a].svc \/ "cleanup" \in Faults)

(* A partial image, which a later create or clone takes for a whole one, is always
   some invocation's doing, of one of a few kinds.  The base image is partial only
   while a create downloads it, or after one has died or failed; a disk is partial
   only if the base image is, if a clone is half way with it, or if a clone made it
   and there was one that was killed or interrupted, is a service's (which does not
   roll back) or could not clean up.  A CLI clone whose copy fails never leaves one,
   and neither does a create that fails after the download. *)
PartialExplained ==
    /\ base = "partial" => \E a \in Attempt :
         Op(a) = "create" /\ (pc[a] \in {"fetch", "crashed"} \/ err[a] # "none")
    /\ \A v \in Vm : disk[v] = "partial" =>
         \/ base = "partial"
         \/ \E a \in Attempt : Halfway(a) /\ V(a) = v
         \/ /\ \E a \in Attempt : Abandons(a)
            /\ \E b \in Attempt : Op(b) = "clone" /\ V(b) = v

(* The admin key a VM was built with is there as long as its domain is, so that
   ssh-admin can use it. *)
DomainHasKey ==
    "cleanup" \notin Faults =>
        \A v \in Vm : domain[v] # "none" => "key" \in files[v]

(* A clone that has begun to stop a running source leaves it running, on success,
   after a roll back and after Ctrl-C at any later step alike.  Two ways out are
   exempt: starting it failed or was cut short, and Ctrl-C during the wait for the
   guest to power off, before stop_vm_domain has returned and source_was_running is
   assigned (StoppedRestarted, which has no such exemption, does not hold). *)
SourceRestored ==
    \A a \in Attempt : pc[a] = "unlock" /\ Op(a) = "clone" /\ ran[a] # "no" =>
        \/ domain[Src(a)] = "running"
        \/ err[a] = "start"
        \/ ran[a] = "waiting" /\ err[a] = "interrupted"

\* Nothing of a VM is left but what reconcile manages.
Gone(v) == /\ domain[v] = "none" /\ disk[v] = "none"
           /\ files[v] = {} /\ state[v] = "none"

(* When a CLI clone whose try statement raised has rolled back, everything of the
   target is gone, domain, disk, seed, keys, data, state and its own NAT network,
   or the rollback itself raised and the state file is still there to destroy by. *)
RollbackComplete ==
    "cleanup" \notin Faults =>
        \A a \in Attempt :
            /\ pc[a] = "finally" /\ Op(a) = "clone" /\ ~task[a].svc
            /\ err[a] = "raised" /\ state[V(a)] = "none"
            => Gone(V(a)) /\ (V(a) \notin Group => netUp[NetOf[V(a)]] = "absent")

(* A destroy that succeeds leaves nothing of the VM, also when it finishes what a
   killed create, clone or destroy had left half done: no domain, disk, seed, keys,
   state or network of its own, and no data directory, unless the config put that
   somewhere else and no state file is left to name it. *)
DestroyComplete ==
    "cleanup" \notin Faults =>
        \A a \in Attempt : pc[a] = "unlock" /\ Op(a) = "destroy" /\ err[a] = "none" =>
            /\ domain[V(a)] = "none" /\ disk[V(a)] = "none" /\ state[V(a)] = "none"
            /\ files[V(a)] \subseteq (IF V(a) \in CustomDir /\ ~named[a]
                                      THEN {"data"} ELSE {})
            /\ ~(V(a) \notin Group /\ Discovered(V(a)))

(* A start that found a group or nat-custom network in the state file ends with
   the VM running and the policy rendered for it, after a reboot too.  It reads the
   file before it takes the lock: a standalone VM is exempt if a create of it was
   killed in between and left the file empty. *)
StartRestoresPolicy ==
    \A a \in Attempt :
        /\ pc[a] = "unlock" /\ Op(a) = "start" /\ err[a] = "none"
        /\ seen[a] \in {"group", "nat-custom"} /\ V(a) \in Configured
        /\ V(a) \in Group \/ state[V(a)] = "saved"
        => domain[V(a)] = "running" /\ V(a) \in rules

(* Whenever nobody is inside an operation and none has failed or died, the policy
   is the one rendered for exactly the live VMs, whatever the order in which the
   operations ran.  nat-auto VMs, which are only reconciled by accident, are left
   out, and so is a reconcile outside the lock. *)
Settled(a) == \/ pc[a] \in {"idle", "check", "lock", "refused", "done"}
              \/ pc[a] = "load" /\ Op(a) = "start"
PolicyConverges ==
    (\A a \in Attempt : Settled(a)) => rules = Live

(* virt-install of a new domain never runs without what the VM is made of: its
   network is active, its disk is there and, for a clone, as complete as the source's,
   its seed image and data directory are there and, of the CLI, which prepares under
   the lock, its admin key; also when a network or a disk is left over from an attempt
   that failed half way or was killed. *)
InstallReady ==
    \A a \in Attempt : pc[a] = "install" /\ domain[V(a)] = "none" =>
        /\ Bootable(V(a))
        /\ Op(a) = "clone" => disk[V(a)] = disk[Src(a)]
        /\ {"data", "seed"} \subseteq files[V(a)]
        /\ ~task[a].svc => "key" \in files[V(a)]

(* A network that a running VM of its group uses is taken down under it only by a
   destroy of another member that finds no state file and so takes the network it
   discovers for the VM's own; no create, clone, roll back or other destroy does. *)
GroupNetworkKept ==
    [][\A n \in Net, w \in Group :
         /\ NetOf[w] = n /\ domain[w] = "running" /\ domain'[w] = "running"
         /\ netUp[n] = "active"
         => \/ netUp'[n] = "active"
            \/ \E a \in Attempt : /\ pc[a] = "netdown" /\ lock = a
                                  /\ Op(a) = "destroy" /\ state[V(a)] # "saved"]_vars

(* Every operation that begins comes to an end, and no fault leaves the host
   locked for good. *)
OperationsEnd == /\ \A a \in Attempt : pc[a] # "idle" ~> pc[a] \in Ended
                 /\ []<>(lock = None)
-----------------------------------------------------------------------------
(* Claims the repository makes, or a user would, that the code does not keep. *)

(* A domain's disk image is complete: create_vm_disk and clone check that an image is
   there, which is to say that it can be used. *)
DomainHasDisk == \A v \in Vm : domain[v] # "none" => disk[v] = "whole"

(* The finally clause of clone starts a source that was running again, whatever ends
   the clone short of a failing start. *)
StoppedRestarted ==
    \A a \in Attempt :
        pc[a] = "unlock" /\ Op(a) = "clone" /\ ran[a] # "no" /\ err[a] # "start"
        => domain[Src(a)] = "running"

(* Destroying a VM removes its data directory (service_workflows.destroy_vm, "VM-owned
   artifacts (keys, data directories)"), wherever its config put it. *)
DestroyRemovesData ==
    "cleanup" \notin Faults =>
        \A a \in Attempt : pc[a] = "unlock" /\ Op(a) = "destroy" /\ err[a] = "none"
                           => "data" \notin files[V(a)]

(* Clone only ever builds on a target that does not exist ("Target VM already
   exists" is an error): no domain of that name when it starts on the disk. *)
CloneTargetIsNew ==
    \A a \in Attempt : pc[a] = "copy" => domain[V(a)] = "none"

(* Destroying a VM preserves what other VMs share (service_workflows.destroy_vm):
   a network that a running VM uses is not taken down by the destroy of another. *)
SharedNetworkKept ==
    [][\A n \in Net, w \in Group :
         /\ NetOf[w] = n /\ domain[w] = "running" /\ domain'[w] = "running"
         /\ netUp[n] = "active"
         => netUp'[n] = "active"]_vars

(* Destroying a VM removes its networking configuration
   (service_workflows.destroy_vm): no policy is left that was rendered for it. *)
DestroyDropsPolicy ==
    \A a \in Attempt : pc[a] = "unlock" /\ Op(a) = "destroy" /\ err[a] = "none"
                       => V(a) \notin rules

(* Forwarded ports of NAT-backed VMs are reconciled into the managed tables
   (README, port forwarding): a VM that was just created or started is in them. *)
PortsForwarded ==
    \A a \in Attempt :
        pc[a] = "unlock" /\ Op(a) \in {"create", "start"} /\ err[a] = "none"
        => V(a) \in rules
=============================================================================
