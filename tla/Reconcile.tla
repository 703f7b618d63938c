------------------------------ MODULE Reconcile ------------------------------
(***************************************************************************)
(* reconciler.reconcile_networking_records, command by command: for each   *)
(* network a plan is made from what virsh reports, carried out with        *)
(* net-destroy, net-undefine, net-define, net-start and net-update, and    *)
(* then the managed nftables tables are replaced in one batch.             *)
(*                                                                         *)
(* Some reconciles run inside create, clone, start or destroy and so under *)
(* the lifecycle lock; `vmctl reconcile` and service reconciles do not take*)
(* it.  VMs start and stop, configurations are edited and the host reboots *)
(* in between.                                                             *)
(*                                                                         *)
(* A network's XML is abstracted to its structural part (bridge, address,  *)
(* DHCP range) and the VMs it has DHCP reservations for; a ruleset to the  *)
(* records it was rendered from.                                           *)
(***************************************************************************)
EXTENDS Naturals, FiniteSets

CONSTANTS Reconciler,   \* invocations of reconcile_networking_records
          Locked,       \* those that run under the lifecycle lock
          Destructive,  \* those with allow_destructive
          PolicyOnly,   \* those with policy_only
          Vm, Net, Shape,
          NetOf,        \* NetOf[v]: the network v's interface is attached to
          Wants,        \* the configurations that may be wanted
          None,         \* nobody holds the lock
          Faults        \* the faults that may strike

ASSUME NoneAssumption == None \notin Reconciler
ASSUME SetsAssumption == /\ Locked \cup Destructive \cup PolicyOnly \subseteq Reconciler
                         /\ NetOf \in [Vm -> Net] /\ Net # {}
                         /\ Faults \subseteq {"query", "command", "crash", "reboot"}
ASSUME WantsAssumption ==
    /\ Wants # {}
    /\ Wants \subseteq [Net -> [shape : Shape, hosts : SUBSET Vm]]

VARIABLES
  want,      \* what the configuration files ask for
  net,       \* libvirt's networks
  running,   \* VMs that run
  cut,       \* running VMs whose bridge was taken from under them
  tables,    \* the record sets whose rules the managed tables hold; {} is no tables
  lock,      \* the reconcile that holds the lifecycle lock
  booted,    \* the host has rebooted
  pc, goal, todo, cur, act, diff, old

mine == <<goal, todo, cur, act, diff, old>>
world == <<want, running, booted>>
vars == <<want, net, running, cut, tables, lock, booted, pc, goal, todo, cur, act, diff, old>>

Absent == [up |-> FALSE, def |-> FALSE]
Network(s, h, u) == [up |-> u, def |-> TRUE, shape |-> s, hosts |-> h]
NoDiff == [del |-> {}, add |-> {}]

Ended == {"done", "failed"}
Working == {"plan", "attached", "activate", "delete", "add", "destroy", "undefine",
            "bridge", "define", "start", "tables", "apply"}
PCs == {"idle", "unlock"} \cup Working \cup Ended

Attached(n) == {v \in running : NetOf[v] = n}

\* The host after a reconcile of some configuration, with a new one wanted since.
Init ==
    /\ want \in Wants
    /\ \E w \in Wants :
         /\ net = [n \in Net |-> IF w[n].hosts = {} THEN Absent
                                 ELSE Network(w[n].shape, w[n].hosts, TRUE)]
         /\ running \in SUBSET {v \in Vm : v \in w[NetOf[v]].hosts}
         /\ tables = {w}
    /\ cut = {}
    /\ lock = None
    /\ booted = FALSE
    /\ pc = [r \in Reconciler |-> "idle"]
    /\ goal = [r \in Reconciler |-> want]
    /\ todo = [r \in Reconciler |-> {}]
    /\ cur = [r \in Reconciler |-> CHOOSE n \in Net : TRUE]
    /\ act = [r \in Reconciler |-> "none"]
    /\ diff = [r \in Reconciler |-> NoDiff]
    /\ old = [r \in Reconciler |-> FALSE]
-----------------------------------------------------------------------------
Goto(r, l) == pc' = [pc EXCEPT ![r] = l]

Raise(r) == Goto(r, "unlock") /\ act' = [act EXCEPT ![r] = "raised"]

\* configured_vm_records and the grouping of the records by network.
Begin(r) ==
    /\ pc[r] = "idle"
    /\ IF r \in Locked THEN lock = None /\ lock' = r ELSE UNCHANGED lock
    /\ goal' = [goal EXCEPT ![r] = want]
    /\ todo' = [todo EXCEPT ![r] = IF r \in PolicyOnly THEN {}
                                   ELSE {n \in Net : want[n].hosts # {}}]
    /\ Goto(r, "plan")
    /\ UNCHANGED <<world, net, cut, tables, cur, act, diff, old>>

\* What net-dumpxml shows: nothing when the query fails for whatever reason.
Dumped(n) == {net[n]} \cup (IF "query" \in Faults THEN {Absent} ELSE {})

\* plan_libvirt_network_update, up to the choice of an action.
Plan(r) ==
    /\ pc[r] = "plan"
    /\ \E n \in todo[r] : \E seen \in Dumped(n) :
         /\ cur' = [cur EXCEPT ![r] = n]
         /\ \/ /\ ~seen.def
               /\ act' = [act EXCEPT ![r] = "define"]
               /\ Goto(r, "bridge") /\ UNCHANGED diff
            \/ /\ seen.def /\ seen.shape = goal[r][n].shape
               /\ diff' = [diff EXCEPT ![r] = [del |-> seen.hosts \ goal[r][n].hosts,
                                              add |-> goal[r][n].hosts \ seen.hosts]]
               /\ act' = [act EXCEPT ![r] = "update-hosts"]
               /\ Goto(r, "activate")
            \/ /\ seen.def /\ seen.shape # goal[r][n].shape
               /\ Goto(r, "attached") /\ UNCHANGED <<act, diff>>
    /\ UNCHANGED <<world, net, cut, tables, lock, goal, todo, old>>

\* _attached_domain_names: a list or dumpxml that fails hides domains.
Seen(n) == IF "query" \in Faults THEN SUBSET Attached(n) ELSE {Attached(n)}

\* Wrong: the safety check is forgotten.
RecreateUnchecked(r) ==
    /\ pc[r] = "attached"
    /\ act' = [act EXCEPT ![r] = "recreate"]
    /\ Goto(r, "destroy")
    /\ UNCHANGED <<world, net, cut, tables, lock, goal, todo, cur, diff, old>>

\* The safety check: no structural change under active VMs without the flag.
CheckAttached(r) ==
    /\ pc[r] = "attached"
    /\ \E active \in Seen(cur[r]) :
         IF active # {} /\ r \notin Destructive THEN Raise(r)
         ELSE Goto(r, "destroy") /\ act' = [act EXCEPT ![r] = "recreate"]
    /\ UNCHANGED <<world, net, cut, tables, lock, goal, todo, cur, diff, old>>

\* Losing the bridge disconnects the VMs that run on it.
Cut(n) == cut' = cut \cup (IF net[n].up THEN Attached(n) ELSE {})

\* net-destroy and net-undefine are unchecked: nobody notices when they fail.
NetDestroy(r) ==
    /\ pc[r] = "destroy"
    /\ \/ net' = [net EXCEPT ![cur[r]] = IF @.up THEN [@ EXCEPT !.up = FALSE] ELSE @]
          /\ Cut(cur[r])
       \/ "command" \in Faults /\ UNCHANGED <<net, cut>>
    /\ Goto(r, "undefine")
    /\ UNCHANGED <<world, tables, lock, mine>>

NetUndefine(r) ==
    /\ pc[r] = "undefine"
    /\ \/ net' = [net EXCEPT ![cur[r]] = IF @.up THEN @ ELSE Absent]
       \/ "command" \in Faults /\ UNCHANGED net
    /\ Goto(r, "bridge")
    /\ UNCHANGED <<world, cut, tables, lock, mine>>

\* A bridge of that name is deleted before the network is defined.
DeleteBridge(r) ==
    /\ pc[r] = "bridge"
    /\ Cut(cur[r])
    /\ Goto(r, "define")
    /\ UNCHANGED <<world, net, tables, lock, mine>>

\* net-define is refused when the network exists.
NetDefine(r) ==
    /\ pc[r] = "define"
    /\ LET n == cur[r]
       IN  IF net[n].def
           THEN Raise(r) /\ UNCHANGED net
           ELSE /\ net' = [net EXCEPT ![n] = Network(goal[r][n].shape, goal[r][n].hosts, FALSE)]
                /\ Goto(r, "start") /\ UNCHANGED act
    /\ UNCHANGED <<world, cut, tables, lock, goal, todo, cur, diff, old>>

\* Wrong: whoever planned an update takes the network to be active.
Trust(r) ==
    /\ pc[r] = "activate"
    /\ Goto(r, "delete")
    /\ UNCHANGED <<world, net, cut, tables, lock, mine>>

\* ensure_libvirt_network_active, before net-update or after net-define.  Whoever
\* cannot see that the network is active takes its bridge for a leftover and
\* deletes it.
Activate(r) ==
    /\ pc[r] \in {"activate", "start"}
    /\ UNCHANGED cut \/ ("query" \in Faults /\ Cut(cur[r]))
    /\ \/ /\ net[cur[r]].def
          /\ net' = [net EXCEPT ![cur[r]].up = TRUE]
          /\ Goto(r, IF pc[r] = "activate" THEN "delete" ELSE "plan")
          /\ todo' = [todo EXCEPT ![r] = IF pc[r] = "start" THEN @ \ {cur[r]} ELSE @]
          /\ UNCHANGED act
       \/ /\ \/ ~net[cur[r]].def \/ "query" \in Faults
             \/ ~net[cur[r]].up /\ "command" \in Faults
          /\ Raise(r)
          /\ UNCHANGED <<net, todo>>
    /\ UNCHANGED <<world, tables, lock, goal, cur, diff, old>>

\* One net-update delete ip-dhcp-host; it fails on a host that is gone already.
DeleteHost(r) ==
    /\ pc[r] = "delete" /\ diff[r].del # {}
    /\ \E h \in diff[r].del :
         LET n == cur[r]
         IN  IF net[n].up /\ h \in net[n].hosts
             THEN /\ net' = [net EXCEPT ![n].hosts = @ \ {h}]
                  /\ diff' = [diff EXCEPT ![r].del = @ \ {h}]
                  /\ UNCHANGED <<pc, act>>
             ELSE Raise(r) /\ UNCHANGED <<net, diff>>
    /\ UNCHANGED <<world, cut, tables, lock, goal, todo, cur, old>>

\* Wrong: reservations that are no longer wanted are left in place.
SkipDeletes(r) ==
    /\ pc[r] = "delete"
    /\ Goto(r, "add")
    /\ UNCHANGED <<world, net, cut, tables, lock, mine>>

DeletesDone(r) ==
    /\ pc[r] = "delete" /\ diff[r].del = {}
    /\ Goto(r, "add")
    /\ UNCHANGED <<world, net, cut, tables, lock, mine>>

\* One net-update add-last ip-dhcp-host; it fails on a host that is there already.
AddHost(r) ==
    /\ pc[r] = "add" /\ diff[r].add # {}
    /\ \E h \in diff[r].add :
         LET n == cur[r]
         IN  IF net[n].up /\ h \notin net[n].hosts
             THEN /\ net' = [net EXCEPT ![n].hosts = @ \cup {h}]
                  /\ diff' = [diff EXCEPT ![r].add = @ \ {h}]
                  /\ UNCHANGED <<pc, act>>
             ELSE Raise(r) /\ UNCHANGED <<net, diff>>
    /\ UNCHANGED <<world, cut, tables, lock, goal, todo, cur, old>>

\* Wrong: a network that was updated is never ticked off.
AddsDoneAgain(r) ==
    /\ pc[r] = "add" /\ diff[r].add = {}
    /\ Goto(r, "plan")
    /\ UNCHANGED <<world, net, cut, tables, lock, mine>>

AddsDone(r) ==
    /\ pc[r] = "add" /\ diff[r].add = {}
    /\ todo' = [todo EXCEPT ![r] = @ \ {cur[r]}]
    /\ Goto(r, "plan")
    /\ UNCHANGED <<world, net, cut, tables, lock, goal, cur, act, diff, old>>

NetworksDone(r) ==
    /\ pc[r] = "plan" /\ todo[r] = {}
    /\ Goto(r, "tables")
    /\ UNCHANGED <<world, net, cut, tables, lock, mine>>
-----------------------------------------------------------------------------
\* current_tables: which tables the batch has to delete first; a query that fails
\* reads as an absent table.
LookAtTables(r) ==
    /\ pc[r] = "tables"
    /\ \E there \in {tables # {}} \cup (IF "query" \in Faults THEN {FALSE} ELSE {}) :
         old' = [old EXCEPT ![r] = there]
    /\ Goto(r, "apply")
    /\ UNCHANGED <<world, net, cut, tables, lock, goal, todo, cur, act, diff>>

\* Wrong: the batch never deletes the previous tables.
ApplyOnTop(r) ==
    /\ pc[r] = "apply"
    /\ tables' = tables \cup {goal[r]}
    /\ Goto(r, "unlock")
    /\ act' = [act EXCEPT ![r] = "applied"]
    /\ UNCHANGED <<world, net, cut, lock, goal, todo, cur, diff, old>>

\* apply_ruleset: one atomic batch.  Deleting a table that is gone rejects it; a
\* table block on top of an existing table adds to it.  verify_tables looks at the
\* new ones and raises, with them in place, when it cannot read them.
Apply(r) ==
    /\ pc[r] = "apply"
    /\ \/ /\ old[r] => tables # {}
          /\ tables' = (IF old[r] THEN {} ELSE tables) \cup {goal[r]}
          /\ \/ Goto(r, "unlock") /\ act' = [act EXCEPT ![r] = "applied"]
             \/ "query" \in Faults /\ Raise(r)
       \/ /\ (old[r] /\ tables = {}) \/ "command" \in Faults
          /\ Raise(r)
          /\ UNCHANGED tables
    /\ UNCHANGED <<world, net, cut, lock, goal, todo, cur, diff, old>>

\* The invocation is over, and what it kept to itself is gone.
Exit(r, l) ==
    /\ lock' = IF lock = r THEN None ELSE lock
    /\ Goto(r, l)
    /\ todo' = [todo EXCEPT ![r] = {}]
    /\ act' = [act EXCEPT ![r] = "none"]
    /\ diff' = [diff EXCEPT ![r] = NoDiff]
    /\ old' = [old EXCEPT ![r] = FALSE]
    /\ UNCHANGED <<world, net, cut, tables, goal, cur>>

Finish(r) ==
    /\ pc[r] = "unlock"
    /\ Exit(r, IF act[r] = "applied" THEN "done" ELSE "failed")

\* A checked command fails.
CommandFails(r) ==
    /\ "command" \in Faults
    /\ pc[r] \in {"define", "delete", "add"}
    /\ Raise(r)
    /\ UNCHANGED <<world, net, cut, tables, lock, goal, todo, cur, diff, old>>

Crash(r) ==
    /\ "crash" \in Faults
    /\ pc[r] \in Working
    /\ Exit(r, "failed")
-----------------------------------------------------------------------------
(* Around the reconciles: vmctl start and stop hold the lifecycle lock; a VM that
   can be started has a record. *)

VmStarts(v) ==
    /\ v \notin running /\ lock = None
    /\ net[NetOf[v]].up /\ v \in want[NetOf[v]].hosts
    /\ running' = running \cup {v}
    /\ UNCHANGED <<want, net, cut, tables, lock, booted, pc, mine>>

VmStops(v) ==
    /\ v \in running /\ lock = None
    /\ running' = running \ {v}
    /\ cut' = cut \ {v}
    /\ UNCHANGED <<want, net, tables, lock, booted, pc, mine>>

\* Configuration files are edited without any lock.
Edit ==
    /\ want' \in Wants \ {want}
    /\ UNCHANGED <<net, running, cut, tables, lock, booted, pc, mine>>

\* Once: defined networks autostart, the tables are gone, no VM runs.
Reboot ==
    /\ "reboot" \in Faults /\ ~booted
    /\ booted' = TRUE
    /\ running' = {} /\ cut' = {} /\ tables' = {} /\ lock' = None
    /\ net' = [n \in Net |-> IF net[n].def THEN [net[n] EXCEPT !.up = TRUE] ELSE net[n]]
    /\ pc' = [r \in Reconciler |-> IF pc[r] \in Working \cup {"unlock"} THEN "failed" ELSE pc[r]]
    /\ UNCHANGED <<want, mine>>

Work(r) ==
    \/ Plan(r) \/ CheckAttached(r) \/ NetDestroy(r) \/ NetUndefine(r) \/ DeleteBridge(r)
    \/ NetDefine(r) \/ Activate(r) \/ DeleteHost(r) \/ DeletesDone(r) \/ AddHost(r)
    \/ AddsDone(r) \/ NetworksDone(r) \/ LookAtTables(r) \/ Apply(r) \/ Finish(r)
    \/ CommandFails(r)

Next == \/ \E r \in Reconciler : Begin(r) \/ Work(r) \/ Crash(r)
        \/ \E v \in Vm : VmStarts(v) \/ VmStops(v)
        \/ Edit \/ Reboot

Spec == Init /\ [][Next]_vars

\* A reconcile that has begun keeps running and its commands return.
FairSpec == Spec /\ \A r \in Reconciler : WF_vars(Work(r))
-----------------------------------------------------------------------------
(* Type correctness. *)
TypeOK ==
    /\ want \in Wants
    /\ net \in [Net -> {Absent} \cup [up : BOOLEAN, def : {TRUE}, shape : Shape,
                                      hosts : SUBSET Vm]]
    /\ running \subseteq Vm /\ cut \subseteq running
    /\ tables \subseteq Wants
    /\ lock \in Reconciler \cup {None}
    /\ booted \in BOOLEAN
    /\ pc \in [Reconciler -> PCs]
    /\ goal \in [Reconciler -> Wants]
    /\ todo \in [Reconciler -> SUBSET Net]
    /\ cur \in [Reconciler -> Net]
    /\ act \in [Reconciler -> {"none", "define", "update-hosts", "recreate", "applied", "raised"}]
    /\ diff \in [Reconciler -> [del : SUBSET Vm, add : SUBSET Vm]]
    /\ old \in [Reconciler -> BOOLEAN]

(* A network that running VMs are attached to is never recreated or stripped of its
   bridge unless the reconcile was asked to be destructive
   (reconciler.NetworkReconcileSafetyError: "Refusing to recreate libvirt network
   ... while active attached VMs exist"). *)
NoneCutUnasked ==
    [][\A r \in Reconciler \ Destructive :
         pc[r] \in {"destroy", "bridge", "activate", "start"} /\ pc'[r] # pc[r] =>
            cut' \subseteq cut]_vars

(* The managed tables are replaced as a whole: they never hold the rules of two
   record sets at once (managed_nftables.apply_ruleset). *)
TablesReplaced == Cardinality(tables) <= 1

(* A full reconcile that succeeds leaves every network it has records for active,
   with the structure and the reservations of the records it read, also when it
   picks up after one that failed or was killed half way. *)
Achieved ==
    \A r \in Reconciler \ PolicyOnly :
        pc[r] = "unlock" /\ act[r] = "applied" =>
            /\ \A n \in Net : goal[r][n].hosts # {} =>
                 net[n] = Network(goal[r][n].shape, goal[r][n].hosts, TRUE)
            /\ goal[r] \in tables

(* Every reconcile that has begun ends. *)
ReconcilesEnd == \A r \in Reconciler : pc[r] \in Working ~> pc[r] \in Ended
=============================================================================
