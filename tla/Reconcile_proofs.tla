--------------------------- MODULE Reconcile_proofs ---------------------------
(***************************************************************************)
(* Proofs about reconciles for any number of invocations, networks, VMs    *)
(* and configurations: types always, what a successful reconcile has done  *)
(* when all of them run under the lifecycle lock, and what none ever does  *)
(* when, besides, virsh and nft answer the queries put to them.  Commands  *)
(* may fail, processes die and the host reboot at any point.               *)
(***************************************************************************)
EXTENDS Reconcile, FiniteSetTheorems, TLAPS

\* Hypotheses: every reconcile runs under the lock; no query fails.
Serial == Locked = Reconciler
Answered == "query" \notin Faults

Active(r) == pc[r] \in Working \cup {"unlock"}

\* The steps that are about the network cur[r].
OnNetwork == {"attached", "activate", "delete", "add", "destroy", "undefine", "bridge",
              "define", "start"}

Goal(r, n, up) == Network(goal[r][n].shape, goal[r][n].hosts, up)

\* A network is ticked off only when it is as its records want it.
Ticked(r) ==
    /\ pc[r] \in OnNetwork => cur[r] \in todo[r]
    /\ pc[r] \in {"tables", "apply"} => todo[r] = {}
    /\ pc[r] = "unlock" /\ act[r] = "applied" => todo[r] = {} /\ goal[r] \in tables
    /\ pc[r] # "unlock" \/ act[r] = "applied" =>
         \A n \in Net \ todo[r] : goal[r][n].hosts # {} => net[n] = Goal(r, n, TRUE)

\* What an update still has to do, and what a new network lacks.
Underway(r) ==
    /\ pc[r] \in {"activate", "delete", "add"} =>
         /\ net[cur[r]].def /\ net[cur[r]].shape = goal[r][cur[r]].shape
         /\ diff[r].del = net[cur[r]].hosts \ goal[r][cur[r]].hosts
         /\ diff[r].add = goal[r][cur[r]].hosts \ net[cur[r]].hosts
    /\ pc[r] \in {"delete", "add"} => net[cur[r]].up
    /\ pc[r] = "add" => diff[r].del = {}
    /\ pc[r] = "start" => net[cur[r]] = Goal(r, cur[r], FALSE)

\* Who has not been asked to be destructive takes no bridge away from a running VM.
Careful(r) ==
    /\ pc[r] \in {"destroy", "undefine"} => Attached(cur[r]) = {}
    /\ pc[r] = "bridge" => Attached(cur[r]) = {} \/ ~net[cur[r]].up

\* A batch that deletes no tables finds none.
Looked(r) == pc[r] = "apply" /\ ~old[r] => tables = {}

Here(r) == /\ r \notin PolicyOnly => Ticked(r)
           /\ Underway(r)
           /\ Answered => (r \notin Destructive => Careful(r)) /\ Looked(r)

LockHeld == \A r \in Reconciler : lock = r <=> Active(r)
OneRuleset == tables = {} \/ \E w \in Wants : tables = {w}
IInv == /\ TypeOK /\ LockHeld /\ (Answered => OneRuleset)
        /\ \A r \in Reconciler : Active(r) => Here(r)
-----------------------------------------------------------------------------
\* One step of one reconcile.
Moves(r) == Begin(r) \/ Work(r) \/ Crash(r)

Defined == [up : BOOLEAN, def : {TRUE}, shape : Shape, hosts : SUBSET Vm]
Nets == {Absent} \cup Defined

\* What libvirt can say of a network.
LEMMA NetFields ==
  ASSUME NEW m \in Nets
  PROVE  /\ m.up \in BOOLEAN /\ m.def \in BOOLEAN
         /\ m.def <=> m # Absent
         /\ m.up => m.def
         /\ m.def => m.shape \in Shape /\ m.hosts \in SUBSET Vm
<1>1. CASE m = Absent
  BY <1>1 DEF Absent
<1>2. CASE m # Absent
  <2>1. m \in Defined
    BY <1>2 DEF Nets
  <2>. QED
    BY <1>2, <2>1 DEF Defined
<1>. QED
  BY <1>1, <1>2

\* A network that is defined has a shape and hosts.
LEMMA DefinedNets ==
  ASSUME TypeOK
  PROVE  \A n \in Net : net[n].def => net[n] \in Defined
<1>1. \A n \in Net : net[n] \in Nets
  BY DEF TypeOK, Nets, Defined
<1>. QED
  BY <1>1, NetFields DEF Nets

\* What a reconcile makes of a network is a network.
LEMMA GoalType ==
  ASSUME TypeOK, NEW r \in Reconciler, NEW n \in Net
  PROVE  /\ goal[r][n].shape \in Shape /\ goal[r][n].hosts \in SUBSET Vm
         /\ \A up \in BOOLEAN : Goal(r, n, up) \in Nets
  <1>1. goal[r] \in [Net -> [shape : Shape, hosts : SUBSET Vm]]
    BY WantsAssumption DEF TypeOK
  <1>. QED
    BY <1>1 DEF Goal, Network, Nets, Defined

(* What a step makes of one network is a network. *)
LEMMA NetStep ==
  ASSUME TypeOK, NEW r \in Reconciler, Moves(r)
  PROVE  net' \in [Net -> Nets]
<1>0. net \in [Net -> Nets] /\ cur[r] \in Net
  BY DEF TypeOK, Nets, Defined
<1>a. /\ net[cur[r]].def <=> net[cur[r]] # Absent
      /\ net[cur[r]].up => net[cur[r]].def
      /\ net[cur[r]].def => net[cur[r]].hosts \in SUBSET Vm
      /\ \A up \in BOOLEAN : Goal(r, cur[r], up) \in Nets
  BY <1>0, NetFields, GoalType
<1>1. CASE NetDestroy(r)
  <2>1. net[cur[r]].up => [net[cur[r]] EXCEPT !.up = FALSE] \in Nets
    BY <1>0, <1>a DEF Nets, Defined
  <2>. QED
    BY <1>0, <1>1, <2>1 DEF NetDestroy
<1>2. CASE NetUndefine(r)
  BY <1>0, <1>2 DEF NetUndefine, Nets, Defined
<1>3. CASE NetDefine(r)
  BY <1>0, <1>a, <1>3 DEF NetDefine, Goal, Network
<1>4. CASE Activate(r)
  <2>1. ASSUME net[cur[r]].def PROVE [net[cur[r]] EXCEPT !.up = TRUE] \in Nets
    BY <1>0, <1>a, <2>1 DEF Nets, Defined
  <2>. QED
    BY <1>0, <1>4, <2>1 DEF Activate
<1>5. CASE DeleteHost(r)
  <2>1. ASSUME NEW h, net[cur[r]].def
        PROVE  [net[cur[r]] EXCEPT !.hosts = @ \ {h}] \in Nets
    BY <1>0, <1>a, <2>1 DEF Nets, Defined
  <2>2. net[cur[r]].up => net[cur[r]].def
    BY <1>0, NetFields
  <2>. QED
    BY <1>0, <1>5, <2>1, <2>2 DEF DeleteHost
<1>6. CASE AddHost(r)
  <2>1. ASSUME NEW h \in Vm, net[cur[r]].def
        PROVE  [net[cur[r]] EXCEPT !.hosts = @ \cup {h}] \in Nets
    BY <1>0, <1>a, <2>1 DEF Nets, Defined
  <2>2. net[cur[r]].up => net[cur[r]].def
    BY <1>0, NetFields
  <2>3. diff[r].add \in SUBSET Vm
    BY DEF TypeOK
  <2>. QED
    BY <1>0, <1>6, <2>1, <2>2, <2>3 DEF AddHost
<1>7. ASSUME ~(NetDestroy(r) \/ NetUndefine(r) \/ NetDefine(r) \/ Activate(r)
               \/ DeleteHost(r) \/ AddHost(r))
      PROVE  net' = net
  BY <1>7 DEF Moves, Work, Begin, Plan, CheckAttached, DeleteBridge, DeletesDone,
              AddsDone, NetworksDone, LookAtTables, Apply, Finish, CommandFails, Crash, Exit
<1>. QED
  BY <1>0, <1>1, <1>2, <1>3, <1>4, <1>5, <1>6, <1>7

\* Types: a reconcile's step leaves every variable in its range.
LEMMA TypeStep ==
  ASSUME TypeOK, NEW r \in Reconciler, Moves(r)
  PROVE  TypeOK'
<1>0. net' \in [Net -> {Absent} \cup [up : BOOLEAN, def : {TRUE}, shape : Shape,
                                      hosts : SUBSET Vm]]
  BY NetStep DEF Nets, Defined
<1>a. \A n : Cut(n) => cut' \subseteq running
  BY DEF Attached, Cut, TypeOK
<1>. USE <1>0 DEF TypeOK, Goto, Raise, world, mine, PCs, Working, Ended
<1>1. CASE Begin(r)
  BY <1>1 DEF Begin
<1>2. CASE Plan(r)
  <2>a. todo[r] \subseteq Net /\ Absent \in Nets /\ \A n \in Net : net[n] \in Nets
    BY DEF Nets, Defined
  <2>0. todo[r] \subseteq Net /\ \A n \in Net : Dumped(n) \subseteq Nets
    BY <2>a DEF Dumped
  <2>1. PICK n \in Net, seen \in Nets :
          /\ cur' = [cur EXCEPT ![r] = n]
          /\ \/ /\ act' = [act EXCEPT ![r] = "define"]
                /\ Goto(r, "bridge") /\ UNCHANGED diff
             \/ /\ seen.def
                /\ diff' = [diff EXCEPT ![r] = [del |-> seen.hosts \ goal[r][n].hosts,
                                               add |-> goal[r][n].hosts \ seen.hosts]]
                /\ act' = [act EXCEPT ![r] = "update-hosts"]
                /\ Goto(r, "activate")
             \/ /\ Goto(r, "attached") /\ UNCHANGED <<act, diff>>
    BY <1>2, <2>0 DEF Plan
  <2>3. seen.def => seen.hosts \in SUBSET Vm
    BY NetFields
  <2>4. goal[r][n].hosts \in SUBSET Vm
    BY GoalType
  <2>5. diff' \in [Reconciler -> [del : SUBSET Vm, add : SUBSET Vm]]
    BY <2>1, <2>3, <2>4
  <2>6. UNCHANGED <<world, net, cut, tables, lock, goal, todo, old>>
    BY <1>2 DEF Plan
  <2>. QED
    BY <2>1, <2>5, <2>6
<1>3. CASE CheckAttached(r)
  BY <1>3 DEF CheckAttached
<1>4. CASE NetDestroy(r)
  BY <1>4, <1>a DEF NetDestroy
<1>5. CASE NetUndefine(r)
  BY <1>5 DEF NetUndefine
<1>6. CASE DeleteBridge(r)
  BY <1>6, <1>a DEF DeleteBridge
<1>7. CASE NetDefine(r)
  BY <1>7 DEF NetDefine
<1>8. CASE Activate(r)
  <2>1. cut' \subseteq running
    BY <1>8, <1>a DEF Activate
  <2>2. todo' \in [Reconciler -> SUBSET Net]
    BY <1>8 DEF Activate
  <2>3. pc' \in [Reconciler -> PCs] /\ (act' = act \/ act' = [act EXCEPT ![r] = "raised"])
    BY <1>8 DEF Activate
  <2>4. UNCHANGED <<world, tables, lock, goal, cur, diff, old>>
    BY <1>8 DEF Activate
  <2>. QED
    BY <2>1, <2>2, <2>3, <2>4
<1>9. CASE DeleteHost(r)
  <2>1. ASSUME NEW h
        PROVE  [diff EXCEPT ![r].del = @ \ {h}]
                 \in [Reconciler -> [del : SUBSET Vm, add : SUBSET Vm]]
    OBVIOUS
  <2>2. diff' \in [Reconciler -> [del : SUBSET Vm, add : SUBSET Vm]]
    <3>1. diff' = diff \/ \E h : diff' = [diff EXCEPT ![r].del = @ \ {h}]
      BY <1>9 DEF DeleteHost
    <3>. QED
      BY <2>1, <3>1
  <2>3. UNCHANGED <<world, cut, tables, lock, goal, todo, cur, old>>
    BY <1>9 DEF DeleteHost
  <2>4. pc' \in [Reconciler -> PCs] /\ (act' = act \/ act' = [act EXCEPT ![r] = "raised"])
    BY <1>9 DEF DeleteHost
  <2>. QED
    BY <2>2, <2>3, <2>4
<1>10. CASE DeletesDone(r)
  BY <1>10 DEF DeletesDone
<1>11. CASE AddHost(r)
  <2>1. ASSUME NEW h
        PROVE  [diff EXCEPT ![r].add = @ \ {h}]
                 \in [Reconciler -> [del : SUBSET Vm, add : SUBSET Vm]]
    OBVIOUS
  <2>2. diff' \in [Reconciler -> [del : SUBSET Vm, add : SUBSET Vm]]
    <3>1. diff' = diff \/ \E h : diff' = [diff EXCEPT ![r].add = @ \ {h}]
      BY <1>11 DEF AddHost
    <3>. QED
      BY <2>1, <3>1
  <2>3. UNCHANGED <<world, cut, tables, lock, goal, todo, cur, old>>
    BY <1>11 DEF AddHost
  <2>4. pc' \in [Reconciler -> PCs] /\ (act' = act \/ act' = [act EXCEPT ![r] = "raised"])
    BY <1>11 DEF AddHost
  <2>. QED
    BY <2>2, <2>3, <2>4
<1>12. CASE AddsDone(r)
  BY <1>12 DEF AddsDone
<1>13. CASE NetworksDone(r)
  BY <1>13 DEF NetworksDone
<1>14. CASE LookAtTables(r)
  BY <1>14 DEF LookAtTables
<1>15. CASE Apply(r)
  <2>1. tables' \subseteq Wants
    BY <1>15 DEF Apply
  <2>2. pc' \in [Reconciler -> PCs] /\ \E x \in {"applied", "raised"} : act' = [act EXCEPT ![r] = x]
    BY <1>15 DEF Apply
  <2>3. UNCHANGED <<world, net, cut, lock, goal, todo, cur, diff, old>>
    BY <1>15 DEF Apply
  <2>. QED
    BY <2>1, <2>2, <2>3
<1>16. CASE Finish(r)
  BY <1>16, NoneAssumption DEF Finish, Exit, NoDiff
<1>17. CASE CommandFails(r)
  BY <1>17 DEF CommandFails
<1>18. CASE Crash(r)
  BY <1>18, NoneAssumption DEF Crash, Exit, NoDiff
<1>. QED
  BY <1>1, <1>2, <1>3, <1>4, <1>5, <1>6, <1>7, <1>8, <1>9, <1>10, <1>11, <1>12, <1>13,
     <1>14, <1>15, <1>16, <1>17, <1>18 DEF Moves, Work
-----------------------------------------------------------------------------
(* Around the lock. *)

\* The labels of a step: it starts from idle and is otherwise inside.
LEMMA LockStep ==
  ASSUME TypeOK, LockHeld, Serial, NEW r \in Reconciler, Moves(r)
  PROVE  /\ LockHeld'
         /\ pc[r] = "idle" \/ Active(r)
         /\ \A b \in Reconciler \ {r} : ~Active(b) /\ ~Active(b)'
<1>0. /\ pc \in [Reconciler -> PCs]
      /\ \A b \in Reconciler : lock = b <=> Active(b)
  BY DEF TypeOK, LockHeld
<1>. USE <1>0, NoneAssumption
     DEF Active, Working, Goto, Raise, Serial
<1>1. CASE Begin(r)
  BY <1>1 DEF Begin, LockHeld
<1>2. CASE Work(r) \/ Crash(r)
  <2>1. Active(r) /\ \A b \in Reconciler \ {r} : pc'[b] = pc[b]
    BY <1>2 DEF Work, Plan, CheckAttached, NetDestroy, NetUndefine, DeleteBridge,
                NetDefine, Activate, DeleteHost, DeletesDone, AddHost, AddsDone,
                NetworksDone, LookAtTables, Apply, Finish, CommandFails, Crash, Exit
  <2>2. CASE Finish(r) \/ Crash(r)
    BY <2>1, <2>2 DEF Finish, Crash, Exit, LockHeld
  <2>3. CASE Work(r) /\ ~Finish(r)
    <3>1. lock' = lock
      BY <2>3 DEF Work, Plan, CheckAttached, NetDestroy, NetUndefine, DeleteBridge,
                NetDefine, Activate, DeleteHost, DeletesDone, AddHost, AddsDone,
                NetworksDone, LookAtTables, Apply, CommandFails, mine
    <3>2. pc'[r] \in Working \cup {"unlock"}
      BY <2>3 DEF Work, Plan, CheckAttached, NetDestroy, NetUndefine, DeleteBridge,
                NetDefine, Activate, DeleteHost, DeletesDone, AddHost, AddsDone,
                NetworksDone, LookAtTables, Apply, CommandFails
    <3>. QED
      BY <2>1, <3>1, <3>2 DEF LockHeld
  <2>. QED
    BY <1>2, <2>2, <2>3
<1>. QED
  BY <1>1, <1>2 DEF Moves

(* The tables: a batch that deletes nothing finds nothing. *)
LEMMA RulesetStep ==
  ASSUME TypeOK, OneRuleset, Answered, NEW r \in Reconciler, Moves(r), Active(r) => Looked(r)
  PROVE  OneRuleset' /\ Looked(r)'
<1>0. pc \in [Reconciler -> PCs] /\ old \in [Reconciler -> BOOLEAN] /\ goal[r] \in Wants
  BY DEF TypeOK
<1>. USE <1>0 DEF Goto, Raise, mine
<1>1. CASE Apply(r)
  <2>1. tables' = tables \/ tables' = {goal[r]}
    BY <1>1 DEF Apply, Looked, Active, Working
  <2>2. pc'[r] = "unlock"
    BY <1>1 DEF Apply
  <2>. QED
    BY <2>1, <2>2 DEF OneRuleset, Looked
<1>2. CASE LookAtTables(r)
  BY <1>2 DEF LookAtTables, Looked, OneRuleset, Answered
<1>3. ASSUME ~(Apply(r) \/ LookAtTables(r)) PROVE tables' = tables /\ pc'[r] # "apply"
  BY <1>3 DEF Moves, Work, Begin, Plan, CheckAttached, NetDestroy, NetUndefine,
              DeleteBridge, NetDefine, Activate, DeleteHost, DeletesDone, AddHost,
              AddsDone, NetworksDone, Finish, CommandFails, Crash, Exit
<1>. QED
  BY <1>1, <1>2, <1>3 DEF OneRuleset, Looked

\* A plan is made from the network as it is, or as none when the query fails.
Planned(r, n) ==
    /\ cur' = [cur EXCEPT ![r] = n]
    /\ UNCHANGED <<world, net, cut, tables, lock, goal, todo, old>>
    /\ \/ (Answered => ~net[n].def) /\ Goto(r, "bridge")
       \/ /\ net[n].def /\ net[n].shape = goal[r][n].shape
          /\ diff' = [diff EXCEPT ![r] = [del |-> net[n].hosts \ goal[r][n].hosts,
                                         add |-> goal[r][n].hosts \ net[n].hosts]]
          /\ Goto(r, "activate")
       \/ Goto(r, "attached")

\* A plan is made from one look at one network of the list.
LEMMA PlanStep ==
  ASSUME NEW r \in Reconciler, Plan(r)
  PROVE  \E n \in todo[r] : Planned(r, n)
<1>1. PICK n \in todo[r] : \E seen \in Dumped(n) :
         /\ cur' = [cur EXCEPT ![r] = n]
         /\ \/ ~seen.def /\ Goto(r, "bridge")
            \/ /\ seen.def /\ seen.shape = goal[r][n].shape
               /\ diff' = [diff EXCEPT ![r] = [del |-> seen.hosts \ goal[r][n].hosts,
                                              add |-> goal[r][n].hosts \ seen.hosts]]
               /\ Goto(r, "activate")
            \/ Goto(r, "attached")
  BY Zenon DEF Plan
<1>2. \A seen \in Dumped(n) : /\ seen.def => seen = net[n]
                              /\ Answered => seen = net[n]
  BY DEF Answered, Dumped, Absent
<1>. QED
  BY <1>1, <1>2 DEF Planned, Plan

(* The bridge: whoever is careful has seen that nobody is attached, and nobody
   attaches while the lock is held. *)
LEMMA CarefulStep ==
  ASSUME TypeOK, Answered, NEW r \in Reconciler \ Destructive, Moves(r),
         Active(r) => Careful(r)
  PROVE  Careful(r)'
<1>0. pc \in [Reconciler -> PCs] /\ cur \in [Reconciler -> Net]
  BY DEF TypeOK
<1>. USE <1>0 DEF Goto, Raise, mine, world
<1>1. CASE Plan(r)
  <2>1. PICK n \in todo[r] : Planned(r, n)
    BY <1>1, PlanStep
  <2>2. n \in Net /\ net' = net
    BY <1>1 DEF Plan, TypeOK
  <2>3. ~net[n].def => ~net[n].up
    BY <2>2, NetFields DEF TypeOK, Nets, Defined
  <2>. QED
    BY <2>1, <2>2, <2>3 DEF Careful, Planned
<1>2. CASE CheckAttached(r)
  BY <1>2 DEF CheckAttached, Careful, Seen, Attached, Answered
<1>3. CASE NetDestroy(r)
  BY <1>3 DEF NetDestroy, Careful, Attached, Active, Working
<1>4. CASE NetUndefine(r)
  BY <1>4 DEF NetUndefine, Careful, Attached, Active, Working
<1>5. ASSUME ~(Plan(r) \/ CheckAttached(r) \/ NetDestroy(r) \/ NetUndefine(r))
      PROVE  pc'[r] \notin {"destroy", "undefine", "bridge"}
  BY <1>5 DEF Moves, Work, Begin, DeleteBridge, NetDefine, Activate, DeleteHost,
              DeletesDone, AddHost, AddsDone, NetworksDone, LookAtTables, Apply,
              Finish, CommandFails, Crash, Exit
<1>. QED
  BY <1>1, <1>2, <1>3, <1>4, <1>5 DEF Careful

(* An update knows what is missing: what it deletes and adds is the difference
   between the network and the records. *)
LEMMA UnderwayStep ==
  ASSUME TypeOK, NEW r \in Reconciler, Moves(r), Active(r) => Underway(r)
  PROVE  Underway(r)'
<1>0. /\ pc \in [Reconciler -> PCs] /\ cur \in [Reconciler -> Net]
      /\ diff \in [Reconciler -> [del : SUBSET Vm, add : SUBSET Vm]]
      /\ net \in [Net -> Nets]
      /\ cur[r] \in Net /\ todo[r] \subseteq Net
  BY DEF TypeOK, Nets, Defined
<1>. USE <1>0 DEF Goto, Raise, mine, world
<1>a. \A n \in Net : net[n].def => net[n] \in Defined
  BY DefinedNets
<1>1. CASE Plan(r)
  <2>1. PICK n \in todo[r] : Planned(r, n)
    BY <1>1, PlanStep
  <2>2. cur'[r] = n /\ net' = net /\ goal' = goal
    BY <2>1 DEF Planned
  <2>3. pc'[r] \in {"bridge", "activate", "attached"}
    BY <2>1 DEF Planned
  <2>4. ASSUME pc'[r] = "activate"
        PROVE  /\ net[n].def /\ net[n].shape = goal[r][n].shape
               /\ diff'[r].del = net[n].hosts \ goal[r][n].hosts
               /\ diff'[r].add = goal[r][n].hosts \ net[n].hosts
    BY <2>1, <2>4 DEF Planned
  <2>. QED
    BY <2>2, <2>3, <2>4 DEF Underway
<1>2. CASE Activate(r)
  <2>1. CASE pc'[r] = "delete"
    <3>1. /\ pc[r] = "activate" /\ net[cur[r]].def
          /\ net' = [net EXCEPT ![cur[r]] = [@ EXCEPT !.up = TRUE]]
          /\ UNCHANGED <<goal, cur, diff>>
      BY <1>2, <2>1 DEF Activate
    <3>2. /\ net'[cur[r]].up /\ net'[cur[r]].def
          /\ net'[cur[r]].shape = net[cur[r]].shape /\ net'[cur[r]].hosts = net[cur[r]].hosts
      BY <1>a, <3>1 DEF Defined
    <3>. QED
      BY <2>1, <3>1, <3>2 DEF Underway, Active, Working
  <2>2. CASE pc'[r] # "delete"
    BY <1>2, <2>2 DEF Activate, Underway
  <2>. QED
    BY <2>1, <2>2
<1>3. CASE DeleteHost(r)
  <2>1. CASE pc'[r] = "unlock"
    BY <2>1 DEF Underway
  <2>2. CASE pc'[r] # "unlock"
    <3>1. PICK h \in diff[r].del :
            /\ net' = [net EXCEPT ![cur[r]].hosts = @ \ {h}]
            /\ diff' = [diff EXCEPT ![r].del = @ \ {h}]
            /\ UNCHANGED <<goal, cur, pc>> /\ pc[r] = "delete"
      BY <1>3, <2>2 DEF DeleteHost
    <3>2. Underway(r)
      BY <3>1 DEF Active, Working
    <3>3. /\ net'[cur[r]].up /\ net'[cur[r]].def
          /\ net'[cur[r]].shape = net[cur[r]].shape
          /\ net'[cur[r]].hosts = net[cur[r]].hosts \ {h}
      BY <1>a, <3>1, <3>2 DEF Underway, Defined
    <3>4. diff'[r].del = diff[r].del \ {h} /\ diff'[r].add = diff[r].add
      BY <3>1
    <3>5. h \notin goal[r][cur[r]].hosts
      BY <3>1, <3>2 DEF Underway
    <3>. QED
      BY <3>1, <3>2, <3>3, <3>4, <3>5 DEF Underway
  <2>. QED
    BY <2>1, <2>2
<1>4. CASE DeletesDone(r)
  BY <1>4 DEF DeletesDone, Underway, Active, Working
<1>5. CASE AddHost(r)
  <2>1. CASE pc'[r] = "unlock"
    BY <2>1 DEF Underway
  <2>2. CASE pc'[r] # "unlock"
    <3>1. PICK h \in diff[r].add :
            /\ net' = [net EXCEPT ![cur[r]].hosts = @ \cup {h}]
            /\ diff' = [diff EXCEPT ![r].add = @ \ {h}]
            /\ UNCHANGED <<goal, cur, pc>> /\ pc[r] = "add"
      BY <1>5, <2>2 DEF AddHost
    <3>2. Underway(r)
      BY <3>1 DEF Active, Working
    <3>3. /\ net'[cur[r]].up /\ net'[cur[r]].def
          /\ net'[cur[r]].shape = net[cur[r]].shape
          /\ net'[cur[r]].hosts = net[cur[r]].hosts \cup {h}
      BY <1>a, <3>1, <3>2 DEF Underway, Defined
    <3>4. diff'[r].del = diff[r].del /\ diff'[r].add = diff[r].add \ {h}
      BY <3>1
    <3>. QED
      BY <3>1, <3>2, <3>3, <3>4 DEF Underway
  <2>. QED
    BY <2>1, <2>2
<1>6. CASE NetDefine(r)
  BY <1>6 DEF NetDefine, Underway, Goal
<1>7. ASSUME ~(Plan(r) \/ Activate(r) \/ DeleteHost(r) \/ DeletesDone(r) \/ AddHost(r)
               \/ NetDefine(r))
      PROVE  pc'[r] \notin {"activate", "delete", "add", "start"}
  BY <1>7 DEF Moves, Work, Begin, CheckAttached, NetDestroy, NetUndefine, DeleteBridge,
              AddsDone, NetworksDone, LookAtTables, Apply, Finish, CommandFails, Crash, Exit
<1>. QED
  BY <1>1, <1>2, <1>3, <1>4, <1>5, <1>6, <1>7 DEF Underway

(* Ticking off: a network leaves the list when it is as the records want it, and no
   later command of the reconcile is about it. *)
LEMMA TickedStep ==
  ASSUME TypeOK, NEW r \in Reconciler \ PolicyOnly, Moves(r),
         Active(r) => Ticked(r) /\ Underway(r)
  PROVE  Active(r)' => Ticked(r)'
<1>0. /\ pc \in [Reconciler -> PCs] /\ cur \in [Reconciler -> Net]
      /\ todo \in [Reconciler -> SUBSET Net] /\ goal \in [Reconciler -> Wants]
      /\ act \in [Reconciler -> {"none", "define", "update-hosts", "recreate", "applied", "raised"}]
      /\ net \in [Net -> Nets]
      /\ cur[r] \in Net /\ todo[r] \subseteq Net
  BY DEF TypeOK, Nets, Defined
<1>a. \A n \in Net : net[n].def => net[n] \in Defined
  BY DefinedNets
<1>. USE <1>0 DEF Goto, Raise, mine, world
<1>1. CASE Begin(r)
  BY <1>1 DEF Begin, Ticked, OnNetwork
<1>2. CASE Plan(r)
  <2>1. PICK n \in todo[r] : Planned(r, n)
    BY <1>2, PlanStep
  <2>2. /\ cur'[r] = n /\ UNCHANGED <<net, goal, todo, tables>>
        /\ pc'[r] \in {"bridge", "activate", "attached"}
    BY <2>1 DEF Planned
  <2>3. Ticked(r) /\ pc[r] = "plan"
    BY <1>2 DEF Plan, Active, Working
  <2>. QED
    BY <2>2, <2>3 DEF Ticked, Goal
<1>3. CASE CheckAttached(r) \/ NetDestroy(r) \/ NetUndefine(r) \/ DeleteBridge(r)
           \/ NetDefine(r) \/ DeleteHost(r) \/ AddHost(r) \/ DeletesDone(r) \/ CommandFails(r)
  <2>1. /\ pc[r] \in OnNetwork /\ Ticked(r)
        /\ UNCHANGED <<goal, todo, cur, tables>>
        /\ pc'[r] \in OnNetwork \/ (pc'[r] = "unlock" /\ act'[r] = "raised")
    BY <1>3 DEF CheckAttached, NetDestroy, NetUndefine, DeleteBridge, NetDefine,
                DeleteHost, AddHost, DeletesDone, CommandFails, OnNetwork, Active, Working
  <2>2. \A n \in Net \ {cur[r]} : net'[n] = net[n]
    BY <1>3 DEF CheckAttached, NetDestroy, NetUndefine, DeleteBridge, NetDefine,
                DeleteHost, AddHost, DeletesDone, CommandFails
  <2>. QED
    BY <2>1, <2>2 DEF Ticked, Goal, OnNetwork
<1>4. CASE Activate(r)
  <2>1. CASE pc'[r] = "unlock"
    BY <1>4, <2>1 DEF Activate, Ticked, OnNetwork
  <2>2. CASE pc'[r] # "unlock" /\ pc[r] = "activate"
    BY <1>4, <2>2 DEF Activate, Ticked, OnNetwork, Goal, Active, Working
  <2>3. CASE pc'[r] # "unlock" /\ pc[r] = "start"
    <3>1. /\ net' = [net EXCEPT ![cur[r]] = [@ EXCEPT !.up = TRUE]]
          /\ todo' = [todo EXCEPT ![r] = @ \ {cur[r]}]
          /\ UNCHANGED <<goal, cur>> /\ pc'[r] = "plan"
      BY <1>4, <2>3 DEF Activate
    <3>2. Ticked(r) /\ net[cur[r]] = Goal(r, cur[r], FALSE)
      BY <2>3 DEF Underway, Active, Working
    <3>3. net'[cur[r]] = Goal(r, cur[r], TRUE)
      <4>0. net[cur[r]].def
        BY <3>2 DEF Goal, Network
      <4>1. net[cur[r]].def /\ net[cur[r]] \in Defined
        BY <1>a, <4>0
      <4>2. net'[cur[r]] \in Defined /\ net'[cur[r]].up
        BY <3>1, <4>1 DEF Defined
      <4>3. /\ net'[cur[r]].shape = goal[r][cur[r]].shape
            /\ net'[cur[r]].hosts = goal[r][cur[r]].hosts
        BY <3>1, <3>2, <4>1 DEF Goal, Network, Defined
      <4>. QED
        BY <4>2, <4>3 DEF Goal, Network, Defined
    <3>4. \A n \in Net \ {cur[r]} : net'[n] = net[n]
      BY <3>1
    <3>. QED
      BY <2>3, <3>1, <3>2, <3>3, <3>4 DEF Ticked, Goal, OnNetwork
  <2>. QED
    BY <1>4, <2>1, <2>2, <2>3 DEF Activate
<1>5. CASE AddsDone(r)
  <2>1. /\ todo' = [todo EXCEPT ![r] = @ \ {cur[r]}] /\ diff[r].add = {}
        /\ UNCHANGED <<net, goal, cur>> /\ pc'[r] = "plan" /\ pc[r] = "add"
    BY <1>5 DEF AddsDone
  <2>2. /\ Ticked(r) /\ net[cur[r]].def /\ net[cur[r]].up
        /\ net[cur[r]].shape = goal[r][cur[r]].shape
        /\ net[cur[r]].hosts = goal[r][cur[r]].hosts
    <3>1. Ticked(r) /\ Underway(r)
      BY <2>1 DEF Active, Working
    <3>2. /\ net[cur[r]].hosts \ goal[r][cur[r]].hosts = {}
          /\ goal[r][cur[r]].hosts \ net[cur[r]].hosts = {}
      BY <2>1, <3>1 DEF Underway
    <3>. QED
      BY <2>1, <3>1, <3>2 DEF Underway
  <2>3. net[cur[r]] = Goal(r, cur[r], TRUE)
    BY <1>a, <2>2 DEF Goal, Network, Defined
  <2>. QED
    BY <2>1, <2>2, <2>3 DEF Ticked, Goal, OnNetwork
<1>6. CASE NetworksDone(r) \/ LookAtTables(r) \/ Apply(r)
  <2>1. /\ UNCHANGED <<net, goal, todo>> /\ Ticked(r) /\ todo[r] = {}
        /\ pc[r] \in {"plan", "tables", "apply"}
    BY <1>6 DEF NetworksDone, LookAtTables, Apply, Ticked, Active, Working
  <2>2. pc'[r] \in {"tables", "apply"}
        \/ (pc'[r] = "unlock" /\ (act'[r] = "raised" \/ goal[r] \in tables'))
    BY <1>6 DEF NetworksDone, LookAtTables, Apply
  <2>. QED
    BY <2>1, <2>2 DEF Ticked, Goal, OnNetwork
<1>7. CASE Finish(r) \/ Crash(r)
  BY <1>7 DEF Finish, Crash, Exit, Active, Working
<1>. QED
  BY <1>1, <1>2, <1>3, <1>4, <1>5, <1>6, <1>7 DEF Moves, Work
-----------------------------------------------------------------------------
\* The initial states are well-typed.
LEMMA InitType == Init => TypeOK
<1>. SUFFICES ASSUME Init PROVE TypeOK
  OBVIOUS
<1>1. PICK w \in Wants :
        /\ net = [n \in Net |-> IF w[n].hosts = {} THEN Absent
                                ELSE Network(w[n].shape, w[n].hosts, TRUE)]
        /\ running \in SUBSET {v \in Vm : v \in w[NetOf[v]].hosts}
        /\ tables = {w}
  BY DEF Init
<1>2. net \in [Net -> Nets]
  <2>1. \A n \in Net : w[n].shape \in Shape /\ w[n].hosts \in SUBSET Vm
    BY WantsAssumption
  <2>2. \A n \in Net : Network(w[n].shape, w[n].hosts, TRUE) \in Nets
    BY <2>1 DEF Network, Nets, Defined
  <2>. QED
    BY <1>1, <2>2 DEF Nets
<1>3. (CHOOSE n \in Net : TRUE) \in Net
  BY SetsAssumption
<1>. QED
  BY <1>1, <1>2, <1>3 DEF Init, TypeOK, Nets, Defined, PCs, NoDiff

\* The steps around the reconciles.
Around == (\E v \in Vm : VmStarts(v) \/ VmStops(v)) \/ Edit \/ Reboot \/ UNCHANGED vars

\* So are those the VMs, the editor and a reboot lead to.
LEMMA AroundType == TypeOK /\ Around => TypeOK'
<1>. SUFFICES ASSUME TypeOK, Around PROVE TypeOK'
  OBVIOUS
<1>. USE DEF TypeOK, mine
<1>1. ASSUME NEW v \in Vm, VmStarts(v) PROVE TypeOK'
  BY <1>1 DEF VmStarts
<1>2. ASSUME NEW v \in Vm, VmStops(v) PROVE TypeOK'
  BY <1>2 DEF VmStops
<1>3. CASE Edit
  BY <1>3 DEF Edit
<1>4. CASE Reboot
  <2>1. \A n \in Net : net[n].def => [net[n] EXCEPT !.up = TRUE] \in Nets
    BY DefinedNets DEF Nets, Defined
  <2>2. net' \in [Net -> Nets]
    BY <1>4, <2>1 DEF Reboot, Nets, Defined
  <2>3. pc' \in [Reconciler -> PCs]
    BY <1>4 DEF Reboot, PCs, Ended
  <2>. QED
    BY <1>4, <2>2, <2>3 DEF Reboot, Nets, Defined
<1>5. CASE UNCHANGED vars
  BY <1>5 DEF vars
<1>. QED
  BY <1>1, <1>2, <1>3, <1>4, <1>5 DEF Around

\* A step is one of the host around the reconciles, or one of a reconcile.
LEMMA NextCases == Next => Around \/ \E r \in Reconciler : Moves(r)
  BY DEF Next, Around, Moves

\* Nobody has begun: nothing is known and nothing replaced.
LEMMA InitInv == Init => IInv
<1>. SUFFICES ASSUME Init PROVE IInv
  OBVIOUS
<1>1. TypeOK
  BY InitType
<1>2. \A r \in Reconciler : ~Active(r)
  BY DEF Init, Active, Working
<1>3. LockHeld
  BY <1>2, NoneAssumption DEF Init, LockHeld
<1>4. OneRuleset
  BY DEF Init, OneRuleset
<1>. QED
  BY <1>1, <1>2, <1>3, <1>4 DEF IInv

\* VMs start and stop while nobody holds the lock, and a reboot ends everything.
LEMMA AroundStep ==
  ASSUME IInv, Around
  PROVE  IInv'
<1>1. TypeOK'
  BY AroundType DEF IInv
<1>2. CASE UNCHANGED <<net, running, cut, tables, lock, pc, mine>>
  <2>1. UNCHANGED <<net, running, tables, lock, pc, goal, todo, cur, act, diff, old>>
    BY <1>2 DEF mine
  <2>2. ASSUME NEW r \in Reconciler PROVE Active(r)' <=> Active(r)
    BY <2>1 DEF Active
  <2>3. ASSUME NEW r \in Reconciler, Here(r) PROVE Here(r)'
    <3>1. Ticked(r) => Ticked(r)'
      BY <2>1 DEF Ticked, Goal
    <3>2. Underway(r) => Underway(r)'
      BY <2>1 DEF Underway, Goal
    <3>3. Careful(r) => Careful(r)'
      BY <2>1 DEF Careful, Attached
    <3>4. Looked(r) => Looked(r)'
      BY <2>1 DEF Looked
    <3>. QED
      BY <2>3, <3>1, <3>2, <3>3, <3>4 DEF Here
  <2>4. LockHeld' /\ (Answered => OneRuleset')
    BY <2>1, <2>2 DEF IInv, LockHeld, OneRuleset
  <2>. QED
    BY <1>1, <2>2, <2>3, <2>4 DEF IInv
<1>3. CASE Edit \/ UNCHANGED vars
  BY <1>2, <1>3 DEF Edit, vars, mine
<1>4. ASSUME NEW v \in Vm, VmStarts(v) \/ VmStops(v) PROVE IInv'
  <2>1. \A r \in Reconciler : ~Active(r)
    BY <1>4, NoneAssumption DEF VmStarts, VmStops, IInv, LockHeld
  <2>2. UNCHANGED <<lock, pc, tables>>
    BY <1>4 DEF VmStarts, VmStops
  <2>. QED
    BY <1>1, <2>1, <2>2 DEF IInv, LockHeld, OneRuleset, Active
<1>5. CASE Reboot
  <2>1. \A r \in Reconciler : ~Active(r)'
    BY <1>5 DEF Reboot, IInv, TypeOK, Active, PCs, Working, Ended
  <2>2. lock' = None /\ tables' = {}
    BY <1>5 DEF Reboot
  <2>. QED
    BY <1>1, <2>1, <2>2, NoneAssumption DEF IInv, LockHeld, OneRuleset
<1>. QED
  BY <1>3, <1>4, <1>5 DEF Around

\* A reconcile's step, for the reconcile itself and for the others.
LEMMA MoveStep ==
  ASSUME IInv, Serial, NEW r \in Reconciler, Moves(r)
  PROVE  IInv'
<1>0. /\ TypeOK /\ LockHeld /\ (Answered => OneRuleset)
      /\ Active(r) => Here(r)
  BY DEF IInv
<1>1. TypeOK' /\ LockHeld' /\ (Answered => OneRuleset')
  BY <1>0, TypeStep, LockStep, RulesetStep DEF Here
<1>2. \A b \in Reconciler \ {r} : ~Active(b)'
  BY <1>0, LockStep
<1>3. Active(r)' => Here(r)'
  BY <1>0, TickedStep, UnderwayStep, CarefulStep, RulesetStep DEF Here
<1>. QED
  BY <1>1, <1>2, <1>3 DEF IInv
-----------------------------------------------------------------------------
(* Types, however reconciles interleave and whatever fails. *)
THEOREM TypeCorrect == Spec => []TypeOK
<1>1. TypeOK /\ [Next]_vars => TypeOK'
  BY NextCases, AroundType, TypeStep DEF Around
<1>. QED
  BY <1>1, InitType, PTL DEF Spec

(* Where all reconciles take the lock, what one has seen of a network and decided for
   it holds until it has acted on it. *)
THEOREM Invariance ==
  ASSUME Serial
  PROVE  Spec => []IInv
<1>1. IInv /\ [Next]_vars => IInv'
  BY NextCases, AroundStep, MoveStep DEF Around
<1>. QED
  BY <1>1, InitInv, PTL DEF Spec

(* The managed tables never hold two rulesets, whichever commands fail and wherever
   a reconcile is killed: a batch replaces what its query found. *)
THEOREM OneRulesetAtATime ==
  ASSUME Serial, Answered
  PROVE  Spec => []TablesReplaced
<1>1. Cardinality({}) = 0 /\ \A w : Cardinality({w}) = 1
  BY FS_EmptySet, FS_Singleton
<1>2. IInv => TablesReplaced
  <2>. SUFFICES ASSUME OneRuleset PROVE Cardinality(tables) <= 1
    BY DEF IInv, TablesReplaced
  <2>1. Cardinality(tables) = 0 \/ Cardinality(tables) = 1
    BY <1>1, Zenon DEF OneRuleset
  <2>. QED
    BY <2>1
<1>. QED
  BY <1>2, Invariance, PTL

(* A full reconcile that succeeds has brought about what it read, also on top of what
   failed or killed ones have left behind, and whatever virsh failed to tell it. *)
THEOREM GoalAchieved ==
  ASSUME Serial
  PROVE  Spec => []Achieved
<1>1. IInv => Achieved
  BY DEF IInv, Achieved, Here, Ticked, Active, Goal
<1>. QED
  BY <1>1, Invariance, PTL

(* No reconcile takes a running VM's bridge away unless it was told to. *)
THEOREM NobodyCut ==
  ASSUME Serial, Answered
  PROVE  Spec => NoneCutUnasked
<1>1. ASSUME IInv, [Next]_vars, NEW r \in Reconciler \ Destructive,
             pc[r] \in {"destroy", "bridge", "activate", "start"}, pc'[r] # pc[r]
      PROVE  cut' \subseteq cut
  <2>0. Active(r) /\ Here(r) /\ lock = r
    BY <1>1 DEF IInv, LockHeld, Active, Working
  <2>1. CASE Around
    BY <1>1, <2>0, <2>1, NoneAssumption DEF Around, VmStarts, VmStops, Edit, Reboot, vars
  <2>2. ASSUME NEW b \in Reconciler, Moves(b) PROVE cut' \subseteq cut
    <3>1. b = r
      BY <1>1, <2>0, <2>2, LockStep DEF IInv
    <3>2. CASE NetDestroy(r) \/ DeleteBridge(r)
      BY <2>0, <3>2 DEF NetDestroy, DeleteBridge, Cut, Here, Careful
    <3>3. CASE Activate(r)
      BY <3>3 DEF Activate, Answered
    <3>4. ASSUME ~(NetDestroy(r) \/ DeleteBridge(r) \/ Activate(r)) PROVE cut' = cut
      BY <2>2, <3>1, <3>4
         DEF Moves, Work, Begin, Plan, CheckAttached, NetUndefine, NetDefine, DeleteHost,
             DeletesDone, AddHost, AddsDone, NetworksDone, LookAtTables, Apply, Finish,
             CommandFails, Crash, Exit
    <3>. QED
      BY <3>2, <3>3, <3>4
  <2>. QED
    BY <1>1, <2>1, <2>2, NextCases DEF Around
<1>2. IInv /\ [Next]_vars =>
        [\A r \in Reconciler \ Destructive :
           pc[r] \in {"destroy", "bridge", "activate", "start"} /\ pc'[r] # pc[r] =>
             cut' \subseteq cut]_vars
  BY <1>1
<1>. QED
  BY <1>2, Invariance, PTL DEF Spec, NoneCutUnasked
=============================================================================
