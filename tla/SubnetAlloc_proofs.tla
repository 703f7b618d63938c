------------------------- MODULE SubnetAlloc_proofs -------------------------
(***************************************************************************)
(* Proofs about SubnetAlloc, for any VMs, range, routes and invocations.   *)
(***************************************************************************)
EXTENDS SubnetAlloc, TLAPS

\* What the steps are worth: who is where in the walk or the work, and what that
\* attempt may rely on until it lets go of the lock.
Inside == Making \cup Removing \cup {"unlock", "unwind"}

HoldersWork == \A a \in Attempt :
    /\ pc[a] \in Inside => lock = a
    /\ pc[a] \in Walking /\ ~Svc(a) => lock = a

\* A CLI create has picked a subnet that no network has.
PickIsFree == \A a \in Attempt :
    "query" \notin Faults /\ ~Svc(a) /\ pc[a] \in {"save", "write", "define"}
    => octet[a] \notin Listed

\* A create works on what it recorded, and on a network of its own.
PickIsRecorded == \A a \in Attempt : LET v == Own(a) IN
    /\ pc[a] \in {"define", "start", "install", "apply"} => rec[v] = octet[a]
    /\ pc[a] \in {"write", "define"} /\ v \notin again => v \notin Defined
    /\ pc[a] \in {"start", "install", "apply", "rewrite"} =>
          v \in Defined /\ (v \notin again => net[v].sub = octet[a])
    /\ pc[a] \in {"down", "drop", "forget"} => v \notin domain
    /\ pc[a] \in Making \cup Walking => task[a].op = "create"

DomainHasNetwork == domain \subseteq Defined

\* What the walk has passed is taken, and so is what it was told is.
PassedIsTaken == \A a \in Attempt :
    /\ pc[a] = "lock" /\ ~Svc(a) => octet[a] = First /\ seen[a] = {}
    /\ pc[a] \in Walking /\ lock = a =>
          /\ \A s \in Subnets : s < octet[a] => s \in lan \cup Listed
          /\ seen[a] \subseteq lan \cup Listed

IInv == /\ TypeOK
        /\ HoldersWork /\ PickIsFree /\ PickIsRecorded /\ DomainHasNetwork
        /\ PassedIsTaken
        /\ OneNetworkPerSubnet /\ RecordInEffect
-----------------------------------------------------------------------------
\* The steps that read, lock, unlock or fail, and leave the host as it is.
Quiet(a) == \/ Lock(a) \/ ReadRoutes(a) \/ ReadNetworks(a) \/ Look(a)
            \/ Unlock(a) \/ Raise(a) \/ Crash(a)

\* The three kinds of step: quiet ones, work on the host, and a foreign route.
LEMMA NextCases ==
    ASSUME [Next]_vars
    PROVE \/ \E a \in Attempt : Quiet(a) \/ Create(a) \/ Undefine(a) \/ NetDestroy(a)
                                \/ NetUndefine(a) \/ Forget(a)
          \/ RouteAppears
          \/ UNCHANGED vars
  BY DEF Next, Destroy, Quiet

\* Where a create may be whose VM's file is Torn although the VM is installed.
CutOff == {"rewrite", "unwind", "failed", "crashed"}

\* Where a quiet step may lead, and that it moves nobody else.
LEMMA QuietSteps ==
    ASSUME TypeOK, NEW a \in Attempt, Quiet(a)
    PROVE /\ UNCHANGED <<task, host>>
          /\ pc'[a] \in {"look", "undefine", "save", "lock", "unwind"} \cup Walking \cup Ended
          /\ pc'[a] = "save" => pc[a] \in {"lock", "networks"}
          /\ pc'[a] \in Ended \/ lock' = lock \/ (lock = None /\ lock' = a)
          /\ pc[a] \in CutOff => pc'[a] \in CutOff
          /\ pc'[a] \in {"save"} \cup Walking => pc[a] \in Walking \/ task[a].op = "create"
          /\ \A b \in Attempt \ {a} : /\ pc'[b] = pc[b] /\ octet'[b] = octet[b]
                                      /\ seen'[b] = seen[b]
<1>1. CASE Lock(a)
  <2>1. task[a].op \in {"create", "destroy"}
    BY ChoiceAssumption DEF TypeOK, Ops
  <2>2. CASE lock = None
    BY <1>1, <2>1, <2>2 DEF TypeOK, host, walk, Lock, LockFree, Goto, Ended, Walking,
                            CutOff
  <2>3. CASE lock # None
    BY <1>1, <2>3 DEF TypeOK, host, Lock, LockFree, Leave, Goto, Ended, Walking, CutOff
  <2> QED BY <2>2, <2>3
<1>2. CASE ReadRoutes(a)
  BY <1>2 DEF TypeOK, host, walk, ReadRoutes, Goto, Walking, CutOff
<1>3. CASE ReadNetworks(a)
  BY <1>3 DEF TypeOK, host, walk, ReadNetworks, Found, NextOctet, Leave, Goto, Walking,
       Ended, CutOff
<1>4. CASE Look(a)
  BY <1>4 DEF TypeOK, host, walk, Look, Goto, Walking, CutOff
<1>5. CASE Unlock(a) \/ Raise(a) \/ Crash(a)
  BY <1>5 DEF TypeOK, host, walk, Unlock, Raise, Crash, Leave, Goto, Ended,
       Making, Removing, Walking, CutOff
<1> QED BY <1>1, <1>2, <1>3, <1>4, <1>5 DEF Quiet

\* The walk starts inside the range.
LEMMA FirstIsSubnet == First \in Subnets
  BY RangeAssumption DEF Subnets

\* The value for no network is not a network.
LEMMA NoneIsNoNetwork == None \notin Network
<1>1. \A n \in Network : n \in [sub : Nat, up : BOOLEAN]
  BY RangeAssumption DEF Network, Subnets
<1> QED BY <1>1, NoneAssumption

\* Starting or stopping a network leaves its subnet and its type.
LEMMA NetworkFlag ==
    ASSUME NEW n \in Network, NEW u \in BOOLEAN
    PROVE /\ [n EXCEPT !.up = u] \in Network
          /\ [n EXCEPT !.up = u].sub = n.sub
          /\ [n EXCEPT !.up = u].up = u
  BY DEF Network

\* Types, and the lock: it is free when it is taken, and whoever is past it holds it.
LEMMA HoldersKept ==
    ASSUME TypeOK, HoldersWork, [Next]_vars
    PROVE TypeOK' /\ HoldersWork'
<1> USE RangeAssumption, NoneAssumption
    DEF TypeOK, HoldersWork, Making, Removing, Walking, Ended, Inside, PCs
<1>1. ASSUME NEW a \in Attempt, Lock(a) PROVE TypeOK' /\ HoldersWork'
  <2>1. lock = None => pc[a] \notin Inside /\ \A b \in Attempt : pc[b] \notin Inside
    BY <1>1
  <2>2. CASE lock = None
    BY <1>1, <2>1, <2>2 DEF Lock, LockFree, Goto, walk, host, Svc
  <2>3. CASE lock # None
    BY <1>1, <2>3, FirstIsSubnet DEF Lock, LockFree, Leave, Goto, host, Svc
  <2> QED BY <2>2, <2>3
<1>2. ASSUME NEW a \in Attempt, ReadRoutes(a) PROVE TypeOK' /\ HoldersWork'
  <2>1. \A S \in Answers(Routes) : S \subseteq Subnets
    BY DEF Answers, Routes, SubnetsOf, Up, Defined, Network
  <2> QED BY <1>2, <2>1 DEF ReadRoutes, Goto, host, Svc
<1>3. ASSUME NEW a \in Attempt, ReadNetworks(a) PROVE TypeOK' /\ HoldersWork'
  <2>1. CASE Found(a) /\ UNCHANGED <<task, host>>
    BY <1>3, <2>1 DEF ReadNetworks, Found, Goto, host, Svc
  <2>2. CASE NextOctet(a) /\ ~AtEnd(a) /\ UNCHANGED <<task, host>>
    BY <1>3, <2>2 DEF ReadNetworks, NextOctet, AtEnd, Goto, host, Svc, Subnets
  <2>3. CASE Leave(a, "full") /\ UNCHANGED <<task, host>>
    BY <1>3, <2>3, FirstIsSubnet DEF ReadNetworks, Leave, Goto, host, Svc
  <2> QED BY <1>3, <2>1, <2>2, <2>3 DEF ReadNetworks
<1>4. ASSUME NEW a \in Attempt, Look(a) PROVE TypeOK' /\ HoldersWork'
  <2>1. \A S \in Answers(SubnetsOf({Own(a)} \cap Defined)) : S \subseteq Subnets
    BY DEF Answers, SubnetsOf, Defined, Network
  <2>2. /\ seen' \in [Attempt -> SUBSET Subnets]
        /\ pc' = [pc EXCEPT ![a] = "undefine"]
        /\ pc[a] = "look" /\ UNCHANGED <<task, octet, lock, host>>
    BY <1>4, <2>1 DEF Look, Goto
  <2> QED BY <2>2 DEF host, Svc
<1>5. ASSUME NEW a \in Attempt, Unlock(a) \/ Raise(a) \/ Crash(a)
      PROVE TypeOK' /\ HoldersWork'
  <2>1. CASE Leave(a, pc'[a]) /\ pc'[a] \in Ended /\ UNCHANGED <<task, host>>
    BY <2>1, FirstIsSubnet DEF Leave, Goto, host, Svc
  <2>2. CASE Raise(a)
    BY <2>2 DEF Raise, Goto, walk, host, Svc
  <2> QED BY <1>5, <2>1, <2>2 DEF Unlock, Crash, Leave, Goto
<1>6. ASSUME NEW a \in Attempt, \/ Save(a) \/ Write(a) \/ Install(a) \/ Apply(a)
                                \/ Rewrite(a) \/ Undefine(a) \/ Forget(a)
      PROVE TypeOK' /\ HoldersWork'
  <2>1. Own(a) \in Vm BY ChoiceAssumption DEF Own
  <2> QED BY <1>6, <2>1 DEF Save, Write, Install, Apply, Rewrite, Undefine, Forget, Step,
  Record, Empties, Goto, walk, Svc
<1>7. ASSUME NEW a \in Attempt, Define(a) \/ NetUndefine(a) PROVE TypeOK' /\ HoldersWork'
  <2>1. Own(a) \in Vm BY ChoiceAssumption DEF Own
  <2>2. CASE Define(a)
    <3>1. net' \in [Vm -> Network \cup {None}]
      BY <2>1, <2>2 DEF Define, Network
    <3> QED BY <2>2, <3>1 DEF Define, Step, Goto, walk, Svc
  <2>3. CASE NetUndefine(a)
    BY <2>1, <2>3 DEF NetUndefine, Step, Goto, walk, Svc
  <2> QED BY <1>7, <2>2, <2>3
<1>8. ASSUME NEW a \in Attempt, Start(a) \/ NetDestroy(a) PROVE TypeOK' /\ HoldersWork'
  <2>1. Own(a) \in Vm BY ChoiceAssumption DEF Own
  <2>2. net[Own(a)] # None => net[Own(a)] \in Network
    BY <2>1
  <2>3. net' \in [Vm -> Network \cup {None}]
    <3>1. CASE Start(a)
      <4>1. UNCHANGED net \/ (net[Own(a)] # None
                              /\ net' = [net EXCEPT ![Own(a)] = [@ EXCEPT !.up = TRUE]])
        BY <3>1 DEF Start
      <4>2. net[Own(a)] # None => [net[Own(a)] EXCEPT !.up = TRUE] \in Network
        BY <2>2, NetworkFlag
      <4> QED BY <2>1, <4>1, <4>2
    <3>2. CASE NetDestroy(a)
      BY <2>1, <2>2, <3>2, NetworkFlag DEF NetDestroy
    <3> QED BY <1>8, <3>1, <3>2
  <2> QED BY <1>8, <2>3 DEF Start, NetDestroy, Step, Goto, walk, Svc
<1>9. CASE RouteAppears
  BY <1>9 DEF RouteAppears, walk, Svc
<1>10. CASE UNCHANGED vars
  BY <1>10 DEF vars, walk, Svc
<1> QED
  BY <1>1, <1>2, <1>3, <1>4, <1>5, <1>6, <1>7, <1>8, <1>9, <1>10 DEF Next, Create, Destroy
-----------------------------------------------------------------------------
\* The steps that change the host, each by the holder of the lock.
Work(a) == \/ Create(a) \/ Undefine(a) \/ NetDestroy(a) \/ NetUndefine(a) \/ Forget(a)

\* A step on the host is taken by the holder of the lock and moves nobody else.
LEMMA WorkSteps ==
    ASSUME TypeOK, HoldersWork, NEW a \in Attempt, Work(a)
    PROVE /\ lock = a /\ Own(a) \in Vm
          /\ UNCHANGED <<task, walk, lock, lan>>
          /\ \A b \in Attempt \ {a} : pc[b] \notin Inside /\ pc'[b] = pc[b]
<1>1. pc[a] \in Making \cup Removing
  BY DEF Work, Create, Save, Write, Define, Start, Install, Apply, Rewrite, Undefine,
         NetDestroy, NetUndefine, Forget, Step, Making, Removing
<1>2. UNCHANGED <<task, walk, lock, lan>> /\ pc' = [pc EXCEPT ![a] = pc'[a]]
  BY DEF TypeOK, Work, Create, Save, Write, Define, Start, Install, Apply, Rewrite,
         Undefine, NetDestroy, NetUndefine, Forget, Step, Goto
<1> QED BY <1>1, <1>2, ChoiceAssumption DEF TypeOK, HoldersWork, Inside, Own

\* Define adds at most the network of its own VM, down and on the picked subnet.
LEMMA DefineNet ==
    ASSUME TypeOK, NEW a \in Attempt, Own(a) \in Vm, Define(a)
    PROVE /\ Own(a) \in Defined => UNCHANGED net
          /\ Own(a) \notin Defined => /\ net'[Own(a)].sub = octet[a]
                                      /\ Own(a) \notin Up'
                                      /\ Listed' = Listed \cup {octet[a]}
          /\ Defined' = Defined \cup {Own(a)}
          /\ \A w \in Vm \ {Own(a)} : net'[w] = net[w]
<1> DEFINE v == Own(a)
           n == [sub |-> octet[a], up |-> FALSE]
<1>1. CASE v \in Defined
  BY <1>1 DEF Define, Defined
<1>2. CASE v \notin Defined
  <2>1. n \in Network /\ n # None
    <3>1. octet[a] \in Subnets
      BY DEF TypeOK
    <3>2. n \in Network
      BY <3>1 DEF Network
    <3> QED BY <3>2, NoneIsNoNetwork
  <2>2. net' = [net EXCEPT ![v] = n]
    BY <1>2 DEF Define
  <2>3. Defined' = Defined \cup {v} /\ Own(a) \notin Up'
    BY <2>1, <2>2 DEF TypeOK, Defined, Up
  <2> QED BY <1>2, <2>2, <2>3 DEF TypeOK, Listed, SubnetsOf, Defined
<1> QED BY <1>1, <1>2

\* Start and NetDestroy neither define a network nor change a subnet; Start brings up
\* at most its own.
LEMMA FlagNet ==
    ASSUME TypeOK, NEW a \in Attempt, Own(a) \in Vm, Start(a) \/ NetDestroy(a)
    PROVE /\ Defined' = Defined /\ Listed' = Listed
          /\ \A w \in Defined : net'[w].sub = net[w].sub
          /\ NetDestroy(a) => Up' \subseteq Up
          /\ Start(a) => \/ Up' = Up
                         \/ Up' = Up \cup {Own(a)} /\ net[Own(a)].sub \notin InUse(Own(a))
<1> DEFINE v == Own(a)
<1>1. CASE UNCHANGED net
  BY <1>1 DEF Defined, Listed, SubnetsOf, Up
<1>2. ASSUME NEW u \in BOOLEAN, v \in Defined, net' = [net EXCEPT ![v].up = u]
      PROVE /\ Defined' = Defined /\ Listed' = Listed
            /\ \A w \in Defined : net'[w].sub = net[w].sub
            /\ Up' = IF u THEN Up \cup {v} ELSE Up \ {v}
  <2>1. net'[v] = [net[v] EXCEPT !.up = u] /\ net[v] \in Network
    BY <1>2 DEF TypeOK, Defined
  <2>2. net'[v] \in Network /\ net'[v].sub = net[v].sub /\ net'[v].up = u
    BY <2>1, NetworkFlag
  <2>3. net'[v] # None
    BY <2>2, NoneIsNoNetwork
  <2>4. \A w \in Vm \ {v} : net'[w] = net[w]
    BY <1>2 DEF TypeOK
  <2>5. Defined' = Defined
    BY <1>2, <2>3, <2>4 DEF Defined
  <2> QED BY <1>2, <2>2, <2>4, <2>5 DEF Defined, Listed, SubnetsOf, Up
<1>3. CASE Start(a)
  <2>1. CASE v \in Defined /\ (net[v].up \/ net[v].sub \notin InUse(v))
    <3>1. net' = [net EXCEPT ![v].up = TRUE]
      BY <1>3, <2>1 DEF Start, Defined
    <3>2. net[v].up => v \in Up
      BY <2>1 DEF Up
    <3> QED BY <1>2, <1>3, <2>1, <3>1, <3>2 DEF Start, NetDestroy, Step
  <2>2. CASE ~(v \in Defined /\ (net[v].up \/ net[v].sub \notin InUse(v)))
    BY <1>1, <1>3, <2>2 DEF Start, NetDestroy, Step, Defined
  <2> QED BY <2>1, <2>2
<1>4. CASE NetDestroy(a)
  <2>1. CASE v \in Defined
    <3>1. net' = [net EXCEPT ![v].up = FALSE]
      BY <1>4, <2>1 DEF NetDestroy, Defined
    <3> QED BY <1>2, <1>4, <2>1, <3>1 DEF Start, NetDestroy, Step
  <2>2. CASE v \notin Defined
    <3>1. net' = net
      BY <1>4, <2>2 DEF TypeOK, NetDestroy, Defined
    <3> QED BY <1>1, <1>4, <3>1 DEF Start, NetDestroy, Step
  <2> QED BY <2>1, <2>2
<1> QED BY <1>3, <1>4
-----------------------------------------------------------------------------
\* What a create relies on.  Nobody else touches its VM while it holds the lock.
LEMMA RecordKept ==
    ASSUME TypeOK, HoldersWork, PickIsRecorded, DomainHasNetwork, RecordInEffect, [Next]_vars
    PROVE PickIsRecorded' /\ DomainHasNetwork' /\ RecordInEffect'
<1> USE DEF PickIsRecorded, DomainHasNetwork, RecordInEffect
<1>1. ASSUME NEW a \in Attempt, Quiet(a)
      PROVE PickIsRecorded' /\ DomainHasNetwork' /\ RecordInEffect'
  <2>1. /\ UNCHANGED <<task, host>>
        /\ \A b \in Attempt \ {a} : pc'[b] = pc[b] /\ octet'[b] = octet[b]
    BY <1>1, QuietSteps
  <2>2. PickIsRecorded'
    BY <1>1, <2>1, QuietSteps DEF host, Own, Defined, Walking, Making, Ended
  <2>3. \A w \in Vm : CutShort(w) => CutShort(w)'
    BY <1>1, <2>1, QuietSteps DEF CutShort, CutOff, Own
  <2> QED BY <2>1, <2>2, <2>3 DEF TypeOK, host, Defined
<1>2. ASSUME NEW a \in Attempt, Work(a)
      PROVE PickIsRecorded' /\ DomainHasNetwork' /\ RecordInEffect'
  <2> DEFINE v == Own(a)
  <2>1. /\ v \in Vm /\ v' = v /\ octet' = octet
        /\ task' = task
        /\ \A b \in Attempt \ {a} : pc[b] \notin Inside /\ pc'[b] = pc[b]
    BY <1>2, WorkSteps DEF Own, walk
  <2>2. SUFFICES
              /\ LET b == a IN
                 /\ pc'[b] \in {"define", "start", "install", "apply"} => rec'[v] = octet[b]
                 /\ pc'[b] \in {"write", "define"} /\ v \notin again' => v \notin Defined'
                 /\ pc'[b] \in {"start", "install", "apply", "rewrite"} =>
                       v \in Defined' /\ (v \notin again' => net'[v].sub = octet[b])
                 /\ pc'[b] \in {"down", "drop", "forget"} => v \notin domain'
                 /\ pc'[b] \in Making \cup Walking => task[b].op = "create"
              /\ domain' \subseteq Defined'
              /\ \A w \in domain' \ again' :
                    w \in Defined' /\ (rec'[w] = net'[w].sub \/ (rec'[w] = Torn /\ CutShort(w)'))
    BY <2>1 DEF Inside, Making, Removing, Own
  <2>14. \A w \in Vm : CutShort(w) /\ (w # v \/ pc[a] \notin CutOff) => CutShort(w)'
    BY <2>1 DEF CutShort, CutOff, Own
  <2>3. CASE Save(a)
    BY <2>1, <2>14, <2>3 DEF TypeOK, Save, Step, Goto, Empties, Defined, CutOff, Making, Walking
  <2>12. CASE Write(a)
    BY <2>1, <2>14, <2>12 DEF TypeOK, Write, Step, Goto, Record, Defined, CutOff, Making, Walking
  <2>4. CASE Define(a)
    <3>1. v \notin again => v \notin Defined
      BY <2>4 DEF Define, Step
    <3>2. /\ pc'[a] = "start" /\ UNCHANGED <<domain, rec, again>>
          /\ rec[v] = octet[a]
      BY <2>4 DEF TypeOK, Define, Step, Goto
    <3>3. /\ v \in Defined' /\ Defined \subseteq Defined'
          /\ v \notin again => net'[v].sub = octet[a]
          /\ \A w \in Defined : net'[w].sub = net[w].sub
      BY <2>1, <2>4, <3>1, DefineNet DEF Defined
    <3>4. pc[a] = "define"
      BY <2>4 DEF Define, Step
    <3> QED BY <2>1, <2>14, <3>2, <3>3, <3>4 DEF CutOff, Making, Walking, Defined
  <2>5. CASE Start(a)
    BY <2>1, <2>5, <2>14, FlagNet DEF TypeOK, Start, Step, Goto, Defined, CutOff, Making, Walking
  <2>6. CASE Install(a)
    BY <2>1, <2>14, <2>6 DEF TypeOK, Install, Step, Goto, Defined, CutOff, Making, Walking
  <2>7. CASE Apply(a)
    BY <2>1, <2>14, <2>7 DEF TypeOK, Apply, Empties, Step, Goto, Defined, Making, CutOff, Walking, CutShort
  <2>13. CASE Rewrite(a)
    BY <2>1, <2>14, <2>13 DEF TypeOK, Rewrite, Record, Step, Goto, Defined, CutOff, Making, Walking
  <2>8. CASE Undefine(a)
    BY <2>1, <2>14, <2>8 DEF TypeOK, Undefine, Step, Goto, Defined, CutOff, Making, Walking
  <2>9. CASE NetDestroy(a)
    BY <2>1, <2>9, <2>14, FlagNet
       DEF TypeOK, NetDestroy, Step, Goto, Defined, CutOff, Making, Walking
  <2>10. CASE NetUndefine(a)
    BY <2>1, <2>14, <2>10 DEF TypeOK, NetUndefine, Step, Goto, Defined, CutOff, Making, Walking
  <2>11. CASE Forget(a)
    BY <2>1, <2>14, <2>11 DEF TypeOK, Forget, Step, Goto, Defined, CutOff, Making, Walking
  <2> QED
    BY <1>2, <2>3, <2>4, <2>5, <2>6, <2>7, <2>8, <2>9, <2>10, <2>11, <2>12, <2>13
       DEF Work, Create
<1>3. CASE RouteAppears
  BY <1>3 DEF RouteAppears, walk, Own, Defined, CutShort
<1>4. CASE UNCHANGED vars
  BY <1>4 DEF vars, walk, Own, Defined, CutShort
<1> QED BY <1>1, <1>2, <1>3, <1>4, NextCases DEF Work
-----------------------------------------------------------------------------
\* What a query answers is taken.
LEMMA AnswersTaken ==
    ASSUME TypeOK
    PROVE /\ \A s \in Answers(Routes) : s \subseteq lan \cup Listed
          /\ \A s \in Answers(Listed) : s \subseteq lan \cup Listed
  BY DEF Answers, Routes, Listed, SubnetsOf, Up

\* The walk of the holder: nobody else can free a subnet it has passed.
LEMMA WalkKept ==
    ASSUME TypeOK, HoldersWork, PassedIsTaken, [Next]_vars
    PROVE PassedIsTaken'
<1> USE DEF PassedIsTaken
<1>1. ASSUME NEW a \in Attempt, Quiet(a) PROVE PassedIsTaken'
  <2>1. lan' = lan /\ Listed' = Listed
    BY <1>1, QuietSteps DEF host, Listed, SubnetsOf, Defined
  <2>2. ASSUME NEW b \in Attempt \ {a}, pc[b] \in Walking \cup {"lock"}
        PROVE /\ UNCHANGED <<pc[b], octet[b], seen[b], Svc(b)>>
              /\ lock' = b => lock = b
    <3>1. UNCHANGED <<pc[b], octet[b], seen[b], Svc(b)>>
      BY <1>1, QuietSteps DEF Svc
    <3>2. lock' = b => lock = b
      BY <1>1, NoneAssumption
         DEF Quiet, Lock, ReadRoutes, ReadNetworks, Look, Unlock, Raise, Crash,
             Found, NextOctet, Leave
    <3> QED BY <3>1, <3>2
  <2>3. ASSUME NEW b \in Attempt \ {a}
        PROVE /\ pc'[b] = "lock" /\ ~Svc(b)' => octet'[b] = First /\ seen'[b] = {}
              /\ pc'[b] \in Walking /\ lock' = b =>
                    /\ \A s \in Subnets : s < octet'[b] => s \in lan \cup Listed
                    /\ seen'[b] \subseteq lan \cup Listed
    BY <1>1, <2>2, QuietSteps
  <2>4. /\ pc'[a] = "lock" /\ ~Svc(a)' => octet'[a] = First /\ seen'[a] = {}
        /\ pc'[a] \in Walking /\ lock' = a =>
              /\ \A s \in Subnets : s < octet'[a] => s \in lan \cup Listed
              /\ seen'[a] \subseteq lan \cup Listed
    <3>1. CASE Lock(a)
      BY <3>1, RangeAssumption
         DEF TypeOK, Lock, LockFree, Leave, Goto, walk, Walking, Svc, Subnets
    <3>2. CASE ReadRoutes(a)
      BY <3>2, AnswersTaken DEF TypeOK, ReadRoutes, Goto, Walking
    <3>3. CASE ReadNetworks(a)
      <4>1. PICK s \in Answers(Listed) :
               \/ Found(a)
               \/ octet[a] \in seen[a] \cup s /\ (Leave(a, "full") \/ NextOctet(a))
        BY <3>3 DEF ReadNetworks
      <4>2. pc[a] = "networks" /\ Svc(a)' = Svc(a)
        BY <3>3 DEF ReadNetworks, Svc
      <4>3. CASE Found(a)
        BY <4>2, <4>3 DEF TypeOK, Found, Goto, Walking
      <4>4. CASE Leave(a, "full")
        BY <4>4 DEF TypeOK, Leave, Goto, Walking
      <4>5. CASE octet[a] \in seen[a] \cup s /\ NextOctet(a)
        <5>1. \A x \in Subnets : x < octet[a] + 1 => x < octet[a] \/ x = octet[a]
          BY RangeAssumption DEF TypeOK, Subnets
        <5>2. lock = a => octet[a] \in lan \cup Listed
          BY <4>2, <4>5, AnswersTaken DEF Walking, NextOctet
        <5> QED BY <4>2, <4>5, <5>1, <5>2 DEF TypeOK, NextOctet, Goto, Walking
      <4> QED BY <4>1, <4>3, <4>4, <4>5
    <3>4. CASE Look(a) \/ Unlock(a) \/ Raise(a) \/ Crash(a)
      BY <3>4 DEF TypeOK, Look, Unlock, Raise, Crash, Leave, Goto, Walking, Ended
    <3> QED BY <1>1, <3>1, <3>2, <3>3, <3>4 DEF Quiet
  <2> QED BY <2>1, <2>3, <2>4
<1>2. ASSUME NEW a \in Attempt, Work(a) PROVE PassedIsTaken'
  <2>1. /\ lock' = a /\ UNCHANGED <<octet, seen, task>>
        /\ \A b \in Attempt \ {a} : pc'[b] = pc[b]
    BY <1>2, WorkSteps DEF walk
  <2>2. pc'[a] \notin Walking \cup {"lock"}
    BY <1>2 DEF TypeOK, Work, Create, Save, Write, Define, Start, Install, Apply,
         Rewrite, Undefine, NetDestroy, NetUndefine, Forget, Step, Goto, Walking
  <2> QED BY <2>1, <2>2 DEF Svc, Walking
<1>3. CASE RouteAppears
  BY <1>3 DEF RouteAppears, walk, Svc, Listed, SubnetsOf, Defined
<1>4. CASE UNCHANGED vars
  BY <1>4 DEF vars, walk, Svc, Listed, SubnetsOf, Defined
<1> QED BY <1>1, <1>2, <1>3, <1>4, NextCases DEF Work
-----------------------------------------------------------------------------
\* What a CLI create picked stays free: only holders of the lock define networks.
LEMMA PickKept ==
    ASSUME TypeOK, HoldersWork, PickIsFree, [Next]_vars
    PROVE PickIsFree'
<1> SUFFICES ASSUME "query" \notin Faults,
                    NEW b \in Attempt, ~Svc(b)', pc'[b] \in {"save", "write", "define"}
             PROVE octet'[b] \notin Listed'
  BY DEF PickIsFree
<1>1. ASSUME NEW a \in Attempt, Quiet(a) PROVE octet'[b] \notin Listed'
  <2>1. Listed' = Listed /\ Svc(b)' = Svc(b)
    BY <1>1, QuietSteps DEF host, Listed, SubnetsOf, Defined, Svc
  <2>2. CASE b # a
    BY <1>1, <2>1, <2>2, QuietSteps DEF PickIsFree
  <2>3. CASE b = a
    <3>1. ~Lock(a) /\ pc'[a] = "save" /\ pc[a] \in {"lock", "networks"}
      BY <1>1, <2>1, <2>3, QuietSteps DEF TypeOK, Lock, Leave, Goto, Walking, Ended
    <3>2. ReadNetworks(a) /\ Found(a)
      BY <1>1, <3>1 DEF TypeOK, Quiet, ReadRoutes, ReadNetworks, Look, Unlock, Raise,
                        Crash, NextOctet, Leave, Goto, Ended, Making, Removing
    <3>3. octet[a] \notin Listed /\ octet' = octet
      BY <3>1, <3>2 DEF TypeOK, ReadNetworks, Found, NextOctet, Leave, Goto, Answers
    <3> QED BY <2>1, <2>3, <3>3
  <2> QED BY <2>2, <2>3
<1>2. ASSUME NEW a \in Attempt, Work(a) PROVE octet'[b] \notin Listed'
  <2>1. b = a
    BY <1>2, WorkSteps DEF Inside, Making
  <2>2. Save(a) \/ Write(a)
    BY <1>2, <2>1 DEF TypeOK, Work, Create, Define, Start, Install, Apply, Rewrite,
                      Undefine, NetDestroy, NetUndefine, Forget, Step, Goto
  <2> QED
    BY <2>1, <2>2
       DEF PickIsFree, Save, Write, Step, walk, Svc, Listed, SubnetsOf, Defined
<1>3. CASE RouteAppears
  BY <1>3 DEF PickIsFree, RouteAppears, walk, Svc, Listed, SubnetsOf, Defined
<1>4. CASE UNCHANGED vars
  BY <1>4 DEF PickIsFree, vars, walk, Svc, Listed, SubnetsOf, Defined
<1> QED BY <1>1, <1>2, <1>3, <1>4, NextCases DEF Work

\* No step puts two networks on one subnet, but for one that a service picked early.
LEMMA SubnetsKept ==
    ASSUME TypeOK, HoldersWork, PickIsFree, OneNetworkPerSubnet, [Next]_vars
    PROVE OneNetworkPerSubnet'
<1> SUFFICES ASSUME "query" \notin Faults
             PROVE \A x, y \in Defined' :
                      x # y /\ net'[x].sub = net'[y].sub =>
                          /\ {x, y} \cap Up' # {x, y}
                          /\ \E b \in Attempt : Svc(b)' /\ Own(b)' \in {x, y}
  BY DEF OneNetworkPerSubnet
<1>1. CASE UNCHANGED <<net, task>>
  BY <1>1 DEF OneNetworkPerSubnet, Defined, Up, Svc, Own
<1>2. ASSUME NEW a \in Attempt, Quiet(a) PROVE UNCHANGED <<net, task>>
  BY <1>2, QuietSteps DEF host
<1>3. ASSUME NEW a \in Attempt, Work(a)
      PROVE \A x, y \in Defined' :
                x # y /\ net'[x].sub = net'[y].sub =>
                    /\ {x, y} \cap Up' # {x, y}
                    /\ \E b \in Attempt : Svc(b)' /\ Own(b)' \in {x, y}
  <2> DEFINE v == Own(a)
  <2>1. v \in Vm /\ task' = task
    BY <1>3, WorkSteps
  <2>2. CASE \/ Save(a) \/ Write(a) \/ Install(a) \/ Apply(a) \/ Rewrite(a)
             \/ Undefine(a) \/ Forget(a)
    <3>1. UNCHANGED net
      BY <2>2 DEF Save, Write, Install, Apply, Rewrite, Undefine, Forget
    <3> QED BY <1>1, <2>1, <3>1
  <2>3. CASE Define(a)
    <3>1. CASE v \in Defined
      BY <1>1, <2>1, <2>3, <3>1, DefineNet
    <3>2. CASE v \notin Defined
      <4>1. Svc(a) \/ octet[a] \notin Listed
        BY <2>3 DEF PickIsFree, Define, Step
      <4>2. /\ net'[v].sub = octet[a] /\ v \notin Up'
            /\ Defined' = Defined \cup {v}
            /\ \A w \in Vm \ {v} : net'[w] = net[w]
        BY <2>1, <2>3, <3>2, DefineNet
      <4>3. \A w \in Defined : w # v /\ (w \in Up' <=> w \in Up)
        BY <3>2, <4>2 DEF Defined, Up
      <4>4. \A w \in Defined : net'[w].sub = net'[v].sub => Svc(a)
        BY <4>1, <4>2, <4>3 DEF Listed, SubnetsOf, Defined
      <4> QED BY <2>1, <4>2, <4>3, <4>4 DEF OneNetworkPerSubnet, Defined, Svc, Own
    <3> QED BY <3>1, <3>2
  <2>4. CASE Start(a)
    <3>1. Defined' = Defined /\ \A w \in Defined : net'[w].sub = net[w].sub
      BY <2>1, <2>4, FlagNet
    <3>2. \A w \in Up \ {v} : net[w].sub \in InUse(v)
      BY DEF InUse, SubnetsOf
    <3>3. \A x, y \in Defined : x # y /\ net[x].sub = net[y].sub /\ x \in Up' => y \notin Up'
      <4>1. CASE Up' = Up
        BY <4>1 DEF OneNetworkPerSubnet
      <4>2. CASE Up' = Up \cup {v} /\ net[v].sub \notin InUse(v)
        BY <3>2, <4>2 DEF OneNetworkPerSubnet
      <4> QED BY <2>1, <2>4, <4>1, <4>2, FlagNet
    <3> QED BY <2>1, <3>1, <3>3 DEF OneNetworkPerSubnet, Svc, Own
  <2>5. CASE NetDestroy(a)
    BY <2>1, <2>5, FlagNet DEF OneNetworkPerSubnet, Svc, Own
  <2>6. CASE NetUndefine(a)
    <3>1. /\ Defined' \subseteq Defined
          /\ \A w \in Defined' : net'[w] = net[w]
      BY <2>1, <2>6 DEF TypeOK, NetUndefine, Defined
    <3>2. Up' \subseteq Up
      BY <3>1 DEF Up
    <3> QED BY <2>1, <3>1, <3>2 DEF OneNetworkPerSubnet, Svc, Own
  <2> QED BY <1>3, <2>2, <2>3, <2>4, <2>5, <2>6 DEF Work, Create
<1>4. RouteAppears \/ UNCHANGED vars => UNCHANGED <<net, task>>
  BY DEF RouteAppears, vars
<1> QED BY <1>1, <1>2, <1>3, <1>4, NextCases DEF Work
-----------------------------------------------------------------------------
\* The invariant holds to begin with, when no network is defined.
LEMMA InitHolds == ASSUME Init PROVE IInv
<1> USE RangeAssumption, NoneAssumption DEF Init, Making, Removing, Walking, Inside
<1>1. Defined = {}
  BY DEF Defined
<1>2. TypeOK
  BY FirstIsSubnet DEF TypeOK, PCs
<1>3. HoldersWork /\ PickIsFree /\ PickIsRecorded
  BY DEF HoldersWork, PickIsFree, PickIsRecorded, Svc
<1>4. DomainHasNetwork /\ OneNetworkPerSubnet /\ RecordInEffect
  BY <1>1 DEF DomainHasNetwork, OneNetworkPerSubnet, RecordInEffect
<1>5. PassedIsTaken
  BY DEF PassedIsTaken, Subnets
<1> QED BY <1>2, <1>3, <1>4, <1>5 DEF IInv

\* The invariant the others follow from.
THEOREM Invariance == Spec => []IInv
<1>1. Init => IInv
  BY InitHolds
<1>2. IInv /\ [Next]_vars => IInv'
  BY HoldersKept, PickKept, RecordKept, WalkKept, SubnetsKept DEF IInv
<1> QED BY <1>1, <1>2, PTL DEF Spec

\* Types, and that whoever works on the host holds the lifecycle lock.
THEOREM TypeCorrect == Spec => []TypeOK
  BY Invariance, PTL DEF IInv

\* No CLI create defines a network on another VM's subnet, and libvirt never runs two
\* on one, if the queries succeed: pick_free_subnet, create_nat_network, destroy.
THEOREM SubnetsAreApart == Spec => []OneNetworkPerSubnet
  BY Invariance, PTL DEF IInv

\* save_vm_state and create_nat_network agree on the subnet of every VM in libvirt
\* whose network was not there yet when it was last created, but for a file that the
\* second save of a create is writing, or that a create cut short has left empty.
THEOREM RecordsAreInEffect == Spec => []RecordInEffect
  BY Invariance, PTL DEF IInv

\* pick_free_subnet gives up under the lock only when the whole range is taken.
THEOREM GivesUpWhenFull == Spec => FullOnlyWhenTaken
<1> DEFINE Gives == \A a \in Attempt : pc'[a] # pc[a] /\ pc'[a] = "full" /\ lock = a
                                       => Subnets \subseteq lan \cup Listed
<1>1. ASSUME IInv, [Next]_vars, NEW a \in Attempt,
             pc'[a] # pc[a], pc'[a] = "full", lock = a
      PROVE Subnets \subseteq lan \cup Listed
  <2>1. \E b \in Attempt : Quiet(b)
    BY <1>1, NextCases DEF IInv, TypeOK, RouteAppears, vars, Create, Save, Write, Define,
       Start, Install, Apply, Rewrite, Undefine, NetDestroy, NetUndefine, Forget, Step,
       Goto
  <2>2. Quiet(a)
    BY <1>1, <2>1, QuietSteps DEF IInv
  <2>3. ReadNetworks(a)
    BY <1>1, <2>2 DEF IInv, TypeOK, Quiet, Lock, ReadRoutes, Look, Unlock, Raise, Crash,
                      Leave, Goto
  <2>4. PICK s \in Answers(Listed) : AtEnd(a) /\ octet[a] \in seen[a] \cup s
    BY <1>1, <2>3 DEF IInv, TypeOK, ReadNetworks, Found, NextOctet, Leave, Goto
  <2>5. octet[a] = Last /\ octet[a] \in lan \cup Listed
    BY <1>1, <2>3, <2>4, AnswersTaken
       DEF IInv, PassedIsTaken, AtEnd, ReadNetworks, Walking
  <2>6. \A x \in Subnets : x < Last => x \in lan \cup Listed
    BY <1>1, <2>3, <2>5 DEF IInv, PassedIsTaken, ReadNetworks, Walking
  <2>7. \A x \in Subnets : x < Last \/ x = Last
    BY RangeAssumption DEF Subnets
  <2> QED BY <2>5, <2>6, <2>7
<1>2. IInv /\ [Next]_vars => [Gives]_vars
  BY <1>1
<1> QED BY <1>2, Invariance, PTL DEF Spec, FullOnlyWhenTaken
=============================================================================
