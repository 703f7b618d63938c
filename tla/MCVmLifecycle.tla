---------------------------- MODULE MCVmLifecycle ----------------------------
\* g1 and g2 share a group's network; c has a nat-custom network of its own, u a
\* nat-auto one.
EXTENDS VmLifecycleProps, TLC

CONSTANTS a1, a2, a3, g1, g2, c, u, gnet, cnet, unet

Two == {a1, a2}
Three == {a1, a2, a3}
GroupVms == {g1, g2}
MixedVms == {g1, g2, c}
AutoVms == {g1, u}
Nets == {gnet, cnet, unet}
MCMode == [v \in Vm |-> CASE v = c -> "nat-custom" [] v = u -> "nat-auto" [] OTHER -> "group"]
MCNetOf == [v \in Vm |-> CASE v = c -> cnet [] v = u -> unet [] OTHER -> gnet]

T(o, v) == [op |-> o, vm |-> v, src |-> v, svc |-> FALSE]
Cl(s, v) == [op |-> "clone", vm |-> v, src |-> s, svc |-> FALSE]
Service(t) == [t EXCEPT !.svc = TRUE]

\* Any attempt may be given any task of S.
AllOf(S) == [Attempt -> S]
\* No two attempts build the same VM.
Builds(t) == t.op \in {"create", "clone"}
NoRace(S) == {f \in AllOf(S) : \A a, b \in Attempt :
                a # b /\ Builds(f[a]) /\ Builds(f[b]) => f[a].vm # f[b].vm}

CliTasks == {T("create", c), T("create", g2), Cl(g1, c), Cl(g1, g2), T("destroy", c),
             T("destroy", g2), T("destroy", g1), T("start", g1), T("stop", g1)}
Cli == AllOf(CliTasks \cup {T("start", c)})
CliNoRace == NoRace(CliTasks)

Destroys == AllOf({T("destroy", g1), T("stop", g2)})
Clones == AllOf({Cl(g1, c)})
DataDirTasks == AllOf({T("create", c), T("destroy", c)})
AutoTasks == AllOf({T("create", u), T("destroy", u), T("start", g1)})
StartTasks == AllOf({T("start", u), T("start", g1)})
ReconcileTasks == AllOf({T("destroy", g2), T("reconcile", g1)})
ServiceTasks == AllOf({Service(T("create", g2)), T("destroy", g2)})
Configs == {g1}

HostileTasks == {Service(T("create", u)), Service(Cl(g1, c)), T("create", c), Cl(g1, c),
                 T("destroy", c), T("start", g1), T("stop", u), T("reconcile", g1)}
Hostile == AllOf(HostileTasks)
HostileVms == {g1, c, u}
LiveTasks == AllOf({T("create", c), Cl(g1, g2), T("destroy", g1)})

AttemptSymmetry == Permutations(Attempt)
=============================================================================
