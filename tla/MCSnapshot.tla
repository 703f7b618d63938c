----------------------------- MODULE MCSnapshot -----------------------------
(* Instances of Snapshot for TLC: one VM, two snapshot ids. *)
EXTENDS SnapshotProps, TLC

CONSTANTS a1, a2, a3, i1, s1

Two == {a1, a2}
Three == {a1, a2, a3}
AttemptSymmetry == Permutations(Attempt)

Do(op, svc, I) == [op : {op}, svc : {svc}, id : I]
Id1 == {i1}

\* What the attempts do: sets of tasks, one of them for each attempt.
Rebuilding == Do("provision", FALSE, Id1) \cup Do("destroy", FALSE, Id1)
CliTasks == UNION {Do(op, FALSE, Id1) : op \in {"create", "restore", "delete", "start"}}
            \cup Rebuilding
ServiceTasks == UNION {Do(op, TRUE, {s1}) : op \in {"create", "restore", "delete"}}
                \cup Rebuilding
AnyTasks == [Attempt -> CliTasks] \cup [Attempt -> ServiceTasks]

FromLate == {[i \in Id |-> IF i = i1 THEN "late" ELSE "none"]}

\* The CLI's ids and a service's look different.  One of each, which may exist to
\* begin with.
FromService == {[i \in Id |-> IF i = s1 THEN "service" ELSE "none"]}
AnyOrigin == {[i \in Id |-> IF i = i1 THEN o ELSE "none"] : o \in {"none", "cli", "early", "late"}}
             \cup FromService
FromCli == {[i \in Id |-> IF i = i1 THEN "cli" ELSE "none"]}

ServiceReuse == [Attempt -> Do("create", TRUE, {s1}) \cup Do("delete", TRUE, {s1})]
ServiceRestores == [Attempt -> Do("restore", TRUE, {s1})]
Creates == [Attempt -> Do("create", FALSE, Id1)]
Restores == [Attempt -> Do("restore", FALSE, Id1)]
RestoreAndDelete == [Attempt -> Do("restore", FALSE, Id1) \cup Do("delete", FALSE, Id1)]
RestoreAndRebuild == [Attempt -> Do("restore", FALSE, Id1) \cup Rebuilding]
=============================================================================
