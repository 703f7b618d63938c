------------------------------ MODULE DataLayout ------------------------------
\* config.py moves what older versions kept in the project directory
\* (vmctl.yaml, configs, vm) to the data root. Every command does so, several
\* times, in the functions that say where a file is, and without the host lock.
\* The commands here only look, save a VM's record or remove it.
EXTENDS Naturals, FiniteSets, SequencesExt

CONSTANTS
    Proc,      \* one command each
    Node,      \* files and folders of the layout, by their place in it
    Dirs,      \* the folders among them
    Above,     \* the folders a node lies in
    Record,    \* the state file that save and forget are about
    StateDir,  \* its folder
    Roots,     \* the sequence of nodes ensure_data_layout moves
    Trees,     \* pairs of what the project directory and the data root hold at first
    Across,    \* subset of BOOLEAN: whether the data root is on another file system
    Tasking,   \* the commands the processes run
    Faults,    \* subset of {"crash"}
    None

Files == Node \ Dirs
Place == {"old", "new"} \cup Dirs
Below(n) == {m \in Node : m = n \/ n \in Above[m]}
Children(n) == {m \in Node : Above[m] = Above[n] \cup {n}}

Task == {"look", "save", "forget"}

\* The layout is a tree: the folders a node lies in are nested, and on the way
\* from a folder down to a node there comes a child of the folder first.
ASSUME LayoutAssumption ==
    /\ IsFiniteSet(Node) /\ Dirs \subseteq Node /\ {"old", "new"} \cap Dirs = {}
    /\ Above \in [Node -> SUBSET Dirs]
    /\ \A n \in Node : n \notin Above[n]
    /\ \A n \in Node : \A m \in Above[n] :
          /\ Above[m] \subseteq Above[n]
          /\ \A l \in Above[n] : l = m \/ l \in Above[m] \/ m \in Above[l]
          /\ \E c \in Children(m) : n \in Below(c)

\* The roots are what lies in no folder, each once; the record is in its folder.
ASSUME RootsAssumption ==
    /\ Roots \in Seq(Node)
    /\ \A i, j \in DOMAIN Roots : Roots[i] = Roots[j] => i = j
    /\ \A r \in Range(Roots) : Above[r] = {}
    /\ \A n \in Node : \E r \in Range(Roots) : n \in Below(r)
    /\ Record \in Files /\ Record \in Children(StateDir) /\ StateDir \in Dirs

\* What is there at first is there with the folders it lies in.
ASSUME StartAssumption ==
    /\ \A t \in Trees : \A held \in {t.old, t.new} :
          held \subseteq Node /\ \A n \in held : Above[n] \subseteq held
    /\ Across \subseteq BOOLEAN
    /\ Tasking \subseteq [Proc -> Task]
    /\ None \notin Proc

VARIABLES
    first,   \* the trees of the initial state
    across,
    disk,    \* what lies where: "old" is the project directory, "new" the data
             \* root, and the place d, a folder, is the folder d inside of new d
    lock,    \* host_lifecycle_lock
    task, at, pc,
    work,    \* what is left of the migration that a process is in
    failing, \* a copy that goes on has met an error
    alone    \* no other command ran beside this one

vars == <<first, across, disk, lock, task, at, pc, work, failing, alone>>

There(place, n) == disk[place][n] # "absent"
Listing(n) == {m \in Children(n) : There("old", m)}

\* A fault for the checks: a destroy that does not migrate.
ScriptDirect(t) ==
    CASE t = "look" -> <<"migrate">>
      [] t = "save" -> <<"migrate", "lock", "migrate", "mkdir", "migrate", "open", "write">>
      [] OTHER -> <<"lock", "unlink">>

\* Where the getters of paths migrate, and what the commands do in between.
Script(t) ==
    CASE t = "look" -> <<"migrate">>
      [] t = "save" -> <<"migrate", "lock", "migrate", "mkdir", "migrate", "open", "write">>
      [] OTHER -> <<"migrate", "lock", "migrate", "unlink">>

Tree(held, content) ==
    [n \in Node |-> IF n \notin held THEN "absent" ELSE IF n \in Dirs THEN "folder" ELSE content]

Init ==
    /\ first \in Trees
    /\ across \in Across
    /\ disk = [place \in Place |->
                 CASE place = "old" -> Tree(first.old, "legacy")
                   [] place = "new" -> Tree(first.new, "own")
                   [] OTHER -> Tree({}, "own")]
    /\ lock = None
    /\ task \in Tasking
    /\ at = [p \in Proc |-> "idle"]
    /\ pc = [p \in Proc |-> 1]
    /\ work = [p \in Proc |-> <<>>]
    /\ failing = [p \in Proc |-> FALSE]
    /\ alone = [p \in Proc |-> TRUE]

Running == {p \in Proc : at[p] = "running"}

Start(p) ==
    /\ at[p] = "idle"
    /\ at' = [at EXCEPT ![p] = "running"]
    /\ alone' = [q \in Proc |->
                   IF q = p THEN Running = {} ELSE alone[q] /\ q \notin Running]
    /\ UNCHANGED <<first, across, disk, lock, task, pc, work, failing>>

\* The command is over, and with it its lock.
Over(p, how) ==
    /\ at' = [at EXCEPT ![p] = how]
    /\ lock' = IF lock = p THEN None ELSE lock
    /\ work' = [work EXCEPT ![p] = <<>>]
    /\ UNCHANGED <<first, across, task, pc, failing, alone>>

Raise(p) == Over(p, "failed") /\ UNCHANGED disk

-----------------------------------------------------------------------------
\* The steps of a migration: a process takes the first item of its work.

Doing(p, op, n, to) ==
    /\ at[p] = "running" /\ work[p] # <<>>
    /\ Head(work[p]) = <<op, n, to>>

Goes(p, next) ==
    /\ work' = [work EXCEPT ![p] = next \o Tail(@)]
    /\ UNCHANGED <<first, across, lock, task, at, pc, alone>>

Each(op, nodes, to) == [i \in DOMAIN nodes |-> <<op, nodes[i], to>>]

\* Faults for the checks: no look at a target that is a file, and no descent.
DecisionBlind(n) ==
    IF ~There("old", n) THEN <<>>
    ELSE IF n \in Dirs /\ There("new", n) THEN <<<<"list", n, "new">>>>
    ELSE <<<<"move", n, "new">>>>

DecisionFlat(n) ==
    IF ~There("old", n) \/ There("new", n) THEN <<>> ELSE <<<<"move", n, "new">>>>

\* _merge_directory_contents decides on one entry, or on a root itself.
Decision(n) ==
    IF n \in Range(Roots) /\ ~There("old", n) THEN <<>>
    ELSE IF ~There("new", n) THEN <<<<"move", n, "new">>>>
    ELSE IF n \in Dirs /\ There("old", n) THEN <<<<"list", n, "new">>>>
    ELSE <<>>

Visit(p, n) ==
    /\ Doing(p, "visit", n, "new")
    /\ Goes(p, Decision(n))
    /\ UNCHANGED <<disk, failing>>

\* iterdir reads the whole folder, in no particular order.
List(p, n) ==
    /\ Doing(p, "list", n, "new")
    /\ \/ /\ There("old", n)
          /\ \E order \in SetToSeqs(Listing(n)) :
                Goes(p, Each("visit", order, "new") \o <<<<"rmdir", n, "new">>>>)
          /\ UNCHANGED <<disk, failing>>
       \/ ~There("old", n) /\ Raise(p)

\* Faults for the checks: the folder goes with what it holds, and an rmdir that
\* fails is an error.
RmdirAll(p, n) ==
    /\ Doing(p, "rmdir", n, "new")
    /\ disk' = [disk EXCEPT !["old"] = [m \in Node |-> IF m \in Below(n) THEN "absent" ELSE @[m]]]
    /\ Goes(p, <<>>)
    /\ UNCHANGED failing

RmdirStrict(p, n) ==
    /\ Doing(p, "rmdir", n, "new")
    /\ \/ /\ Listing(n) = {}
          /\ disk' = [disk EXCEPT !["old"][n] = "absent"]
          /\ Goes(p, <<>>)
          /\ UNCHANGED failing
       \/ Listing(n) # {} /\ Raise(p)

\* An rmdir that fails is passed over.
Rmdir(p, n) ==
    /\ Doing(p, "rmdir", n, "new")
    /\ disk' = IF Listing(n) = {} THEN [disk EXCEPT !["old"][n] = "absent"] ELSE disk
    /\ Goes(p, <<>>)
    /\ UNCHANGED failing

\* shutil.move puts a thing inside of a target that has become a folder.
Goal(n) == IF n \in Dirs /\ There("new", n) THEN n ELSE "new"

Moved(n, to) ==
    [disk EXCEPT !["old"] = [m \in Node |-> IF m \in Below(n) THEN "absent" ELSE @[m]],
                 ![to] = [m \in Node |-> IF m \in Below(n) THEN disk["old"][m] ELSE @[m]]]

\* A rename, which replaces a file that is there, or a copy and a removal.
Move(p, n) ==
    LET to == Goal(n) IN
    /\ Doing(p, "move", n, "new")
    /\ \/ /\ There("old", n) /\ (to = n => ~There(to, n))
          /\ IF across THEN /\ failing' = [failing EXCEPT ![p] = FALSE]
                            /\ Goes(p, <<<<"copy", n, to>>, <<"purge", n, to>>>>)
                            /\ UNCHANGED disk
                       ELSE /\ disk' = Moved(n, to)
                            /\ Goes(p, <<>>)
                            /\ UNCHANGED failing
       \/ (~There("old", n) \/ (to = n /\ There(to, n))) /\ Raise(p)

\* copytree goes on after an error and raises it at its end, in Purge: what
\* has vanished, or a folder that is there.
Copy(p, n, to) ==
    /\ Doing(p, "copy", n, to)
    /\ IF ~There("old", n) \/ (n \in Dirs /\ There(to, n))
       THEN /\ failing' = [failing EXCEPT ![p] = TRUE]
            /\ Goes(p, <<>>)
            /\ UNCHANGED disk
       ELSE /\ disk' = [disk EXCEPT ![to][n] = IF n \in Dirs THEN "folder" ELSE "torn"]
            /\ IF n \in Dirs
               THEN \E order \in SetToSeqs(Listing(n)) : Goes(p, Each("copy", order, to))
               ELSE Goes(p, <<<<"fill", n, to>>>>)
            /\ UNCHANGED failing

\* The contents go to the file that was opened, which may have lost its name.
Fill(p, n, to) ==
    /\ Doing(p, "fill", n, to)
    /\ disk' = IF There(to, n) THEN [disk EXCEPT ![to][n] = "legacy"] ELSE disk
    /\ Goes(p, <<>>)
    /\ UNCHANGED failing

\* unlink or rmtree of the source, once all of it is copied.
Purge(p, n, to) ==
    /\ Doing(p, "purge", n, to)
    /\ \/ /\ There("old", n) /\ ~failing[p]
          /\ IF Listing(n) = {}
             THEN disk' = [disk EXCEPT !["old"][n] = "absent"] /\ Goes(p, <<>>)
             ELSE /\ \E order \in SetToSeqs(Listing(n)) :
                        Goes(p, Each("purge", order, to) \o <<<<"purge", n, to>>>>)
                  /\ UNCHANGED disk
          /\ UNCHANGED failing
       \/ (~There("old", n) \/ failing[p]) /\ Raise(p)

-----------------------------------------------------------------------------
\* The steps of a command.

Calls(p, step) ==
    /\ at[p] = "running" /\ work[p] = <<>> /\ pc[p] <= Len(Script(task[p]))
    /\ Script(task[p])[pc[p]] = step

Advance(p) ==
    /\ pc' = [pc EXCEPT ![p] = @ + 1]
    /\ UNCHANGED <<first, across, task, at, failing, alone>>

\* ensure_data_layout: one root after the other.
Migrate(p) ==
    /\ Calls(p, "migrate")
    /\ work' = [work EXCEPT ![p] = Each("visit", Roots, "new")]
    /\ Advance(p)
    /\ UNCHANGED <<disk, lock>>

Lock(p) ==
    /\ Calls(p, "lock")
    /\ \/ /\ lock = None
          /\ lock' = p
          /\ Advance(p)
          /\ UNCHANGED <<disk, work>>
       \/ lock # None /\ Over(p, "refused") /\ UNCHANGED disk

Mkdir(p) ==
    /\ Calls(p, "mkdir")
    /\ disk' = [disk EXCEPT !["new"] =
                  [n \in Node |-> IF n \in Above[StateDir] \cup {StateDir} THEN "folder" ELSE @[n]]]
    /\ Advance(p)
    /\ UNCHANGED <<lock, work>>

\* save_vm_state: open truncates, then the record is written.
Save(p) ==
    /\ \/ Calls(p, "open") /\ disk' = [disk EXCEPT !["new"][Record] = "torn"]
       \/ Calls(p, "write") /\ disk' = [disk EXCEPT !["new"][Record] = "own"]
    /\ Advance(p)
    /\ UNCHANGED <<lock, work>>

\* delete_vm_state
Unlink(p) ==
    /\ Calls(p, "unlink")
    /\ disk' = [disk EXCEPT !["new"][Record] = "absent"]
    /\ Advance(p)
    /\ UNCHANGED <<lock, work>>

Finish(p) ==
    /\ at[p] = "running" /\ work[p] = <<>> /\ pc[p] > Len(Script(task[p]))
    /\ Over(p, "done")
    /\ UNCHANGED disk

Crash(p) ==
    /\ "crash" \in Faults /\ at[p] = "running"
    /\ Over(p, "dead")
    /\ UNCHANGED disk

Next ==
    \E p \in Proc :
        \/ Start(p) \/ Migrate(p) \/ Lock(p) \/ Mkdir(p) \/ Save(p) \/ Unlink(p)
        \/ Finish(p) \/ Crash(p)
        \/ \E n \in Node :
              \/ Visit(p, n) \/ List(p, n) \/ Rmdir(p, n) \/ Move(p, n)
              \/ \E to \in Place : Copy(p, n, to) \/ Fill(p, n, to) \/ Purge(p, n, to)

Spec == Init /\ [][Next]_vars

-----------------------------------------------------------------------------
\* The state is well formed, and a lock's owner is at work under it.
TypeOK ==
    /\ disk \in [Place -> [Node -> {"absent", "folder", "legacy", "own", "torn"}]]
    /\ \A place \in Place, n \in Node : disk[place][n] = "folder" => n \in Dirs
    /\ lock \in Running \cup {None}
    /\ task \in [Proc -> Task]
    /\ at \in [Proc -> {"idle", "running", "done", "failed", "refused", "dead"}]
    /\ \A p \in Proc : pc[p] \in 1..(Len(Script(task[p])) + 1)
    /\ failing \in [Proc -> BOOLEAN] /\ alone \in [Proc -> BOOLEAN]

\* What the properties below are stated for: renames by any number of commands
\* at a time, or copies by one command at a time. Copies by several at a time
\* keep none of them.
Orderly == ~across \/ \A p \in Proc : alone[p]

\* A save or a destroy has come to the record itself.
Touched ==
    \E p \in Proc : \E i \in 1..(pc[p] - 1) : Script(task[p])[i] \in {"open", "unlink"}

\* Whatever processes do or where they die, the contents of a file that an older
\* version wrote are whole somewhere, until a command replaces or removes that
\* very file (config.py:58, _merge_directory_contents moves and removes folders).
NothingLost ==
    Orderly =>
        \A f \in Files : f \in first.old /\ (f = Record => ~Touched) =>
            \E place \in Place : disk[place][f] = "legacy"

\* "without overwriting" (config.py:59): what the data root already has is
\* changed by a save or a destroy only, although the look at the target and the
\* rename are two steps and a save may come in between.
NothingOverwritten ==
    [][\A f \in Files :
          Orderly' /\ disk["new"][f] = "own" /\ disk'["new"][f] # "own"
             => f = Record /\ \E p \in Proc : lock = p /\ pc'[p] = pc[p] + 1]_vars

\* The migration a command has behind it, also one that other commands did
\* parts of: every file of the old layout has its place at the data root, so
\* that nobody takes a VM for one without a record (config.py:140, 224, 478).
Migrated ==
    Orderly =>
        \A p \in Proc : at[p] = "running" /\ pc[p] > 1 /\ work[p] = <<>> =>
            \A f \in first.old \ Dirs : There("new", f) \/ (f = Record /\ Touched)

\* A VM that was destroyed has no record left that a later migration could bring
\* back: the getters of the path migrate before delete_vm_state removes it
\* (config.py:524). Not after a crash between copy and removal, nor where both
\* layouts had a record at first.
ForgottenStays ==
    /\ Orderly
    /\ Record \notin first.old \cap first.new
    /\ across => \A p \in Proc : at[p] # "dead"
    /\ \E p \in Proc : task[p] = "forget" /\ at[p] = "done"
    /\ \A p \in Proc : task[p] = "save" => at[p] = "idle"
    => \A place \in Place : ~There(place, Record)

\* A command that no other one runs beside does its migration to the end,
\* whatever crashed ones have left of theirs.
RecoversAlone == \A p \in Proc : alone[p] => at[p] # "failed"

-----------------------------------------------------------------------------
\* What does not hold.

\* A command that only looks never fails (configuration "race").
LookSucceeds == \A p \in Proc : task[p] = "look" => at[p] # "failed"

\* A migrated file is whole once nobody migrates (configuration "torn").
MigratedWhole ==
    \A f \in Files \ {Record} :
        (\E p \in Proc : at[p] = "done") /\ Running = {} => disk["new"][f] # "torn"

\* No folder is moved into its own successor (configuration "torn", for this).
NotBuried == \A d \in Dirs, n \in Node : ~There(d, n)

\* A destroyed VM has no record left (configuration "race", with all trees and tasks).
RecordGone ==
    /\ \E p \in Proc : task[p] = "forget" /\ at[p] = "done"
    /\ \A p \in Proc : task[p] # "save"
    => \A place \in Place : ~There(place, Record)
=============================================================================
