--------------------------- MODULE DataLayout_proofs ---------------------------
(***************************************************************************)
(* Proofs about the migration of the old layout for any commands, files and *)
(* folders: nothing is lost or overwritten, what a migration has behind it  *)
(* is at the data root, and what was removed does not come back.            *)
(***************************************************************************)
EXTENDS DataLayout, TLAPS, FiniteSetTheorems, SequenceTheorems

Op == {"visit", "list", "rmdir", "move", "copy", "fill", "purge"}
Item == Op \X Node \X Place
Todo(p) == Range(work[p])

\* An item stands for what lies below its node, as long as it is to be moved.
Covered(p, n) ==
    \E op \in {"visit", "list", "move", "copy"}, m \in Node :
        <<op, m, "new">> \in Todo(p) /\ n \in Below(m)

\* The order of a stack of work: copies, then removals, then the rest, and what
\* an item does is no part of what a later one looks at.
Rank(op) == IF op \in {"copy", "fill"} THEN 1 ELSE IF op = "purge" THEN 2 ELSE 3
Before(x, y) ==
    /\ Rank(x[1]) <= Rank(y[1])
    /\ y[1] \notin {"rmdir", "purge"} => Below(x[2]) \cap Below(y[2]) = {}
    /\ x[1] = "purge" /\ y[1] = "purge" => y[2] \notin Below(x[2])
Stack(s) == \A i, j \in 1..Len(s) : i < j => Before(s[i], s[j])

\* The state of the work of each process.
Work ==
    /\ first \in Trees /\ across \in BOOLEAN
    /\ work \in [Proc -> Seq(Item)] /\ pc \in [Proc -> Nat]
    /\ \A p \in Proc : at[p] # "running" => work[p] = <<>>
    /\ \A p \in Proc : at[p] = "idle" => alone[p] /\ ~failing[p] /\ pc[p] = 1
    /\ \A p \in Proc : at[p] = "done" => pc[p] = Len(Script(task[p])) + 1
    /\ \A p \in Proc : at[p] = "running" /\ alone[p] => Running = {p}
    /\ \A p \in Proc : at[p] = "running" => (lock = p <=> task[p] # "look" /\ pc[p] >= 3)

\* Both trees hold a thing with its folders only, and the old one what it had.
Closed ==
    /\ \A place \in {"old", "new"}, n \in Node :
          There(place, n) => \A m \in Above[n] : There(place, m)
    /\ \A f \in Files : disk["old"][f] \in {"absent", "legacy"}
    /\ \A p \in Proc : task[p] = "save" /\ pc[p] >= 5 =>
          \A m \in Above[Record] : There("new", m)

\* What an item takes for granted.
ItemOK(x) ==
    /\ x[1] \in {"visit", "list", "rmdir", "move"} => x[3] = "new"
    /\ x[1] \in {"copy", "fill", "purge"} => x[3] # "old"
    /\ x[1] \in {"list", "rmdir"} => x[2] \in Dirs
    /\ x[1] = "fill" => x[2] \notin Dirs
    /\ x[1] = "list" => There("new", x[2])
    /\ x[1] \in {"visit", "list", "move", "copy"} /\ x[3] = "new" =>
          \A m \in Above[x[2]] : There("new", m)
Placed ==
    /\ \A p \in Proc : \A x \in Todo(p) : ItemOK(x)
    /\ \A p \in Proc : Stack(work[p])
    /\ \A p \in Proc : \A x \in Todo(p) : x[1] \in {"copy", "fill"} =>
          \E m \in Node : <<"purge", m, x[3]>> \in Todo(p) /\ x[2] \in Below(m)

\* Renames: a command is about to move a thing to where nothing is.
Renaming ==
    /\ Orderly => \A d \in Dirs, n \in Node : ~There(d, n)
    /\ ~across => \A p \in Proc : \A x \in Todo(p) :
          /\ x[1] \notin {"copy", "fill", "purge"}
          /\ x[1] = "move" /\ There("old", x[2]) => ~There("new", x[2])

\* The contents of a file to be removed are at the data root, or on their way.
Safe(p, f) ==
    \/ disk["new"][f] = "legacy"
    \/ \E op \in {"copy", "fill"}, m \in Node : <<op, m, "new">> \in Todo(p) /\ f \in Below(m)

\* What the items of a command are that nobody runs beside.
Sound(p, x) ==
    /\ x[1] = "visit" => There("old", x[2]) \/ x[2] \in Range(Roots)
    /\ x[1] = "list" => There("old", x[2])
    /\ x[1] \in {"move", "copy"} => There("old", x[2]) /\ ~There("new", x[2])
    /\ x[1] = "fill" => disk["new"][x[2]] = "torn"
    /\ x[1] = "purge" =>
          /\ There("old", x[2])
          /\ \A f \in Files \cap Below(x[2]) : There("old", f) => Safe(p, f)
    /\ x[3] = "new"
Undisturbed ==
    \A p \in Proc : at[p] = "running" /\ alone[p] =>
        ~failing[p] /\ \A x \in Todo(p) : Sound(p, x)

\* A migration that a command has begun has all in sight that is not moved; once
\* it has the lock that includes the record, until it removes it.
Obliged(p, n) ==
    /\ at[p] = "running" /\ pc[p] > 1
    /\ n = Record => ~Touched \/ (pc[p] >= 4 /\ ~(task[p] = "forget" /\ pc[p] > 4))
InSight ==
    Orderly => \A p \in Proc, n \in Node :
        Obliged(p, n) /\ There("old", n) => There("new", n) \/ Covered(p, n)

Kept ==
    Orderly => \A f \in Files : f \in first.old /\ (f = Record => ~Touched) =>
        disk["old"][f] = "legacy" \/ disk["new"][f] = "legacy"

\* One layout at most has the record, or a copy of it is about to be removed.
Forgetting ==
    /\ Orderly
    /\ Record \notin first.old \cap first.new
    /\ across => \A p \in Proc : at[p] # "dead"
    /\ \A p \in Proc : task[p] = "save" => at[p] = "idle"
Twice == There("old", Record) /\ There("new", Record)
OneRecord ==
    Forgetting =>
        /\ Twice => across /\ \E p \in Proc, m \in Node :
                       at[p] = "running" /\ <<"purge", m, "new">> \in Todo(p) /\ Record \in Below(m)
        /\ \A p \in Proc : task[p] = "forget" /\ pc[p] = 5 =>
              ~There("old", Record) /\ ~There("new", Record)

IInv ==
    /\ TypeOK /\ Work /\ Closed /\ Placed /\ Renaming /\ Undisturbed
    /\ InSight /\ Kept /\ OneRecord
-----------------------------------------------------------------------------
(* Sequences of work. *)

Rest(p) == Range(Tail(work[p]))

(* What a sequence holds is what its head and its tail hold. *)
LEMMA HeadAndTail ==
  ASSUME NEW S, NEW s \in Seq(S), s # <<>>
  PROVE  /\ Tail(s) \in Seq(S)
         /\ Range(s) = {Head(s)} \cup Range(Tail(s))
         /\ Range(s) \subseteq S /\ Range(Tail(s)) \subseteq S
<1>1. /\ Head(s) = s[1] /\ Len(s) \in Nat /\ Len(s) >= 1 /\ s \in [1..Len(s) -> S]
      /\ Tail(s) \in Seq(S) /\ Len(Tail(s)) = Len(s) - 1
      /\ \A i \in 1..Len(Tail(s)) : Tail(s)[i] = s[i + 1]
  BY HeadTailProperties, LenProperties, EmptySeq
<1>2. DOMAIN s = 1..Len(s) /\ DOMAIN Tail(s) = 1..Len(Tail(s))
  BY <1>1, LenProperties
<1>3. ASSUME NEW x PROVE x \in Range(s) => x \in {Head(s)} \cup Range(Tail(s))
  <2>1. SUFFICES ASSUME NEW i \in 1..Len(s), x = s[i] PROVE x \in {Head(s)} \cup Range(Tail(s))
    BY <1>2 DEF Range
  <2>2. CASE i = 1
    BY <1>1, <2>1, <2>2
  <2>3. CASE i # 1
    <3>1. i - 1 \in DOMAIN Tail(s) /\ Tail(s)[i - 1] = s[i]
      BY <1>1, <1>2, <2>3
    <3>. QED
      BY <2>1, <3>1 DEF Range
  <2>. QED
    BY <2>2, <2>3
<1>4. ASSUME NEW x PROVE x \in {Head(s)} \cup Range(Tail(s)) => x \in Range(s)
  <2>1. CASE x = Head(s)
    BY <1>1, <1>2, <2>1 DEF Range
  <2>2. ASSUME NEW i \in 1..Len(Tail(s)), x = Tail(s)[i] PROVE x \in Range(s)
    <3>1. i + 1 \in DOMAIN s /\ s[i + 1] = x
      BY <1>1, <1>2, <2>2
    <3>. QED
      BY <3>1 DEF Range
  <2>. QED
    BY <1>2, <2>1, <2>2 DEF Range
<1>5. Range(s) \subseteq S /\ Range(Tail(s)) \subseteq S
  BY <1>1, <1>2, <1>3, <1>4 DEF Range
<1>. QED
  BY <1>1, <1>3, <1>4, <1>5

(* Two sequences in a row hold what each of them holds. *)
LEMMA Concatenated ==
  ASSUME NEW S, NEW s \in Seq(S), NEW t \in Seq(S)
  PROVE  Range(s \o t) = Range(s) \cup Range(t)
<1>1. s \in Seq(S) /\ t \in Seq(S)
  OBVIOUS
<1>. QED
  BY <1>1, RangeConcatenation

(* A stack is well ordered if what is put on it is, and comes before the rest. *)
LEMMA StackPush ==
  ASSUME NEW S, NEW s \in Seq(S), NEW next \in Seq(S), s # <<>>, Stack(s), Stack(next),
         \A x \in Range(next), y \in Range(Tail(s)) : Before(x, y)
  PROVE  Stack(next \o Tail(s))
<1>. DEFINE t == Tail(s)
            c == next \o t
<1>1. /\ Len(s) \in Nat /\ t \in Seq(S) /\ Len(t) = Len(s) - 1
      /\ \A i \in 1..Len(t) : t[i] = s[i + 1]
  BY HeadTailProperties, LenProperties
<1>2. /\ Len(next) \in Nat /\ Len(t) \in Nat /\ Len(c) = Len(next) + Len(t)
      /\ \A i \in 1..Len(c) : c[i] = IF i <= Len(next) THEN next[i] ELSE t[i - Len(next)]
      /\ DOMAIN next = 1..Len(next) /\ DOMAIN t = 1..Len(t)
  BY <1>1, ConcatProperties, LenProperties
<1>. HIDE DEF t
<1>. SUFFICES ASSUME NEW i \in 1..Len(c), NEW j \in 1..Len(c), i < j
              PROVE  Before(c[i], c[j])
  BY DEF Stack, t
<1>3. c[i] = IF i <= Len(next) THEN next[i] ELSE t[i - Len(next)]
  BY <1>2
<1>4. c[j] = IF j <= Len(next) THEN next[j] ELSE t[j - Len(next)]
  BY <1>2
<1>. HIDE DEF c
<1>5. CASE j <= Len(next)
  <2>1. c[i] = next[i] /\ c[j] = next[j] /\ i \in 1..Len(next) /\ j \in 1..Len(next)
    BY <1>2, <1>3, <1>4, <1>5
  <2>. QED
    BY <2>1 DEF Stack
<1>6. CASE i <= Len(next) /\ j > Len(next)
  <2>1. /\ c[i] = next[i] /\ c[j] = t[j - Len(next)]
        /\ i \in DOMAIN next /\ j - Len(next) \in DOMAIN t
    BY <1>2, <1>3, <1>4, <1>6
  <2>. QED
    BY <2>1 DEF Range, t
<1>7. CASE i > Len(next)
  <2>1. /\ i - Len(next) \in 1..Len(t) /\ c[i] = t[i - Len(next)]
        /\ j - Len(next) \in 1..Len(t) /\ c[j] = t[j - Len(next)]
    BY <1>2, <1>3, <1>4, <1>7
  <2>2. PICK a, b \in 1..Len(t) : a < b /\ c[i] = t[a] /\ c[j] = t[b]
    <3>1. i - Len(next) < j - Len(next)
      BY <1>2
    <3>. QED
      BY <2>1, <3>1, Zenon
  <2>3. \E k, l \in 1..Len(s) : k < l /\ c[i] = s[k] /\ c[j] = s[l]
    <3>1. a + 1 \in 1..Len(s) /\ b + 1 \in 1..Len(s) /\ a + 1 < b + 1
      BY <1>1, <1>2, <2>2
    <3>2. c[i] = s[a + 1] /\ c[j] = s[b + 1]
      BY <1>1, <2>2
    <3>. QED
      BY <3>1, <3>2
  <2>. QED
    BY <2>3 DEF Stack
<1>. QED
  BY <1>2, <1>5, <1>6, <1>7

(* A listing in any order is a sequence of all that is in the folder, each once. *)
LEMMA OrderOfAll ==
  ASSUME NEW S \in SUBSET Node, NEW order \in SetToSeqs(S)
  PROVE  /\ order \in Seq(Node) /\ Range(order) = S
         /\ \A i, j \in DOMAIN order : order[i] = order[j] => i = j
<1>. DEFINE c == Cardinality(S)
            D == 1..c
<1>1. IsFiniteSet(S) /\ c \in Nat
  BY LayoutAssumption, FS_Subset, FS_CardinalityType
<1>2. order \in [D -> S] /\ \A i, j \in D : i # j => order[i] # order[j]
  BY DEF SetToSeqs
<1>3. order \in Injection(D, S)
  BY <1>2 DEF Injection, IsInjective
<1>4. Cardinality(D) = c
  BY <1>1, FS_Interval
<1>. HIDE DEF c
<1>5. order \in Surjection(D, S)
  BY <1>1, <1>3, <1>4, FS_Injection DEF c
<1>6. Range(order) = S
  BY <1>2, <1>5 DEF Range, Surjection
<1>7. order \in Seq(Node)
  BY <1>1, <1>2, SeqDef
<1>. QED
  BY <1>2, <1>6, <1>7

(* One item for each node of a sequence. *)
LEMMA EachItem ==
  ASSUME NEW op \in Op, NEW to \in Place, NEW nodes \in Seq(Node)
  PROVE  /\ Each(op, nodes, to) \in Seq(Item)
         /\ Len(Each(op, nodes, to)) = Len(nodes)
         /\ DOMAIN nodes = 1..Len(nodes)
         /\ \A i \in 1..Len(nodes) : Each(op, nodes, to)[i] = <<op, nodes[i], to>>
         /\ Range(Each(op, nodes, to)) = {<<op, m, to>> : m \in Range(nodes)}
<1>. DEFINE e == Each(op, nodes, to)
<1>1. Len(nodes) \in Nat /\ DOMAIN nodes = 1..Len(nodes) /\ \A i \in 1..Len(nodes) : nodes[i] \in Node
  BY LenProperties, ElementOfSeq
<1>2. e = [i \in 1..Len(nodes) |-> <<op, nodes[i], to>>]
  BY <1>1 DEF Each
<1>3. e \in [1..Len(nodes) -> Item]
  BY <1>1, <1>2 DEF Item
<1>4. e \in Seq(Item) /\ DOMAIN e = 1..Len(nodes)
  BY <1>1, <1>3, SeqDef
<1>5. Len(e) = Len(nodes)
  BY <1>1, <1>4, LenProperties
<1>6. Range(e) = {<<op, m, to>> : m \in Range(nodes)}
  BY <1>1, <1>2 DEF Range
<1>. QED
  BY <1>1, <1>2, <1>4, <1>5, <1>6

(* One item, and two. *)
LEMMA FewItems ==
  ASSUME NEW x \in Item, NEW y \in Item
  PROVE  /\ <<>> \in Seq(Item) /\ Range(<<>>) = {} /\ Stack(<<>>)
         /\ <<x>> \in Seq(Item) /\ Range(<<x>>) = {x} /\ Stack(<<x>>)
         /\ <<x, y>> \in Seq(Item) /\ Range(<<x, y>>) = {x, y}
         /\ Before(x, y) => Stack(<<x, y>>)
<1>1. /\ <<>> \in Seq(Item) /\ Range(<<>>) = {} /\ Stack(<<>>)
  BY DEF Range, Stack
<1>2. <<x>> \in Seq(Item) /\ Len(<<x>>) = 1 /\ DOMAIN <<x>> = 1..1 /\ <<x>>[1] = x
  OBVIOUS
<1>3. Range(<<x>>) = {x} /\ Stack(<<x>>)
  BY <1>2 DEF Range, Stack
<1>4. /\ <<x, y>> \in Seq(Item) /\ Len(<<x, y>>) = 2 /\ DOMAIN <<x, y>> = 1..2
      /\ <<x, y>>[1] = x /\ <<x, y>>[2] = y
  OBVIOUS
<1>5. Range(<<x, y>>) = {x, y}
  BY <1>4 DEF Range
<1>6. Before(x, y) => Stack(<<x, y>>)
  <2>1. \A i, j \in 1..2 : i < j => i = 1 /\ j = 2
    OBVIOUS
  <2>. QED
    BY <1>4, <2>1 DEF Stack
<1>. QED
  BY <1>1, <1>2, <1>3, <1>4, <1>5, <1>6

(* Items, then one more. *)
LEMMA OneMore ==
  ASSUME NEW s \in Seq(Item), NEW x \in Item
  PROVE  /\ s \o <<x>> \in Seq(Item) /\ Range(s \o <<x>>) = Range(s) \cup {x}
         /\ Stack(s) /\ (\A y \in Range(s) : Before(y, x)) => Stack(s \o <<x>>)
<1>. DEFINE t == s \o <<x>>
<1>1. <<x>> \in Seq(Item) /\ Len(<<x>>) = 1 /\ <<x>>[1] = x
  OBVIOUS
<1>2. /\ t \in Seq(Item) /\ Len(t) = Len(s) + 1 /\ Len(s) \in Nat
      /\ \A i \in 1..Len(t) : t[i] = IF i <= Len(s) THEN s[i] ELSE <<x>>[i - Len(s)]
      /\ DOMAIN s = 1..Len(s) /\ DOMAIN t = 1..Len(t)
  BY <1>1, ConcatProperties, LenProperties
<1>. HIDE DEF t
<1>3. t[Len(s) + 1] = x /\ \A i \in 1..Len(s) : t[i] = s[i]
  BY <1>1, <1>2
<1>4. \A i \in 1..Len(t) : i \in 1..Len(s) \/ i = Len(s) + 1
  BY <1>2
<1>5. Range(t) = Range(s) \cup {x}
  BY <1>2, <1>3, <1>4 DEF Range
<1>6. ASSUME Stack(s), \A y \in Range(s) : Before(y, x) PROVE Stack(t)
  <2>. SUFFICES ASSUME NEW i \in 1..Len(t), NEW j \in 1..Len(t), i < j
                PROVE  Before(t[i], t[j])
    BY DEF Stack
  <2>1. i \in 1..Len(s) /\ t[i] = s[i]
    BY <1>2, <1>3
  <2>2. CASE j \in 1..Len(s)
    BY <1>3, <1>6, <2>1, <2>2 DEF Stack
  <2>3. CASE j = Len(s) + 1
    BY <1>2, <1>3, <1>6, <2>1, <2>3 DEF Range
  <2>. QED
    BY <1>4, <2>2, <2>3
<1>. QED
  BY <1>2, <1>5, <1>6 DEF t

-----------------------------------------------------------------------------
(* The tree. *)

(* What lies below a node lies below what the node lies below. *)
LEMMA BelowBelow ==
  ASSUME NEW n \in Node, NEW c \in Below(n)
  PROVE  c \in Node /\ n \in Below(n) /\ Below(c) \subseteq Below(n)
  BY LayoutAssumption DEF Below

(* A child is below its folder and apart from it, which is not below the child. *)
LEMMA ChildBelow ==
  ASSUME NEW n \in Node, NEW c \in Children(n)
  PROVE  /\ c \in Node /\ c \in Below(n) /\ c # n /\ n \notin Below(c)
         /\ Below(c) \subseteq Below(n) /\ n \in Dirs /\ Above[c] = Above[n] \cup {n}
<1>1. c \in Node /\ n \in Above[c] /\ n \notin Above[n] /\ c \notin Above[c] /\ n \in Dirs
      /\ Above[c] = Above[n] \cup {n}
  BY LayoutAssumption DEF Children
<1>2. c \in Below(n) /\ c # n
  BY <1>1 DEF Below
<1>3. n \notin Below(c)
  BY <1>1, LayoutAssumption DEF Below
<1>. QED
  BY <1>1, <1>2, <1>3, BelowBelow

(* Down to what is below a folder one goes by one of its children. *)
LEMMA DownTo ==
  ASSUME NEW n \in Node, NEW f \in Below(n), f # n
  PROVE  \E c \in Children(n) : f \in Below(c)
  BY LayoutAssumption DEF Below

(* Of two nodes that are not in each other nothing is below both. *)
LEMMA Apart ==
  ASSUME NEW c \in Node, NEW d \in Node, c # d, c \notin Above[d], d \notin Above[c]
  PROVE  Below(c) \cap Below(d) = {}
  BY LayoutAssumption DEF Below

(* Nothing is below two children of a folder. *)
LEMMA ChildrenApart ==
  ASSUME NEW n \in Node, NEW c \in Children(n), NEW d \in Children(n), c # d
  PROVE  Below(c) \cap Below(d) = {}
<1>1. /\ Above[c] = Above[n] \cup {n} /\ Above[d] = Above[n] \cup {n}
      /\ c \in Node /\ d \in Node
  BY DEF Children
<1>2. c \notin Above[n] \cup {n} /\ d \notin Above[n] \cup {n}
  BY <1>1, LayoutAssumption
<1>. QED
  BY <1>1, <1>2, Apart

(* Nothing is below two roots. *)
LEMMA RootsApart ==
  ASSUME NEW c \in Range(Roots), NEW d \in Range(Roots), c # d
  PROVE  c \in Node /\ Below(c) \cap Below(d) = {}
<1>1. Range(Roots) \subseteq Node
  BY RootsAssumption, LenProperties, ElementOfSeq DEF Range
<1>. QED
  BY <1>1, RootsAssumption, Apart

(* Nothing but itself is below a file. *)
LEMMA BelowFile ==
  ASSUME NEW f \in Node, f \notin Dirs
  PROVE  Below(f) = {f}
  BY LayoutAssumption DEF Below

(* What is listed in a folder is among its children. *)
LEMMA BelowChildren ==
  ASSUME NEW n \in Node
  PROVE  n \in Below(n) /\ Below(n) \subseteq Node /\ Listing(n) \subseteq Children(n) /\ Listing(n) \subseteq Node
  BY DEF Below, Listing, Children

-----------------------------------------------------------------------------
(* Steps on an item x of a migration, which puts new ones in its place. *)

Steps(p, x, new) ==
    /\ at[p] = "running"
    /\ UNCHANGED <<first, across, lock, task, at, pc, alone>>
    /\ work' \in [Proc -> Seq(Item)] /\ \A q \in Proc : q # p => work'[q] = work[q]
    /\ x \in Item /\ new \subseteq Item /\ Rest(p) \subseteq Item
    /\ Todo(p) = {x} \cup Rest(p) /\ Todo(p)' = new \cup Rest(p)
    /\ \A y \in Rest(p) : Before(x, y)
    /\ Stack(work'[p])

(* An item that one stands for comes before what that one comes before. *)
LEMMA Inherits ==
  ASSUME NEW op, NEW n \in Node, NEW to, NEW y, Before(<<op, n, to>>, y),
         NEW nop, NEW m \in Below(n), NEW nto, Rank(nop) <= Rank(op),
         nop = "purge" /\ y[1] = "purge" => op = "purge"
  PROVE  Before(<<nop, m, nto>>, y)
<1>1. Below(m) \subseteq Below(n)
  BY BelowBelow
<1>2. Rank(nop) <= Rank(y[1])
  BY DEF Before, Rank
<1>3. y[1] \notin {"rmdir", "purge"} => Below(m) \cap Below(y[2]) = {}
  BY <1>1 DEF Before
<1>4. nop = "purge" /\ y[1] = "purge" => y[2] \notin Below(m)
  BY <1>1 DEF Before
<1>. QED
  BY <1>2, <1>3, <1>4 DEF Before

(* What a step leaves and puts on the stack. *)
LEMMA ItemSteps ==
  ASSUME Work, NEW p \in Proc, Stack(work[p]),
         NEW op, NEW n, NEW to, Doing(p, op, n, to),
         NEW next \in Seq(Item), Goes(p, next), Stack(next),
         \A x \in Range(next), y \in Rest(p) :
            Before(<<op, n, to>>, y) /\ y \in Item => Before(x, y)
  PROVE  /\ Steps(p, <<op, n, to>>, Range(next))
         /\ op \in Op /\ n \in Node /\ to \in Place
<1>. DEFINE s == work[p]
            x == <<op, n, to>>
<1>1. s \in Seq(Item) /\ s # <<>> /\ Head(s) = x
  BY DEF Work, Doing
<1>2. /\ Tail(s) \in Seq(Item) /\ Range(s) = {x} \cup Rest(p)
      /\ Rest(p) \subseteq Item /\ Range(s) \subseteq Item
  BY <1>1, HeadAndTail DEF Rest
<1>3. work' \in [Proc -> Seq(Item)] /\ work'[p] = next \o Tail(s)
      /\ \A q \in Proc : q # p => work'[q] = work[q]
  <2>1. next \o Tail(s) \in Seq(Item)
    BY <1>2, ConcatProperties
  <2>. QED
    BY <2>1 DEF Goes, Work
<1>4. Range(next \o Tail(s)) = Range(next) \cup Rest(p)
  <2>1. ASSUME NEW t \in Seq(Item) PROVE Range(next \o t) = Range(next) \cup Range(t)
    <3>1. next \in Seq(Item)
      OBVIOUS
    <3>. QED
      BY <2>1, <3>1, Concatenated
  <2>. QED
    BY <1>2, <2>1 DEF Rest
<1>5. Range(next) \subseteq Item
  BY LenProperties, ElementOfSeq DEF Range
<1>6. \A y \in Rest(p) : Before(x, y)
  <2>1. /\ Len(s) \in Nat /\ Len(s) >= 1 /\ Head(s) = s[1] /\ Len(Tail(s)) = Len(s) - 1
        /\ \A i \in 1..Len(Tail(s)) : Tail(s)[i] = s[i + 1]
        /\ DOMAIN Tail(s) = 1..Len(Tail(s))
    BY <1>1, <1>2, HeadTailProperties, LenProperties, EmptySeq
  <2>2. SUFFICES ASSUME NEW i \in 1..Len(Tail(s)) PROVE Before(x, Tail(s)[i])
    BY <2>1 DEF Rest, Range
  <2>3. i + 1 \in 1..Len(s) /\ 1 \in 1..Len(s) /\ 1 < i + 1 /\ Tail(s)[i] = s[i + 1] /\ x = s[1]
    BY <1>1, <2>1, <2>2
  <2>4. \A k, l \in 1..Len(s) : k < l => Before(s[k], s[l])
    BY DEF Stack
  <2>. QED
    BY <2>3, <2>4
<1>7. Stack(next \o Tail(s))
  <2>1. \A z \in Range(next), y \in Range(Tail(s)) : Before(z, y)
    BY <1>2, <1>6 DEF Rest
  <2>. QED
    BY <1>1, <2>1, StackPush
<1>8. op \in Op /\ n \in Node /\ to \in Place /\ x \in Item
  BY <1>2 DEF Item
<1>9. Todo(p) = {x} \cup Rest(p) /\ Todo(p)' = Range(next) \cup Rest(p)
  BY <1>2, <1>3, <1>4 DEF Todo
<1>10. at[p] = "running" /\ UNCHANGED <<first, across, lock, task, at, pc, alone>>
  BY DEF Doing, Goes
<1>. QED
  BY <1>2, <1>3, <1>5, <1>6, <1>7, <1>8, <1>9, <1>10 DEF Steps

(* Items of one kind for children of a folder are well ordered. *)
LEMMA EachStack ==
  ASSUME NEW n \in Node, NEW S \in SUBSET Children(n), NEW order \in SetToSeqs(S),
         NEW op \in {"visit", "copy", "purge"}, NEW to \in Place
  PROVE  /\ Each(op, order, to) \in Seq(Item) /\ Stack(Each(op, order, to))
         /\ Range(Each(op, order, to)) = {<<op, m, to>> : m \in S}
<1>1. S \in SUBSET Node /\ op \in Op
  BY DEF Children, Op
<1>2. /\ order \in Seq(Node) /\ Range(order) = S
      /\ \A i, j \in DOMAIN order : order[i] = order[j] => i = j
  BY <1>1, OrderOfAll
<1>. DEFINE e == Each(op, order, to)
<1>3. /\ e \in Seq(Item) /\ Len(e) = Len(order) /\ DOMAIN order = 1..Len(order)
      /\ \A i \in 1..Len(order) : e[i] = <<op, order[i], to>>
      /\ Range(e) = {<<op, m, to>> : m \in S}
  BY <1>1, <1>2, EachItem
<1>. HIDE DEF e
<1>4. Stack(e)
  <2>. SUFFICES ASSUME NEW i \in 1..Len(e), NEW j \in 1..Len(e), i < j
                PROVE  Before(e[i], e[j])
    BY DEF Stack
  <2>0. i # j /\ i \in DOMAIN order /\ j \in DOMAIN order
    BY <1>2, <1>3, LenProperties
  <2>1. order[i] \in Children(n) /\ order[j] \in Children(n) /\ order[i] # order[j]
    BY <1>2, <2>0 DEF Range
  <2>2. Below(order[i]) \cap Below(order[j]) = {} /\ order[j] \in Below(order[j])
    BY <2>1, ChildrenApart, ChildBelow, BelowBelow DEF Children, Below
  <2>3. e[i] = <<op, order[i], to>> /\ e[j] = <<op, order[j], to>>
    BY <1>3
  <2>. QED
    BY <2>2, <2>3 DEF Before, Rank
<1>. QED
  BY <1>3, <1>4 DEF e

-----------------------------------------------------------------------------
(* The disk. *)

Content == {"absent", "folder", "legacy", "own", "torn"}
Disks == [Place -> [Node -> Content]]

(* Places are different. *)
LEMMA Places ==
  /\ "old" \in Place /\ "new" \in Place /\ Dirs \subseteq Place
  /\ "old" \notin Dirs /\ "new" \notin Dirs
  BY LayoutAssumption DEF Place

(* One thing is put at one place, or all below a node is moved to another place. *)
Put(place, n, v) ==
    /\ disk' \in Disks
    /\ \A q \in Place, m \in Node : disk'[q][m] = IF q = place /\ m = n THEN v ELSE disk[q][m]
Shift(n, to) ==
    /\ disk' \in Disks
    /\ \A m \in Below(n) : disk'["old"][m] = "absent" /\ disk'[to][m] = disk["old"][m]
    /\ \A q \in Place, m \in Node :
          m \notin Below(n) \/ q \notin {"old", to} => disk'[q][m] = disk[q][m]

(* An update of the disk at one node is what Put says. *)
LEMMA PutOne ==
  ASSUME disk \in Disks, NEW place \in Place, NEW n \in Node, NEW v \in Content,
         disk' = [disk EXCEPT ![place][n] = v]
  PROVE  Put(place, n, v)
  BY DEF Put, Disks

(* The removal of one node of the old layout. *)
LEMMA PutOld ==
  ASSUME TypeOK, NEW n \in Node, disk' = [disk EXCEPT !["old"][n] = "absent"]
  PROVE  Put("old", n, "absent")
<1>1. disk \in Disks /\ "absent" \in Content /\ "old" \in Place
  BY Places DEF TypeOK, Disks, Content
<1>. QED
  BY <1>1, PutOne

(* All below a node is moved. *)
LEMMA Moves ==
  ASSUME disk \in Disks, NEW to \in Place, to # "old", NEW n \in Node, disk' = Moved(n, to)
  PROVE  Shift(n, to)
<1>. DEFINE A == [m \in Node |-> IF m \in Below(n) THEN "absent" ELSE disk["old"][m]]
            B == [m \in Node |-> IF m \in Below(n) THEN disk["old"][m] ELSE disk[to][m]]
<1>1. disk \in [Place -> [Node -> Content]] /\ "old" \in Place
  BY Places DEF Disks
<1>2. A \in [Node -> Content] /\ B \in [Node -> Content]
  BY <1>1 DEF Content
<1>3. disk' = [disk EXCEPT !["old"] = A, ![to] = B]
  BY <1>1 DEF Moved
<1>. HIDE DEF A, B
<1>4. /\ disk' \in [Place -> [Node -> Content]] /\ disk'["old"] = A /\ disk'[to] = B
      /\ \A q \in Place : q \notin {"old", to} => disk'[q] = disk[q]
  BY <1>1, <1>2, <1>3
<1>5. Below(n) \subseteq Node
  BY BelowChildren
<1>. QED
  BY <1>4, <1>5 DEF A, B, Disks, Shift

-----------------------------------------------------------------------------
(* The items of a migration one by one: what becomes of the disk, and what is
   put on the stack. *)

Same == UNCHANGED <<disk, failing>>
Items(op, S, to) == {<<op, m, to>> : m \in S}

(* The steps on items. *)
Visits(p, n) ==
    /\ Same
    /\ \/ /\ Steps(p, <<"visit", n, "new">>, {})
          /\ There("old", n) => There("new", n) /\ n \notin Dirs
       \/ /\ Steps(p, <<"visit", n, "new">>, Items("move", {n}, "new"))
          /\ ~There("new", n) /\ (n \in Range(Roots) => There("old", n))
       \/ /\ Steps(p, <<"visit", n, "new">>, Items("list", {n}, "new"))
          /\ There("new", n) /\ There("old", n) /\ n \in Dirs
Lists(p, n) ==
    /\ Same /\ There("old", n)
    /\ Steps(p, <<"list", n, "new">>,
             Items("visit", Listing(n), "new") \cup {<<"rmdir", n, "new">>})
Prunes(p, n) ==
    /\ UNCHANGED failing
    /\ Steps(p, <<"rmdir", n, "new">>, {})
    /\ (Listing(n) = {} /\ Put("old", n, "absent")) \/ UNCHANGED disk
Hauls(p, n) ==
    /\ across /\ There("old", n)
    /\ UNCHANGED disk /\ failing' = [failing EXCEPT ![p] = FALSE]
    /\ Steps(p, <<"move", n, "new">>,
             Items("copy", {n}, Goal(n)) \cup Items("purge", {n}, Goal(n)))
Renames(p, n) ==
    /\ ~across /\ There("old", n) /\ UNCHANGED failing
    /\ Shift(n, Goal(n)) /\ Steps(p, <<"move", n, "new">>, {})
Errs(p, n, to) ==
    /\ ~There("old", n) \/ (n \in Dirs /\ There(to, n))
    /\ UNCHANGED disk /\ failing' = [failing EXCEPT ![p] = TRUE]
    /\ Steps(p, <<"copy", n, to>>, {})
Copies(p, n, to) ==
    /\ There("old", n) /\ UNCHANGED failing
    /\ \/ /\ n \in Dirs /\ Put(to, n, "folder")
          /\ Steps(p, <<"copy", n, to>>, Items("copy", Listing(n), to))
       \/ /\ n \notin Dirs /\ Put(to, n, "torn")
          /\ Steps(p, <<"copy", n, to>>, Items("fill", {n}, to))
Fills(p, n, to) ==
    /\ UNCHANGED failing
    /\ Steps(p, <<"fill", n, to>>, {})
    /\ \/ There(to, n) /\ Put(to, n, "legacy")
       \/ ~There(to, n) /\ UNCHANGED disk
Purges(p, n, to) ==
    /\ There("old", n) /\ ~failing[p] /\ UNCHANGED failing
    /\ \/ /\ Listing(n) = {} /\ Put("old", n, "absent")
          /\ Steps(p, <<"purge", n, to>>, {})
       \/ /\ UNCHANGED disk
          /\ Steps(p, <<"purge", n, to>>, Items("purge", Listing(n), to) \cup {<<"purge", n, to>>})

(* A look at a node ends in a move, in a listing or in nothing. *)
LEMMA Decides ==
  ASSUME NEW n \in Node
  PROVE  \/ /\ Decision(n) = <<>>
            /\ There("old", n) => There("new", n) /\ n \notin Dirs
         \/ /\ Decision(n) = <<<<"move", n, "new">>>>
            /\ ~There("new", n) /\ (n \in Range(Roots) => There("old", n))
         \/ /\ Decision(n) = <<<<"list", n, "new">>>>
            /\ There("new", n) /\ There("old", n) /\ n \in Dirs
  BY DEF Decision

(* The look at a node (_merge_directory_contents). *)
LEMMA VisitSteps ==
  ASSUME Work, Placed, NEW p \in Proc, NEW n \in Node, Visit(p, n)
  PROVE  Visits(p, n)
<1>1. Doing(p, "visit", n, "new") /\ Goes(p, Decision(n)) /\ Same /\ Stack(work[p])
  BY DEF Visit, Same, Placed
<1>2. <<"move", n, "new">> \in Item /\ <<"list", n, "new">> \in Item
  BY DEF Item, Op, Place
<1>3. n \in Below(n)
  BY BelowChildren
<1>4. \A y \in Rest(p) : Before(<<"visit", n, "new">>, y) =>
         Before(<<"move", n, "new">>, y) /\ Before(<<"list", n, "new">>, y)
  BY <1>3, Inherits DEF Rank
<1>5. CASE Decision(n) = <<>> /\ (There("old", n) => There("new", n) /\ n \notin Dirs)
  <2>1. Goes(p, <<>>) /\ <<>> \in Seq(Item) /\ Range(<<>>) = {} /\ Stack(<<>>)
    BY <1>1, <1>2, <1>5, FewItems
  <2>2. Steps(p, <<"visit", n, "new">>, {})
    BY <1>1, <2>1, ItemSteps
  <2>. QED
    BY <1>1, <1>5, <2>2 DEF Visits
<1>6. CASE /\ Decision(n) = <<<<"move", n, "new">>>>
           /\ ~There("new", n) /\ (n \in Range(Roots) => There("old", n))
  <2>. DEFINE x == <<"move", n, "new">>
  <2>1. Goes(p, <<x>>) /\ <<x>> \in Seq(Item) /\ Range(<<x>>) = {x} /\ Stack(<<x>>)
    BY <1>1, <1>2, <1>6, FewItems
  <2>2. \A z \in Range(<<x>>), y \in Rest(p) : Before(<<"visit", n, "new">>, y) => Before(z, y)
    BY <1>4, <2>1
  <2>3. Steps(p, <<"visit", n, "new">>, Range(<<x>>))
    BY <1>1, <2>1, <2>2, ItemSteps
  <2>4. Range(<<x>>) = Items("move", {n}, "new")
    BY <2>1 DEF Items
  <2>. QED
    BY <1>1, <1>6, <2>3, <2>4 DEF Visits
<1>7. CASE /\ Decision(n) = <<<<"list", n, "new">>>>
           /\ There("new", n) /\ There("old", n) /\ n \in Dirs
  <2>. DEFINE x == <<"list", n, "new">>
  <2>1. Goes(p, <<x>>) /\ <<x>> \in Seq(Item) /\ Range(<<x>>) = {x} /\ Stack(<<x>>)
    BY <1>1, <1>2, <1>7, FewItems
  <2>2. \A z \in Range(<<x>>), y \in Rest(p) : Before(<<"visit", n, "new">>, y) => Before(z, y)
    BY <1>4, <2>1
  <2>3. Steps(p, <<"visit", n, "new">>, Range(<<x>>))
    BY <1>1, <2>1, <2>2, ItemSteps
  <2>4. Range(<<x>>) = Items("list", {n}, "new")
    BY <2>1 DEF Items
  <2>. QED
    BY <1>1, <1>7, <2>3, <2>4 DEF Visits
<1>. QED
  BY <1>5, <1>6, <1>7, Decides

(* The listing of a folder, unless it has vanished. *)
LEMMA ListSteps ==
  ASSUME Work, Placed, NEW p \in Proc, NEW n \in Node, List(p, n)
  PROVE  Raise(p) \/ Lists(p, n)
<1>1. Doing(p, "list", n, "new") /\ Stack(work[p])
  BY DEF List, Placed
<1>2. CASE ~There("old", n) /\ Raise(p)
  BY <1>2
<1>3. ASSUME There("old", n), Same, NEW order \in SetToSeqs(Listing(n)),
             Goes(p, Each("visit", order, "new") \o <<<<"rmdir", n, "new">>>>)
      PROVE  Steps(p, <<"list", n, "new">>,
                     Items("visit", Listing(n), "new") \cup {<<"rmdir", n, "new">>})
  <2>. DEFINE x == <<"rmdir", n, "new">>
              e == Each("visit", order, "new")
              next == e \o <<x>>
  <2>1. x \in Item /\ "new" \in Place /\ Listing(n) \in SUBSET Children(n)
    BY BelowChildren DEF Item, Op, Place
  <2>2. e \in Seq(Item) /\ Stack(e) /\ Range(e) = Items("visit", Listing(n), "new")
    BY <1>3, <2>1, EachStack DEF Items
  <2>. HIDE DEF e
  <2>3. \A y \in Range(e) : Before(y, x)
    BY <2>2 DEF Items, Before, Rank
  <2>4. /\ next \in Seq(Item) /\ Stack(next)
        /\ Range(next) = Items("visit", Listing(n), "new") \cup {x}
    BY <2>1, <2>2, <2>3, OneMore
  <2>5. ASSUME NEW y \in Rest(p), Before(<<"list", n, "new">>, y), NEW z \in Range(next)
        PROVE  Before(z, y)
    <3>1. CASE z = x
      BY <2>5, <3>1, BelowChildren, Inherits DEF Rank
    <3>2. ASSUME NEW m \in Listing(n), z = <<"visit", m, "new">> PROVE Before(z, y)
      <4>1. m \in Below(n)
        BY <2>1, <3>2, ChildBelow
      <4>. QED
        BY <2>5, <3>2, <4>1, Inherits DEF Rank
    <3>. QED
      BY <2>4, <2>5, <3>1, <3>2 DEF Items
  <2>6. Goes(p, next)
    BY <1>3 DEF e
  <2>. HIDE DEF next
  <2>7. PICK v : v = next
    OBVIOUS
  <2>8. Steps(p, <<"list", n, "new">>, Range(v))
    BY <1>1, <2>4, <2>5, <2>6, <2>7, ItemSteps
  <2>. QED
    BY <2>4, <2>7, <2>8
<1>. QED
  BY <1>2, <1>3 DEF List, Same, Lists

(* A step that puts nothing back. *)
LEMMA DropSteps ==
  ASSUME Work, Placed, NEW p \in Proc, NEW op, NEW n, NEW to, Doing(p, op, n, to), Goes(p, <<>>)
  PROVE  Steps(p, <<op, n, to>>, {}) /\ op \in Op /\ n \in Node /\ to \in Place
<1>1. <<>> \in Seq(Item) /\ Range(<<>>) = {} /\ Stack(<<>>) /\ Stack(work[p])
  BY DEF Range, Stack, Placed
<1>2. Steps(p, <<op, n, to>>, Range(<<>>)) /\ op \in Op /\ n \in Node /\ to \in Place
  BY <1>1, ItemSteps
<1>. QED
  BY <1>1, <1>2

(* The rmdir of a folder, which may not be empty. *)
LEMMA RmdirSteps ==
  ASSUME TypeOK, Work, Placed, NEW p \in Proc, NEW n \in Node, Rmdir(p, n)
  PROVE  Prunes(p, n)
<1>1. /\ Steps(p, <<"rmdir", n, "new">>, {}) /\ UNCHANGED failing
      /\ disk' = IF Listing(n) = {} THEN [disk EXCEPT !["old"][n] = "absent"] ELSE disk
  BY DropSteps DEF Rmdir
<1>2. CASE Listing(n) = {}
  BY <1>1, <1>2, PutOld DEF Prunes
<1>3. CASE Listing(n) # {}
  BY <1>1, <1>3 DEF Prunes
<1>. QED
  BY <1>2, <1>3

(* shutil.move, as a rename or as the beginning of a copy. *)
LEMMA MoveSteps ==
  ASSUME TypeOK, Work, Placed, NEW p \in Proc, NEW n \in Node, Move(p, n)
  PROVE  Raise(p) \/ Hauls(p, n) \/ Renames(p, n)
<1>1. Doing(p, "move", n, "new") /\ Stack(work[p])
  BY DEF Move, Placed
<1>2. PICK to : to = Goal(n)
  OBVIOUS
<1>3. CASE /\ There("old", n) /\ across /\ UNCHANGED disk /\ failing' = [failing EXCEPT ![p] = FALSE]
           /\ Goes(p, <<<<"copy", n, to>>, <<"purge", n, to>>>>)
  <2>. DEFINE x == <<"copy", n, to>>
              y == <<"purge", n, to>>
  <2>1. x \in Item /\ y \in Item
    BY <1>2 DEF Item, Op, Place, Goal
  <2>2. Before(x, y)
    BY DEF Before, Rank
  <2>3. <<x, y>> \in Seq(Item) /\ Range(<<x, y>>) = {x, y} /\ Stack(<<x, y>>)
    BY <2>1, <2>2, FewItems
  <2>4. ASSUME NEW w \in Rest(p), Before(<<"move", n, "new">>, w)
        PROVE  Before(x, w) /\ Before(y, w)
    <3>1. n \in Below(n) /\ w[1] # "purge"
      BY <2>4, BelowChildren DEF Before, Rank
    <3>. QED
      BY <2>4, <3>1, Inherits DEF Rank
  <2>5. \A z \in Range(<<x, y>>), w \in Rest(p) : Before(<<"move", n, "new">>, w) => Before(z, w)
    BY <2>3, <2>4
  <2>6. Steps(p, <<"move", n, "new">>, Range(<<x, y>>))
    BY <1>1, <1>3, <2>3, <2>5, ItemSteps
  <2>7. Range(<<x, y>>) = Items("copy", {n}, Goal(n)) \cup Items("purge", {n}, Goal(n))
    BY <1>2, <2>3 DEF Items
  <2>. QED
    BY <1>3, <2>6, <2>7 DEF Hauls
<1>4. CASE There("old", n) /\ ~across /\ UNCHANGED failing /\ disk' = Moved(n, to) /\ Goes(p, <<>>)
  <2>1. Steps(p, <<"move", n, "new">>, {})
    BY <1>1, <1>4, DropSteps
  <2>2. disk \in Disks /\ Goal(n) \in Place /\ Goal(n) # "old"
    BY Places DEF Goal, TypeOK, Disks, Content
  <2>3. Shift(n, Goal(n))
    BY <1>2, <1>4, <2>2, Moves
  <2>. QED
    BY <1>4, <2>1, <2>3 DEF Renames
<1>. QED
  BY <1>2, <1>3, <1>4 DEF Move

(* A step that puts an item of one kind for each thing in a folder, and perhaps
   the item itself again after them. *)
LEMMA ListingSteps ==
  ASSUME Work, Placed, NEW p \in Proc, NEW n \in Node, NEW to \in Place,
         NEW op \in {"copy", "purge"}, Doing(p, op, n, to),
         NEW order \in SetToSeqs(Listing(n))
  PROVE  /\ Goes(p, Each(op, order, to)) => Steps(p, <<op, n, to>>, Items(op, Listing(n), to))
         /\ op = "purge" /\ Goes(p, Each(op, order, to) \o <<<<op, n, to>>>>) =>
              Steps(p, <<op, n, to>>, Items(op, Listing(n), to) \cup {<<op, n, to>>})
<1>. DEFINE x == <<op, n, to>>
            e == Each(op, order, to)
            next == e \o <<x>>
<1>1. x \in Item /\ Listing(n) \in SUBSET Children(n) /\ Stack(work[p])
  BY BelowChildren DEF Item, Op, Placed
<1>2. e \in Seq(Item) /\ Stack(e) /\ Range(e) = Items(op, Listing(n), to)
  BY <1>1, EachStack DEF Items
<1>. HIDE DEF e
<1>3. ASSUME NEW y, Before(x, y), NEW z \in Range(e) PROVE Before(z, y)
  <2>1. PICK m \in Listing(n) : z = <<op, m, to>>
    BY <1>2, <1>3 DEF Items
  <2>2. m \in Below(n)
    BY <1>1, <2>1, ChildBelow
  <2>3. Rank(op) <= Rank(op)
    BY DEF Rank
  <2>. QED
    BY <1>3, <2>1, <2>2, <2>3, Inherits
<1>4. PICK v : v = e
  OBVIOUS
<1>5. ASSUME Goes(p, e) PROVE Steps(p, x, Items(op, Listing(n), to))
  <2>1. Steps(p, x, Range(v))
    BY <1>1, <1>2, <1>3, <1>4, <1>5, ItemSteps
  <2>. QED
    BY <1>2, <1>4, <2>1
<1>6. ASSUME op = "purge", Goes(p, next)
      PROVE  Steps(p, x, Items(op, Listing(n), to) \cup {x})
  <2>1. \A y \in Range(e) : Before(y, x)
    <3>1. SUFFICES ASSUME NEW m \in Listing(n) PROVE Before(<<op, m, to>>, x)
      BY <1>2 DEF Items
    <3>2. n \notin Below(m)
      BY <1>1, <3>1, ChildBelow
    <3>. QED
      BY <1>6, <3>2 DEF Before, Rank
  <2>2. next \in Seq(Item) /\ Stack(next) /\ Range(next) = Range(e) \cup {x}
    BY <1>1, <1>2, <2>1, OneMore
  <2>. HIDE DEF next
  <2>3. PICK w : w = next
    OBVIOUS
  <2>4. \A z \in Range(w), y \in Rest(p) : Before(x, y) => Before(z, y)
    BY <1>3, <2>2, <2>3
  <2>5. Steps(p, x, Range(w))
    BY <1>1, <1>6, <2>2, <2>3, <2>4, ItemSteps
  <2>6. Range(w) = Items(op, Listing(n), to) \cup {x}
    BY <1>2, <2>2, <2>3
  <2>. QED
    BY <2>5, <2>6
<1>. QED
  BY <1>5, <1>6 DEF e

(* The copy of a node, or the error that copytree remembers. *)
LEMMA CopySteps ==
  ASSUME TypeOK, Work, Placed, NEW p \in Proc, NEW n \in Node, NEW to \in Place, Copy(p, n, to)
  PROVE  Errs(p, n, to) \/ Copies(p, n, to)
<1>0. disk \in Disks /\ {"folder", "torn"} \subseteq Content
  BY DEF TypeOK, Disks, Content
<1>1. Doing(p, "copy", n, to) /\ Stack(work[p])
  BY DEF Copy, Placed
<1>2. CASE /\ ~There("old", n) \/ (n \in Dirs /\ There(to, n))
           /\ failing' = [failing EXCEPT ![p] = TRUE] /\ Goes(p, <<>>) /\ UNCHANGED disk
  BY <1>1, <1>2, DropSteps DEF Errs
<1>3. CASE /\ There("old", n) /\ n \in Dirs /\ ~There(to, n) /\ UNCHANGED failing
           /\ disk' = [disk EXCEPT ![to][n] = "folder"]
           /\ \E order \in SetToSeqs(Listing(n)) : Goes(p, Each("copy", order, to))
  <2>1. Put(to, n, "folder")
    BY <1>0, <1>3, PutOne
  <2>2. Steps(p, <<"copy", n, to>>, Items("copy", Listing(n), to))
    BY <1>1, <1>3, ListingSteps
  <2>. QED
    BY <1>3, <2>1, <2>2 DEF Copies
<1>4. CASE /\ There("old", n) /\ n \notin Dirs /\ UNCHANGED failing
           /\ disk' = [disk EXCEPT ![to][n] = "torn"] /\ Goes(p, <<<<"fill", n, to>>>>)
  <2>. DEFINE x == <<"fill", n, to>>
  <2>1. x \in Item /\ n \in Below(n)
    BY BelowChildren DEF Item, Op
  <2>2. <<x>> \in Seq(Item) /\ Range(<<x>>) = {x} /\ Stack(<<x>>)
    BY <2>1, FewItems
  <2>3. \A z \in Range(<<x>>), y \in Rest(p) : Before(<<"copy", n, to>>, y) => Before(z, y)
    BY <2>1, <2>2, Inherits DEF Rank
  <2>4. Steps(p, <<"copy", n, to>>, Range(<<x>>))
    BY <1>1, <1>4, <2>2, <2>3, ItemSteps
  <2>5. Range(<<x>>) = Items("fill", {n}, to)
    BY <2>2 DEF Items
  <2>6. Put(to, n, "torn")
    BY <1>0, <1>4, PutOne
  <2>. QED
    BY <1>4, <2>4, <2>5, <2>6 DEF Copies
<1>. QED
  BY <1>2, <1>3, <1>4 DEF Copy

(* The contents of a copied file. *)
LEMMA FillSteps ==
  ASSUME TypeOK, Work, Placed, NEW p \in Proc, NEW n \in Node, NEW to \in Place, Fill(p, n, to)
  PROVE  Fills(p, n, to)
<1>1. /\ Steps(p, <<"fill", n, to>>, {}) /\ UNCHANGED failing
      /\ disk' = IF There(to, n) THEN [disk EXCEPT ![to][n] = "legacy"] ELSE disk
  BY DropSteps DEF Fill
<1>2. CASE There(to, n)
  <2>1. disk \in Disks /\ "legacy" \in Content
    BY DEF TypeOK, Disks, Content
  <2>2. disk' = [disk EXCEPT ![to][n] = "legacy"]
    BY <1>1, <1>2
  <2>3. Put(to, n, "legacy")
    BY <2>1, <2>2, PutOne
  <2>. QED
    BY <1>1, <1>2, <2>3 DEF Fills
<1>3. CASE ~There(to, n)
  BY <1>1, <1>3 DEF Fills
<1>. QED
  BY <1>2, <1>3

(* The removal of the source after a copy, unless it raises. *)
LEMMA PurgeSteps ==
  ASSUME TypeOK, Work, Placed, NEW p \in Proc, NEW n \in Node, NEW to \in Place, Purge(p, n, to)
  PROVE  Raise(p) \/ Purges(p, n, to)
<1>1. Doing(p, "purge", n, to)
  BY DEF Purge
<1>2. CASE /\ There("old", n) /\ ~failing[p] /\ UNCHANGED failing /\ Listing(n) = {}
           /\ disk' = [disk EXCEPT !["old"][n] = "absent"] /\ Goes(p, <<>>)
  BY <1>1, <1>2, DropSteps, PutOld DEF Purges
<1>3. CASE /\ There("old", n) /\ ~failing[p] /\ UNCHANGED failing /\ Listing(n) # {}
           /\ UNCHANGED disk
           /\ \E order \in SetToSeqs(Listing(n)) :
                 Goes(p, Each("purge", order, to) \o <<<<"purge", n, to>>>>)
  BY <1>1, <1>3, ListingSteps DEF Purges
<1>. QED
  BY <1>2, <1>3 DEF Purge

-----------------------------------------------------------------------------
(* The steps of a command. *)

(* Where the scripts call what. *)
LEMMA Scripts ==
  ASSUME NEW t \in Task, NEW i \in 1..Len(Script(t))
  PROVE  /\ Script(t)[i] = "migrate" => i \in {1, 3, 5}
         /\ Script(t)[i] = "lock" => t # "look" /\ i = 2
         /\ Script(t)[i] = "mkdir" => t = "save" /\ i = 4
         /\ Script(t)[i] = "open" => t = "save" /\ i = 6
         /\ Script(t)[i] = "write" => t = "save" /\ i = 7
         /\ Script(t)[i] = "unlink" => t = "forget" /\ i = 4
<1>1. CASE t = "look"
  <2>1. Script(t) = <<"migrate">>
    BY <1>1 DEF Script
  <2>2. i = 1
    BY <2>1
  <2>. QED
    BY <2>1, <2>2
<1>2. CASE t = "save"
  <2>1. Script(t) = <<"migrate", "lock", "migrate", "mkdir", "migrate", "open", "write">>
    BY <1>2 DEF Script
  <2>2. i \in {1, 2, 3, 4, 5, 6, 7}
    BY <2>1
  <2>. QED
    BY <1>2, <2>1, <2>2
<1>3. CASE t = "forget"
  <2>1. Script(t) = <<"migrate", "lock", "migrate", "unlink">>
    BY <1>3 DEF Script
  <2>2. i \in {1, 2, 3, 4}
    BY <2>1
  <2>. QED
    BY <1>3, <2>1, <2>2
<1>. QED
  BY <1>1, <1>2, <1>3 DEF Task

(* How many calls each script has. *)
LEMMA Lengths ==
  ASSUME NEW t \in Task
  PROVE  Len(Script(t)) = IF t = "look" THEN 1 ELSE IF t = "save" THEN 7 ELSE 4
<1>1. t = "look" => Script(t) = <<"migrate">>
  BY DEF Script
<1>2. t = "save" => Script(t) = <<"migrate", "lock", "migrate", "mkdir", "migrate", "open", "write">>
  BY DEF Script
<1>3. t = "forget" => Script(t) = <<"migrate", "lock", "migrate", "unlink">>
  BY DEF Script
<1>. QED
  BY <1>1, <1>2, <1>3 DEF Task

(* What a command is at when it makes one of its calls. *)
LEMMA CallsOf ==
  ASSUME TypeOK, Work, NEW p \in Proc, NEW step, Calls(p, step)
  PROVE  /\ at[p] = "running" /\ work[p] = <<>> /\ Todo(p) = {}
         /\ task[p] \in Task /\ pc[p] \in Nat /\ pc[p] + 1 \in 1..(Len(Script(task[p])) + 1)
         /\ step = "migrate" => pc[p] \in {1, 3, 5}
         /\ step = "lock" => task[p] # "look" /\ pc[p] = 2
         /\ step = "mkdir" => task[p] = "save" /\ pc[p] = 4 /\ lock = p
         /\ step = "open" => task[p] = "save" /\ pc[p] = 6 /\ lock = p
         /\ step = "write" => task[p] = "save" /\ pc[p] = 7 /\ lock = p
         /\ step = "unlink" => task[p] = "forget" /\ pc[p] = 4 /\ lock = p
<1>1. /\ at[p] = "running" /\ work[p] = <<>> /\ task[p] \in Task
      /\ pc[p] <= Len(Script(task[p])) /\ pc[p] \in 1..(Len(Script(task[p])) + 1)
      /\ Script(task[p])[pc[p]] = step
  BY DEF Calls, TypeOK
<1>2. Len(Script(task[p])) \in Nat
  BY <1>1, Lengths
<1>3. pc[p] \in 1..Len(Script(task[p])) /\ pc[p] \in Nat
  BY <1>1, <1>2
<1>4. Todo(p) = {}
  BY <1>1 DEF Todo, Range
<1>5. lock = p <=> task[p] # "look" /\ pc[p] >= 3
  BY <1>1 DEF Work
<1>. QED
  BY <1>1, <1>2, <1>3, <1>4, <1>5, Scripts

(* A migration begins with a look at each root. *)
LEMMA MigrateSteps ==
  ASSUME TypeOK, Work, NEW p \in Proc, Migrate(p)
  PROVE  /\ at[p] = "running" /\ work[p] = <<>> /\ pc[p] \in {1, 3, 5} /\ Advance(p)
         /\ UNCHANGED <<disk, lock>>
         /\ work' \in [Proc -> Seq(Item)] /\ \A q \in Proc : q # p => work'[q] = work[q]
         /\ Stack(work'[p]) /\ Todo(p)' = Items("visit", Range(Roots), "new")
<1>. DEFINE e == Each("visit", Roots, "new")
<1>1. /\ e \in Seq(Item) /\ Len(e) = Len(Roots) /\ DOMAIN Roots = 1..Len(Roots)
      /\ \A i \in 1..Len(Roots) : e[i] = <<"visit", Roots[i], "new">>
      /\ Range(e) = Items("visit", Range(Roots), "new")
  BY RootsAssumption, EachItem DEF Op, Place, Items
<1>2. Calls(p, "migrate") /\ work' = [work EXCEPT ![p] = e] /\ Advance(p) /\ UNCHANGED <<disk, lock>>
  BY DEF Migrate
<1>. HIDE DEF e
<1>3. Stack(e)
  <2>. SUFFICES ASSUME NEW i \in 1..Len(e), NEW j \in 1..Len(e), i < j
                PROVE  Before(e[i], e[j])
    BY DEF Stack
  <2>1. i # j /\ i \in DOMAIN Roots /\ j \in DOMAIN Roots
    BY <1>1, RootsAssumption, LenProperties
  <2>2. Roots[i] \in Range(Roots) /\ Roots[j] \in Range(Roots) /\ Roots[i] # Roots[j]
    BY <2>1, RootsAssumption DEF Range
  <2>3. Below(Roots[i]) \cap Below(Roots[j]) = {}
    BY <2>2, RootsApart
  <2>4. e[i] = <<"visit", Roots[i], "new">> /\ e[j] = <<"visit", Roots[j], "new">>
    BY <1>1
  <2>. QED
    BY <2>3, <2>4 DEF Before, Rank
<1>4. work' \in [Proc -> Seq(Item)] /\ work'[p] = e /\ \A q \in Proc : q # p => work'[q] = work[q]
  BY <1>1, <1>2 DEF Work
<1>. QED
  BY <1>1, <1>2, <1>3, <1>4, CallsOf DEF Todo

(* The end of a command, whatever ends it. *)
Ends(p, how) ==
    /\ at[p] = "running" /\ Over(p, how) /\ UNCHANGED disk
    /\ how \in {"failed", "refused", "done", "dead"}
    /\ how = "done" => work[p] = <<>> /\ pc[p] = Len(Script(task[p])) + 1
    /\ how = "refused" => work[p] = <<>>
    /\ how = "dead" => "crash" \in Faults

(* The actions that end a command are ends in the sense of Ends. *)
LEMMA EndSteps ==
  ASSUME TypeOK, Work, NEW p \in Proc
  PROVE  /\ at[p] = "running" /\ Raise(p) => Ends(p, "failed")
         /\ Finish(p) => Ends(p, "done")
         /\ Crash(p) => Ends(p, "dead")
         /\ Lock(p) => Ends(p, "refused") \/
               /\ Calls(p, "lock") /\ lock = None /\ lock' = p /\ Advance(p)
               /\ UNCHANGED <<disk, work>>
<1>1. task[p] \in Task /\ pc[p] \in 1..(Len(Script(task[p])) + 1)
  BY DEF TypeOK
<1>2. Len(Script(task[p])) \in Nat
  BY <1>1, Lengths
<1>. QED
  BY <1>1, <1>2 DEF Ends, Raise, Finish, Crash, Lock, Calls

-----------------------------------------------------------------------------
Takes(p) ==
    /\ Calls(p, "lock") /\ lock = None /\ lock' = p /\ Advance(p) /\ UNCHANGED <<disk, work>>

(* Every step is one of these. *)
LEMMA Kinds ==
  ASSUME TypeOK, Work, Placed, Next
  PROVE  \E p \in Proc :
           \/ Start(p) \/ Migrate(p) \/ Takes(p) \/ Mkdir(p) \/ Save(p) \/ Unlink(p)
           \/ \E how : Ends(p, how)
           \/ \E n \in Node :
                 \/ Visits(p, n) \/ Lists(p, n) \/ Prunes(p, n) \/ Hauls(p, n) \/ Renames(p, n)
                 \/ \E to \in Place :
                       Errs(p, n, to) \/ Copies(p, n, to) \/ Fills(p, n, to) \/ Purges(p, n, to)
<1>. DEFINE Kind(p) ==
           \/ Start(p) \/ Migrate(p) \/ Takes(p) \/ Mkdir(p) \/ Save(p) \/ Unlink(p)
           \/ \E how : Ends(p, how)
           \/ \E n \in Node :
                 \/ Visits(p, n) \/ Lists(p, n) \/ Prunes(p, n) \/ Hauls(p, n) \/ Renames(p, n)
                 \/ \E to \in Place :
                       Errs(p, n, to) \/ Copies(p, n, to) \/ Fills(p, n, to) \/ Purges(p, n, to)
<1>1. ASSUME NEW p \in Proc, Lock(p) PROVE Kind(p)
  BY <1>1, EndSteps DEF Takes
<1>2. ASSUME NEW p \in Proc, Finish(p) \/ Crash(p) PROVE Kind(p)
  <2>1. at[p] = "running"
    BY <1>2 DEF Finish, Crash
  <2>. QED
    BY <1>2, <2>1, EndSteps
<1>3. ASSUME NEW p \in Proc, at[p] = "running", Raise(p) PROVE Kind(p)
  BY <1>3, EndSteps
<1>4. ASSUME NEW p \in Proc, NEW n \in Node, Visit(p, n) \/ List(p, n) \/ Rmdir(p, n) \/ Move(p, n)
      PROVE  Kind(p)
  <2>1. CASE Raise(p)
    BY <1>3, <1>4, <2>1 DEF Visit, List, Rmdir, Move, Doing
  <2>2. Raise(p) \/ Visits(p, n) \/ Lists(p, n) \/ Prunes(p, n) \/ Hauls(p, n) \/ Renames(p, n)
    BY <1>4, VisitSteps, ListSteps, RmdirSteps, MoveSteps
  <2>. QED
    BY <2>1, <2>2
<1>5. ASSUME NEW p \in Proc, NEW n \in Node, NEW to \in Place,
             Copy(p, n, to) \/ Fill(p, n, to) \/ Purge(p, n, to)
      PROVE  Kind(p)
  <2>1. CASE Raise(p)
    BY <1>3, <1>5, <2>1 DEF Copy, Fill, Purge, Doing
  <2>2. Raise(p) \/ Errs(p, n, to) \/ Copies(p, n, to) \/ Fills(p, n, to) \/ Purges(p, n, to)
    BY <1>5, CopySteps, FillSteps, PurgeSteps
  <2>. QED
    BY <2>1, <2>2
<1>6. ASSUME NEW p \in Proc, Start(p) \/ Migrate(p) \/ Mkdir(p) \/ Save(p) \/ Unlink(p) PROVE Kind(p)
  BY <1>6
<1>. HIDE DEF Kind
<1>7. \E p \in Proc : Kind(p)
  BY <1>1, <1>2, <1>4, <1>5, <1>6 DEF Next
<1>. QED
  BY <1>7 DEF Kind

-----------------------------------------------------------------------------
(* Types, and the work of processes that are at work. *)

FoldersOnly(d) == \A place \in Place, n \in Node : d[place][n] = "folder" => n \in Dirs

(* A step on an item keeps the types and the state of the work. *)
LEMMA ItemTypes ==
  ASSUME TypeOK, Work, NEW p \in Proc, NEW x, NEW new, Steps(p, x, new),
         disk' \in Disks, FoldersOnly(disk)', failing' \in [Proc -> BOOLEAN],
         \A q \in Proc : q # p => failing'[q] = failing[q]
  PROVE  TypeOK' /\ Work'
<1>1. /\ at[p] = "running" /\ UNCHANGED <<first, across, lock, task, at, pc, alone>>
      /\ work' \in [Proc -> Seq(Item)] /\ \A q \in Proc : q # p => work'[q] = work[q]
  BY DEF Steps
<1>2. Running' = Running
  BY <1>1 DEF Running
<1>3. TypeOK'
  BY <1>1, <1>2 DEF TypeOK, Disks, Content, FoldersOnly
<1>4. Work'
  BY <1>1, <1>2 DEF Work
<1>. QED
  BY <1>3, <1>4

(* The end of a command keeps them. *)
LEMMA EndTypes ==
  ASSUME TypeOK, Work, NEW p \in Proc, NEW how, Ends(p, how)
  PROVE  TypeOK' /\ Work'
<1>1. /\ at[p] = "running" /\ at' = [at EXCEPT ![p] = how] /\ lock' = IF lock = p THEN None ELSE lock
      /\ work' = [work EXCEPT ![p] = <<>>] /\ how \in {"failed", "refused", "done", "dead"}
      /\ UNCHANGED <<disk, first, across, task, pc, failing, alone>>
      /\ how = "done" => pc[p] = Len(Script(task[p])) + 1
  BY DEF Ends, Over
<1>2. at \in [Proc -> {"idle", "running", "done", "failed", "refused", "dead"}]
  BY DEF TypeOK
<1>3. at'[p] = how /\ \A q \in Proc : q # p => at'[q] = at[q]
  BY <1>1, <1>2
<1>4. Running' = Running \ {p}
  BY <1>1, <1>3 DEF Running
<1>5. TypeOK'
  <2>1. lock' \in Running' \cup {None}
    BY <1>1, <1>4 DEF TypeOK
  <2>2. at' \in [Proc -> {"idle", "running", "done", "failed", "refused", "dead"}]
    BY <1>1, <1>2
  <2>. QED
    BY <1>1, <2>1, <2>2 DEF TypeOK
<1>6. work' \in [Proc -> Seq(Item)] /\ work'[p] = <<>> /\ \A q \in Proc : q # p => work'[q] = work[q]
  BY <1>1 DEF Work
<1>7. \A q \in Proc : at'[q] = "running" => q # p /\ at[q] = "running"
  BY <1>1, <1>3
<1>8. \A q \in Proc : at'[q] = "running" => (lock' = q <=> task'[q] # "look" /\ pc'[q] >= 3)
  BY <1>1, <1>7, StartAssumption DEF Work
<1>9. \A q \in Proc : at'[q] = "running" /\ alone'[q] => Running' = {q}
  <2>. SUFFICES ASSUME NEW q \in Proc, at'[q] = "running", alone'[q] PROVE FALSE
    OBVIOUS
  <2>1. Running = {q} /\ q # p
    BY <1>1, <1>7 DEF Work
  <2>. QED
    BY <1>1, <2>1 DEF Running
<1>10. \A q \in Proc : at'[q] # "running" => work'[q] = <<>>
  BY <1>3, <1>6 DEF Work
<1>11. \A q \in Proc : at'[q] = "idle" => alone'[q] /\ ~failing'[q] /\ pc'[q] = 1
  BY <1>1, <1>3 DEF Work
<1>12. \A q \in Proc : at'[q] = "done" => pc'[q] = Len(Script(task'[q])) + 1
  BY <1>1, <1>3 DEF Work
<1>. QED
  BY <1>1, <1>5, <1>6, <1>8, <1>9, <1>10, <1>11, <1>12 DEF Work

(* A call of a command keeps them, with the lock or without. *)
LEMMA CallTypes ==
  ASSUME TypeOK, Work, NEW p \in Proc, NEW step, Calls(p, step), Advance(p),
         disk' \in Disks, FoldersOnly(disk)', work' \in [Proc -> Seq(Item)],
         \A q \in Proc : q # p => work'[q] = work[q],
         \/ step = "lock" /\ lock = None /\ lock' = p
         \/ step # "lock" /\ UNCHANGED lock /\ (pc[p] = 2 => task[p] = "look")
  PROVE  TypeOK' /\ Work'
<1>1. /\ at[p] = "running" /\ UNCHANGED <<first, across, task, at, failing, alone>>
      /\ pc' = [pc EXCEPT ![p] = @ + 1] /\ task[p] \in Task
      /\ pc[p] \in Nat /\ pc[p] + 1 \in 1..(Len(Script(task[p])) + 1)
      /\ step = "lock" => task[p] # "look" /\ pc[p] = 2
  BY CallsOf DEF Advance
<1>2. Running' = Running /\ p \in Running
  BY <1>1 DEF Running
<1>3. /\ pc'[p] = pc[p] + 1 /\ \A q \in Proc : q # p => pc'[q] = pc[q]
      /\ pc' \in [Proc -> Nat]
  BY <1>1 DEF Work
<1>4. TypeOK'
  <2>1. lock' \in Running' \cup {None}
    BY <1>2 DEF TypeOK
  <2>2. \A q \in Proc : pc'[q] \in 1..(Len(Script(task'[q])) + 1)
    BY <1>1, <1>3 DEF TypeOK
  <2>. QED
    BY <1>1, <2>1, <2>2 DEF TypeOK, Disks, Content, FoldersOnly
<1>5. ASSUME NEW q \in Proc, at'[q] = "running"
      PROVE  lock' = q <=> task'[q] # "look" /\ pc'[q] >= 3
  <2>1. lock = q <=> task[q] # "look" /\ pc[q] >= 3
    BY <1>1, <1>5 DEF Work
  <2>2. CASE q = p
    BY <1>1, <1>3, <2>1, <2>2, StartAssumption
  <2>3. CASE q # p
    BY <1>1, <1>3, <2>1, <2>3, StartAssumption
  <2>. QED
    BY <2>2, <2>3
<1>6. \A q \in Proc : at'[q] = "done" => pc'[q] = Len(Script(task'[q])) + 1
  BY <1>1, <1>3 DEF Work
<1>. QED
  BY <1>1, <1>2, <1>4, <1>5, <1>6 DEF Work

(* No other call than that of the lock is the second of a save or a forget. *)
LEMMA SecondIsLock ==
  ASSUME TypeOK, NEW p \in Proc, NEW step, Calls(p, step), step # "lock", pc[p] = 2
  PROVE  task[p] = "look"
<1>1. task[p] \in Task /\ Script(task[p])[2] = step
  BY DEF Calls, TypeOK
<1>2. Script("save")[2] = "lock" /\ Script("forget")[2] = "lock"
  BY DEF Script
<1>. QED
  BY <1>1, <1>2 DEF Task

(* The start of a command keeps them, and makes nobody alone. *)
LEMMA StartTypes ==
  ASSUME TypeOK, Work, NEW p \in Proc, Start(p)
  PROVE  /\ TypeOK' /\ Work'
         /\ \A q \in Proc : alone'[q] => alone[q]
<1>1. /\ at[p] = "idle" /\ at' = [at EXCEPT ![p] = "running"]
      /\ alone' = [q \in Proc |-> IF q = p THEN Running = {} ELSE alone[q] /\ q \notin Running]
      /\ UNCHANGED <<first, across, disk, lock, task, pc, work, failing>>
  BY DEF Start
<1>2. at'[p] = "running" /\ \A q \in Proc : q # p => at'[q] = at[q]
  BY <1>1 DEF TypeOK
<1>3. Running' = Running \cup {p} /\ p \notin Running
  BY <1>1, <1>2 DEF Running
<1>4. alone' \in [Proc -> BOOLEAN]
  BY <1>1 DEF TypeOK
<1>5. TypeOK'
  BY <1>1, <1>3, <1>4 DEF TypeOK
<1>6. \A q \in Proc : alone'[q] => alone[q]
  BY <1>1 DEF Work
<1>7. \A q \in Proc : at'[q] = "running" /\ alone'[q] => Running' = {q}
  <2>. SUFFICES ASSUME NEW q \in Proc, at'[q] = "running", alone'[q] PROVE Running' = {q}
    OBVIOUS
  <2>1. CASE q = p
    BY <1>1, <1>3, <2>1
  <2>2. CASE q # p
    BY <1>1, <1>2, <2>2 DEF Running
  <2>. QED
    BY <2>1, <2>2
<1>8. lock # p /\ pc[p] = 1
  BY <1>1, StartAssumption DEF TypeOK, Work, Running
<1>9. \A q \in Proc : at'[q] = "running" => (lock' = q <=> task'[q] # "look" /\ pc'[q] >= 3)
  BY <1>1, <1>2, <1>8 DEF Work
<1>10. \A q \in Proc : at'[q] # "running" => work'[q] = <<>>
  BY <1>1, <1>2 DEF Work
<1>11. \A q \in Proc : at'[q] = "idle" => alone'[q] /\ ~failing'[q] /\ pc'[q] = 1
  <2>. SUFFICES ASSUME NEW q \in Proc, at'[q] = "idle"
                PROVE  alone'[q] /\ ~failing'[q] /\ pc'[q] = 1
    OBVIOUS
  <2>1. q # p /\ at[q] = "idle" /\ q \notin Running
    BY <1>2 DEF Running
  <2>. QED
    BY <1>1, <2>1 DEF Work
<1>12. \A q \in Proc : at'[q] = "done" => pc'[q] = Len(Script(task'[q])) + 1
  BY <1>1, <1>2 DEF Work
<1>. QED
  BY <1>1, <1>5, <1>6, <1>7, <1>9, <1>10, <1>11, <1>12 DEF Work

(* A save, a removal or a folder that is made: what it does to the disk. *)
LEMMA WriteSteps ==
  ASSUME TypeOK, Work, NEW p \in Proc, Mkdir(p) \/ Save(p) \/ Unlink(p)
  PROVE  /\ \E step \in {"mkdir", "open", "write", "unlink"} : Calls(p, step)
         /\ Advance(p) /\ UNCHANGED <<lock, work>> /\ lock = p /\ work[p] = <<>> /\ pc[p] >= 4
         /\ disk' \in Disks /\ FoldersOnly(disk)'
         /\ \A place \in Place, m \in Node : place # "new" => disk'[place][m] = disk[place][m]
         /\ \/ /\ Mkdir(p) /\ task[p] = "save" /\ pc[p] = 4
               /\ \A m \in Node : disk'["new"][m] =
                     IF m \in Above[Record] THEN "folder" ELSE disk["new"][m]
            \/ /\ Save(p) /\ task[p] = "save" /\ pc[p] \in {6, 7}
               /\ Script(task[p])[pc[p]] = "open" \/ pc[p] = 7
               /\ disk'["new"][Record] \in {"torn", "own"}
               /\ \A m \in Node \ {Record} : disk'["new"][m] = disk["new"][m]
            \/ /\ Unlink(p) /\ task[p] = "forget" /\ pc[p] = 4
               /\ Script(task[p])[pc[p]] = "unlink"
               /\ disk'["new"][Record] = "absent"
               /\ \A m \in Node \ {Record} : disk'["new"][m] = disk["new"][m]
<1>0. /\ disk \in Disks /\ FoldersOnly(disk) /\ Record \in Node \ Dirs
      /\ Above[Record] = Above[StateDir] \cup {StateDir} /\ Above[Record] \subseteq Dirs
  BY RootsAssumption, LayoutAssumption DEF TypeOK, Disks, Content, FoldersOnly, Children, Files
<1>1. CASE Mkdir(p)
  <2>1. Calls(p, "mkdir") /\ Advance(p) /\ UNCHANGED <<lock, work>>
    BY <1>1 DEF Mkdir
  <2>2. /\ disk' = [disk EXCEPT !["new"] =
                      [n \in Node |-> IF n \in Above[Record] THEN "folder" ELSE @[n]]]
        /\ disk \in [Place -> [Node -> Content]] /\ "new" \in Place
    BY <1>0, <1>1, Places DEF Mkdir, Disks
  <2>. DEFINE N == [n \in Node |-> IF n \in Above[Record] THEN "folder" ELSE disk["new"][n]]
  <2>3. disk' = [disk EXCEPT !["new"] = N] /\ N \in [Node -> Content]
    BY <2>2 DEF Content
  <2>4. /\ disk' \in Disks /\ disk'["new"] = N
        /\ \A place \in Place : place # "new" => disk'[place] = disk[place]
    BY <2>2, <2>3 DEF Disks
  <2>5. \A m \in Node : disk'["new"][m] = IF m \in Above[Record] THEN "folder" ELSE disk["new"][m]
    BY <2>4
  <2>6. FoldersOnly(disk)'
    BY <1>0, <2>4, <2>5 DEF FoldersOnly
  <2>. QED
    BY <1>1, <2>1, <2>4, <2>5, <2>6, CallsOf
<1>2. CASE Save(p) \/ Unlink(p)
  <2>1. PICK step \in {"open", "write", "unlink"} :
           /\ Calls(p, step) /\ Advance(p) /\ UNCHANGED <<lock, work>>
           /\ disk' = [disk EXCEPT !["new"][Record] =
                         IF step = "open" THEN "torn" ELSE IF step = "write" THEN "own" ELSE "absent"]
           /\ (step = "unlink" => Unlink(p)) /\ (step # "unlink" => Save(p))
    BY <1>2 DEF Save, Unlink
  <2>2. /\ disk' \in Disks
        /\ \A q \in Place, m \in Node :
              disk'[q][m] = IF q = "new" /\ m = Record
                THEN IF step = "open" THEN "torn" ELSE IF step = "write" THEN "own" ELSE "absent"
                ELSE disk[q][m]
    <3>. DEFINE v == IF step = "open" THEN "torn" ELSE IF step = "write" THEN "own" ELSE "absent"
    <3>1. v \in Content
      BY DEF Content
    <3>2. disk' = [disk EXCEPT !["new"][Record] = v]
      BY <2>1
    <3>. HIDE DEF v
    <3>3. /\ disk' \in Disks
          /\ \A q \in Place, m \in Node :
                disk'[q][m] = IF q = "new" /\ m = Record THEN v ELSE disk[q][m]
      BY <1>0, <3>1, <3>2, Places DEF Disks
    <3>. QED
      BY <3>3 DEF v
  <2>3. FoldersOnly(disk)'
    BY <1>0, <2>2 DEF FoldersOnly
  <2>4. Script(task[p])[pc[p]] = step
    BY <2>1 DEF Calls
  <2>. QED
    BY <1>0, <2>1, <2>2, <2>3, <2>4, Places, CallsOf
<1>. QED
  BY <1>1, <1>2

(* What every step keeps: types, who works on what, and that order is not gained. *)
LEMMA TypesKept ==
  ASSUME TypeOK, Work, Placed, Next
  PROVE  /\ TypeOK' /\ Work' /\ UNCHANGED <<first, across, task>>
         /\ \A q \in Proc : alone'[q] => alone[q]
<1>0. disk \in Disks /\ FoldersOnly(disk) /\ failing \in [Proc -> BOOLEAN] /\ work \in [Proc -> Seq(Item)]
  BY DEF TypeOK, Disks, Content, FoldersOnly, Work
<1>. DEFINE Goal0 == /\ TypeOK' /\ Work' /\ UNCHANGED <<first, across, task>>
                     /\ \A q \in Proc : alone'[q] => alone[q]
<1>1. ASSUME NEW p \in Proc, Start(p) PROVE Goal0
  BY <1>1, StartTypes DEF Start
<1>2. ASSUME NEW p \in Proc, NEW how, Ends(p, how) PROVE Goal0
  BY <1>2, EndTypes DEF Ends, Over
<1>3. ASSUME NEW p \in Proc, NEW step, Calls(p, step), Advance(p),
             disk' \in Disks, FoldersOnly(disk)', work' \in [Proc -> Seq(Item)],
             \A q \in Proc : q # p => work'[q] = work[q],
             \/ step = "lock" /\ lock = None /\ lock' = p
             \/ step # "lock" /\ UNCHANGED lock
      PROVE  Goal0
  BY <1>3, SecondIsLock, CallTypes DEF Advance
<1>4. ASSUME NEW p \in Proc, NEW x, NEW new, Steps(p, x, new),
             disk' \in Disks, FoldersOnly(disk)', failing' \in [Proc -> BOOLEAN],
             \A q \in Proc : q # p => failing'[q] = failing[q]
      PROVE  Goal0
  BY <1>4, ItemTypes DEF Steps
<1>5. ASSUME NEW p \in Proc, Migrate(p) PROVE Goal0
  <2>1. /\ Calls(p, "migrate") /\ Advance(p) /\ UNCHANGED <<disk, lock>>
        /\ work' \in [Proc -> Seq(Item)] /\ \A q \in Proc : q # p => work'[q] = work[q]
    BY <1>5, MigrateSteps DEF Migrate
  <2>2. disk' \in Disks /\ FoldersOnly(disk)'
    BY <1>0, <2>1 DEF FoldersOnly
  <2>. QED
    BY <1>3, <2>1, <2>2
<1>6. ASSUME NEW p \in Proc, Takes(p) PROVE Goal0
  <2>1. disk' \in Disks /\ FoldersOnly(disk)'
    BY <1>0, <1>6 DEF FoldersOnly, Takes
  <2>. QED
    BY <1>0, <1>3, <1>6, <2>1 DEF Takes
<1>7. ASSUME NEW p \in Proc, Mkdir(p) \/ Save(p) \/ Unlink(p) PROVE Goal0
  <2>1. PICK step \in {"mkdir", "open", "write", "unlink"} : Calls(p, step)
    BY <1>7, WriteSteps
  <2>2. Advance(p) /\ UNCHANGED <<lock, work>> /\ disk' \in Disks /\ FoldersOnly(disk)'
    BY <1>7, WriteSteps
  <2>. QED
    BY <1>0, <1>3, <2>1, <2>2
<1>10. ASSUME NEW p \in Proc, NEW x, NEW new, Steps(p, x, new), UNCHANGED disk,
              failing' \in [Proc -> BOOLEAN], \A q \in Proc : q # p => failing'[q] = failing[q]
       PROVE  Goal0
  <2>1. disk' \in Disks /\ FoldersOnly(disk)'
    BY <1>0, <1>10 DEF FoldersOnly
  <2>. QED
    BY <1>4, <1>10, <2>1
<1>11. ASSUME NEW p \in Proc, NEW x, NEW new, Steps(p, x, new), UNCHANGED failing,
              NEW place \in Place, NEW n \in Node, NEW v \in Content, v = "folder" => n \in Dirs,
              Put(place, n, v)
       PROVE  Goal0
  <2>1. disk' \in Disks /\ FoldersOnly(disk)'
    BY <1>0, <1>11 DEF FoldersOnly, Put
  <2>. QED
    BY <1>0, <1>4, <1>11, <2>1
<1>12. {"absent", "folder", "torn", "legacy"} \subseteq Content /\ "old" \in Place
  BY Places DEF Content
<1>13. ASSUME NEW p \in Proc, NEW n \in Node, Visits(p, n) \/ Lists(p, n) \/ Hauls(p, n) PROVE Goal0
  <2>1. UNCHANGED disk /\ failing' \in [Proc -> BOOLEAN] /\ \A q \in Proc : q # p => failing'[q] = failing[q]
    BY <1>0, <1>13 DEF Visits, Lists, Hauls, Same
  <2>2. \E x, new : Steps(p, x, new)
    BY <1>13 DEF Visits, Lists, Hauls
  <2>. QED
    BY <1>10, <2>1, <2>2
<1>14. ASSUME NEW p \in Proc, NEW n \in Node, Prunes(p, n) PROVE Goal0
  <2>1. CASE Put("old", n, "absent")
    BY <1>11, <1>12, <1>14, <2>1 DEF Prunes
  <2>2. CASE UNCHANGED disk
    BY <1>0, <1>10, <1>14, <2>2 DEF Prunes
  <2>. QED
    BY <1>14, <2>1, <2>2 DEF Prunes
<1>15. ASSUME NEW p \in Proc, NEW n \in Node, Renames(p, n) PROVE Goal0
  <2>1. Goal(n) \in Place
    BY Places DEF Goal
  <2>2. FoldersOnly(disk)' /\ disk' \in Disks
    BY <1>0, <1>12, <1>15, <2>1 DEF FoldersOnly, Renames, Shift
  <2>. QED
    BY <1>0, <1>4, <1>15, <2>2 DEF Renames
<1>16. ASSUME NEW p \in Proc, NEW n \in Node, NEW to \in Place, Errs(p, n, to) PROVE Goal0
  <2>1. UNCHANGED disk /\ failing' \in [Proc -> BOOLEAN] /\ \A q \in Proc : q # p => failing'[q] = failing[q]
    BY <1>0, <1>16 DEF Errs
  <2>. QED
    BY <1>10, <1>16, <2>1 DEF Errs
<1>17. ASSUME NEW p \in Proc, NEW n \in Node, NEW to \in Place, Copies(p, n, to) PROVE Goal0
  BY <1>11, <1>12, <1>17 DEF Copies
<1>18. ASSUME NEW p \in Proc, NEW n \in Node, NEW to \in Place, Fills(p, n, to) PROVE Goal0
  BY <1>0, <1>10, <1>11, <1>12, <1>18 DEF Fills
<1>19. ASSUME NEW p \in Proc, NEW n \in Node, NEW to \in Place, Purges(p, n, to) PROVE Goal0
  BY <1>0, <1>10, <1>11, <1>12, <1>19 DEF Purges
<1>. HIDE DEF Goal0
<1>20. Goal0
  BY Kinds, <1>1, <1>2, <1>5, <1>6, <1>7, <1>13, <1>14, <1>15, <1>16, <1>17, <1>18, <1>19
<1>. QED
  BY <1>20 DEF Goal0

-----------------------------------------------------------------------------
(* Both layouts are trees at any time: nothing lies in a folder that is not there. *)

(* What an item that a step is on, or that it leaves, takes for granted. *)
LEMMA ItemOfStep ==
  ASSUME Placed, NEW p \in Proc, NEW x, NEW new, Steps(p, x, new)
  PROVE  ItemOK(x) /\ x \in Item /\ x \in Todo(p) /\ \A y \in Rest(p) : ItemOK(y) /\ y \in Item /\ y \in Todo(p)
  BY DEF Steps, Placed

(* The old layout gains nothing, and the new one loses no folder. *)
OldShrinks == \A n \in Node : disk'["old"][n] \in {disk["old"][n], "absent"}
FoldersStay == \A n \in Dirs : There("new", n) => disk'["new"][n] # "absent"
Trees2 ==
    /\ \A place \in {"old", "new"}, n \in Node :
          There(place, n) => \A m \in Above[n] : There(place, m)
    /\ \A f \in Files : disk["old"][f] \in {"absent", "legacy"}
TreesKept == OldShrinks /\ FoldersStay /\ Trees2'

(* What a removal, a move, a thing that is made or a command does to the trees. *)
LEMMA RemovalTrees ==
  ASSUME Trees2, NEW n \in Node, Listing(n) = {}, Put("old", n, "absent")
  PROVE  TreesKept
<1>1. \A m \in Node : n \in Above[m] => ~There("old", m)
  <2>. SUFFICES ASSUME NEW m \in Node, n \in Above[m], There("old", m) PROVE FALSE
    OBVIOUS
  <2>1. PICK c \in Children(n) : m \in Below(c)
    BY LayoutAssumption
  <2>2. There("old", c) /\ c \in Node
    BY <2>1 DEF Trees2, Below, Children
  <2>. QED
    BY <2>1, <2>2 DEF Listing
<1>2. /\ \A m \in Node : disk'["old"][m] = IF m = n THEN "absent" ELSE disk["old"][m]
      /\ \A m \in Node : disk'["new"][m] = disk["new"][m]
  BY Places DEF Put
<1>3. Above \in [Node -> SUBSET Dirs] /\ Dirs \subseteq Node
  BY LayoutAssumption
<1>4. OldShrinks /\ FoldersStay
  BY <1>2, <1>3 DEF OldShrinks, FoldersStay, There
<1>5. \A m \in Node : There("old", m)' => \A l \in Above[m] : There("old", l)'
  BY <1>1, <1>2, <1>3 DEF Trees2, There
<1>6. \A m \in Node : There("new", m)' => \A l \in Above[m] : There("new", l)'
  BY <1>2, <1>3 DEF Trees2, There
<1>7. \A f \in Files : disk'["old"][f] \in {"absent", "legacy"}
  BY <1>2 DEF Trees2, Files
<1>. QED
  BY <1>4, <1>5, <1>6, <1>7 DEF TreesKept, Trees2

(* A rename keeps both trees, whatever its goal. *)
LEMMA RenameTrees ==
  ASSUME Trees2, NEW n \in Node, There("old", n), Shift(n, Goal(n)),
         \A m \in Above[n] : There("new", m)
  PROVE  TreesKept
<1>. DEFINE to == Goal(n)
<1>1. Above \in [Node -> SUBSET Dirs] /\ Dirs \subseteq Node /\ Below(n) \subseteq Node /\ n \in Below(n)
  BY LayoutAssumption, BelowChildren
<1>2. \A m \in Node : m \in Below(n) => disk'["old"][m] = "absent"
  BY DEF Shift
<1>3. \A m \in Node : m \notin Below(n) => disk'["old"][m] = disk["old"][m] /\ disk'["new"][m] = disk["new"][m]
  BY Places DEF Shift
<1>4. \A m \in Node : \A l \in Above[m] : l \in Below(n) => m \in Below(n)
  BY LayoutAssumption DEF Below
<1>5. \A m \in Node : There("old", m)' => \A l \in Above[m] : There("old", l)'
  BY <1>1, <1>2, <1>3, <1>4 DEF Trees2, There
<1>6. \A f \in Files : disk'["old"][f] \in {"absent", "legacy"}
  BY <1>2, <1>3 DEF Trees2, Files
<1>7. OldShrinks
  BY <1>2, <1>3 DEF OldShrinks
<1>8. CASE to = "new"
  <2>1. \A m \in Node : m \in Below(n) => disk'["new"][m] = disk["old"][m]
    BY <1>8 DEF Shift
  <2>2. \A m \in Dirs : m \in Below(n) => ~There("new", m)
    <3>1. SUFFICES ASSUME NEW m \in Dirs, m \in Below(n), There("new", m) PROVE FALSE
      OBVIOUS
    <3>2. There("new", n) /\ n \in Dirs
      BY <1>1, <3>1 DEF Trees2, Below
    <3>. QED
      BY <1>8, <3>2, Places DEF Goal
  <2>3. FoldersStay
    BY <1>1, <1>3, <2>2 DEF FoldersStay, There
  <2>4. \A m \in Node : There("new", m)' => \A l \in Above[m] : There("new", l)'
    <3>. SUFFICES ASSUME NEW m \in Node, There("new", m)', NEW l \in Above[m]
                  PROVE  There("new", l)'
      OBVIOUS
    <3>1. CASE m \notin Below(n)
      <4>1. l \notin Below(n) /\ There("new", l)
        BY <1>1, <1>3, <1>4, <3>1 DEF Trees2, There
      <4>. QED
        BY <1>1, <1>3, <4>1 DEF There
    <3>2. CASE m \in Below(n) /\ l \in Below(n)
      BY <1>1, <2>1, <3>2 DEF Trees2, There
    <3>3. CASE m \in Below(n) /\ l \notin Below(n)
      <4>1. l \in Above[n]
        BY <1>1, <3>3, LayoutAssumption DEF Below
      <4>. QED
        BY <1>1, <1>3, <3>3, <4>1 DEF There
    <3>. QED
      BY <3>1, <3>2, <3>3
  <2>. QED
    BY <1>5, <1>6, <1>7, <2>3, <2>4 DEF TreesKept, Trees2
<1>9. CASE to # "new"
  <2>1. \A m \in Node : disk'["new"][m] = disk["new"][m]
    BY <1>9, Places DEF Shift
  <2>2. FoldersStay /\ \A m \in Node : There("new", m)' => \A l \in Above[m] : There("new", l)'
    BY <1>1, <2>1 DEF Trees2, There, FoldersStay
  <2>. QED
    BY <1>5, <1>6, <1>7, <2>2 DEF TreesKept, Trees2
<1>. QED
  BY <1>8, <1>9

(* A thing that is put in a folder that is there keeps both trees. *)
LEMMA PutTrees ==
  ASSUME Trees2, NEW n \in Node, NEW to \in Place, NEW v, to # "old", v # "absent", Put(to, n, v),
         to = "new" => \A m \in Above[n] : There("new", m)
  PROVE  TreesKept
<1>1. Above \in [Node -> SUBSET Dirs] /\ Dirs \subseteq Node /\ n \notin Above[n]
  BY LayoutAssumption
<1>2. \A m \in Node : disk'["old"][m] = disk["old"][m]
  BY Places DEF Put
<1>3. \A m \in Node : disk'["new"][m] = IF to = "new" /\ m = n THEN v ELSE disk["new"][m]
  BY Places DEF Put
<1>4. \A m \in Node : There("old", m)' => \A l \in Above[m] : There("old", l)'
  BY <1>1, <1>2 DEF Trees2, There
<1>5. \A m \in Node : There("new", m)' => \A l \in Above[m] : There("new", l)'
  BY <1>1, <1>3 DEF Trees2, There
<1>6. \A f \in Files : disk'["old"][f] \in {"absent", "legacy"}
  BY <1>2 DEF Trees2, Files
<1>7. OldShrinks /\ FoldersStay
  BY <1>1, <1>2, <1>3 DEF OldShrinks, FoldersStay, There
<1>. QED
  BY <1>4, <1>5, <1>6, <1>7 DEF TreesKept, Trees2

(* The writes of a command keep both trees. *)
LEMMA WriteTrees ==
  ASSUME TypeOK, Work, Closed, NEW p \in Proc, Mkdir(p) \/ Save(p) \/ Unlink(p)
  PROVE  TreesKept
<1>1. /\ Above \in [Node -> SUBSET Dirs] /\ Dirs \subseteq Node /\ Record \in Node \ Dirs
      /\ \A m \in Node : \A l \in Above[m] : Above[l] \subseteq Above[m]
  BY LayoutAssumption, RootsAssumption DEF Files
<1>2. \A m \in Node : disk'["old"][m] = disk["old"][m]
  BY Places, WriteSteps
<1>3. OldShrinks /\ \A f \in Files : disk'["old"][f] \in {"absent", "legacy"}
  BY <1>2 DEF OldShrinks, Closed, Files
<1>4. \A m \in Node : There("old", m)' => \A l \in Above[m] : There("old", l)'
  BY <1>1, <1>2 DEF Closed, There
<1>5. CASE \A m \in Node : disk'["new"][m] = IF m \in Above[Record] THEN "folder" ELSE disk["new"][m]
  <2>1. FoldersStay
    BY <1>1, <1>5 DEF FoldersStay, There
  <2>2. \A m \in Node : There("new", m)' => \A l \in Above[m] : There("new", l)'
    BY <1>1, <1>5 DEF Closed, There
  <2>. QED
    BY <1>3, <1>4, <2>1, <2>2 DEF TreesKept, Trees2
<1>6. CASE /\ \A m \in Node \ {Record} : disk'["new"][m] = disk["new"][m]
           /\ disk'["new"][Record] = "absent" \/ (task[p] = "save" /\ pc[p] >= 5)
  <2>1. FoldersStay
    BY <1>1, <1>6 DEF FoldersStay, There
  <2>2. \A m \in Node : There("new", m)' => \A l \in Above[m] : There("new", l)'
    BY <1>1, <1>6 DEF Closed, There
  <2>. QED
    BY <1>3, <1>4, <2>1, <2>2 DEF TreesKept, Trees2
<1>. QED
  BY <1>5, <1>6, WriteSteps

(* A step that leaves the disk alone does. *)
LEMMA SameTrees ==
  ASSUME Trees2, UNCHANGED disk
  PROVE  TreesKept
  BY Places, LayoutAssumption DEF TreesKept, Trees2, OldShrinks, FoldersStay, There

(* So every step keeps both trees. *)
LEMMA TreesSteps ==
  ASSUME TypeOK, Work, Placed, Closed, Next
  PROVE  TreesKept
<1>0. Trees2
  BY DEF Closed, Trees2
<1>1. ASSUME NEW p \in Proc, NEW n \in Node, Prunes(p, n) PROVE TreesKept
  BY <1>0, <1>1, RemovalTrees, SameTrees DEF Prunes
<1>2. ASSUME NEW p \in Proc, NEW n \in Node, Renames(p, n) PROVE TreesKept
  <2>1. ItemOK(<<"move", n, "new">>)
    BY <1>2, ItemOfStep DEF Renames
  <2>2. \A m \in Above[n] : There("new", m)
    BY <2>1 DEF ItemOK
  <2>. QED
    BY <1>0, <1>2, <2>2, RenameTrees DEF Renames
<1>3. ASSUME NEW p \in Proc, NEW n \in Node, NEW to \in Place, Copies(p, n, to) PROVE TreesKept
  <2>1. ItemOK(<<"copy", n, to>>)
    BY <1>3, ItemOfStep DEF Copies
  <2>2. to # "old" /\ (to = "new" => \A m \in Above[n] : There("new", m))
    BY <2>1 DEF ItemOK
  <2>3. Put(to, n, "folder") \/ Put(to, n, "torn")
    BY <1>3 DEF Copies
  <2>. QED
    BY <1>0, <2>2, <2>3, PutTrees
<1>4. ASSUME NEW p \in Proc, NEW n \in Node, NEW to \in Place, Fills(p, n, to) PROVE TreesKept
  <2>1. ItemOK(<<"fill", n, to>>)
    BY <1>4, ItemOfStep DEF Fills
  <2>2. to # "old"
    BY <2>1 DEF ItemOK
  <2>3. CASE There(to, n) /\ Put(to, n, "legacy")
    <3>1. to = "new" => \A m \in Above[n] : There("new", m)
      BY <1>0, <2>3 DEF Trees2
    <3>. QED
      BY <1>0, <2>2, <2>3, <3>1, PutTrees
  <2>. QED
    BY <1>0, <1>4, <2>3, SameTrees DEF Fills
<1>5. ASSUME NEW p \in Proc, NEW n \in Node, NEW to \in Place, Purges(p, n, to) PROVE TreesKept
  BY <1>0, <1>5, RemovalTrees, SameTrees DEF Purges
<1>6. ASSUME UNCHANGED disk PROVE TreesKept
  BY <1>0, <1>6, SameTrees
<1>7. ASSUME NEW p \in Proc, Start(p) \/ Takes(p) PROVE TreesKept
  BY <1>6, <1>7 DEF Start, Takes
<1>8. ASSUME NEW p \in Proc, NEW how, Ends(p, how) PROVE TreesKept
  BY <1>6, <1>8 DEF Ends
<1>9. ASSUME NEW p \in Proc, Migrate(p) PROVE TreesKept
  BY <1>6, <1>9, MigrateSteps
<1>10. ASSUME NEW p \in Proc, Mkdir(p) \/ Save(p) \/ Unlink(p) PROVE TreesKept
  BY <1>10, WriteTrees
<1>11. ASSUME NEW p \in Proc, NEW n \in Node, Visits(p, n) \/ Lists(p, n) PROVE TreesKept
  BY <1>6, <1>11 DEF Visits, Lists, Same
<1>12. ASSUME NEW p \in Proc, NEW n \in Node, Hauls(p, n) PROVE TreesKept
  BY <1>6, <1>12 DEF Hauls, Same
<1>13. ASSUME NEW p \in Proc, NEW n \in Node, NEW to \in Place, Errs(p, n, to) PROVE TreesKept
  BY <1>6, <1>13 DEF Errs, Same
<1>. QED
  BY Kinds, <1>1, <1>2, <1>3, <1>4, <1>5, <1>7, <1>8, <1>9, <1>10, <1>11, <1>12, <1>13

(* Only the calls of a command advance it. *)
LEMMA Calm ==
  ASSUME NEW p \in Proc
  PROVE  /\ Start(p) \/ (\E how : Ends(p, how)) => UNCHANGED pc
         /\ \A n \in Node :
              /\ Visits(p, n) \/ Lists(p, n) \/ Prunes(p, n) \/ Hauls(p, n) \/ Renames(p, n) => UNCHANGED pc
              /\ \A to \in Place :
                    Errs(p, n, to) \/ Copies(p, n, to) \/ Fills(p, n, to) \/ Purges(p, n, to) => UNCHANGED pc
<1>1. \A x, new : Steps(p, x, new) => UNCHANGED pc
  BY DEF Steps
<1>2. Start(p) \/ (\E how : Ends(p, how)) => UNCHANGED pc
  BY DEF Start, Ends, Over
<1>3. ASSUME NEW n \in Node, Visits(p, n) \/ Lists(p, n) \/ Prunes(p, n) \/ Hauls(p, n) \/ Renames(p, n)
      PROVE  UNCHANGED pc
  BY <1>1, <1>3 DEF Visits, Lists, Prunes, Hauls, Renames
<1>4. ASSUME NEW n \in Node, NEW to \in Place,
             Errs(p, n, to) \/ Copies(p, n, to) \/ Fills(p, n, to) \/ Purges(p, n, to)
      PROVE  UNCHANGED pc
  BY <1>1, <1>4 DEF Errs, Copies, Fills, Purges
<1>. QED
  BY <1>2, <1>3, <1>4

(* The conjunct Closed of the invariant is kept. *)
LEMMA ClosedKept ==
  ASSUME TypeOK, Work, Placed, Closed, Next
  PROVE  Closed'
<1>1. TreesKept /\ UNCHANGED task
  BY TreesSteps, TypesKept
<1>2. Above[Record] \subseteq Dirs
  BY LayoutAssumption, RootsAssumption DEF Files
<1>3. \A q \in Proc : task[q] = "save" /\ pc[q] >= 5 => \A m \in Above[Record] : There("new", m)'
  BY <1>1, <1>2 DEF TreesKept, FoldersStay, Closed, There
<1>. DEFINE Made == \A q \in Proc : task[q] = "save" /\ pc'[q] >= 5 =>
                      \A m \in Above[Record] : There("new", m)'
<1>4. ASSUME UNCHANGED pc PROVE Made
  BY <1>3, <1>4
<1>5. ASSUME NEW p \in Proc, Advance(p), task[p] = "save" /\ pc[p] = 4 =>
                \A m \in Above[Record] : There("new", m)'
      PROVE  Made
  <2>. SUFFICES ASSUME NEW q \in Proc, task[q] = "save", pc'[q] >= 5
                PROVE  \A m \in Above[Record] : There("new", m)'
    OBVIOUS
  <2>1. pc' = [pc EXCEPT ![p] = @ + 1] /\ pc \in [Proc -> Nat]
    BY <1>5 DEF Advance, Work
  <2>2. pc[q] >= 5 \/ (q = p /\ pc[p] = 4)
    BY <2>1
  <2>. QED
    BY <1>3, <1>5, <2>2
<1>6. ASSUME NEW p \in Proc, Mkdir(p) \/ Save(p) \/ Unlink(p) PROVE Made
  BY <1>2, <1>5, <1>6, WriteSteps, LayoutAssumption DEF There
<1>7. ASSUME NEW p \in Proc, Migrate(p) \/ Takes(p) PROVE Made
  <2>1. pc[p] # 4
    BY <1>7, MigrateSteps, CallsOf DEF Takes
  <2>. QED
    BY <1>5, <1>7, <2>1, MigrateSteps DEF Takes
<1>. HIDE DEF Made
<1>8. Made
  <2>1. \/ UNCHANGED pc
        \/ \E p \in Proc : Mkdir(p) \/ Save(p) \/ Unlink(p) \/ Migrate(p) \/ Takes(p)
    BY Kinds, Calm
  <2>. QED
    BY <1>4, <1>6, <1>7, <2>1
<1>. QED
  BY <1>1, <1>8 DEF TreesKept, Trees2, Closed, Made

-----------------------------------------------------------------------------
(* What items take for granted stays so, and a copy has its removal after it. *)

(* What an item takes for granted no step takes away. *)
LEMMA ItemStaysOK ==
  ASSUME TreesKept, NEW x \in Item, ItemOK(x)
  PROVE  ItemOK(x)'
<1>1. Above \in [Node -> SUBSET Dirs] /\ x[2] \in Node
  BY LayoutAssumption DEF Item
<1>. QED
  BY <1>1 DEF TreesKept, FoldersStay, ItemOK, There

(* The removal that a copy has in the same work. *)
HasPurge(todo, y) == \E m \in Node : <<"purge", m, y[3]>> \in todo /\ y[2] \in Below(m)

(* A step on an item keeps Placed if what it puts on the stack is in place. *)
LEMMA PlacedStep ==
  ASSUME Placed, TreesKept, Work, NEW p \in Proc, NEW x, NEW new, Steps(p, x, new),
         \A y \in new : ItemOK(y)',
         \A y \in new : y[1] \in {"copy", "fill"} =>
            HasPurge(new, y) \/ (x[1] = "copy" /\ y[3] = x[3] /\ y[2] \in Below(x[2]))
  PROVE  Placed'
<1>1. /\ x \in Item /\ new \subseteq Item /\ Rest(p) \subseteq Item
      /\ Todo(p) = {x} \cup Rest(p) /\ Todo(p)' = new \cup Rest(p)
      /\ \A y \in Rest(p) : Before(x, y)
      /\ Stack(work'[p]) /\ \A q \in Proc : q # p => work'[q] = work[q]
  BY DEF Steps
<1>2. \A q \in Proc : q # p => Todo(q)' = Todo(q)
  BY <1>1 DEF Todo
<1>3. \A q \in Proc : Stack(work'[q])
  BY <1>1 DEF Placed
<1>4. \A y \in Todo(p)' : ItemOK(y)'
  BY <1>1, ItemStaysOK DEF Placed
<1>5. ASSUME NEW q \in Proc, q # p PROVE \A y \in Todo(q)' : ItemOK(y)'
  <2>1. work[q] = work'[q] /\ \A y \in Todo(q) : ItemOK(y)
    BY <1>1, <1>5 DEF Placed
  <2>2. \A y \in Todo(q) : y \in Item
    BY LenProperties, ElementOfSeq DEF Work, Todo, Range
  <2>3. \A y \in Todo(q) : ItemOK(y)'
    BY <2>1, <2>2, ItemStaysOK
  <2>. QED
    BY <1>2, <1>5, <2>3
<1>6. ASSUME NEW y \in Rest(p), y[1] \in {"copy", "fill"} PROVE HasPurge(Todo(p)', y)
  <2>1. PICK m \in Node : <<"purge", m, y[3]>> \in Todo(p) /\ y[2] \in Below(m)
    BY <1>1, <1>6 DEF Placed
  <2>2. <<"purge", m, y[3]>> # x
    BY <1>1, <1>6 DEF Before, Rank
  <2>. QED
    BY <1>1, <2>1, <2>2 DEF HasPurge
<1>7. ASSUME NEW y \in new, y[1] \in {"copy", "fill"} PROVE HasPurge(Todo(p)', y)
  <2>1. CASE HasPurge(new, y)
    BY <1>1, <2>1 DEF HasPurge
  <2>2. CASE x[1] = "copy" /\ y[3] = x[3] /\ y[2] \in Below(x[2])
    <3>1. PICK m \in Node : <<"purge", m, x[3]>> \in Todo(p) /\ x[2] \in Below(m)
      BY <1>1, <2>2 DEF Placed
    <3>2. <<"purge", m, x[3]>> # x
      BY <2>2
    <3>3. y[2] \in Below(m)
      BY <2>2, <3>1, BelowBelow
    <3>. QED
      BY <1>1, <2>2, <3>1, <3>2, <3>3 DEF HasPurge
  <2>. QED
    BY <1>7, <2>1, <2>2
<1>8. \A q \in Proc : \A y \in Todo(q)' : y[1] \in {"copy", "fill"} => HasPurge(Todo(q)', y)
  BY <1>1, <1>2, <1>6, <1>7 DEF Placed, HasPurge
<1>. QED
  BY <1>3, <1>4, <1>5, <1>8 DEF Placed, HasPurge

(* Steps that leave the stacks alone but for one that is emptied or filled anew. *)
LEMMA PlacedCall ==
  ASSUME Placed, TreesKept, Work, NEW p \in Proc, \A q \in Proc : q # p => work'[q] = work[q],
         \/ work'[p] = work[p] \/ work'[p] = <<>>
         \/ Stack(work'[p]) /\ Todo(p)' = Items("visit", Range(Roots), "new")
  PROVE  Placed'
<1>1. \A q \in Proc : work'[q] = work[q] => Todo(q)' = Todo(q)
  BY DEF Todo
<1>2. ASSUME NEW q \in Proc, work'[q] = work[q]
      PROVE  /\ Stack(work'[q]) /\ \A y \in Todo(q)' : ItemOK(y)'
             /\ \A y \in Todo(q)' : y[1] \in {"copy", "fill"} => HasPurge(Todo(q)', y)
  <2>1. \A y \in Todo(q) : ItemOK(y)
    BY DEF Placed
  <2>2. \A y \in Todo(q) : y \in Item
    BY LenProperties, ElementOfSeq DEF Work, Todo, Range
  <2>3. \A y \in Todo(q) : ItemOK(y)'
    BY <2>1, <2>2, ItemStaysOK
  <2>. QED
    BY <1>1, <1>2, <2>3 DEF Placed, HasPurge
<1>3. ASSUME work'[p] = <<>>
      PROVE  Stack(work'[p]) /\ Todo(p)' = {}
  BY <1>3 DEF Stack, Todo, Range
<1>4. ASSUME Todo(p)' = Items("visit", Range(Roots), "new")
      PROVE  \A y \in Todo(p)' : ItemOK(y)' /\ y[1] = "visit"
  BY <1>4, RootsAssumption DEF Items, ItemOK
<1>5. /\ Stack(work'[p]) /\ \A y \in Todo(p)' : ItemOK(y)'
      /\ \A y \in Todo(p)' : y[1] \in {"copy", "fill"} => HasPurge(Todo(p)', y)
  BY <1>2, <1>3, <1>4
<1>. QED
  BY <1>2, <1>5 DEF Placed, HasPurge

(* The conjunct Placed of the invariant is kept. *)
LEMMA PlacedKept ==
  ASSUME TypeOK, Work, Placed, Closed, Next
  PROVE  Placed'
<1>0. TreesKept
  BY TreesSteps
<1>. DEFINE N(n, S) == \A m \in S : There("new", m)
<1>1. ASSUME NEW p \in Proc, NEW n \in Node, Visits(p, n) PROVE Placed'
  <2>1. ItemOK(<<"visit", n, "new">>) /\ UNCHANGED disk
    BY <1>1, ItemOfStep DEF Visits, Same
  <2>2. CASE Steps(p, <<"visit", n, "new">>, {})
    BY <1>0, <2>2, PlacedStep
  <2>3. CASE Steps(p, <<"visit", n, "new">>, Items("move", {n}, "new"))
    <3>1. \A y \in Items("move", {n}, "new") : ItemOK(y)' /\ y[1] = "move"
      BY <2>1 DEF Items, ItemOK, There
    <3>. QED
      BY <1>0, <2>3, <3>1, PlacedStep
  <2>4. ASSUME Steps(p, <<"visit", n, "new">>, Items("list", {n}, "new")),
               There("new", n), n \in Dirs
        PROVE  Placed'
    <3>1. PICK v : v = Items("list", {n}, "new")
      OBVIOUS
    <3>2. \A y \in v : ItemOK(y)' /\ y[1] = "list"
      BY <2>1, <2>4, <3>1 DEF Items, ItemOK, There
    <3>3. Steps(p, <<"visit", n, "new">>, v)
      BY <2>4, <3>1
    <3>. QED
      BY <1>0, <3>2, <3>3, PlacedStep
  <2>. QED
    BY <1>1, <2>2, <2>3, <2>4 DEF Visits
<1>2. ASSUME NEW p \in Proc, NEW n \in Node, Lists(p, n) PROVE Placed'
  <2>. DEFINE new == Items("visit", Listing(n), "new") \cup {<<"rmdir", n, "new">>}
  <2>1. /\ ItemOK(<<"list", n, "new">>) /\ UNCHANGED disk
        /\ Steps(p, <<"list", n, "new">>, new)
    BY <1>2, ItemOfStep DEF Lists, Same
  <2>2. \A c \in Listing(n) : Above[c] = Above[n] \cup {n}
    BY BelowChildren, ChildBelow
  <2>3. \A y \in new : ItemOK(y)' /\ y[1] \in {"visit", "rmdir"}
    BY <2>1, <2>2 DEF Items, ItemOK, There
  <2>. HIDE DEF new
  <2>4. PICK v : v = new
    OBVIOUS
  <2>5. Steps(p, <<"list", n, "new">>, v)
    BY <2>1, <2>4
  <2>. QED
    BY <1>0, <2>3, <2>4, <2>5, PlacedStep
<1>3. ASSUME NEW p \in Proc, NEW n \in Node, Prunes(p, n) \/ Renames(p, n) PROVE Placed'
  BY <1>0, <1>3, PlacedStep DEF Prunes, Renames
<1>4. ASSUME NEW p \in Proc, NEW n \in Node, Hauls(p, n) PROVE Placed'
  <2>1. PICK to : to = Goal(n)
    OBVIOUS
  <2>. DEFINE new == Items("copy", {n}, to) \cup Items("purge", {n}, to)
  <2>2. /\ ItemOK(<<"move", n, "new">>) /\ UNCHANGED disk
        /\ Steps(p, <<"move", n, "new">>, new)
    BY <1>4, <2>1, ItemOfStep DEF Hauls
  <2>3. to # "old"
    BY <2>1, Places DEF Goal
  <2>4. \A y \in new : ItemOK(y)'
    BY <2>2, <2>3 DEF Items, ItemOK, There
  <2>5. \A y \in new : y[1] \in {"copy", "fill"} => HasPurge(new, y)
    BY BelowChildren DEF Items, HasPurge
  <2>. HIDE DEF new
  <2>. QED
    BY <1>0, <2>2, <2>4, <2>5, PlacedStep
<1>5. ASSUME NEW p \in Proc, NEW n \in Node, NEW to \in Place, Errs(p, n, to) \/ Fills(p, n, to)
      PROVE  Placed'
  BY <1>0, <1>5, PlacedStep DEF Errs, Fills
<1>6. ASSUME NEW p \in Proc, NEW n \in Node, NEW to \in Place, Copies(p, n, to) PROVE Placed'
  <2>1. ItemOK(<<"copy", n, to>>)
    BY <1>6, ItemOfStep DEF Copies
  <2>2. ASSUME n \in Dirs, Put(to, n, "folder"),
               Steps(p, <<"copy", n, to>>, Items("copy", Listing(n), to))
        PROVE  Placed'
    <3>. DEFINE new == Items("copy", Listing(n), to)
    <3>1. \A c \in Listing(n) : Above[c] = Above[n] \cup {n} /\ c \in Below(n)
      BY BelowChildren, ChildBelow
    <3>2. to # "old"
      BY <2>1 DEF ItemOK
    <3>3. ASSUME to = "new" PROVE There("new", n)' /\ \A m \in Above[n] : There("new", m)'
      <4>1. \A m \in Above[n] : There("new", m) /\ m \in Node
        BY <2>1, <3>3, LayoutAssumption DEF ItemOK
      <4>. QED
        BY <2>2, <3>3, <4>1, Places DEF Put, There
    <3>4. PICK v : v = new
      OBVIOUS
    <3>5. \A y \in new : ItemOK(y)'
      BY <3>1, <3>2, <3>3 DEF Items, ItemOK
    <3>6. \A y \in new : y[3] = to /\ y[2] \in Below(n)
      BY <3>1 DEF Items
    <3>. HIDE DEF new
    <3>7. Steps(p, <<"copy", n, to>>, v)
      BY <2>2, <3>4 DEF new
    <3>. QED
      BY <1>0, <3>4, <3>5, <3>6, <3>7, PlacedStep
  <2>3. ASSUME n \notin Dirs, Steps(p, <<"copy", n, to>>, Items("fill", {n}, to))
        PROVE  Placed'
    <3>1. \A y \in Items("fill", {n}, to) : ItemOK(y)' /\ y[3] = to /\ y[2] \in Below(n)
      BY <2>1, <2>3, BelowChildren DEF Items, ItemOK, There
    <3>. QED
      BY <1>0, <2>3, <3>1, PlacedStep
  <2>. QED
    BY <1>6, <2>2, <2>3 DEF Copies
<1>7. ASSUME NEW p \in Proc, NEW n \in Node, NEW to \in Place, Purges(p, n, to) PROVE Placed'
  <2>1. ItemOK(<<"purge", n, to>>)
    BY <1>7, ItemOfStep DEF Purges
  <2>2. CASE Steps(p, <<"purge", n, to>>, {})
    BY <1>0, <2>2, PlacedStep
  <2>3. CASE Steps(p, <<"purge", n, to>>, Items("purge", Listing(n), to) \cup {<<"purge", n, to>>})
    <3>. DEFINE new == Items("purge", Listing(n), to) \cup {<<"purge", n, to>>}
    <3>1. PICK v : v = new
      OBVIOUS
    <3>2. \A y \in new : ItemOK(y)' /\ y[1] = "purge"
      BY <2>1 DEF Items, ItemOK, There
    <3>. HIDE DEF new
    <3>3. Steps(p, <<"purge", n, to>>, v)
      BY <2>3, <3>1 DEF new
    <3>. QED
      BY <1>0, <3>1, <3>2, <3>3, PlacedStep
  <2>. QED
    BY <1>7, <2>2, <2>3 DEF Purges
<1>8. ASSUME NEW p \in Proc, Start(p) \/ Takes(p) \/ Mkdir(p) \/ Save(p) \/ Unlink(p) PROVE Placed'
  <2>1. UNCHANGED work
    BY <1>8, WriteSteps DEF Start, Takes
  <2>. QED
    BY <1>0, <2>1, PlacedCall
<1>9. ASSUME NEW p \in Proc, NEW how, Ends(p, how) PROVE Placed'
  <2>1. work' = [work EXCEPT ![p] = <<>>] /\ work \in [Proc -> Seq(Item)]
    BY <1>9 DEF Ends, Over, Work
  <2>2. work'[p] = <<>> /\ \A q \in Proc : q # p => work'[q] = work[q]
    BY <2>1
  <2>. QED
    BY <1>0, <2>2, PlacedCall
<1>10. ASSUME NEW p \in Proc, Migrate(p) PROVE Placed'
  <2>1. /\ Stack(work'[p]) /\ Todo(p)' = Items("visit", Range(Roots), "new")
        /\ \A q \in Proc : q # p => work'[q] = work[q]
    BY <1>10, MigrateSteps
  <2>. QED
    BY <1>0, <2>1, PlacedCall
<1>. QED
  BY Kinds, <1>1, <1>2, <1>3, <1>4, <1>5, <1>6, <1>7, <1>8, <1>9, <1>10

-----------------------------------------------------------------------------
(* A command that nobody runs beside finds its items as it put them. *)

(* What a step on an item says of the stack of its process. *)
LEMMA StepFacts ==
  ASSUME Placed, NEW p \in Proc, NEW x, NEW new, Steps(p, x, new)
  PROVE  /\ at[p] = "running" /\ UNCHANGED <<first, across, lock, task, at, pc, alone>>
         /\ Todo(p) = {x} \cup Rest(p) /\ Todo(p)' = new \cup Rest(p)
         /\ \A y \in Rest(p) : Before(x, y) /\ y \in Item /\ y[2] \in Node /\ y[2] \in Below(y[2])
         /\ \A q \in Proc : q # p => Todo(q)' = Todo(q)
<1>1. /\ at[p] = "running" /\ UNCHANGED <<first, across, lock, task, at, pc, alone>>
      /\ Rest(p) \subseteq Item
      /\ Todo(p) = {x} \cup Rest(p) /\ Todo(p)' = new \cup Rest(p)
      /\ \A y \in Rest(p) : Before(x, y)
      /\ \A q \in Proc : q # p => work'[q] = work[q]
  BY DEF Steps
<1>2. \A y \in Item : y[2] \in Node /\ y[2] \in Below(y[2])
  BY BelowChildren DEF Item
<1>. QED
  BY <1>1, <1>2 DEF Todo

(* What the disk looks like where a later item is about. *)
LEMMA Elsewhere ==
  ASSUME NEW op, NEW n \in Node, NEW to, NEW y, Before(<<op, n, to>>, y), y[2] \in Node, y[2] \in Below(y[2]),
         y[1] \notin {"rmdir", "purge"}
  PROVE  y[2] \notin Below(n) /\ y[2] # n
  BY BelowChildren DEF Before

(* Items that are no removals stay as they were while another item is worked on. *)
LEMMA SoundElsewhere ==
  ASSUME NEW p \in Proc, NEW y, Sound(p, y), y[1] # "purge", y[2] \in Node,
         y[1] = "rmdir" \/
           \A place \in {"old", "new"} : disk'[place][y[2]] = disk[place][y[2]]
  PROVE  Sound(p, y)'
  BY DEF Sound, There

(* So the rest of the work stays sound, but for removals. *)
LEMMA RestSound ==
  ASSUME Placed, NEW p \in Proc, NEW op, NEW n \in Node, NEW to, NEW new, Steps(p, <<op, n, to>>, new),
         \A y \in Todo(p) : Sound(p, y),
         \A place \in {"old", "new"}, m \in Node : m \notin Below(n) => disk'[place][m] = disk[place][m]
  PROVE  \A y \in Rest(p) : y[1] # "purge" => Sound(p, y)'
<1>. SUFFICES ASSUME NEW y \in Rest(p), y[1] # "purge" PROVE Sound(p, y)'
  OBVIOUS
<1>1. Before(<<op, n, to>>, y) /\ y[2] \in Node /\ y[2] \in Below(y[2]) /\ Sound(p, y)
  BY StepFacts
<1>2. CASE y[1] = "rmdir"
  BY <1>1, <1>2, SoundElsewhere
<1>3. CASE y[1] # "rmdir"
  <2>1. y[2] \notin Below(n)
    BY <1>1, <1>3, Elsewhere
  <2>. QED
    BY <1>1, <2>1, SoundElsewhere
<1>. QED
  BY <1>2, <1>3

(* The same for steps that come after all removals. *)
LEMMA LateSound ==
  ASSUME Placed, NEW p \in Proc, NEW op, NEW n \in Node, NEW to, NEW new, Steps(p, <<op, n, to>>, new),
         \A y \in Todo(p) : Sound(p, y), Rank(op) = 3,
         \A place \in {"old", "new"}, m \in Node : m \notin Below(n) => disk'[place][m] = disk[place][m]
  PROVE  \A y \in Rest(p) : Sound(p, y)'
<1>1. \A y \in Rest(p) : y[1] # "purge"
  BY StepFacts DEF Before, Rank
<1>. QED
  BY <1>1, RestSound

(* What is safe stays so while the copies go on. *)
LEMMA SafeStep ==
  ASSUME Placed, NEW p \in Proc, NEW op, NEW n \in Node, NEW new, Steps(p, <<op, n, "new">>, new),
         NEW f \in Files, Safe(p, f), disk["new"][f] = "legacy" => disk'["new"][f] = "legacy",
         op \in {"copy", "fill"} /\ f \in Below(n) =>
            \/ disk'["new"][f] = "legacy"
            \/ \E nop \in {"copy", "fill"}, m \in Node : <<nop, m, "new">> \in new /\ f \in Below(m)
  PROVE  Safe(p, f)'
<1>1. Todo(p) = {<<op, n, "new">>} \cup Rest(p) /\ Todo(p)' = new \cup Rest(p)
  BY StepFacts
<1>2. CASE disk["new"][f] = "legacy"
  BY <1>2 DEF Safe
<1>3. ASSUME NEW nop \in {"copy", "fill"}, NEW m \in Node, <<nop, m, "new">> \in Todo(p), f \in Below(m)
      PROVE  Safe(p, f)'
  <2>1. CASE <<nop, m, "new">> \in Rest(p)
    BY <1>1, <1>3, <2>1 DEF Safe
  <2>2. CASE <<nop, m, "new">> = <<op, n, "new">>
    BY <1>1, <1>3, <2>2 DEF Safe
  <2>. QED
    BY <1>1, <1>3, <2>1, <2>2
<1>. QED
  BY <1>2, <1>3 DEF Safe

(* A removal stays sound while its node is there and what was safe is. *)
LEMMA PurgeSound ==
  ASSUME NEW p \in Proc, NEW y, y[1] = "purge", y[2] \in Node, Sound(p, y),
         disk'["old"][y[2]] # "absent",
         \A f \in Files : disk'["old"][f] # "absent" => disk["old"][f] # "absent",
         \A f \in Files \cap Below(y[2]) : disk'["old"][f] # "absent" /\ Safe(p, f) => Safe(p, f)'
  PROVE  Sound(p, y)'
  BY DEF Sound, There


(* The steps one by one: all items are sound after them if they were before. *)
Sounds(p) == ~failing[p] /\ \A y \in Todo(p) : Sound(p, y)

(* Looks and listings put sound items in the place of their own. *)
LEMMA LooksSound ==
  ASSUME Placed, NEW p \in Proc, NEW n \in Node, Visits(p, n) \/ Lists(p, n), Sounds(p)
  PROVE  Sounds(p)'
<1>. DEFINE U == UNCHANGED <<disk, failing>>
            new2 == Items("visit", Listing(n), "new") \cup {<<"rmdir", n, "new">>}
<1>1. ASSUME NEW op \in {"visit", "list"}, NEW new, Steps(p, <<op, n, "new">>, new), U,
             \A y \in new : Sound(p, y)'
      PROVE  Sounds(p)'
  <2>1. \A y \in Rest(p) : Sound(p, y)'
    BY <1>1, LateSound DEF Rank, Sounds
  <2>. QED
    BY <1>1, <2>1, StepFacts DEF Sounds
<1>2. ASSUME Visits(p, n) PROVE Sounds(p)'
  <2>1. Sound(p, <<"visit", n, "new">>) /\ U
    BY <1>2, StepFacts DEF Visits, Same, Sounds
  <2>2. There("old", n) \/ n \in Range(Roots)
    BY <2>1 DEF Sound
  <2>3. CASE Steps(p, <<"visit", n, "new">>, {})
    BY <1>1, <2>1, <2>3
  <2>4. ASSUME Steps(p, <<"visit", n, "new">>, Items("move", {n}, "new")),
               ~There("new", n), There("old", n)
        PROVE  Sounds(p)'
    <3>1. \A y \in Items("move", {n}, "new") : Sound(p, y)'
      BY <2>1, <2>4 DEF Items, Sound, There
    <3>. QED
      BY <1>1, <2>1, <2>4, <3>1
  <2>5. ASSUME Steps(p, <<"visit", n, "new">>, Items("list", {n}, "new")), There("old", n)
        PROVE  Sounds(p)'
    <3>1. \A y \in Items("list", {n}, "new") : Sound(p, y)'
      BY <2>1, <2>5 DEF Items, Sound, There
    <3>. QED
      BY <1>1, <2>1, <2>5, <3>1
  <2>. QED
    BY <1>2, <2>2, <2>3, <2>4, <2>5 DEF Visits
<1>3. ASSUME Lists(p, n) PROVE Sounds(p)'
  <2>1. Steps(p, <<"list", n, "new">>, new2) /\ U
    BY <1>3 DEF Lists, Same
  <2>2. \A y \in new2 : Sound(p, y)'
    BY <2>1 DEF Items, Sound, There, Listing
  <2>. HIDE DEF new2
  <2>3. PICK v : v = new2
    OBVIOUS
  <2>4. Steps(p, <<"list", n, "new">>, v)
    BY <2>1, <2>3
  <2>. QED
    BY <1>1, <2>1, <2>2, <2>3, <2>4
<1>. QED
  BY <1>2, <1>3

(* A rename or an rmdir leaves the rest sound. *)
LEMMA RenamesSound ==
  ASSUME Placed, NEW p \in Proc, NEW n \in Node, Prunes(p, n) \/ Renames(p, n), Sounds(p)
  PROVE  Sounds(p)'
<1>1. ASSUME NEW op \in {"rmdir", "move"}, Steps(p, <<op, n, "new">>, {}), UNCHANGED failing,
             \A place \in {"old", "new"}, m \in Node : m \notin Below(n) => disk'[place][m] = disk[place][m]
      PROVE  Sounds(p)'
  <2>1. \A y \in Rest(p) : Sound(p, y)'
    BY <1>1, LateSound DEF Rank, Sounds
  <2>. QED
    BY <1>1, <2>1, StepFacts DEF Sounds
<1>2. CASE Prunes(p, n)
  BY <1>1, <1>2, BelowChildren, Places DEF Prunes, Put
<1>3. CASE Renames(p, n)
  <2>1. Sound(p, <<"move", n, "new">>)
    BY <1>3, StepFacts DEF Renames, Sounds
  <2>2. Goal(n) = "new"
    BY <2>1 DEF Sound, Goal
  <2>. QED
    BY <1>1, <1>3, <2>2, Places DEF Renames, Shift
<1>. QED
  BY <1>2, <1>3

(* A move to another file system puts a sound copy and a sound removal. *)
LEMMA HaulsSound ==
  ASSUME TypeOK, Placed, NEW p \in Proc, NEW n \in Node, Hauls(p, n), Sounds(p)
  PROVE  Sounds(p)'
<1>1. Sound(p, <<"move", n, "new">>)
  BY DEF Hauls, Steps, Sounds
<1>2. Goal(n) = "new" /\ There("old", n) /\ ~There("new", n)
  BY <1>1 DEF Sound, Goal
<1>. DEFINE new == Items("copy", {n}, "new") \cup Items("purge", {n}, "new")
<1>3. Steps(p, <<"move", n, "new">>, new) /\ UNCHANGED disk
  BY <1>2 DEF Hauls
<1>4. <<"copy", n, "new">> \in new
  BY DEF Items
<1>5. \A y \in new : y = <<"copy", n, "new">> \/ y = <<"purge", n, "new">>
  BY DEF Items
<1>. HIDE DEF new
<1>6. PICK v : v = new
  OBVIOUS
<1>7. Steps(p, <<"move", n, "new">>, v)
  BY <1>3, <1>6
<1>8. \A y \in Rest(p) : Sound(p, y)'
  BY <1>3, <1>7, LateSound DEF Rank, Sounds
<1>9. Todo(p)' = v \cup Rest(p)
  BY <1>7, StepFacts
<1>10. \A f \in Files \cap Below(n) : Safe(p, f)'
  BY <1>4, <1>6, <1>9 DEF Safe
<1>11. Sound(p, <<"copy", n, "new">>)' /\ Sound(p, <<"purge", n, "new">>)'
  BY <1>2, <1>3, <1>10 DEF Sound, There
<1>12. ~failing'[p]
  BY DEF Hauls, TypeOK
<1>. QED
  BY <1>5, <1>6, <1>8, <1>9, <1>11, <1>12 DEF Sounds

(* A removal in the rest stays sound while a copy or a removal goes on. *)
LEMMA PurgesStaySound ==
  ASSUME Placed, NEW p \in Proc, NEW op \in {"copy", "fill", "purge"}, NEW n \in Node, NEW new,
         Steps(p, <<op, n, "new">>, new), Sounds(p),
         \A m \in Node : m # n => disk'["old"][m] = disk["old"][m],
         disk'["old"][n] # "absent" => disk["old"][n] # "absent",
         op # "purge" => disk'["old"][n] = disk["old"][n],
         \A f \in Files : disk["new"][f] = "legacy" => disk'["new"][f] = "legacy",
         op # "purge" => \A f \in Files \cap Below(n) : There("old", f) =>
            \/ disk'["new"][f] = "legacy"
            \/ \E nop \in {"copy", "fill"}, m \in Node : <<nop, m, "new">> \in new /\ f \in Below(m)
  PROVE  /\ \A f \in Files : There("old", f)' /\ Safe(p, f) => Safe(p, f)'
         /\ \A y \in Rest(p) : y[1] = "purge" => Sound(p, y)'
<1>1. \A f \in Files : disk'["old"][f] # "absent" => disk["old"][f] # "absent"
  BY DEF Files
<1>2. ASSUME NEW f \in Files, disk'["old"][f] # "absent", Safe(p, f) PROVE Safe(p, f)'
  <2>1. op \in {"copy", "fill"} /\ f \in Below(n) =>
            \/ disk'["new"][f] = "legacy"
            \/ \E nop \in {"copy", "fill"}, m \in Node : <<nop, m, "new">> \in new /\ f \in Below(m)
    BY <1>1, <1>2 DEF There
  <2>. QED
    BY <1>2, <2>1, SafeStep
<1>3. ASSUME NEW y \in Rest(p), y[1] = "purge" PROVE Sound(p, y)'
  <2>1. Before(<<op, n, "new">>, y) /\ y[2] \in Node /\ y[2] \in Below(y[2]) /\ Sound(p, y)
    BY StepFacts DEF Sounds
  <2>2. op = "purge" => y[2] # n
    BY <1>3, <2>1, BelowChildren DEF Before
  <2>3. disk'["old"][y[2]] = disk["old"][y[2]]
    BY <2>1, <2>2
  <2>4. disk'["old"][y[2]] # "absent"
    BY <1>3, <2>1, <2>3 DEF Sound, There
  <2>5. \A f \in Files \cap Below(y[2]) : disk'["old"][f] # "absent" /\ Safe(p, f) => Safe(p, f)'
    BY <1>2
  <2>. QED
    BY <1>1, <1>3, <2>1, <2>4, <2>5, PurgeSound
<1>. QED
  BY <1>2, <1>3 DEF There

(* A copy of a folder is followed by sound copies of what is in it. *)
LEMMA CopiesSound ==
  ASSUME TypeOK, Placed, Closed, NEW p \in Proc, NEW n \in Node, NEW to \in Place, Copies(p, n, to), Sounds(p)
  PROVE  Sounds(p)'
<1>1. Sound(p, <<"copy", n, to>>)
  BY DEF Copies, Steps, Sounds
<1>2. to = "new" /\ There("old", n) /\ ~There("new", n)
  BY <1>1 DEF Sound
<1>3. ~failing'[p]
  BY DEF Copies, Sounds
<1>4. ASSUME NEW v, Put("new", n, v), NEW new, Steps(p, <<"copy", n, "new">>, new),
             \A y \in new : Sound(p, y)',
             \A f \in Files \cap Below(n) : There("old", f) =>
               \E nop \in {"copy", "fill"}, m \in Node : <<nop, m, "new">> \in new /\ f \in Below(m)
      PROVE  Sounds(p)'
  <2>1. \A m \in Node : disk'["old"][m] = disk["old"][m]
    BY <1>4, Places DEF Put
  <2>2. \A f \in Files : disk["new"][f] = "legacy" => disk'["new"][f] = "legacy"
    BY <1>2, <1>4, Places DEF Put, Files, There
  <2>3. \A y \in Rest(p) : y[1] = "purge" => Sound(p, y)'
    BY <1>4, <2>1, <2>2, PurgesStaySound
  <2>4. \A place \in {"old", "new"}, m \in Node : m \notin Below(n) => disk'[place][m] = disk[place][m]
    BY <1>4, Places, BelowChildren DEF Put
  <2>5. \A y \in Rest(p) : y[1] # "purge" => Sound(p, y)'
    BY <1>4, <2>4, RestSound DEF Sounds
  <2>. QED
    BY <1>3, <1>4, <2>3, <2>5, StepFacts DEF Sounds
<1>5. ASSUME n \in Dirs, Put("new", n, "folder"),
             Steps(p, <<"copy", n, "new">>, Items("copy", Listing(n), "new"))
      PROVE  Sounds(p)'
  <2>. DEFINE new == Items("copy", Listing(n), "new")
  <2>1. ASSUME NEW c \in Listing(n) PROVE Sound(p, <<"copy", c, "new">>)'
    <3>1. c \in Node /\ c # n /\ Above[c] = Above[n] \cup {n} /\ There("old", c)
      BY BelowChildren, ChildBelow DEF Listing
    <3>2. ~There("new", c)
      BY <1>2, <3>1 DEF Closed
    <3>3. There("old", c)' /\ ~There("new", c)'
      BY <1>5, <3>1, <3>2, Places DEF Put, There
    <3>. QED
      BY <3>3 DEF Sound
  <2>2. \A y \in new : Sound(p, y)'
    BY <2>1 DEF Items
  <2>3. ASSUME NEW f \in Files \cap Below(n), There("old", f)
        PROVE  \E nop \in {"copy", "fill"}, m \in Node : <<nop, m, "new">> \in new /\ f \in Below(m)
    <3>1. PICK c \in Children(n) : f \in Below(c)
      BY <1>5, DownTo DEF Files
    <3>2. c \in Node /\ There("old", c)
      BY <2>3, <3>1 DEF Closed, Below, Children, Files
    <3>3. <<"copy", c, "new">> \in new
      BY <3>1, <3>2 DEF Listing, Items
    <3>. QED
      BY <3>1, <3>2, <3>3
  <2>. HIDE DEF new
  <2>4. PICK v : v = new
    OBVIOUS
  <2>5. Steps(p, <<"copy", n, "new">>, v)
    BY <1>5, <2>4 DEF new
  <2>. QED
    BY <1>4, <1>5, <2>2, <2>3, <2>4, <2>5
<1>6. ASSUME n \notin Dirs, Put("new", n, "torn"),
             Steps(p, <<"copy", n, "new">>, Items("fill", {n}, "new"))
      PROVE  Sounds(p)'
  <2>1. disk'["new"][n] = "torn"
    BY <1>6, Places DEF Put
  <2>2. \A y \in Items("fill", {n}, "new") : Sound(p, y)'
    BY <2>1 DEF Items, Sound
  <2>3. \A f \in Files \cap Below(n) : <<"fill", n, "new">> \in Items("fill", {n}, "new") /\ f \in Below(n)
    BY DEF Items
  <2>4. PICK v : v = Items("fill", {n}, "new")
    OBVIOUS
  <2>5. Steps(p, <<"copy", n, "new">>, v) /\ Put("new", n, "torn")
    BY <1>6, <2>4
  <2>. QED
    BY <1>4, <2>2, <2>3, <2>4, <2>5
<1>. QED
  BY <1>2, <1>5, <1>6 DEF Copies

(* A filled file is safe, for all removals to come. *)
LEMMA FillsSound ==
  ASSUME TypeOK, Placed, NEW p \in Proc, NEW n \in Node, NEW to \in Place, Fills(p, n, to), Sounds(p)
  PROVE  Sounds(p)'
<1>1. Sound(p, <<"fill", n, to>>) /\ ItemOK(<<"fill", n, to>>)
  BY ItemOfStep DEF Fills, Steps, Sounds
<1>2. to = "new" /\ There("new", n) /\ n \notin Dirs
  BY <1>1 DEF Sound, ItemOK, There
<1>3. Steps(p, <<"fill", n, "new">>, {}) /\ Put("new", n, "legacy") /\ ~failing'[p]
  BY <1>2 DEF Fills, Sounds
<1>4. \A m \in Node : disk'["old"][m] = disk["old"][m]
  BY <1>3, Places DEF Put
<1>5. \A f \in Files : disk["new"][f] = "legacy" => disk'["new"][f] = "legacy"
  BY <1>3, Places DEF Put, Files
<1>6. \A f \in Files \cap Below(n) : disk'["new"][f] = "legacy"
  BY <1>2, <1>3, BelowFile, Places DEF Put
<1>7. \A y \in Rest(p) : y[1] = "purge" => Sound(p, y)'
  BY <1>3, <1>4, <1>5, <1>6, PurgesStaySound
<1>8. \A place \in {"old", "new"}, m \in Node : m \notin Below(n) => disk'[place][m] = disk[place][m]
  BY <1>3, Places, BelowChildren DEF Put
<1>9. \A y \in Rest(p) : y[1] # "purge" => Sound(p, y)'
  BY <1>3, <1>8, RestSound DEF Sounds
<1>. QED
  BY <1>3, <1>7, <1>9, StepFacts DEF Sounds

(* A removal of a folder is preceded by sound removals of what is in it. *)
LEMMA PurgesSound ==
  ASSUME TypeOK, Placed, Closed, NEW p \in Proc, NEW n \in Node, NEW to \in Place, Purges(p, n, to), Sounds(p)
  PROVE  Sounds(p)'
<1>1. Sound(p, <<"purge", n, to>>)
  BY DEF Purges, Steps, Sounds
<1>2. to = "new" /\ There("old", n) /\ \A f \in Files \cap Below(n) : There("old", f) => Safe(p, f)
  BY <1>1 DEF Sound
<1>3. ~failing'[p]
  BY DEF Purges, Sounds
<1>4. ASSUME NEW new, Steps(p, <<"purge", n, "new">>, new),
             \A m \in Node : m # n => disk'["old"][m] = disk["old"][m],
             disk'["old"][n] # "absent" => disk["old"][n] # "absent",
             \A m \in Node : disk'["new"][m] = disk["new"][m]
      PROVE  /\ \A f \in Files : There("old", f)' /\ Safe(p, f) => Safe(p, f)'
             /\ \A y \in Rest(p) : Sound(p, y)'
  <2>1. \A f \in Files : disk["new"][f] = "legacy" => disk'["new"][f] = "legacy"
    BY <1>4 DEF Files
  <2>2. /\ \A f \in Files : There("old", f)' /\ Safe(p, f) => Safe(p, f)'
        /\ \A y \in Rest(p) : y[1] = "purge" => Sound(p, y)'
    BY <1>4, <2>1, PurgesStaySound
  <2>3. \A place \in {"old", "new"}, m \in Node : m \notin Below(n) => disk'[place][m] = disk[place][m]
    BY <1>4, BelowChildren
  <2>4. \A y \in Rest(p) : y[1] # "purge" => Sound(p, y)'
    BY <1>4, <2>3, RestSound DEF Sounds
  <2>. QED
    BY <2>2, <2>4
<1>5. ASSUME Put("old", n, "absent"), Steps(p, <<"purge", n, "new">>, {}) PROVE Sounds(p)'
  <2>1. \A y \in Rest(p) : Sound(p, y)'
    BY <1>2, <1>4, <1>5, Places DEF Put
  <2>. QED
    BY <1>3, <1>5, <2>1, StepFacts DEF Sounds
<1>6. ASSUME UNCHANGED disk,
             Steps(p, <<"purge", n, "new">>, Items("purge", Listing(n), "new") \cup {<<"purge", n, "new">>})
      PROVE  Sounds(p)'
  <2>. DEFINE new == Items("purge", Listing(n), "new") \cup {<<"purge", n, "new">>}
  <2>1. PICK v : v = new
    OBVIOUS
  <2>2. \A y \in new : y[1] = "purge" /\ y[3] = "new" /\ y[2] \in Node /\ There("old", y[2]) /\ y[2] \in Below(n)
    BY <1>2, BelowChildren, ChildBelow DEF Items, Listing
  <2>. HIDE DEF new
  <2>3. Steps(p, <<"purge", n, "new">>, v)
    BY <1>6, <2>1 DEF new
  <2>4. /\ \A f \in Files : There("old", f)' /\ Safe(p, f) => Safe(p, f)'
        /\ \A y \in Rest(p) : Sound(p, y)'
    BY <1>4, <1>6, <2>3
  <2>5. ASSUME NEW y \in v PROVE Sound(p, y)'
    <3>1. /\ y[1] = "purge" /\ y[3] = "new" /\ y[2] \in Node /\ There("old", y[2])
          /\ Below(y[2]) \subseteq Below(n)
      BY <2>1, <2>2, BelowBelow
    <3>2. \A f \in Files \cap Below(y[2]) : There("old", f)' => Safe(p, f)'
      BY <1>2, <1>6, <2>4, <3>1 DEF There
    <3>. QED
      BY <1>6, <3>1, <3>2 DEF Sound, There
  <2>. QED
    BY <1>3, <2>3, <2>4, <2>5, StepFacts DEF Sounds
<1>. QED
  BY <1>2, <1>5, <1>6 DEF Purges

(* Who runs alone after a step of a command was alone before, and is that one. *)
LEMMA AloneBefore ==
  ASSUME TypeOK, Work, Placed, Undisturbed, Next, NEW p \in Proc, at[p] = "running", UNCHANGED at,
         NEW q \in Proc, at'[q] = "running", alone'[q]
  PROVE  q = p /\ alone[p] /\ Sounds(p)
<1>1. Work' /\ alone[q]
  BY TypesKept
<1>2. q = p
  BY <1>1 DEF Work, Running
<1>. QED
  BY <1>1, <1>2 DEF Undisturbed, Sounds

(* The conjunct Undisturbed of the invariant is kept. *)
LEMMA UndisturbedKept ==
  ASSUME TypeOK, Work, Placed, Closed, Undisturbed, Next
  PROVE  Undisturbed'
<1>. SUFFICES ASSUME NEW q \in Proc, at'[q] = "running", alone'[q] PROVE Sounds(q)'
  BY DEF Undisturbed, Sounds
<1>0. alone[q] /\ Running' = {q} /\ Work'
  BY TypesKept DEF Work
<1>1. ASSUME NEW p \in Proc, NEW n \in Node,
             Visits(p, n) \/ Lists(p, n) \/ Prunes(p, n) \/ Hauls(p, n) \/ Renames(p, n)
      PROVE  Sounds(q)'
  <2>1. at[p] = "running" /\ UNCHANGED at
    BY <1>1 DEF Visits, Lists, Prunes, Hauls, Renames, Steps
  <2>2. q = p /\ Sounds(p)
    BY <2>1, AloneBefore
  <2>. QED
    BY <1>1, <2>2, LooksSound, RenamesSound, HaulsSound
<1>2. ASSUME NEW p \in Proc, NEW n \in Node, NEW to \in Place,
             Errs(p, n, to) \/ Copies(p, n, to) \/ Fills(p, n, to) \/ Purges(p, n, to)
      PROVE  Sounds(q)'
  <2>1. at[p] = "running" /\ UNCHANGED at
    BY <1>2 DEF Errs, Copies, Fills, Purges, Steps
  <2>2. q = p /\ Sounds(p)
    BY <2>1, AloneBefore
  <2>3. ~Errs(p, n, to)
    BY <2>2 DEF Errs, Steps, Sounds, Sound
  <2>. QED
    BY <1>2, <2>2, <2>3, CopiesSound, FillsSound, PurgesSound
<1>3. ASSUME NEW p \in Proc, Start(p) PROVE Sounds(q)'
  <2>1. at'[p] = "running" /\ at[p] = "idle" /\ UNCHANGED <<work, failing>>
    BY <1>3 DEF Start, TypeOK
  <2>2. p = q /\ work[p] = <<>> /\ ~failing[p]
    BY <1>0, <2>1 DEF Running, Work
  <2>. QED
    BY <2>1, <2>2 DEF Sounds, Todo, Range
<1>4. ASSUME NEW p \in Proc, Migrate(p) PROVE Sounds(q)'
  <2>1. /\ at[p] = "running" /\ UNCHANGED <<at, failing>>
        /\ Todo(p)' = Items("visit", Range(Roots), "new")
    BY <1>4, MigrateSteps DEF Advance
  <2>2. q = p /\ Sounds(p)
    BY <2>1, AloneBefore
  <2>3. \A y \in Items("visit", Range(Roots), "new") : Sound(p, y)'
    BY DEF Items, Sound
  <2>. QED
    BY <2>1, <2>2, <2>3 DEF Sounds
<1>5. ASSUME NEW p \in Proc, Takes(p) \/ Mkdir(p) \/ Save(p) \/ Unlink(p) PROVE Sounds(q)'
  <2>1. at[p] = "running" /\ UNCHANGED <<at, failing, work>> /\ work[p] = <<>>
    BY <1>5, WriteSteps DEF Takes, Calls, Advance
  <2>2. q = p /\ Sounds(p)
    BY <2>1, AloneBefore
  <2>. QED
    BY <2>1, <2>2 DEF Sounds, Todo, Range
<1>6. ASSUME NEW p \in Proc, NEW how, Ends(p, how) PROVE Sounds(q)'
  <2>1. at[p] = "running" /\ at'[p] # "running" /\ at' = [at EXCEPT ![p] = how]
    BY <1>6 DEF Ends, Over, TypeOK
  <2>2. q # p /\ at[q] = "running"
    BY <2>1 DEF TypeOK
  <2>. QED
    BY <1>0, <2>1, <2>2 DEF Work, Running
<1>. QED
  BY Kinds, <1>1, <1>2, <1>3, <1>4, <1>5, <1>6

-----------------------------------------------------------------------------
(* Who has the lock, and what a save or a destroy has come to. *)

(* A command that has come to the record stays so, and its next one has. *)
LEMMA TouchedKept ==
  ASSUME TypeOK, Work, Placed, Next
  PROVE  /\ Touched => Touched'
         /\ Orderly' => Orderly
         /\ \A q \in Proc : pc'[q] \in Nat /\ pc'[q] >= pc[q]
<1>1. \A q \in Proc : pc'[q] \in {pc[q], pc[q] + 1}
  <2>1. ASSUME NEW p \in Proc, Advance(p), NEW q \in Proc PROVE pc'[q] \in {pc[q], pc[q] + 1}
    BY <2>1 DEF Advance, Work
  <2>2. ASSUME NEW p \in Proc, Migrate(p) \/ Takes(p) \/ Mkdir(p) \/ Save(p) \/ Unlink(p) PROVE Advance(p)
    BY <2>2, WriteSteps DEF Migrate, Takes
  <2>. QED
    BY Kinds, Calm, <2>1, <2>2
<1>2. UNCHANGED <<task, across>> /\ \A q \in Proc : alone'[q] => alone[q]
  BY TypesKept
<1>3. \A q \in Proc : pc[q] \in Nat
  BY DEF Work
<1>4. ASSUME Touched PROVE Touched'
  <2>1. PICK q \in Proc : \E i \in 1..(pc[q] - 1) : Script(task[q])[i] \in {"open", "unlink"}
    BY <1>4 DEF Touched
  <2>2. 1..(pc[q] - 1) \subseteq 1..(pc'[q] - 1)
    BY <1>1, <1>3
  <2>3. \E i \in 1..(pc'[q] - 1) : Script(task'[q])[i] \in {"open", "unlink"}
    BY <1>2, <2>1, <2>2
  <2>. QED
    BY <2>3 DEF Touched
<1>5. Orderly' => Orderly
  BY <1>2 DEF Orderly
<1>. QED
  BY <1>1, <1>3, <1>4, <1>5

(* A save or a removal that comes to the record. *)
LEMMA ComesTo ==
  ASSUME TypeOK, Work, Placed, NEW p \in Proc, Save(p) \/ Unlink(p)
  PROVE  Touched'
<1>1. /\ Advance(p) /\ \A q \in Proc : pc[q] \in Nat
      /\ task[p] \in Task /\ pc[p] >= 1
  BY WriteSteps DEF Work, TypeOK
<1>2. pc'[p] = pc[p] + 1 /\ task' = task
  BY DEF Advance, Work, Save, Unlink
<1>3. \E i \in 1..pc[p] : Script(task[p])[i] \in {"open", "unlink"}
  <2>1. CASE Script(task[p])[pc[p]] \in {"open", "unlink"}
    BY <1>1, <2>1
  <2>2. CASE task[p] = "save" /\ pc[p] = 7
    <3>1. Script("save")[6] = "open"
      BY DEF Script
    <3>. QED
      BY <2>2, <3>1
  <2>. QED
    BY <2>1, <2>2, CallsOf DEF Save, Unlink, Calls
<1>4. 1..pc[p] = 1..(pc'[p] - 1)
  BY <1>1, <1>2
<1>. QED
  BY <1>2, <1>3, <1>4 DEF Touched

(* One command at a time has the lock. *)
LEMMA OneOwner ==
  ASSUME Work, NEW p \in Proc, NEW q \in Proc, at[p] = "running", at[q] = "running",
         task[p] # "look", task[q] # "look", pc[p] >= 3, pc[q] >= 3
  PROVE  p = q /\ lock = p
  BY DEF Work

-----------------------------------------------------------------------------
(* A migration that goes on has all in sight that is not moved. *)

(* A command finds its items as it put them: copies are made by one at a time. *)
LEMMA OrderlySound ==
  ASSUME Undisturbed, Renaming, Orderly, NEW p \in Proc, at[p] = "running"
  PROVE  /\ across => Sounds(p)
         /\ ~across => \A x \in Todo(p) : x[1] \notin {"copy", "fill", "purge"}
  BY DEF Orderly, Undisturbed, Sounds, Renaming

(* What is at the data root stays there as long as its old one is there and
   somebody counts on it. *)
LEMMA NewStays ==
  ASSUME TypeOK, Work, Placed, Closed, Next, NEW q \in Proc, NEW n \in Node,
         Obliged(q, n)', There("old", n)', There("new", n)
  PROVE  There("new", n)'
<1>1. ASSUME NEW m \in Node, NEW to \in Place, to # "old", Shift(m, to) PROVE There("new", n)'
  <2>1. n \notin Below(m)
    BY <1>1 DEF Shift, There
  <2>. QED
    BY <1>1, <2>1, Places DEF Shift, There
<1>2. ASSUME NEW m \in Node, NEW to \in Place, NEW v, v # "absent", Put(to, m, v) PROVE There("new", n)'
  BY <1>2, Places DEF Put, There
<1>3. ASSUME NEW m \in Node, Put("old", m, "absent") PROVE There("new", n)'
  BY <1>3, Places DEF Put, There
<1>4. ASSUME UNCHANGED disk PROVE There("new", n)'
  BY <1>4 DEF There
<1>5. ASSUME NEW p \in Proc, Mkdir(p) \/ Save(p) PROVE There("new", n)'
  <2>1. ~Unlink(p)
    BY <1>5, CallsOf DEF Mkdir, Save, Unlink
  <2>. QED
    BY <1>5, <2>1, WriteSteps DEF There
<1>6. ASSUME NEW p \in Proc, Unlink(p) PROVE There("new", n)'
  <2>1. /\ task[p] = "forget" /\ pc[p] = 4 /\ at[p] = "running" /\ Advance(p)
        /\ Touched'
    BY <1>6, CallsOf, ComesTo DEF Unlink
  <2>2. /\ pc' = [pc EXCEPT ![p] = 5] /\ pc \in [Proc -> Nat] /\ task' = task /\ at' = at
    BY <2>1 DEF Advance, Work
  <2>3. CASE n = Record
    <3>1. at[q] = "running" /\ pc'[q] >= 4 /\ ~(task[q] = "forget" /\ pc'[q] > 4)
      BY <2>1, <2>2, <2>3 DEF Obliged
    <3>2. q # p /\ pc[q] >= 4
      BY <2>1, <2>2, <3>1
    <3>3. task[q] # "look"
      <4>1. Len(Script("look")) = 1
        BY Lengths DEF Task
      <4>2. pc[q] \in Nat /\ pc[q] \in 1..(Len(Script(task[q])) + 1)
        BY DEF Work, TypeOK
      <4>3. ASSUME task[q] = "look" PROVE FALSE
        <5>1. Len(Script(task[q])) = 1
          BY <4>1, <4>3, Zenon
        <5>. QED
          BY <3>2, <4>2, <5>1
      <4>. QED
        BY <4>3
    <3>. QED
      BY <2>1, <2>2, <3>1, <3>2, <3>3, OneOwner
  <2>4. CASE n # Record
    BY <1>6, <2>4, Places DEF Unlink, TypeOK, There
  <2>. QED
    BY <2>3, <2>4
<1>7. ASSUME NEW p \in Proc, NEW m \in Node, NEW to \in Place, Copies(p, m, to) \/ Fills(p, m, to) \/ Purges(p, m, to)
      PROVE  There("new", n)'
  BY <1>2, <1>3, <1>4, <1>7 DEF Copies, Fills, Purges
<1>8. ASSUME NEW p \in Proc, NEW m \in Node, Prunes(p, m) \/ Renames(p, m) PROVE There("new", n)'
  <2>1. Goal(m) \in Place /\ Goal(m) # "old"
    BY Places DEF Goal
  <2>2. PICK to : to = Goal(m)
    OBVIOUS
  <2>3. Prunes(p, m) \/ Shift(m, to)
    BY <1>8, <2>2 DEF Renames
  <2>. QED
    BY <1>1, <1>3, <1>4, <2>1, <2>2, <2>3 DEF Prunes
<1>9. ASSUME NEW p \in Proc, Start(p) \/ Migrate(p) \/ Takes(p) \/ \E how : Ends(p, how)
      PROVE  UNCHANGED disk
  BY <1>9 DEF Start, Migrate, Takes, Ends
<1>10. ASSUME NEW p \in Proc, NEW m \in Node,
             Visits(p, m) \/ Lists(p, m) \/ Hauls(p, m) \/ \E to \in Place : Errs(p, m, to)
       PROVE  UNCHANGED disk
  BY <1>10 DEF Visits, Lists, Hauls, Errs, Same
<1>. QED
  BY Kinds, <1>4, <1>5, <1>6, <1>7, <1>8, <1>9, <1>10

(* Whoever counts on a thing after a step that begins no migration did before. *)
LEMMA ObligedBefore ==
  ASSUME TypeOK, Work, Placed, Next, NEW q \in Proc, ~Migrate(q), NEW n \in Node, Obliged(q, n)'
  PROVE  Obliged(q, n)
<1>0. (Touched => Touched') /\ UNCHANGED task /\ pc \in [Proc -> Nat]
  BY TouchedKept, TypesKept DEF Work
<1>1. ASSUME at[q] = "running", pc'[q] = pc[q] PROVE Obliged(q, n)
  BY <1>0, <1>1 DEF Obliged
<1>2. ASSUME NEW p \in Proc, Advance(p), at[p] = "running", p # q PROVE Obliged(q, n)
  <2>1. pc'[q] = pc[q] /\ at' = at
    BY <1>0, <1>2 DEF Advance
  <2>. QED
    BY <1>1, <2>1 DEF Obliged
<1>3. ASSUME Takes(q) \/ Mkdir(q) \/ Save(q) \/ Unlink(q) PROVE Obliged(q, n)
  <2>1. /\ Advance(q) /\ at[q] = "running"
        /\ \/ Takes(q) /\ pc[q] = 2
           \/ task[q] = "save" /\ pc[q] >= 4
           \/ Unlink(q) /\ task[q] = "forget" /\ pc[q] = 4
    BY <1>3, CallsOf DEF Takes, Mkdir, Save, Unlink
  <2>2. pc'[q] = pc[q] + 1
    BY <1>0, <2>1 DEF Advance
  <2>3. CASE Takes(q) /\ pc[q] = 2
    BY <1>0, <2>1, <2>2, <2>3 DEF Obliged
  <2>4. CASE task[q] = "save" /\ pc[q] >= 4
    BY <1>0, <2>1, <2>2, <2>4 DEF Obliged
  <2>5. CASE Unlink(q) /\ task[q] = "forget" /\ pc[q] = 4
    <3>1. Touched'
      BY <2>5, ComesTo
    <3>2. n # Record
      BY <1>0, <2>2, <2>5, <3>1 DEF Obliged
    <3>. QED
      BY <2>1, <2>5, <3>2 DEF Obliged
  <2>. QED
    BY <2>1, <2>3, <2>4, <2>5
<1>4. ASSUME NEW p \in Proc, Start(p) PROVE Obliged(q, n)
  <2>1. pc' = pc /\ at' = [at EXCEPT ![p] = "running"] /\ pc[p] = 1
    BY <1>4 DEF Start, Work
  <2>2. q # p
    BY <2>1 DEF Obliged
  <2>. QED
    BY <1>1, <2>1, <2>2 DEF Obliged
<1>5. ASSUME NEW p \in Proc, NEW how, Ends(p, how) PROVE Obliged(q, n)
  <2>1. pc' = pc /\ at' = [at EXCEPT ![p] = how] /\ how # "running"
    BY <1>5 DEF Ends, Over
  <2>2. q # p
    BY <2>1 DEF Obliged, TypeOK
  <2>. QED
    BY <1>1, <2>1, <2>2 DEF Obliged
<1>6. ASSUME NEW p \in Proc, NEW m \in Node,
             \/ Visits(p, m) \/ Lists(p, m) \/ Prunes(p, m) \/ Hauls(p, m) \/ Renames(p, m)
             \/ \E to \in Place : Errs(p, m, to) \/ Copies(p, m, to) \/ Fills(p, m, to) \/ Purges(p, m, to)
      PROVE  Obliged(q, n)
  <2>1. UNCHANGED pc
    BY <1>6, Calm
  <2>2. UNCHANGED at
    BY <1>6 DEF Visits, Lists, Prunes, Hauls, Renames, Errs, Copies, Fills, Purges, Steps
  <2>. QED
    BY <1>1, <2>1, <2>2 DEF Obliged
<1>7. ASSUME NEW p \in Proc, Migrate(p) \/ Takes(p) \/ Mkdir(p) \/ Save(p) \/ Unlink(p) PROVE Obliged(q, n)
  <2>1. Advance(p) /\ at[p] = "running"
    BY <1>7, CallsOf DEF Migrate, Takes, Mkdir, Save, Unlink
  <2>. QED
    BY <1>2, <1>3, <1>7, <2>1
<1>. QED
  BY Kinds, <1>4, <1>5, <1>6, <1>7

(* What stands for a thing stands for it still if it is left or something is put
   in its place that does. *)
LEMMA StillCovered ==
  ASSUME Placed, NEW p \in Proc, NEW x, NEW new, Steps(p, x, new), NEW n, Covered(p, n),
         \A op \in {"visit", "list", "move", "copy"}, m \in Node :
            x = <<op, m, "new">> /\ n \in Below(m) =>
              \E nop \in {"visit", "list", "move", "copy"}, l \in Node : <<nop, l, "new">> \in new /\ n \in Below(l)
  PROVE  Covered(p, n)'
<1>1. Todo(p) = {x} \cup Rest(p) /\ Todo(p)' = new \cup Rest(p)
  BY StepFacts
<1>2. PICK op \in {"visit", "list", "move", "copy"}, m \in Node :
        <<op, m, "new">> \in Todo(p) /\ n \in Below(m)
  BY DEF Covered
<1>3. CASE <<op, m, "new">> = x
  <2>1. PICK nop \in {"visit", "list", "move", "copy"}, l \in Node : <<nop, l, "new">> \in new /\ n \in Below(l)
    BY <1>2, <1>3
  <2>. QED
    BY <1>1, <2>1 DEF Covered
<1>4. CASE <<op, m, "new">> # x
  BY <1>1, <1>2, <1>4 DEF Covered
<1>. QED
  BY <1>3, <1>4

(* A node that is there in a folder is there in one of its listed things. *)
LEMMA Listed ==
  ASSUME Closed, NEW m \in Node, NEW n \in Below(m), n # m, There("old", n)
  PROVE  \E c \in Listing(m) : c \in Node /\ n \in Below(c)
<1>1. PICK c \in Children(m) : n \in Below(c)
  BY DownTo
<1>2. c \in Node /\ n \in Node /\ There("old", c)
  BY <1>1 DEF Closed, Below, Children
<1>. QED
  BY <1>1, <1>2 DEF Listing

(* What a step on an item does to what the item stands for. *)
Stands(new, n) ==
    \E op \in {"visit", "list", "move", "copy"}, m \in Node : <<op, m, "new">> \in new /\ n \in Below(m)

(* The same for an item of a given kind. *)
LEMMA ItemCovered ==
  ASSUME Placed, NEW p \in Proc, NEW op, NEW m \in Node, NEW to, NEW new, Steps(p, <<op, m, to>>, new),
         NEW n, Covered(p, n),
         op \in {"visit", "list", "move", "copy"} /\ to = "new" /\ n \in Below(m) => Stands(new, n)
  PROVE  Covered(p, n)'
<1>1. \A xop \in {"visit", "list", "move", "copy"}, l \in Node :
        <<op, m, to>> = <<xop, l, "new">> /\ n \in Below(l) => Stands(new, n)
  OBVIOUS
<1>. QED
  BY <1>1, StillCovered DEF Stands

(* A look covers its node by what it decides, a listing by its visits. *)
LEMMA LooksCover ==
  ASSUME Placed, Closed, NEW p \in Proc, NEW m \in Node, Visits(p, m) \/ Lists(p, m),
         NEW n \in Node, There("old", n), Covered(p, n)
  PROVE  There("new", n) \/ Covered(p, n)'
<1>1. n \in Below(m) => There("old", m)
  BY DEF Closed, Below
<1>2. CASE Visits(p, m)
  <2>1. ASSUME Steps(p, <<"visit", m, "new">>, {}), There("old", m) => There("new", m) /\ m \notin Dirs
        PROVE  There("new", n) \/ Covered(p, n)'
    <3>1. n \in Below(m) => There("new", n)
      BY <1>1, <2>1, BelowFile
    <3>. QED
      BY <2>1, <3>1, ItemCovered
  <2>2. ASSUME NEW nop \in {"move", "list"}, Steps(p, <<"visit", m, "new">>, Items(nop, {m}, "new"))
        PROVE  Covered(p, n)'
    <3>1. n \in Below(m) => Stands(Items(nop, {m}, "new"), n)
      BY DEF Items, Stands
    <3>. QED
      BY <2>2, <3>1, ItemCovered
  <2>. QED
    BY <1>2, <2>1, <2>2 DEF Visits
<1>3. CASE Lists(p, m)
  <2>1. PICK v : v = Items("visit", Listing(m), "new") \cup {<<"rmdir", m, "new">>}
    OBVIOUS
  <2>2. Steps(p, <<"list", m, "new">>, v)
    BY <1>3, <2>1 DEF Lists
  <2>3. ASSUME n \in Below(m), n # m PROVE Stands(v, n)
    <3>1. PICK c \in Listing(m) : c \in Node /\ n \in Below(c)
      BY <2>3, Listed
    <3>2. <<"visit", c, "new">> \in v
      BY <2>1 DEF Items
    <3>. QED
      BY <3>1, <3>2 DEF Stands
  <2>4. There("new", m)
    BY <2>2, ItemOfStep DEF ItemOK
  <2>. QED
    BY <2>2, <2>3, <2>4, ItemCovered
<1>. QED
  BY <1>2, <1>3

(* A rename takes the node away, a haul covers it by its copy. *)
LEMMA MovesCover ==
  ASSUME Placed, Undisturbed, Renaming, Orderly, NEW p \in Proc, NEW m \in Node,
         Prunes(p, m) \/ Hauls(p, m) \/ Renames(p, m),
         NEW n \in Node, There("old", n)', Covered(p, n)
  PROVE  Covered(p, n)'
<1>1. CASE Prunes(p, m)
  BY <1>1, ItemCovered DEF Prunes
<1>2. CASE Renames(p, m)
  <2>1. n \notin Below(m)
    BY <1>2 DEF Renames, Shift, There
  <2>. QED
    BY <1>2, <2>1, ItemCovered DEF Renames
<1>3. CASE Hauls(p, m)
  <2>1. Sounds(p) /\ <<"move", m, "new">> \in Todo(p)
    BY <1>3, OrderlySound DEF Hauls, Steps
  <2>2. Goal(m) = "new"
    BY <2>1 DEF Sounds, Sound, Goal
  <2>3. PICK v : v = Items("copy", {m}, "new") \cup Items("purge", {m}, "new")
    OBVIOUS
  <2>4. Steps(p, <<"move", m, "new">>, v) /\ <<"copy", m, "new">> \in v
    BY <1>3, <2>2, <2>3 DEF Hauls, Items
  <2>5. n \in Below(m) => Stands(v, n)
    BY <2>4 DEF Stands
  <2>. QED
    BY <2>4, <2>5, ItemCovered
<1>. QED
  BY <1>1, <1>2, <1>3

(* A copy covers what is below the node by further copies. *)
LEMMA CopiesCover ==
  ASSUME Placed, Closed, Undisturbed, Renaming, Orderly, NEW p \in Proc, NEW m \in Node, NEW to \in Place,
         Errs(p, m, to) \/ Copies(p, m, to) \/ Fills(p, m, to) \/ Purges(p, m, to),
         NEW n \in Node, There("old", n), Covered(p, n)
  PROVE  There("new", n)' \/ Covered(p, n)'
<1>1. at[p] = "running" /\ \E op \in {"copy", "fill", "purge"} : <<op, m, to>> \in Todo(p)
  BY DEF Errs, Copies, Fills, Purges, Steps
<1>2. Sounds(p)
  BY <1>1, OrderlySound
<1>3. CASE Errs(p, m, to)
  BY <1>2, <1>3 DEF Errs, Steps, Sounds, Sound
<1>4. CASE Fills(p, m, to)
  BY <1>4, ItemCovered DEF Fills
<1>5. CASE Purges(p, m, to)
  <2>1. PICK v : Steps(p, <<"purge", m, to>>, v)
    BY <1>5 DEF Purges
  <2>. QED
    BY <2>1, ItemCovered
<1>6. CASE Copies(p, m, to)
  <2>1. \E v : Steps(p, <<"copy", m, to>>, v)
    BY <1>6 DEF Copies
  <2>2. to = "new"
    BY <1>2, <2>1 DEF Steps, Sounds, Sound
  <2>3. ASSUME n = m PROVE There("new", n)'
    BY <1>6, <2>2, <2>3, Places DEF Copies, Put, There
  <2>4. ASSUME n # m, m \in Dirs, Steps(p, <<"copy", m, "new">>, Items("copy", Listing(m), "new"))
        PROVE  Covered(p, n)'
    <3>1. PICK v : v = Items("copy", Listing(m), "new")
      OBVIOUS
    <3>2. Steps(p, <<"copy", m, "new">>, v)
      BY <2>4, <3>1
    <3>3. ASSUME n \in Below(m) PROVE Stands(v, n)
      <4>1. PICK c \in Listing(m) : c \in Node /\ n \in Below(c)
        BY <2>4, <3>3, Listed
      <4>. QED
        BY <3>1, <4>1 DEF Items, Stands
    <3>. QED
      BY <3>2, <3>3, ItemCovered
  <2>5. ASSUME n # m, m \notin Dirs, Steps(p, <<"copy", m, "new">>, Items("fill", {m}, "new"))
        PROVE  Covered(p, n)'
    <3>1. PICK v : Steps(p, <<"copy", m, "new">>, v)
      BY <2>5
    <3>2. n \notin Below(m)
      BY <2>5, BelowFile
    <3>. QED
      BY <3>1, <3>2, ItemCovered
  <2>. QED
    BY <1>6, <2>2, <2>3, <2>4, <2>5 DEF Copies
<1>. QED
  BY <1>3, <1>4, <1>5, <1>6

(* The conjunct InSight of the invariant is kept. *)
LEMMA InSightKept ==
  ASSUME TypeOK, Work, Placed, Closed, Renaming, Undisturbed, InSight, Next
  PROVE  InSight'
<1>. SUFFICES ASSUME Orderly', NEW q \in Proc, NEW n \in Node, Obliged(q, n)', There("old", n)'
              PROVE  There("new", n)' \/ Covered(q, n)'
  BY DEF InSight
<1>0. Orderly
  BY TouchedKept
<1>1. There("new", n) => There("new", n)'
  BY NewStays
<1>2. There("old", n)
  BY TreesSteps DEF TreesKept, OldShrinks, There
<1>3. CASE Migrate(q)
  <2>1. PICK r \in Range(Roots) : n \in Below(r)
    BY RootsAssumption
  <2>2. r \in Node
    BY <2>1, RootsApart, RootsAssumption, LenProperties, ElementOfSeq DEF Range
  <2>3. <<"visit", r, "new">> \in Todo(q)'
    BY <1>3, MigrateSteps DEF Items
  <2>. QED
    BY <2>1, <2>2, <2>3 DEF Covered
<1>4. CASE ~Migrate(q)
  <2>1. There("new", n) \/ Covered(q, n)
    BY <1>0, <1>2, <1>4, ObligedBefore DEF InSight
  <2>2. SUFFICES ASSUME Covered(q, n) PROVE There("new", n)' \/ Covered(q, n)'
    BY <1>1, <2>1
  <2>3. ASSUME Todo(q)' = Todo(q) PROVE Covered(q, n)'
    BY <2>2, <2>3 DEF Covered
  <2>4. ASSUME NEW p \in Proc, p # q, \A r \in Proc : r # p => work'[r] = work[r] PROVE Covered(q, n)'
    BY <2>3, <2>4 DEF Todo
  <2>5. ASSUME NEW p \in Proc, NEW m \in Node,
               Visits(p, m) \/ Lists(p, m) \/ Prunes(p, m) \/ Hauls(p, m) \/ Renames(p, m)
        PROVE  There("new", n)' \/ Covered(q, n)'
    <3>1. \A r \in Proc : r # p => work'[r] = work[r]
      BY <2>5 DEF Visits, Lists, Prunes, Hauls, Renames, Steps
    <3>2. CASE p = q
      BY <1>0, <1>1, <1>2, <2>2, <2>5, <3>2, LooksCover, MovesCover
    <3>. QED
      BY <2>4, <3>1, <3>2
  <2>6. ASSUME NEW p \in Proc, NEW m \in Node, NEW to \in Place,
               Errs(p, m, to) \/ Copies(p, m, to) \/ Fills(p, m, to) \/ Purges(p, m, to)
        PROVE  There("new", n)' \/ Covered(q, n)'
    <3>1. \A r \in Proc : r # p => work'[r] = work[r]
      BY <2>6 DEF Errs, Copies, Fills, Purges, Steps
    <3>2. CASE p = q
      BY <1>0, <1>2, <2>2, <2>6, <3>2, CopiesCover
    <3>. QED
      BY <2>4, <3>1, <3>2
  <2>7. ASSUME NEW p \in Proc, Start(p) \/ Takes(p) \/ Mkdir(p) \/ Save(p) \/ Unlink(p)
        PROVE  Covered(q, n)'
    <3>1. UNCHANGED work
      BY <2>7, WriteSteps DEF Start, Takes
    <3>. QED
      BY <2>3, <3>1 DEF Todo
  <2>8. ASSUME NEW p \in Proc, NEW how, Ends(p, how) PROVE Covered(q, n)'
    <3>1. /\ work' = [work EXCEPT ![p] = <<>>] /\ work \in [Proc -> Seq(Item)]
          /\ at' = [at EXCEPT ![p] = how] /\ how # "running"
      BY <2>8 DEF Ends, Over, Work
    <3>2. p # q
      BY <3>1 DEF Obliged, TypeOK
    <3>. QED
      BY <2>4, <3>1, <3>2
  <2>9. ASSUME NEW p \in Proc, Migrate(p) PROVE Covered(q, n)'
    BY <1>4, <2>4, <2>9, MigrateSteps
  <2>. QED
    BY Kinds, <2>5, <2>6, <2>7, <2>8, <2>9
<1>. QED
  BY <1>3, <1>4

-----------------------------------------------------------------------------
(* Renames go to where nothing is. *)

(* In order nothing is moved inside of its own successor. *)
LEMMA BuriedKept ==
  ASSUME TypeOK, Work, Placed, Closed, Renaming, Undisturbed, Next, Orderly'
  PROVE  \A d \in Dirs, k \in Node : ~There(d, k)'
<1>0. Orderly /\ \A d \in Dirs, k \in Node : ~There(d, k)
  BY TouchedKept DEF Renaming
<1>1. ASSUME \A d \in Dirs, k \in Node : disk'[d][k] = disk[d][k]
      PROVE  \A d \in Dirs, k \in Node : ~There(d, k)'
  BY <1>0, <1>1 DEF There
<1>2. ASSUME NEW p \in Proc, NEW n \in Node,
             Visits(p, n) \/ Lists(p, n) \/ Prunes(p, n) \/ Hauls(p, n)
      PROVE  \A d \in Dirs, k \in Node : disk'[d][k] = disk[d][k]
  BY <1>2, Places DEF Visits, Lists, Prunes, Hauls, Same, Put
<1>3. ASSUME NEW p \in Proc, NEW n \in Node, Renames(p, n)
      PROVE  \A d \in Dirs, k \in Node : disk'[d][k] = disk[d][k]
  <2>1. <<"move", n, "new">> \in Todo(p) /\ ~across /\ There("old", n)
    BY <1>3 DEF Renames, Steps
  <2>2. ~There("new", n)
    BY <2>1 DEF Renaming
  <2>3. Shift(n, "new")
    BY <1>3, <2>2 DEF Renames, Goal
  <2>. QED
    BY <2>3, Places DEF Shift
<1>4. ASSUME NEW p \in Proc, NEW n \in Node, NEW to \in Place,
             Errs(p, n, to) \/ Copies(p, n, to) \/ Fills(p, n, to) \/ Purges(p, n, to)
      PROVE  \A d \in Dirs, k \in Node : disk'[d][k] = disk[d][k]
  <2>1. at[p] = "running" /\ \E op \in {"copy", "fill", "purge"} : <<op, n, to>> \in Todo(p)
    BY <1>4 DEF Errs, Copies, Fills, Purges, Steps
  <2>2. to = "new"
    BY <1>0, <2>1, OrderlySound DEF Sounds, Sound
  <2>. QED
    BY <1>4, <2>2, Places DEF Errs, Copies, Fills, Purges, Put
<1>5. ASSUME NEW p \in Proc, Mkdir(p) \/ Save(p) \/ Unlink(p)
      PROVE  \A d \in Dirs, k \in Node : disk'[d][k] = disk[d][k]
  BY <1>5, WriteSteps, Places
<1>6. ASSUME NEW p \in Proc, Start(p) \/ Migrate(p) \/ Takes(p) \/ \E how : Ends(p, how)
      PROVE  \A d \in Dirs, k \in Node : disk'[d][k] = disk[d][k]
  BY <1>6 DEF Start, Migrate, Takes, Ends
<1>. QED
  BY Kinds, <1>1, <1>2, <1>3, <1>4, <1>5, <1>6

(* The migration that a command has behind it. *)
LEMMA Behind ==
  ASSUME InSight, Orderly, NEW p \in Proc, work[p] = <<>>, NEW n \in Node, Obliged(p, n), There("old", n)
  PROVE  There("new", n)
<1>1. Todo(p) = {}
  BY DEF Todo, Range
<1>2. ~Covered(p, n)
  BY <1>1 DEF Covered
<1>. QED
  BY <1>2 DEF InSight

(* Nothing appears where a rename goes to. *)
LEMMA NothingAppears ==
  ASSUME TypeOK, Work, Placed, Closed, Renaming, InSight, Next, ~across, NEW n \in Node,
         There("old", n)', ~There("new", n)
  PROVE  ~There("new", n)'
<1>0. There("old", n) /\ Orderly
  BY TreesSteps DEF TreesKept, OldShrinks, There, Orderly
<1>1. ASSUME UNCHANGED disk PROVE ~There("new", n)'
  BY <1>1 DEF There
<1>2. ASSUME NEW p \in Proc, NEW m \in Node,
             Visits(p, m) \/ Lists(p, m) \/ Prunes(p, m) \/ Hauls(p, m)
      PROVE  ~There("new", n)'
  BY <1>2, Places DEF Visits, Lists, Prunes, Hauls, Same, Put, There
<1>3. ASSUME NEW p \in Proc, NEW m \in Node, Renames(p, m) PROVE ~There("new", n)'
  <2>1. <<"move", m, "new">> \in Todo(p) /\ There("old", m)
    BY <1>3 DEF Renames, Steps
  <2>2. ~There("new", m)
    BY <2>1 DEF Renaming
  <2>3. Shift(m, "new")
    BY <1>3, <2>2 DEF Renames, Goal
  <2>. QED
    BY <2>3, Places DEF Shift, There
<1>4. ASSUME NEW p \in Proc, NEW m \in Node, NEW to \in Place,
             Errs(p, m, to) \/ Copies(p, m, to) \/ Fills(p, m, to) \/ Purges(p, m, to)
      PROVE  FALSE
  <2>1. \E op \in {"copy", "fill", "purge"} : <<op, m, to>> \in Todo(p)
    BY <1>4 DEF Errs, Copies, Fills, Purges, Steps
  <2>. QED
    BY <2>1 DEF Renaming
<1>5. ASSUME NEW p \in Proc, Mkdir(p) PROVE ~There("new", n)'
  <2>1. task[p] = "save" /\ pc[p] = 4 /\ at[p] = "running" /\ work[p] = <<>>
    BY <1>5, CallsOf DEF Mkdir
  <2>2. Obliged(p, n)
    BY <2>1 DEF Obliged
  <2>. QED
    BY <1>0, <2>1, <2>2, Behind
<1>6. ASSUME NEW p \in Proc, Save(p) PROVE ~There("new", n)'
  <2>1. task[p] = "save" /\ pc[p] \in {6, 7} /\ at[p] = "running" /\ work[p] = <<>>
    BY <1>6, CallsOf DEF Save
  <2>2. Obliged(p, n)
    BY <2>1 DEF Obliged
  <2>. QED
    BY <1>0, <2>1, <2>2, Behind
<1>7. ASSUME NEW p \in Proc, Unlink(p) PROVE ~There("new", n)'
  BY <1>7, Places DEF Unlink, TypeOK, There
<1>8. ASSUME NEW p \in Proc, Start(p) \/ Migrate(p) \/ Takes(p) \/ \E how : Ends(p, how)
      PROVE  UNCHANGED disk
  BY <1>8 DEF Start, Migrate, Takes, Ends
<1>. QED
  BY Kinds, <1>1, <1>2, <1>3, <1>4, <1>5, <1>6, <1>7, <1>8

(* The conjunct Renaming of the invariant is kept. *)
LEMMA RenamingKept ==
  ASSUME TypeOK, Work, Placed, Closed, Renaming, Undisturbed, InSight, Next
  PROVE  Renaming'
<1>. DEFINE Aims(x) == /\ x[1] \notin {"copy", "fill", "purge"}
                       /\ x[1] = "move" /\ There("old", x[2]) => ~There("new", x[2])
<1>1. UNCHANGED across
  BY TypesKept
<1>2. ASSUME ~across, NEW q \in Proc, NEW x \in Todo(q)' PROVE Aims(x)'
  <2>0. \A r \in Proc : \A y \in Todo(r) : Aims(y) /\ y[2] \in Node
    <3>1. \A r \in Proc : Todo(r) \subseteq Item
      <4>1. \A r \in Proc : work[r] \in Seq(Item)
        BY DEF Work
      <4>. QED
        BY <4>1, LenProperties, ElementOfSeq DEF Todo, Range
    <3>. QED
      BY <1>2, <3>1 DEF Renaming, Item
  <2>1. ASSUME x \in Todo(q) PROVE Aims(x)'
    <3>1. Aims(x) /\ x[2] \in Node
      BY <2>0, <2>1
    <3>2. There("old", x[2])' => There("old", x[2])
      BY <3>1, TreesSteps DEF TreesKept, OldShrinks, There
    <3>3. There("old", x[2])' /\ ~There("new", x[2]) => ~There("new", x[2])'
      BY <1>2, <3>1, NothingAppears
    <3>. QED
      BY <3>1, <3>2, <3>3
  <2>2. ASSUME NEW p \in Proc, NEW op, NEW m \in Node, NEW to, NEW new, Steps(p, <<op, m, to>>, new),
               \A y \in new : Aims(y)'
        PROVE  Aims(x)'
    <3>1. CASE q = p
      BY <2>1, <2>2, <3>1, StepFacts
    <3>2. CASE q # p
      BY <2>1, <2>2, <3>2, StepFacts
    <3>. QED
      BY <3>1, <3>2
  <2>. DEFINE Aim == Aims(x)'
  <2>3. ASSUME NEW p \in Proc, NEW m \in Node, Visits(p, m) PROVE Aim
    <3>1. \A y \in Items("list", {m}, "new") : Aims(y)'
      BY DEF Items
    <3>2. ~There("new", m) => \A y \in Items("move", {m}, "new") : Aims(y)'
      BY <2>3 DEF Items, Visits, Same, There
    <3>3. ASSUME Steps(p, <<"visit", m, "new">>, {}) PROVE Aim
      BY <2>2, <3>3
    <3>4. ASSUME Steps(p, <<"visit", m, "new">>, Items("move", {m}, "new")), ~There("new", m) PROVE Aim
      BY <2>2, <3>2, <3>4
    <3>5. ASSUME Steps(p, <<"visit", m, "new">>, Items("list", {m}, "new")) PROVE Aim
      BY <2>2, <3>1, <3>5
    <3>. HIDE DEF Aim
    <3>. QED
      BY <2>3, <3>3, <3>4, <3>5 DEF Visits
  <2>4. ASSUME NEW p \in Proc, NEW m \in Node, Lists(p, m) PROVE Aim
    <3>1. PICK v : v = Items("visit", Listing(m), "new") \cup {<<"rmdir", m, "new">>}
      OBVIOUS
    <3>2. Steps(p, <<"list", m, "new">>, v)
      BY <2>4, <3>1 DEF Lists
    <3>3. \A y \in v : Aims(y)'
      BY <3>1 DEF Items
    <3>. QED
      BY <2>2, <3>2, <3>3
  <2>5. ASSUME NEW p \in Proc, NEW m \in Node, Prunes(p, m) \/ Renames(p, m) PROVE Aim
    BY <2>2, <2>5 DEF Prunes, Renames
  <2>6. ASSUME NEW p \in Proc, NEW m \in Node,
               \/ Hauls(p, m)
               \/ \E to \in Place : Errs(p, m, to) \/ Copies(p, m, to) \/ Fills(p, m, to) \/ Purges(p, m, to)
        PROVE  Aim
    <3>1. CASE Hauls(p, m)
      BY <1>2, <3>1 DEF Hauls
    <3>2. ASSUME NEW to \in Place, NEW op \in {"copy", "fill", "purge"}, <<op, m, to>> \in Todo(p) PROVE FALSE
      BY <2>0, <3>2
    <3>. QED
      BY <2>6, <3>1, <3>2 DEF Errs, Copies, Fills, Purges, Steps
  <2>7. ASSUME NEW p \in Proc, Start(p) \/ Takes(p) \/ Mkdir(p) \/ Save(p) \/ Unlink(p) PROVE Aim
    <3>1. UNCHANGED work
      BY <2>7, WriteSteps DEF Start, Takes
    <3>. QED
      BY <2>1, <3>1 DEF Todo
  <2>8. ASSUME NEW p \in Proc, NEW how, Ends(p, how) PROVE Aim
    <3>1. work' = [work EXCEPT ![p] = <<>>] /\ work \in [Proc -> Seq(Item)]
      BY <2>8 DEF Ends, Over, Work
    <3>2. Todo(q)' = {} \/ Todo(q)' = Todo(q)
      BY <3>1 DEF Todo, Range
    <3>. QED
      BY <2>1, <3>2
  <2>9. ASSUME NEW p \in Proc, Migrate(p) PROVE Aim
    <3>1. /\ Todo(p)' = Items("visit", Range(Roots), "new")
          /\ \A r \in Proc : r # p => work'[r] = work[r]
      BY <2>9, MigrateSteps
    <3>2. q # p => Todo(q)' = Todo(q)
      BY <3>1 DEF Todo
    <3>3. \A y \in Items("visit", Range(Roots), "new") : Aims(y)'
      BY DEF Items
    <3>. QED
      BY <2>1, <3>1, <3>2, <3>3
  <2>. HIDE DEF Aim
  <2>10. Aim
    BY Kinds, <2>3, <2>4, <2>5, <2>6, <2>7, <2>8, <2>9
  <2>. QED
    BY <2>10 DEF Aim
<1>3. Orderly' => \A d \in Dirs, k \in Node : ~There(d, k)'
  BY BuriedKept
<1>. QED
  BY <1>1, <1>2, <1>3 DEF Renaming

-----------------------------------------------------------------------------
(* The contents of the old files are kept. *)

(* The conjunct Kept of the invariant is kept. *)
LEMMA KeptKept ==
  ASSUME TypeOK, Work, Placed, Closed, Renaming, Undisturbed, Kept, Next
  PROVE  Kept'
<1>. DEFINE L(f) == disk["old"][f] = "legacy" \/ disk["new"][f] = "legacy"
<1>. SUFFICES ASSUME Orderly', NEW f \in Files, f \in first'.old, (f = Record => ~Touched)'
              PROVE  L(f)'
  BY DEF Kept
<1>0. Orderly /\ f \in first.old /\ (f = Record => ~Touched /\ ~Touched') /\ f \in Node /\ f \notin Dirs
  BY TouchedKept, TypesKept DEF Files
<1>1. L(f)
  BY <1>0 DEF Kept
<1>2. ASSUME disk'["old"][f] = disk["old"][f], disk'["new"][f] = disk["new"][f] PROVE L(f)'
  BY <1>1, <1>2
<1>3. ASSUME NEW p \in Proc, NEW m \in Node, Prunes(p, m) PROVE L(f)'
  <2>1. m \in Dirs
    BY <1>3, ItemOfStep DEF Prunes, ItemOK
  <2>. QED
    BY <1>0, <1>2, <1>3, <2>1, Places DEF Prunes, Put
<1>4. ASSUME NEW p \in Proc, NEW m \in Node, Renames(p, m) PROVE L(f)'
  <2>1. <<"move", m, "new">> \in Todo(p) /\ There("old", m) /\ ~across
    BY <1>4 DEF Renames, Steps
  <2>2. ~There("new", m)
    BY <2>1 DEF Renaming
  <2>3. Shift(m, "new")
    BY <1>4, <2>2 DEF Renames, Goal
  <2>4. CASE f \in Below(m)
    <3>1. ~There("new", f)
      BY <1>0, <2>2, <2>4 DEF Closed, Below
    <3>. QED
      BY <1>1, <2>3, <2>4, <3>1 DEF Shift, There
  <2>5. CASE f \notin Below(m)
    BY <1>0, <1>2, <2>3, <2>5, Places DEF Shift
  <2>. QED
    BY <2>4, <2>5
<1>5. ASSUME NEW p \in Proc, NEW m \in Node, NEW to \in Place, Copies(p, m, to) PROVE L(f)'
  <2>1. at[p] = "running" /\ <<"copy", m, to>> \in Todo(p)
    BY <1>5 DEF Copies, Steps
  <2>2. to = "new" /\ ~There("new", m)
    BY <1>0, <2>1, OrderlySound DEF Sounds, Sound
  <2>3. CASE f = m
    BY <1>0, <1>1, <1>5, <2>2, <2>3, Places DEF Copies, Put, There
  <2>4. CASE f # m
    BY <1>0, <1>2, <1>5, <2>2, <2>4, Places DEF Copies, Put
  <2>. QED
    BY <2>3, <2>4
<1>6. ASSUME NEW p \in Proc, NEW m \in Node, NEW to \in Place, Fills(p, m, to) PROVE L(f)'
  <2>1. to \in {"new"} \cup Dirs
    BY <1>6, ItemOfStep DEF Fills, ItemOK, Place
  <2>. QED
    BY <1>0, <1>1, <1>6, <2>1, Places DEF Fills, Put
<1>7. ASSUME NEW p \in Proc, NEW m \in Node, NEW to \in Place, Purges(p, m, to) PROVE L(f)'
  <2>1. PICK v : Steps(p, <<"purge", m, to>>, v)
    BY <1>7 DEF Purges
  <2>2. at[p] = "running" /\ <<"purge", m, to>> \in Todo(p)
    BY <2>1 DEF Steps
  <2>3. Sound(p, <<"purge", m, to>>)
    BY <1>0, <2>2, OrderlySound DEF Sounds
  <2>4. CASE f = m
    <3>1. Safe(p, f)
      BY <1>0, <2>3, <2>4, BelowChildren DEF Sound
    <3>2. \A op \in {"copy", "fill"}, l \in Node : <<op, l, "new">> \notin Todo(p)
      <4>1. Todo(p) = {<<"purge", m, to>>} \cup Rest(p) /\ \A y \in Rest(p) : Before(<<"purge", m, to>>, y)
        BY <2>1, StepFacts
      <4>2. \A y \in Rest(p) : y[1] \notin {"copy", "fill"}
        BY <4>1 DEF Before, Rank
      <4>. QED
        BY <4>1, <4>2
    <3>3. disk["new"][f] = "legacy"
      BY <3>1, <3>2 DEF Safe
    <3>. QED
      BY <1>0, <1>7, <3>3, Places DEF Purges, Put
  <2>5. CASE f # m
    BY <1>0, <1>2, <1>7, <2>5, Places DEF Purges, Put
  <2>. QED
    BY <2>4, <2>5
<1>8. ASSUME NEW p \in Proc, Mkdir(p) \/ Save(p) \/ Unlink(p) PROVE L(f)'
  <2>1. Save(p) \/ Unlink(p) => f # Record
    BY <1>0, ComesTo
  <2>2. f \notin Above[Record]
    BY <1>0, LayoutAssumption, RootsAssumption DEF Files
  <2>3. disk'["new"][f] = disk["new"][f] /\ disk'["old"][f] = disk["old"][f]
    BY <1>0, <1>8, <2>1, <2>2, WriteSteps, Places
  <2>. QED
    BY <1>2, <2>3
<1>9. ASSUME NEW p \in Proc, Start(p) \/ Migrate(p) \/ Takes(p) \/ \E how : Ends(p, how)
      PROVE  L(f)'
  BY <1>2, <1>9 DEF Start, Migrate, Takes, Ends
<1>10. ASSUME NEW p \in Proc, NEW m \in Node,
             Visits(p, m) \/ Lists(p, m) \/ Hauls(p, m) \/ \E to \in Place : Errs(p, m, to)
       PROVE  L(f)'
  BY <1>2, <1>10 DEF Visits, Lists, Hauls, Errs, Same
<1>. HIDE DEF L
<1>. QED
  BY Kinds, <1>3, <1>4, <1>5, <1>6, <1>7, <1>8, <1>9, <1>10

-----------------------------------------------------------------------------
(* A command that nobody runs beside meets no error. *)

(* Each error would contradict the soundness of the item it is met at. *)
LEMMA RaisesNot ==
  ASSUME TypeOK, Work, Undisturbed, Next, NEW q \in Proc, alone[q], at[q] # "failed"
  PROVE  at'[q] # "failed"
<1>0. at \in [Proc -> {"idle", "running", "done", "failed", "refused", "dead"}]
  BY DEF TypeOK
<1>1. ASSUME NEW p \in Proc, NEW op, NEW n, NEW to, Doing(p, op, n, to)
      PROVE  at[p] = "running" /\ <<op, n, to>> \in Todo(p)
  <2>1. work[p] \in Seq(Item) /\ work[p] # <<>> /\ Head(work[p]) = <<op, n, to>> /\ at[p] = "running"
    BY <1>1 DEF Doing, Work
  <2>. QED
    BY <2>1, HeadAndTail DEF Todo
<1>2. ASSUME NEW p \in Proc, NEW op, NEW n, NEW to, Doing(p, op, n, to), Raise(p), at'[q] = "failed"
      PROVE  Sound(p, <<op, n, to>>) /\ ~failing[p]
  <2>1. at' = [at EXCEPT ![p] = "failed"]
    BY <1>2 DEF Raise, Over
  <2>2. p = q
    BY <1>0, <1>2, <2>1
  <2>. QED
    BY <1>1, <1>2, <2>2 DEF Undisturbed
<1>3. ASSUME NEW p \in Proc,
             Start(p) \/ Migrate(p) \/ Lock(p) \/ Mkdir(p) \/ Save(p) \/ Unlink(p) \/ Finish(p) \/ Crash(p)
      PROVE  at'[q] # "failed"
  <2>1. at' = at \/ \E how \in {"running", "refused", "done", "dead"} : at' = [at EXCEPT ![p] = how]
    BY <1>3 DEF Start, Migrate, Lock, Mkdir, Save, Unlink, Finish, Crash, Over, Advance
  <2>. QED
    BY <1>0, <2>1
<1>4. ASSUME NEW p \in Proc, NEW next, Goes(p, next) PROVE at'[q] # "failed"
  BY <1>4 DEF Goes
<1>5. ASSUME NEW p \in Proc, NEW n \in Node, Visit(p, n) \/ Rmdir(p, n) PROVE at'[q] # "failed"
  BY <1>4, <1>5 DEF Visit, Rmdir
<1>6. ASSUME NEW p \in Proc, NEW n \in Node, List(p, n), at'[q] = "failed" PROVE FALSE
  <2>1. Doing(p, "list", n, "new") /\ Raise(p) /\ ~There("old", n)
    BY <1>4, <1>6 DEF List
  <2>. QED
    BY <1>2, <1>6, <2>1 DEF Sound
<1>7. ASSUME NEW p \in Proc, NEW n \in Node, Move(p, n), at'[q] = "failed" PROVE FALSE
  <2>1. /\ Doing(p, "move", n, "new") /\ Raise(p)
        /\ ~There("old", n) \/ (Goal(n) = n /\ There(Goal(n), n))
    BY <1>4, <1>7 DEF Move
  <2>2. There("old", n) /\ ~There("new", n)
    BY <1>2, <1>7, <2>1 DEF Sound
  <2>3. Goal(n) = "new"
    BY <2>2 DEF Goal
  <2>. QED
    BY <2>1, <2>2, <2>3
<1>8. ASSUME NEW p \in Proc, NEW n \in Node, NEW to \in Place, Copy(p, n, to) \/ Fill(p, n, to)
      PROVE  at'[q] # "failed"
  BY <1>4, <1>8 DEF Copy, Fill
<1>9. ASSUME NEW p \in Proc, NEW n \in Node, NEW to \in Place, Purge(p, n, to), at'[q] = "failed" PROVE FALSE
  <2>1. Doing(p, "purge", n, to) /\ Raise(p) /\ (~There("old", n) \/ failing[p])
    BY <1>4, <1>9 DEF Purge
  <2>. QED
    BY <1>2, <1>9, <2>1 DEF Sound
<1>. QED
  BY <1>3, <1>5, <1>6, <1>7, <1>8, <1>9 DEF Next

-----------------------------------------------------------------------------
(* One layout at most has the record. *)

(* No command starts again, and a dead one stays dead. *)
LEMMA NoReturn ==
  ASSUME TypeOK, Work, Placed, Next, NEW q \in Proc
  PROVE  /\ at'[q] = "idle" => at[q] = "idle"
         /\ at[q] = "dead" => at'[q] = "dead"
<1>0. at \in [Proc -> {"idle", "running", "done", "failed", "refused", "dead"}]
  BY DEF TypeOK
<1>1. ASSUME NEW p \in Proc, NEW how, at[p] \in {"idle", "running"}, at' = [at EXCEPT ![p] = how], how # "idle"
      PROVE  /\ at'[q] = "idle" => at[q] = "idle"
             /\ at[q] = "dead" => at'[q] = "dead"
  BY <1>0, <1>1
<1>2. ASSUME NEW p \in Proc, Start(p)
      PROVE  at[p] \in {"idle", "running"} /\ at' = [at EXCEPT ![p] = "running"]
  BY <1>2 DEF Start
<1>3. ASSUME NEW p \in Proc, NEW how, Ends(p, how)
      PROVE  at[p] \in {"idle", "running"} /\ at' = [at EXCEPT ![p] = how] /\ how # "idle"
  BY <1>3 DEF Ends, Over
<1>4. ASSUME NEW p \in Proc, Migrate(p) \/ Takes(p) \/ Mkdir(p) \/ Save(p) \/ Unlink(p) PROVE UNCHANGED at
  BY <1>4 DEF Migrate, Takes, Mkdir, Save, Unlink, Advance
<1>5. ASSUME NEW p \in Proc, NEW m \in Node,
             \/ Visits(p, m) \/ Lists(p, m) \/ Prunes(p, m) \/ Hauls(p, m) \/ Renames(p, m)
             \/ \E to \in Place : Errs(p, m, to) \/ Copies(p, m, to) \/ Fills(p, m, to) \/ Purges(p, m, to)
      PROVE  UNCHANGED at
  BY <1>5 DEF Visits, Lists, Prunes, Hauls, Renames, Errs, Copies, Fills, Purges, Steps
<1>. QED
  BY Kinds, <1>1, <1>2, <1>3, <1>4, <1>5

(* What ForgottenStays asks for was so before. *)
LEMMA ForgettingBefore ==
  ASSUME TypeOK, Work, Placed, Next, Forgetting'
  PROVE  Forgetting
<1>1. /\ Orderly /\ UNCHANGED <<first, across, task>>
      /\ \A q \in Proc : /\ at'[q] = "idle" => at[q] = "idle"
                         /\ at[q] = "dead" => at'[q] = "dead"
  BY NoReturn, TouchedKept, TypesKept DEF Forgetting
<1>. QED
  BY <1>1 DEF Forgetting

(* How the record appears at the data root when nobody saves: it is copied. *)
LEMMA RecordAppears ==
  ASSUME TypeOK, Work, Placed, Closed, Renaming, Undisturbed, Next, Forgetting',
         ~There("new", Record), There("new", Record)'
  PROVE  /\ There("old", Record)
         /\ ~across \/ \E p \in Proc, m \in Node :
              at'[p] = "running" /\ <<"purge", m, "new">> \in Todo(p)' /\ Record \in Below(m)
<1>0. Orderly /\ Record \in Node /\ Record \notin Dirs /\ Forgetting
  BY ForgettingBefore, RootsAssumption DEF Forgetting, Files
<1>1. disk'["new"][Record] # disk["new"][Record]
  BY DEF There
<1>. DEFINE G == /\ There("old", Record)
                 /\ ~across \/ \E p \in Proc, m \in Node :
                      at'[p] = "running" /\ <<"purge", m, "new">> \in Todo(p)' /\ Record \in Below(m)
<1>2. ASSUME NEW p \in Proc, NEW m \in Node, Prunes(p, m) PROVE G
  BY <1>0, <1>1, <1>2, Places DEF Prunes, Put
<1>3. ASSUME NEW p \in Proc, NEW m \in Node, Renames(p, m) PROVE G
  <2>1. <<"move", m, "new">> \in Todo(p) /\ There("old", m) /\ ~across
    BY <1>3 DEF Renames, Steps
  <2>2. ~There("new", m)
    BY <2>1 DEF Renaming
  <2>3. Shift(m, "new")
    BY <1>3, <2>2 DEF Renames, Goal
  <2>4. Record \in Below(m)
    BY <1>0, <1>1, <2>3, Places DEF Shift
  <2>5. There("old", Record)
    BY <2>3, <2>4 DEF Shift, There
  <2>. QED
    BY <2>1, <2>5
<1>4. ASSUME NEW p \in Proc, NEW m \in Node, NEW to \in Place, Copies(p, m, to) PROVE G
  <2>1. PICK v : Steps(p, <<"copy", m, to>>, v)
    BY <1>4 DEF Copies
  <2>2. at[p] = "running" /\ <<"copy", m, to>> \in Todo(p)
    BY <2>1 DEF Steps
  <2>3. to = "new" /\ There("old", m)
    BY <1>0, <2>2, OrderlySound DEF Sounds, Sound
  <2>4. m = Record
    BY <1>0, <1>1, <1>4, <2>3, Places DEF Copies, Put
  <2>5. PICK l \in Node : <<"purge", l, "new">> \in Todo(p) /\ Record \in Below(l)
    <3>1. PICK x : x = <<"copy", m, to>>
      OBVIOUS
    <3>2. x \in Todo(p) /\ x[1] = "copy" /\ x[2] = Record /\ x[3] = "new"
      BY <2>2, <2>3, <2>4, <3>1
    <3>. QED
      BY <3>2 DEF Placed
  <2>6. <<"purge", l, "new">> \in Todo(p)' /\ at'[p] = "running"
    BY <2>1, <2>5, StepFacts
  <2>. QED
    BY <2>3, <2>4, <2>5, <2>6
<1>5. ASSUME NEW p \in Proc, NEW m \in Node, NEW to \in Place, Fills(p, m, to) \/ Purges(p, m, to) PROVE G
  <2>1. Fills(p, m, to)
    BY <1>0, <1>1, <1>5, Places DEF Purges, Put
  <2>. QED
    BY <1>0, <1>1, <2>1, Places DEF Fills, Put, There
<1>6. ASSUME NEW p \in Proc, Mkdir(p) \/ Save(p) \/ Unlink(p) PROVE G
  <2>1. CASE Mkdir(p)
    <3>1. task[p] = "save" /\ at[p] = "running"
      BY <2>1, CallsOf DEF Mkdir
    <3>. QED
      BY <1>0, <3>1 DEF Forgetting
  <2>2. CASE Save(p)
    <3>1. task[p] = "save" /\ at[p] = "running"
      BY <2>2, CallsOf DEF Save
    <3>. QED
      BY <1>0, <3>1 DEF Forgetting
  <2>3. CASE Unlink(p)
    BY <1>0, <2>3, Places DEF Unlink, TypeOK, There
  <2>. QED
    BY <1>6, <2>1, <2>2, <2>3
<1>7. ASSUME NEW p \in Proc, Start(p) \/ Migrate(p) \/ Takes(p) \/ \E how : Ends(p, how)
      PROVE  G
  BY <1>1, <1>7 DEF Start, Migrate, Takes, Ends
<1>8. ASSUME NEW p \in Proc, NEW m \in Node,
             Visits(p, m) \/ Lists(p, m) \/ Hauls(p, m) \/ \E to \in Place : Errs(p, m, to)
      PROVE  G
  BY <1>1, <1>8 DEF Visits, Lists, Hauls, Errs, Same
<1>. HIDE DEF G
<1>9. G
  BY Kinds, <1>2, <1>3, <1>4, <1>5, <1>6, <1>7, <1>8
<1>. QED
  BY <1>9 DEF G

(* The removal that follows a copy of the record stays ahead until it is done. *)
LEMMA RemovalStays ==
  ASSUME TypeOK, Work, Placed, Closed, Undisturbed, Renaming, Next, Forgetting', across, There("old", Record)',
         NEW p \in Proc, NEW m \in Node, at[p] = "running",
         <<"purge", m, "new">> \in Todo(p), Record \in Below(m)
  PROVE  at'[p] = "running" /\ <<"purge", m, "new">> \in Todo(p)'
<1>. DEFINE it == <<"purge", m, "new">>
<1>0. /\ Forgetting /\ Orderly /\ across' = across /\ Record \in Node
      /\ at \in [Proc -> {"idle", "running", "done", "failed", "refused", "dead"}]
  BY ForgettingBefore, TypesKept, RootsAssumption DEF Forgetting, Files, TypeOK
<1>1. alone[p] /\ at'[p] # "failed" /\ at'[p] # "dead"
  <2>1. alone[p]
    BY <1>0 DEF Orderly
  <2>. QED
    BY <1>0, <2>1, RaisesNot DEF Forgetting
<1>2. work[p] # <<>>
  BY DEF Todo, Range
<1>3. There("old", Record)
  BY <1>0, TreesSteps DEF TreesKept, OldShrinks, There
<1>. DEFINE G == at'[p] = "running" /\ it \in Todo(p)'
<1>. HIDE DEF it
<1>4. ASSUME UNCHANGED at, work'[p] = work[p] PROVE G
  BY <1>4 DEF Todo, it
<1>5. ASSUME NEW q \in Proc, NEW x, NEW new, Steps(q, x, new), x = it => it \in new PROVE G
  <2>1. UNCHANGED at /\ Todo(q) = {x} \cup Rest(q) /\ Todo(q)' = new \cup Rest(q)
        /\ \A r \in Proc : r # q => Todo(r)' = Todo(r)
    BY <1>5, StepFacts
  <2>. QED
    BY <1>5, <2>1 DEF it
<1>6. ASSUME NEW q \in Proc, NEW n \in Node, Visits(q, n) PROVE G
  <2>1. <<"visit", n, "new">> # it
    BY DEF it
  <2>2. PICK v : Steps(q, <<"visit", n, "new">>, v)
    BY <1>6 DEF Visits
  <2>. QED
    BY <1>5, <2>1, <2>2
<1>7. ASSUME NEW q \in Proc, NEW n \in Node, NEW op \in {"list", "rmdir", "move", "copy", "fill"}, NEW to,
             NEW v, Steps(q, <<op, n, to>>, v)
      PROVE  G
  <2>1. <<op, n, to>> # it
    BY DEF it
  <2>. QED
    BY <1>5, <1>7, <2>1
<1>8. ASSUME NEW q \in Proc, NEW n \in Node, Lists(q, n) \/ Prunes(q, n) \/ Hauls(q, n) \/ Renames(q, n)
      PROVE  G
  <2>1. PICK op \in {"list", "rmdir", "move"} : \E v : Steps(q, <<op, n, "new">>, v)
    BY <1>8 DEF Lists, Prunes, Hauls, Renames
  <2>. HIDE DEF G
  <2>. QED
    BY <1>7, <2>1
<1>9. ASSUME NEW q \in Proc, NEW n \in Node, NEW to \in Place, Errs(q, n, to) \/ Copies(q, n, to) \/ Fills(q, n, to)
      PROVE  G
  <2>1. PICK op \in {"copy", "fill"} : \E v : Steps(q, <<op, n, to>>, v)
    BY <1>9 DEF Errs, Copies, Fills
  <2>. HIDE DEF G
  <2>. QED
    BY <1>7, <2>1
<1>10. ASSUME NEW q \in Proc, NEW n \in Node, NEW to \in Place, Purges(q, n, to) PROVE G
  <2>1. ASSUME Listing(n) = {}, Put("old", n, "absent"), Steps(q, <<"purge", n, to>>, {}) PROVE G
    <3>1. CASE n = m
      <4>1. Record # m
        BY <1>0, <2>1, <3>1, Places DEF Put, There
      <4>2. \E c \in Listing(m) : c \in Node
        BY <1>3, <4>1, Listed
      <4>. QED
        BY <2>1, <3>1, <4>2
    <3>2. CASE n # m
      <4>1. <<"purge", n, to>> # it
        BY <3>2 DEF it
      <4>. QED
        BY <1>5, <2>1, <4>1
    <3>. QED
      BY <3>1, <3>2
  <2>2. ASSUME Steps(q, <<"purge", n, to>>, Items("purge", Listing(n), to) \cup {<<"purge", n, to>>}) PROVE G
    <3>1. PICK v : v = Items("purge", Listing(n), to) \cup {<<"purge", n, to>>}
      OBVIOUS
    <3>2. Steps(q, <<"purge", n, to>>, v) /\ <<"purge", n, to>> \in v
      BY <2>2, <3>1
    <3>. QED
      BY <1>5, <3>2
  <2>. HIDE DEF G
  <2>. QED
    BY <1>10, <2>1, <2>2 DEF Purges
<1>11. ASSUME NEW q \in Proc, Takes(q) \/ Mkdir(q) \/ Save(q) \/ Unlink(q) PROVE G
  <2>1. UNCHANGED <<work, at>>
    BY <1>11, WriteSteps DEF Takes, Advance
  <2>. QED
    BY <1>4, <2>1
<1>12. ASSUME NEW q \in Proc, Start(q) PROVE G
  <2>1. q # p /\ UNCHANGED work /\ at' = [at EXCEPT ![q] = "running"]
    BY <1>12 DEF Start
  <2>. QED
    BY <1>0, <2>1 DEF Todo, it
<1>13. ASSUME NEW q \in Proc, Migrate(q) PROVE G
  <2>1. work[q] = <<>> /\ UNCHANGED at /\ \A r \in Proc : r # q => work'[r] = work[r]
    BY <1>13, MigrateSteps DEF Advance
  <2>. QED
    BY <1>2, <1>4, <2>1
<1>14. ASSUME NEW q \in Proc, NEW how, Ends(q, how) PROVE G
  <2>1. /\ at' = [at EXCEPT ![q] = how] /\ work' = [work EXCEPT ![q] = <<>>] /\ work \in [Proc -> Seq(Item)]
        /\ how \in {"failed", "refused", "done", "dead"}
        /\ how \in {"refused", "done"} => work[q] = <<>>
    BY <1>14 DEF Ends, Over, Work
  <2>2. q # p
    BY <1>0, <1>1, <1>2, <2>1
  <2>. QED
    BY <1>0, <2>1, <2>2 DEF Todo, it
<1>. HIDE DEF G
<1>15. G
  BY Kinds, <1>6, <1>8, <1>9, <1>10, <1>11, <1>12, <1>13, <1>14
<1>. QED
  BY <1>15 DEF G, it

(* A destroy that removes the record leaves none. *)
LEMMA UnlinkGone ==
  ASSUME TypeOK, Work, Placed, Closed, InSight, OneRecord, Next, Forgetting',
         NEW q \in Proc, Unlink(q)
  PROVE  ~There("old", Record)' /\ ~There("new", Record)'
<1>0. /\ Forgetting /\ Orderly /\ Record \in Node
      /\ task[q] = "forget" /\ pc[q] = 4 /\ at[q] = "running" /\ work[q] = <<>> /\ Todo(q) = {}
  BY ForgettingBefore, RootsAssumption, CallsOf DEF Forgetting, Files, Unlink
<1>1. /\ ~There("new", Record)'
      /\ There("old", Record)' => There("old", Record)
  BY <1>0, Places DEF Unlink, TypeOK, There
<1>2. Obliged(q, Record)
  BY <1>0 DEF Obliged
<1>3. ASSUME There("old", Record) PROVE FALSE
  <2>1. Twice
    BY <1>0, <1>2, <1>3, Behind DEF Twice
  <2>2. PICK p \in Proc, m \in Node : across /\ at[p] = "running" /\ <<"purge", m, "new">> \in Todo(p)
    BY <1>0, <2>1 DEF OneRecord
  <2>3. p = q
    BY <1>0, <2>2 DEF Orderly, Work, Running
  <2>. QED
    BY <1>0, <2>2, <2>3
<1>. QED
  BY <1>1, <1>3

(* The conjunct OneRecord of the invariant is kept. *)
LEMMA OneRecordKept ==
  ASSUME TypeOK, Work, Placed, Closed, Renaming, Undisturbed, InSight, OneRecord, Next
  PROVE  OneRecord'
<1>. SUFFICES ASSUME Forgetting'
              PROVE  /\ Twice' => across' /\ \E p \in Proc, m \in Node :
                          at'[p] = "running" /\ <<"purge", m, "new">> \in Todo(p)' /\ Record \in Below(m)
                     /\ \A q \in Proc : task'[q] = "forget" /\ pc'[q] = 5 =>
                          ~There("old", Record)' /\ ~There("new", Record)'
  BY DEF OneRecord
<1>0. Forgetting /\ UNCHANGED <<across, task>> /\ Record \in Node
  BY ForgettingBefore, TypesKept, RootsAssumption DEF Files
<1>1. There("old", Record)' => There("old", Record)
  BY <1>0, TreesSteps DEF TreesKept, OldShrinks, There
<1>2. ASSUME Twice'
      PROVE  across' /\ \E p \in Proc, m \in Node :
                at'[p] = "running" /\ <<"purge", m, "new">> \in Todo(p)' /\ Record \in Below(m)
  <2>1. CASE There("new", Record)
    <3>1. Twice
      BY <1>1, <1>2, <2>1 DEF Twice
    <3>2. across
      BY <1>0, <3>1 DEF OneRecord
    <3>3. PICK p \in Proc, m \in Node :
            at[p] = "running" /\ <<"purge", m, "new">> \in Todo(p) /\ Record \in Below(m)
      BY <1>0, <3>1 DEF OneRecord
    <3>4. at'[p] = "running" /\ <<"purge", m, "new">> \in Todo(p)'
      BY <1>2, <3>2, <3>3, RemovalStays DEF Twice
    <3>. QED
      BY <1>0, <3>2, <3>3, <3>4
  <2>2. CASE ~There("new", Record)
    <3>1. There("old", Record)' /\ There("new", Record)'
      BY <1>2 DEF Twice
    <3>2. across
      BY <1>0, <2>2, <3>1, NothingAppears
    <3>. QED
      BY <1>0, <2>2, <3>1, <3>2, RecordAppears
  <2>. QED
    BY <2>1, <2>2
<1>3. ASSUME NEW q \in Proc, task'[q] = "forget", pc'[q] = 5
      PROVE  ~There("old", Record)' /\ ~There("new", Record)'
  <2>1. CASE pc[q] = 5
    <3>1. ~There("old", Record) /\ ~There("new", Record)
      BY <1>0, <1>3, <2>1 DEF OneRecord
    <3>. QED
      BY <1>1, <3>1, RecordAppears
  <2>2. CASE pc[q] # 5
    <3>1. Unlink(q)
      <4>0. pc \in [Proc -> Nat]
        BY DEF Work
      <4>1. ASSUME NEW p \in Proc, Advance(p), ~Unlink(p),
                   \/ task[p] = "save" \/ pc[p] \in {1, 2, 3, 5}
            PROVE  FALSE
        <5>1. pc' = [pc EXCEPT ![p] = pc[p] + 1]
          BY <4>1 DEF Advance
        <5>2. p = q /\ pc[p] = 4
          BY <1>3, <2>2, <4>0, <5>1
        <5>. QED
          BY <1>0, <1>3, <4>1, <5>2
      <4>2. ASSUME NEW p \in Proc, Migrate(p) \/ Takes(p) \/ Mkdir(p) \/ Save(p) PROVE Unlink(p)
        <5>1. Advance(p) /\ (task[p] = "save" \/ pc[p] \in {1, 2, 3, 5})
          BY <4>2, CallsOf DEF Migrate, Takes, Mkdir, Save
        <5>. QED
          BY <4>1, <5>1
      <4>3. ASSUME NEW p \in Proc, Unlink(p) PROVE p = q
        <5>1. pc' = [pc EXCEPT ![p] = pc[p] + 1]
          BY <4>3 DEF Unlink, Advance
        <5>. QED
          BY <1>3, <2>2, <4>0, <5>1
      <4>4. ~UNCHANGED pc
        BY <1>3, <2>2
      <4>. QED
        BY Kinds, Calm, <4>2, <4>3, <4>4
    <3>. QED
      BY <3>1, UnlinkGone
  <2>. QED
    BY <2>1, <2>2
<1>. QED
  BY <1>2, <1>3

-----------------------------------------------------------------------------
(* What the data root has of its own is changed by a save or a destroy only. *)

(* The step of NothingOverwritten. *)
LEMMA OwnKept ==
  ASSUME TypeOK, Work, Placed, Closed, Renaming, Undisturbed, Next, Orderly',
         NEW f \in Files, disk["new"][f] = "own", disk'["new"][f] # "own"
  PROVE  f = Record /\ \E p \in Proc : lock = p /\ pc'[p] = pc[p] + 1
<1>. DEFINE G == f = Record /\ \E p \in Proc : lock = p /\ pc'[p] = pc[p] + 1
<1>0. Orderly /\ f \in Node /\ f \notin Dirs /\ There("new", f) /\ disk'["new"][f] # disk["new"][f]
  BY TouchedKept DEF Files, There
<1>1. ASSUME NEW p \in Proc, NEW m \in Node, Prunes(p, m) PROVE G
  BY <1>0, <1>1, Places DEF Prunes, Put
<1>2. ASSUME NEW p \in Proc, NEW m \in Node, Renames(p, m) PROVE G
  <2>1. <<"move", m, "new">> \in Todo(p) /\ There("old", m) /\ ~across
    BY <1>2 DEF Renames, Steps
  <2>2. ~There("new", m)
    BY <2>1 DEF Renaming
  <2>3. Shift(m, "new")
    BY <1>2, <2>2 DEF Renames, Goal
  <2>4. f \notin Below(m)
    BY <1>0, <2>2 DEF Closed, Below
  <2>. QED
    BY <1>0, <2>3, <2>4, Places DEF Shift
<1>3. ASSUME NEW p \in Proc, NEW m \in Node, NEW to \in Place, Copies(p, m, to) PROVE G
  <2>1. at[p] = "running" /\ <<"copy", m, to>> \in Todo(p)
    BY <1>3 DEF Copies, Steps
  <2>2. to = "new" /\ ~There("new", m)
    BY <1>0, <2>1, OrderlySound DEF Sounds, Sound
  <2>3. f # m
    BY <1>0, <2>2
  <2>. QED
    BY <1>0, <1>3, <2>2, <2>3, Places DEF Copies, Put
<1>4. ASSUME NEW p \in Proc, NEW m \in Node, NEW to \in Place, Fills(p, m, to) PROVE G
  <2>1. at[p] = "running" /\ <<"fill", m, to>> \in Todo(p)
    BY <1>4 DEF Fills, Steps
  <2>2. to = "new" /\ disk["new"][m] = "torn"
    BY <1>0, <2>1, OrderlySound DEF Sounds, Sound
  <2>3. f # m
    BY <2>2
  <2>. QED
    BY <1>0, <1>4, <2>2, <2>3, Places DEF Fills, Put
<1>5. ASSUME NEW p \in Proc, NEW m \in Node, NEW to \in Place, Purges(p, m, to) PROVE G
  BY <1>0, <1>5, Places DEF Purges, Put
<1>6. ASSUME NEW p \in Proc, Mkdir(p) \/ Save(p) \/ Unlink(p) PROVE G
  <2>1. f \notin Above[Record]
    BY <1>0, LayoutAssumption, RootsAssumption DEF Files
  <2>2. f = Record
    BY <1>0, <1>6, <2>1, WriteSteps
  <2>3. Advance(p) /\ lock = p /\ pc \in [Proc -> Nat]
    BY <1>6, WriteSteps DEF Work
  <2>4. pc'[p] = pc[p] + 1
    BY <2>3 DEF Advance
  <2>. QED
    BY <2>2, <2>3, <2>4
<1>7. ASSUME NEW p \in Proc, Start(p) \/ Migrate(p) \/ Takes(p) \/ \E how : Ends(p, how) PROVE G
  BY <1>0, <1>7 DEF Start, Migrate, Takes, Ends
<1>8. ASSUME NEW p \in Proc, NEW m \in Node,
             Visits(p, m) \/ Lists(p, m) \/ Hauls(p, m) \/ \E to \in Place : Errs(p, m, to)
      PROVE  G
  BY <1>0, <1>8 DEF Visits, Lists, Hauls, Errs, Same
<1>. HIDE DEF G
<1>9. G
  BY Kinds, <1>1, <1>2, <1>3, <1>4, <1>5, <1>6, <1>7, <1>8
<1>. QED
  BY <1>9 DEF G

-----------------------------------------------------------------------------
(* The invariant, and what follows from it. *)

(* It holds at first. *)
LEMMA InitIInv == Init => IInv /\ RecoversAlone
<1>. SUFFICES ASSUME Init PROVE IInv /\ RecoversAlone
  OBVIOUS
<1>1. /\ at = [p \in Proc |-> "idle"] /\ pc = [p \in Proc |-> 1] /\ work = [p \in Proc |-> <<>>]
      /\ failing = [p \in Proc |-> FALSE] /\ alone = [p \in Proc |-> TRUE] /\ lock = None
      /\ first \in Trees /\ across \in BOOLEAN /\ task \in [Proc -> Task]
  BY StartAssumption DEF Init
<1>2. /\ \A p \in Proc : at[p] = "idle" /\ pc[p] = 1 /\ work[p] = <<>> /\ Todo(p) = {} /\ ~failing[p] /\ alone[p]
      /\ Running = {}
  BY <1>1 DEF Todo, Range, Running
<1>3. /\ \A n \in Node : disk["old"][n] =
            (IF n \notin first.old THEN "absent" ELSE IF n \in Dirs THEN "folder" ELSE "legacy")
      /\ \A n \in Node : disk["new"][n] =
            (IF n \notin first.new THEN "absent" ELSE IF n \in Dirs THEN "folder" ELSE "own")
      /\ \A d \in Dirs, n \in Node : disk[d][n] = "absent"
      /\ disk = [place \in Place |-> disk[place]]
  BY Places DEF Init, Tree
<1>4. disk \in Disks
  <2>1. \A place \in Place : disk[place] \in [Node -> Content]
    BY Places DEF Init, Tree, Content
  <2>. QED
    BY <1>3, <2>1 DEF Disks
<1>5. /\ first.old \subseteq Node /\ first.new \subseteq Node
      /\ \A n \in first.old : Above[n] \subseteq first.old
      /\ \A n \in first.new : Above[n] \subseteq first.new
  BY <1>1, StartAssumption
<1>6. TypeOK
  <2>1. \A place \in Place, n \in Node : disk[place][n] = "folder" => n \in Dirs
    BY <1>3 DEF Place
  <2>2. \A p \in Proc : pc[p] \in 1..(Len(Script(task[p])) + 1)
    <3>. SUFFICES ASSUME NEW p \in Proc PROVE 1 \in 1..(Len(Script(task[p])) + 1)
      BY <1>2
    <3>1. Len(Script(task[p])) \in Nat
      BY <1>1, Lengths
    <3>. QED
      BY <3>1
  <2>. QED
    BY <1>1, <1>4, <2>1, <2>2 DEF TypeOK, Disks, Content
<1>7. Work
  <2>1. work \in [Proc -> Seq(Item)] /\ pc \in [Proc -> Nat]
    BY <1>1
  <2>. QED
    BY <1>1, <1>2, <2>1 DEF Work
<1>8. Closed
  <2>1. ASSUME NEW n \in Node, There("old", n), NEW m \in Above[n] PROVE There("old", m)
    <3>1. n \in first.old
      BY <1>3, <2>1 DEF There
    <3>2. m \in first.old /\ m \in Node
      BY <1>5, <3>1
    <3>. QED
      BY <1>3, <3>2 DEF There
  <2>2. ASSUME NEW n \in Node, There("new", n), NEW m \in Above[n] PROVE There("new", m)
    <3>1. n \in first.new
      BY <1>3, <2>2 DEF There
    <3>2. m \in first.new /\ m \in Node
      BY <1>5, <3>1
    <3>. QED
      BY <1>3, <3>2 DEF There
  <2>3. \A f \in Files : disk["old"][f] \in {"absent", "legacy"}
    BY <1>3 DEF Files
  <2>4. \A p \in Proc : ~(pc[p] >= 5)
    BY <1>2
  <2>. QED
    BY <2>1, <2>2, <2>3, <2>4 DEF Closed
<1>9. Placed /\ Renaming /\ Undisturbed
  BY <1>2, <1>3 DEF Placed, Stack, Renaming, Undisturbed, There
<1>10. InSight /\ Kept
  BY <1>2, <1>3 DEF InSight, Obliged, Kept, Files
<1>11. OneRecord
  <2>1. ASSUME Twice PROVE Record \in first.old \cap first.new
    BY <1>3, <2>1, RootsAssumption DEF Twice, There, Files
  <2>. QED
    BY <1>2, <2>1 DEF OneRecord, Forgetting
<1>. QED
  BY <1>2, <1>6, <1>7, <1>8, <1>9, <1>10, <1>11 DEF IInv, RecoversAlone

(* It is kept by every step, and by steps of others than the system. *)
LEMMA NextIInv ==
  ASSUME IInv, RecoversAlone, [Next]_vars
  PROVE  IInv' /\ RecoversAlone'
<1>1. CASE Next
  <2>1. TypeOK' /\ Work' /\ \A q \in Proc : alone'[q] => alone[q]
    BY <1>1, TypesKept DEF IInv
  <2>2. Closed' /\ Placed' /\ Undisturbed' /\ Renaming'
    BY <1>1, ClosedKept, PlacedKept, UndisturbedKept, RenamingKept DEF IInv
  <2>3. InSight' /\ Kept' /\ OneRecord'
    BY <1>1, InSightKept, KeptKept, OneRecordKept DEF IInv
  <2>4. RecoversAlone'
    BY <1>1, <2>1, RaisesNot DEF IInv, RecoversAlone
  <2>. QED
    BY <2>1, <2>2, <2>3, <2>4 DEF IInv
<1>2. CASE UNCHANGED vars
  <2>. USE <1>2 DEF vars
  <2>1. TypeOK'
    BY DEF IInv, TypeOK, Running
  <2>2. Work'
    BY DEF IInv, Work, Running
  <2>3. Closed' /\ Renaming' /\ RecoversAlone'
    BY DEF IInv, Closed, Renaming, RecoversAlone, There, Orderly, Todo
  <2>4. Placed'
    BY DEF IInv, Placed, ItemOK, There, Todo, Stack
  <2>5. Undisturbed'
    BY DEF IInv, Undisturbed, Sound, Safe, There, Todo
  <2>6. Touched' = Touched /\ Orderly' = Orderly
    BY DEF Touched, Orderly
  <2>7. InSight'
    BY <2>6 DEF IInv, InSight, Obliged, Covered, There, Todo
  <2>8. Kept'
    BY <2>6 DEF IInv, Kept
  <2>9. OneRecord'
    BY <2>6 DEF IInv, OneRecord, Forgetting, Twice, There, Todo
  <2>. QED
    BY <2>1, <2>2, <2>3, <2>4, <2>5, <2>7, <2>8, <2>9 DEF IInv
<1>. QED
  BY <1>1, <1>2

(* So it holds in every state of every behaviour. *)
LEMMA Invariance == Spec => [](IInv /\ RecoversAlone)
  BY InitIInv, NextIInv, PTL DEF Spec

(* For any commands, files and folders the state is well formed, and the owner
   of the lock is at work under it. *)
THEOREM TypeCorrect == Spec => []TypeOK
<1>1. IInv => TypeOK
  BY DEF IInv
<1>. QED
  BY <1>1, Invariance, PTL

(* Whatever any number of commands do or where they die, what an older version
   wrote is whole in one of the layouts until a command comes to that very file
   (_merge_directory_contents, ensure_data_layout). *)
THEOREM OldFilesKept == Spec => []NothingLost
<1>1. IInv => NothingLost
  BY Places DEF IInv, Kept, NothingLost
<1>. QED
  BY <1>1, Invariance, PTL

(* A command with a migration behind it finds every old file at the data root,
   also those that other commands moved. *)
THEOREM MigrationDone == Spec => []Migrated
<1>1. IInv => Migrated
  <2>. SUFFICES ASSUME IInv, Orderly, NEW p \in Proc, at[p] = "running", pc[p] > 1, work[p] = <<>>,
                       NEW f \in first.old \ Dirs, f = Record => ~Touched
                PROVE  There("new", f)
    BY DEF Migrated
  <2>1. f \in Files /\ f \in Node
    <3>1. first.old \subseteq Node
      BY StartAssumption DEF IInv, Work
    <3>. QED
      BY <3>1 DEF Files
  <2>2. disk["old"][f] = "legacy" \/ disk["new"][f] = "legacy"
    BY <2>1 DEF IInv, Kept
  <2>3. Obliged(p, f)
    BY DEF Obliged
  <2>. QED
    BY <2>1, <2>2, <2>3, Behind DEF IInv, There
<1>. QED
  BY <1>1, Invariance, PTL

(* After a destroy neither layout has the record, so no later migration brings
   it back (vm_state_file, delete_vm_state). *)
THEOREM NoRecordComesBack == Spec => []ForgottenStays
<1>1. IInv => ForgottenStays
  <2>. SUFFICES ASSUME IInv, Forgetting, NEW p \in Proc, task[p] = "forget", at[p] = "done",
                       NEW place \in Place
                PROVE  ~There(place, Record)
    BY DEF ForgottenStays, Forgetting
  <2>1. pc[p] = 5
    <3>1. Len(Script("forget")) = 4
      BY Lengths DEF Task
    <3>2. pc[p] = Len(Script(task[p])) + 1
      BY DEF IInv, Work
    <3>3. Len(Script(task[p])) = 4
      BY <3>1, Zenon
    <3>4. pc[p] = 4 + 1
      BY <3>2, <3>3, Zenon
    <3>. QED
      BY <3>4
  <2>2. ~There("old", Record) /\ ~There("new", Record)
    BY <2>1 DEF IInv, OneRecord
  <2>3. \A d \in Dirs : ~There(d, Record)
    BY RootsAssumption DEF IInv, Renaming, Forgetting, Files
  <2>. QED
    BY <2>2, <2>3 DEF Place
<1>. QED
  BY <1>1, Invariance, PTL

(* A command that no other one runs beside is not stopped by what crashed ones
   have left of their migrations. *)
THEOREM AloneRecovers == Spec => []RecoversAlone
  BY Invariance, PTL

(* What the data root has of its own is changed by a save or a destroy of that
   very file only, under the lock ("without overwriting"). *)
THEOREM OwnNotOverwritten == Spec => NothingOverwritten
<1>. DEFINE A == \A f \in Files :
              Orderly' /\ disk["new"][f] = "own" /\ disk'["new"][f] # "own"
                 => f = Record /\ \E p \in Proc : lock = p /\ pc'[p] = pc[p] + 1
<1>1. ASSUME IInv, [Next]_vars PROVE [A]_vars
  <2>1. CASE Next
    BY <1>1, <2>1, OwnKept DEF IInv
  <2>. QED
    BY <1>1, <2>1
<1>. QED
  BY <1>1, Invariance, PTL DEF Spec, NothingOverwritten

=============================================================================
