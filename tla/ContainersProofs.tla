-------------------------- MODULE ContainersProofs --------------------------
(***************************************************************************)
(* What the container resolver knows, for any set of cgroups, of any       *)
(* depth, that come and go while it walks the tree.                        *)
(***************************************************************************)
EXTENDS Containers, FiniteSetTheorems, SequenceTheorems, TLAPS

(* The segments that occur in paths. *)
Segments == UNION {Range(c) : c \in Cgroups}

(* The cgroup n levels below the root on the way to c. *)
Prefix(c, n) == SubSeq(c, 1, n)

(* c is somewhere below the directory d. *)
Below(c, d) == Len(d) < Len(c) /\ Prefix(c, Len(d)) = d

(* With a cgroup, the tree has every directory on the way to it. *)
IsTree(t) == \A c \in t : \A n \in 0 .. Len(c) : Prefix(c, n) \in t

(* What is known are cgroups, and the tree is one. *)
TreeInv ==
  /\ IsFiniteSet(tree) /\ Root \in tree
  /\ tree \subseteq Cgroups \cup {Root}
  /\ ino_map \subseteq Cgroups
  /\ IsTree(tree)

(* A cgroup is found by a walk or will be: a directory above it is still   *)
(* to be read.                                                             *)
Covered(c, w) == c \in w.found \/ \E d \in Range(w.stack) : Below(c, d)

(* The walk under way misses no cgroup that was known when it began and is *)
(* still there.                                                            *)
WalkInv ==
  walk # None =>
    /\ walk = [inode |-> walk.inode, stack |-> walk.stack, found |-> walk.found]
    /\ walk.stack \in Seq(Cgroups \cup {Root})
    /\ walk.found \subseteq Cgroups
    /\ \A c \in ino_map \cap tree : Covered(c, walk)

Inv == TreeInv /\ WalkInv

(***************************************************************************)
(* Paths                                                                   *)
(***************************************************************************)

(* Every path is a sequence of segments. *)
LEMMA PathsAreSequences == Cgroups \cup {Root} \subseteq Seq(Segments)
<1>1. ASSUME NEW c \in Cgroups PROVE c \in Seq(Segments)
  <2>1. c \in Seq(Range(c))
    BY ContainersAssumption
  <2>2. Range(c) \subseteq Segments
    BY DEF Segments
  <2>3. c \in [1 .. Len(c) -> Range(c)] /\ Len(c) \in Nat
    BY <2>1
  <2>4. c \in [1 .. Len(c) -> Segments]
    BY <2>2, <2>3
  <2> QED BY <2>3, <2>4
<1>2. Root \in Seq(Segments)
  BY DEF Root
<1> QED BY <1>1, <1>2

(* The directory n levels down has n segments, those of the path. *)
LEMMA PrefixProps ==
  ASSUME NEW S, NEW c \in Seq(S), NEW n \in 0 .. Len(c)
  PROVE  /\ Prefix(c, n) \in Seq(S) /\ Len(Prefix(c, n)) = n
         /\ \A i \in 1 .. n : Prefix(c, n)[i] = c[i]
<1>1. Len(c) \in Nat /\ \A i \in 1 .. n : c[i] \in S
  OBVIOUS
<1> QED BY <1>1, SubSeqProperties DEF Prefix

(* A directory on the way to one on the way is on the way. *)
LEMMA PrefixOfPrefix ==
  ASSUME NEW S, NEW c \in Seq(S), NEW m \in 0 .. Len(c), NEW n \in 0 .. m
  PROVE  Prefix(Prefix(c, m), n) = Prefix(c, n)
<1> DEFINE p == Prefix(c, m)
           q == Prefix(c, n)
           r == Prefix(p, n)
<1>1. p \in Seq(S) /\ Len(p) = m /\ \A i \in 1 .. m : p[i] = c[i]
  BY PrefixProps
<1>2. n \in 0 .. Len(c) /\ m \in Nat /\ Len(c) \in Nat
  OBVIOUS
<1>3. q \in Seq(S) /\ Len(q) = n /\ \A i \in 1 .. n : q[i] = c[i]
  BY <1>2, PrefixProps
<1> HIDE DEF p, q
<1>4. r \in Seq(S) /\ Len(r) = n /\ \A i \in 1 .. n : r[i] = p[i]
  BY <1>1, PrefixProps
<1> HIDE DEF r
<1>5. \A i \in 1 .. n : r[i] = q[i]
  BY <1>1, <1>2, <1>3, <1>4
<1>6. r = q
  BY <1>3, <1>4, <1>5, SeqEqual
<1> QED BY <1>6 DEF p, q, r

(* The whole way to c leads to c. *)
LEMMA PrefixFull ==
  ASSUME NEW S, NEW c \in Seq(S)
  PROVE  Prefix(c, Len(c)) = c
  BY SubSeqFull DEF Prefix

(* The directory read on the way from d to c is an entry of d. *)
LEMMA NextIsChild ==
  ASSUME NEW t, IsTree(t), t \subseteq Seq(Segments), NEW c \in t, NEW d, Below(c, d),
         Len(d) \in Nat
  PROVE  \E x \in t \ {Root} :
           /\ Front(x) = d
           /\ x = c \/ Below(c, x)
<1> DEFINE n == Len(d) + 1
           x == Prefix(c, n)
<1>1. /\ c \in Seq(Segments) /\ Len(c) \in Nat /\ Len(d) < Len(c)
      /\ n \in 0 .. Len(c) /\ n - 1 \in 0 .. n /\ n - 1 = Len(d) /\ n >= 1
  BY DEF Below
<1>2. x \in t /\ Prefix(c, Len(d)) = d
  BY <1>1 DEF IsTree, Below
<1>3. Len(x) = n /\ Prefix(x, n - 1) = Prefix(c, n - 1)
  BY <1>1, PrefixProps, PrefixOfPrefix
<1>4. Front(x) = d
  BY <1>1, <1>2, <1>3 DEF Front, Prefix
<1>5. x # Root
  BY <1>1, <1>3 DEF Root
<1>6. ASSUME n = Len(c) PROVE x = c
  BY <1>1, <1>6, PrefixFull
<1>7. ASSUME n # Len(c) PROVE Below(c, x)
  <2>1. n < Len(c)
    BY <1>1, <1>7
  <2> QED BY <1>3, <2>1 DEF Below
<1> HIDE DEF x, n
<1> QED BY <1>2, <1>4, <1>5, <1>6, <1>7

(***************************************************************************)
(* Reading a directory                                                     *)
(***************************************************************************)

(* Every order of a finite set of entries has all of them and no others. *)
LEMMA OrderHasAll ==
  ASSUME NEW S, IsFiniteSet(S), NEW order \in SetToSeqs(S)
  PROVE  order \in Seq(S) /\ Range(order) = S
<1> DEFINE D == 1 .. Cardinality(S)
<1>1. Cardinality(S) \in Nat
  BY FS_CardinalityType
<1>2. order \in [D -> S] /\ \A i, j \in D : i # j => order[i] # order[j]
  BY DEF SetToSeqs
<1>3. IsFiniteSet(D) /\ Cardinality(D) = Cardinality(S)
  BY <1>1, FS_Interval
<1>4. order \in Injection(D, S)
  BY <1>2 DEF Injection, IsInjective
<1> HIDE DEF D
<1>5. order \in Surjection(D, S)
  BY <1>3, <1>4, FS_Injection
<1>6. \A s \in S : \E i \in D : order[i] = s
  BY <1>5 DEF Surjection
<1>7. Range(order) = S
  BY <1>2, <1>6 DEF Range
<1> QED BY <1>1, <1>2, <1>7 DEF D

(* The members of two sequences put together. *)
LEMMA RangeOfConcat ==
  ASSUME NEW S, NEW s \in Seq(S), NEW t \in Seq(S)
  PROVE  Range(s \o t) = Range(s) \cup Range(t)
<1> DEFINE u == s \o t
<1>1. /\ u \in Seq(S) /\ Len(u) = Len(s) + Len(t)
      /\ \A i \in 1 .. Len(s) + Len(t) :
           u[i] = IF i <= Len(s) THEN s[i] ELSE t[i - Len(s)]
  BY ConcatProperties
<1>2. /\ Len(s) \in Nat /\ Len(t) \in Nat
      /\ DOMAIN s = 1 .. Len(s) /\ DOMAIN t = 1 .. Len(t) /\ DOMAIN u = 1 .. Len(u)
  BY <1>1
<1> HIDE DEF u
<1>3. ASSUME NEW i \in DOMAIN u PROVE u[i] \in Range(s) \cup Range(t)
  <2>1. CASE i <= Len(s)
    BY <1>1, <1>2, <2>1 DEF Range
  <2>2. CASE i > Len(s)
    <3>1. u[i] = t[i - Len(s)] /\ i - Len(s) \in DOMAIN t
      BY <1>1, <1>2, <2>2
    <3> QED BY <3>1 DEF Range
  <2> QED BY <1>1, <1>2, <2>1, <2>2
<1>4. ASSUME NEW i \in DOMAIN s PROVE s[i] \in Range(u)
  BY <1>1, <1>2 DEF Range
<1>5. ASSUME NEW i \in DOMAIN t PROVE t[i] \in Range(u)
  <2>1. u[i + Len(s)] = t[i] /\ i + Len(s) \in DOMAIN u
    BY <1>1, <1>2
  <2> QED BY <2>1 DEF Range
<1>6. Range(u) = Range(s) \cup Range(t)
  BY <1>3, <1>4, <1>5 DEF Range
<1> QED BY <1>6 DEF u

(* The members of a sequence: the first and the rest. *)
LEMMA RangeOfHeadTail ==
  ASSUME NEW S, NEW s \in Seq(S), s # <<>>
  PROVE  /\ Head(s) \in S /\ Tail(s) \in Seq(S)
         /\ Range(s) = {Head(s)} \cup Range(Tail(s))
<1>1. /\ Tail(s) \in Seq(S) /\ Len(Tail(s)) = Len(s) - 1 /\ Head(s) \in S
      /\ \A i \in 1 .. Len(Tail(s)) : Tail(s)[i] = s[i + 1]
  BY HeadTailProperties
<1>2. Head(s) = s[1] /\ Len(s) \in Nat \ {0} /\ DOMAIN s = 1 .. Len(s)
      /\ DOMAIN Tail(s) = 1 .. Len(Tail(s))
  BY <1>1
<1>3. ASSUME NEW i \in DOMAIN s PROVE s[i] \in {Head(s)} \cup Range(Tail(s))
  <2>1. CASE i = 1
    BY <1>2, <2>1
  <2>2. CASE i # 1
    <3>1. i - 1 \in DOMAIN Tail(s) /\ Tail(s)[i - 1] = s[i]
      BY <1>1, <1>2, <2>2
    <3> QED BY <3>1 DEF Range
  <2> QED BY <2>1, <2>2
<1>4. ASSUME NEW i \in DOMAIN Tail(s) PROVE Tail(s)[i] \in Range(s)
  <2>1. i + 1 \in DOMAIN s /\ Tail(s)[i] = s[i + 1]
    BY <1>1, <1>2
  <2> QED BY <2>1 DEF Range
<1>5. Head(s) \in Range(s)
  BY <1>2 DEF Range
<1>6. Range(s) = {Head(s)} \cup Range(Tail(s))
  BY <1>3, <1>4, <1>5 DEF Range
<1> QED BY <1>1, <1>6

(***************************************************************************)
(* The walk misses nothing                                                 *)
(***************************************************************************)

LEMMA InitInv == Init => Inv
<1> SUFFICES ASSUME Init PROVE Inv
  OBVIOUS
<1>1. IsFiniteSet({Root})
  BY FS_Singleton
<1>2. IsTree({Root})
  <2>1. Root \in Seq({}) /\ Len(Root) = 0
    BY DEF Root
  <2>2. Prefix(Root, Len(Root)) = Root
    BY <2>1, PrefixFull
  <2> QED BY <2>1, <2>2 DEF IsTree
<1> QED BY <1>1, <1>2 DEF Init, Inv, TreeInv, WalkInv

(* The walk begins at the root, which everything is below. *)
LEMMA ResolveKeeps ==
  ASSUME Inv, NEW inode, ResolveInode(inode)
  PROVE  Inv'
<1>1. TreeInv'
  BY DEF ResolveInode, Inv, TreeInv
<1>2. CASE walk' = walk
  BY <1>1, <1>2 DEF ResolveInode, Inv, WalkInv
<1>3. CASE walk' = [inode |-> inode, stack |-> <<Root>>, found |-> {}]
  <2>1. /\ walk'.stack = <<Root>> /\ walk'.found = {}
        /\ walk' = [inode |-> walk'.inode, stack |-> walk'.stack, found |-> walk'.found]
    BY <1>3
  <2>2. Range(<<Root>>) = {Root} /\ <<Root>> \in Seq(Cgroups \cup {Root})
    BY DEF Range
  <2>3. ASSUME NEW c \in Cgroups PROVE Below(c, Root)
    <3>1. c \in Seq(Segments) /\ c # Root
      BY PathsAreSequences, ContainersAssumption
    <3>2. Len(Root) = 0 /\ Len(c) \in Nat /\ Len(c) > 0
      BY <3>1 DEF Root
    <3>3. Prefix(c, 0) = Root
      BY SubSeqEmpty DEF Prefix, Root
    <3> QED BY <3>2, <3>3 DEF Below
  <2>4. ASSUME NEW c \in ino_map' \cap tree' PROVE Covered(c, walk')
    <3>1. c \in Cgroups
      BY <1>1, <2>4 DEF TreeInv
    <3> QED BY <2>1, <2>2, <2>3, <3>1 DEF Covered
  <2>5. WalkInv'
    BY <2>1, <2>2, <2>4 DEF WalkInv
  <2> QED BY <1>1, <2>5 DEF Inv
<1> QED BY <1>1, <1>2, <1>3 DEF ResolveInode, Inv

(* Reading a directory finds what is right below it, and puts the rest of  *)
(* what is below it under its entries.                                     *)
LEMMA ReadDirKeeps ==
  ASSUME Inv, ReadDir
  PROVE  Inv'
<1> DEFINE dir == Head(walk.stack)
           rest == Tail(walk.stack)
           kids == Children(dir)
           T == Cgroups \cup {Root}
<1>1. /\ walk # None /\ walk.stack # <<>> /\ dir \in tree
      /\ tree' = tree /\ ino_map' = ino_map
  BY DEF ReadDir
<1>2. /\ TreeInv
      /\ walk = [inode |-> walk.inode, stack |-> walk.stack, found |-> walk.found]
      /\ walk.stack \in Seq(T) /\ walk.found \subseteq Cgroups
      /\ \A c \in ino_map \cap tree : Covered(c, walk)
  BY <1>1 DEF Inv, WalkInv
<1>3. PICK order \in SetToSeqs(kids) :
        walk' = [walk EXCEPT !.stack = order \o rest, !.found = walk.found \cup kids]
  BY DEF ReadDir
<1>4. /\ walk' = [inode |-> walk.inode, stack |-> order \o rest, found |-> walk.found \cup kids]
      /\ walk'.stack = order \o rest /\ walk'.found = walk.found \cup kids
  BY <1>2, <1>3
<1>5. rest \in Seq(T) /\ Range(walk.stack) = {dir} \cup Range(rest)
  BY <1>1, <1>2, RangeOfHeadTail
<1>6. IsFiniteSet(kids) /\ kids \subseteq tree \ {Root}
  BY <1>2, FS_Subset DEF Children, TreeInv
<1>7. order \in Seq(kids) /\ Range(order) = kids
  BY <1>3, <1>6, OrderHasAll
<1>8. kids \subseteq Cgroups /\ kids \subseteq T
  BY <1>2, <1>6 DEF TreeInv
<1>9. order \in Seq(T)
  BY <1>7, <1>8
<1> HIDE DEF rest, kids, T
<1>10. /\ order \o rest \in Seq(T)
       /\ Range(order \o rest) = kids \cup Range(rest)
  BY <1>5, <1>7, <1>9, RangeOfConcat, ConcatProperties
<1>11. ASSUME NEW c \in ino_map \cap tree PROVE Covered(c, walk')
  <2>1. CASE c \in walk.found
    BY <1>4, <2>1 DEF Covered
  <2>2. CASE \E d \in Range(rest) : Below(c, d)
    BY <1>4, <1>10, <2>2 DEF Covered
  <2>3. CASE Below(c, dir)
    <3>1. IsTree(tree) /\ tree \subseteq T /\ tree \subseteq Seq(Segments)
      BY <1>2, PathsAreSequences DEF TreeInv, T
    <3>2. Len(dir) \in Nat
      BY <1>1, <3>1
    <3> HIDE DEF dir
    <3>3. PICK x \in tree \ {Root} : Front(x) = dir /\ (x = c \/ Below(c, x))
      BY <2>3, <3>1, <3>2, NextIsChild
    <3>4. x \in kids
      BY <3>3 DEF Children, kids
    <3> QED BY <1>4, <1>10, <3>3, <3>4 DEF Covered
  <2>4. Covered(c, walk)
    BY <1>2
  <2> QED BY <1>5, <2>1, <2>2, <2>3, <2>4 DEF Covered
<1>12. TreeInv'
  BY <1>1, <1>2 DEF TreeInv
<1>13. WalkInv'
  <2>1. walk' = [inode |-> walk'.inode, stack |-> walk'.stack, found |-> walk'.found]
    BY <1>4
  <2>2. walk'.stack \in Seq(T) /\ walk'.found \subseteq Cgroups
    BY <1>1, <1>2, <1>4, <1>8, <1>10
  <2>3. \A c \in ino_map' \cap tree' : Covered(c, walk')
    BY <1>1, <1>11
  <2> QED BY <2>1, <2>2, <2>3 DEF WalkInv, T
<1> QED BY <1>12, <1>13 DEF Inv

(* A walk that ends, with or without having read the whole tree. *)
LEMMA WalkEndKeeps ==
  ASSUME Inv, WalkReturns \/ WalkFails
  PROVE  Inv'
<1>1. walk' = None /\ tree' = tree
  BY DEF WalkReturns, WalkFails
<1>2. ino_map' \subseteq Cgroups
  BY DEF WalkReturns, WalkFails, Inv, WalkInv, TreeInv
<1> QED BY <1>1, <1>2 DEF Inv, TreeInv, WalkInv

(* A new cgroup is not known, and lies below a directory there is. *)
LEMMA CreatedKeeps ==
  ASSUME Inv, NEW c \in Cgroups, CgroupCreated(c)
  PROVE  Inv'
<1>1. /\ c \notin ino_map /\ Front(c) \in tree
      /\ tree' = tree \cup {c}
      /\ ino_map' = ino_map /\ walk' = walk
  BY DEF CgroupCreated, Forgotten
<1>2. TreeInv /\ WalkInv
  BY DEF Inv
<1>3. c \in Seq(Segments) /\ c # Root /\ Len(c) \in Nat /\ Len(c) > 0
  BY PathsAreSequences, ContainersAssumption DEF Root
<1>4. ASSUME NEW n \in 0 .. Len(c) PROVE Prefix(c, n) \in tree'
  <2>1. CASE n = Len(c)
    BY <1>1, <1>3, <2>1, PrefixFull
  <2>2. CASE n # Len(c)
    <3> DEFINE m == Len(c) - 1
               f == Prefix(c, m)
    <3>1. m \in 0 .. Len(c) /\ n \in 0 .. m
      BY <1>3, <2>2
    <3>2. f \in tree
      BY <1>1 DEF Front, Prefix
    <3>3. Len(f) = m /\ Prefix(f, n) = Prefix(c, n)
      BY <1>3, <3>1, PrefixProps, PrefixOfPrefix
    <3>4. Prefix(f, n) \in tree
      BY <1>2, <3>1, <3>2, <3>3 DEF TreeInv, IsTree
    <3> QED BY <1>1, <3>3, <3>4
  <2> QED BY <2>1, <2>2
<1>5. IsTree(tree')
  BY <1>1, <1>2, <1>4 DEF IsTree, TreeInv
<1>6. IsFiniteSet(tree')
  BY <1>1, <1>2, FS_AddElement DEF TreeInv
<1>7. TreeInv'
  BY <1>1, <1>2, <1>5, <1>6 DEF TreeInv
<1>8. ino_map' \cap tree' \subseteq ino_map \cap tree
  BY <1>1, <1>2 DEF TreeInv
<1>9. WalkInv'
  BY <1>1, <1>2, <1>8 DEF WalkInv
<1> QED BY <1>7, <1>9 DEF Inv

(* Only a cgroup without any below it is removed. *)
LEMMA RemovedKeeps ==
  ASSUME Inv, NEW x \in Cgroups, CgroupRemoved(x)
  PROVE  Inv'
<1>1. /\ x \in tree /\ Children(x) = {} /\ tree' = tree \ {x}
      /\ ino_map' = ino_map /\ walk' = walk
  BY DEF CgroupRemoved
<1>2. TreeInv /\ WalkInv
  BY DEF Inv
<1>3. tree \subseteq Seq(Segments) /\ IsTree(tree) /\ x \in Seq(Segments) /\ Len(x) \in Nat
  BY <1>2, PathsAreSequences DEF TreeInv
<1>4. ASSUME NEW c \in tree', NEW n \in 0 .. Len(c) PROVE Prefix(c, n) \in tree'
  <2>1. Prefix(c, n) \in tree /\ c \in tree /\ c # x /\ c \in Seq(Segments)
    BY <1>1, <1>3 DEF IsTree
  <2>2. ASSUME Prefix(c, n) = x PROVE FALSE
    <3>1. Len(x) = n
      BY <2>1, <2>2, PrefixProps
    <3>2. n # Len(c)
      BY <2>1, <2>2, PrefixFull
    <3>3. Below(c, x)
      BY <2>1, <2>2, <3>1, <3>2 DEF Below
    <3>4. PICK y \in tree \ {Root} : Front(y) = x
      BY <1>3, <2>1, <3>3, NextIsChild
    <3> QED BY <1>1, <3>4 DEF Children
  <2> QED BY <1>1, <2>1, <2>2
<1>5. IsTree(tree')
  BY <1>4 DEF IsTree
<1>6. IsFiniteSet(tree')
  BY <1>1, <1>2, FS_RemoveElement DEF TreeInv
<1>7. Root \in tree'
  BY <1>1, <1>2, ContainersAssumption DEF TreeInv
<1>8. TreeInv'
  BY <1>1, <1>2, <1>5, <1>6, <1>7 DEF TreeInv
<1>9. WalkInv'
  BY <1>1, <1>2 DEF WalkInv
<1> QED BY <1>8, <1>9 DEF Inv

LEMMA NextInv == Inv /\ [Next]_vars => Inv'
<1> SUFFICES ASSUME Inv, [Next]_vars PROVE Inv'
  OBVIOUS
<1>1. ASSUME UNCHANGED <<tree, ino_map, walk>> PROVE Inv'
  BY <1>1 DEF Inv, TreeInv, WalkInv
<1>2. ASSUME Tick \/ \E seconds \in 1 .. MaxBack : SetBack(seconds) PROVE Inv'
  BY <1>1, <1>2 DEF Tick, SetBack
<1>3. ASSUME UNCHANGED vars PROVE Inv'
  BY <1>1, <1>3 DEF vars
<1> QED BY <1>2, <1>3, ResolveKeeps, ReadDirKeeps, WalkEndKeeps, CreatedKeeps, RemovedKeeps
        DEF Next

(* The tree is one, and no walk can miss a known cgroup that is there.     *)
THEOREM WalkMissesNothing == Spec => []Inv
  BY InitInv, NextInv, PTL DEF Spec

(* What a walk returns has every known cgroup that is there. *)
LEMMA StepKeepsLive == Inv /\ [Next]_vars => [ino_map \cap tree' \subseteq ino_map']_vars
<1> SUFFICES ASSUME Inv, Next PROVE ino_map \cap tree' \subseteq ino_map'
  OBVIOUS
<1>1. ASSUME WalkReturns PROVE ino_map \cap tree' \subseteq ino_map'
  <2>1. walk # None /\ walk.stack = <<>> /\ ino_map' = walk.found /\ tree' = tree
    BY <1>1 DEF WalkReturns
  <2>2. \A c \in ino_map \cap tree : Covered(c, walk)
    BY <2>1 DEF Inv, WalkInv
  <2>3. Range(walk.stack) = {}
    BY <2>1 DEF Range
  <2> QED BY <2>1, <2>2, <2>3 DEF Covered
<1>2. ASSUME ~WalkReturns PROVE ino_map' = ino_map
  BY <1>2 DEF Next, ResolveInode, ReadDir, WalkFails, CgroupCreated, CgroupRemoved, Tick, SetBack
<1> QED BY <1>1, <1>2

(* A cgroup the resolver knows stays known as long as it exists, with any  *)
(* others made and removed while walk_cgroup_tree reads the tree and with  *)
(* walks that fail half-way.                                               *)
THEOREM KnownStaysKnown == Spec => KeepsLive
  BY WalkMissesNothing, StepKeepsLive, PTL DEF Spec, KeepsLive

(***************************************************************************)
(* Types                                                                   *)
(***************************************************************************)

(* The ids the resolver is asked for. *)
Ids == Cgroups \cup {Root, Unknown}

(* How old a miss may look, with the clock set back. *)
Ages == -MaxBack * MaxSetBacks .. TTL

(* What is remembered of misses, and the inode a walk is for. *)
MissInv ==
  /\ DOMAIN negative \subseteq Ids
  /\ \A c \in DOMAIN negative : negative[c] \in Ages
  /\ walk # None => walk.inode \in Ids
  /\ setbacks \in 0 .. MaxSetBacks

(* A miss may be new, and grows older up to TTL. *)
LEMMA AgesGrow == 0 \in Ages /\ TTL \in Ages /\ \A a \in Ages : a < TTL => a + 1 \in Ages
<1>1. TTL \in Nat \ {0} /\ MaxBack \in Nat /\ MaxSetBacks \in Nat
  BY ContainersAssumption
<1>2. \A a, b \in Nat : a * b \in Nat
  OBVIOUS
<1>3. -MaxBack * MaxSetBacks = -(MaxBack * MaxSetBacks)
  BY <1>1
<1>4. -MaxBack * MaxSetBacks \in Int /\ -MaxBack * MaxSetBacks <= 0
  BY <1>1, <1>2, <1>3
<1> QED BY <1>1, <1>4 DEF Ages

LEMMA MissStep ==
  ASSUME Inv, MissInv, [Next]_vars
  PROVE  MissInv'
<1>1. ASSUME NEW c \in Ids, ResolveInode(c) PROVE MissInv'
  BY <1>1 DEF ResolveInode, MissInv
<1>2. ASSUME ReadDir PROVE MissInv'
  <2>1. walk # None /\ walk'.inode = walk.inode
    BY <1>2 DEF ReadDir, Inv, WalkInv
  <2> QED BY <1>2, <2>1 DEF ReadDir, MissInv
<1>3. ASSUME walk # None, Missed PROVE /\ DOMAIN negative' \subseteq Ids
                                       /\ \A c \in DOMAIN negative' : negative'[c] \in Ages
  BY <1>3, AgesGrow DEF Missed, MissInv
<1>4. ASSUME WalkReturns \/ WalkFails PROVE MissInv'
  BY <1>3, <1>4 DEF WalkReturns, WalkFails, MissInv
<1>5. ASSUME NEW c \in Cgroups, CgroupCreated(c) \/ CgroupRemoved(c) PROVE MissInv'
  BY <1>5 DEF CgroupCreated, CgroupRemoved, MissInv
<1>6. ASSUME Tick PROVE MissInv'
  BY <1>6, AgesGrow DEF Tick, MissInv
<1>7. ASSUME NEW seconds \in 1 .. MaxBack, SetBack(seconds) PROVE MissInv'
  BY <1>7, ContainersAssumption DEF SetBack, MissInv, Ages
<1>8. ASSUME UNCHANGED vars PROVE MissInv'
  BY <1>8 DEF vars, MissInv
<1>9. Asked \subseteq Ids
  BY ContainersAssumption DEF Ids
<1> QED BY <1>1, <1>2, <1>4, <1>5, <1>6, <1>7, <1>8, <1>9 DEF Next

(* The caches, the walk and the tree are well formed.                      *)
THEOREM TypeCorrect == Spec => []TypeOK
<1>1. Init => MissInv
  BY ContainersAssumption DEF Init, MissInv
<1>2. Inv /\ MissInv => TypeOK
  <2> SUFFICES ASSUME Inv, MissInv PROVE TypeOK
    OBVIOUS
  <2>1. ASSUME walk # None PROVE Range(walk.stack) \subseteq Cgroups \cup {Root}
    BY <2>1 DEF Inv, WalkInv, Range
  <2> QED BY <2>1 DEF Inv, TreeInv, WalkInv, MissInv, Ids, Ages, TypeOK
<1> QED BY <1>1, <1>2, WalkMissesNothing, MissStep, PTL DEF Spec

=============================================================================
