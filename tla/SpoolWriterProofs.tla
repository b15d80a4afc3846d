------------------------- MODULE SpoolWriterProofs -------------------------
(***************************************************************************)
(* The safety properties of SpoolWriter, for any chunk size, cap, buffer   *)
(* and flush threshold, any number of lines, failing system calls, crashes *)
(* and restarts.                                                           *)
(*                                                                         *)
(* That a reader finds the lines in order rests on an invariant about the  *)
(* directory: the names of one inode are of one second, those of the open  *)
(* file of the current one and, until the wall clock is set back, no name  *)
(* is of a later second than the current chunk.  What is appended is newer *)
(* than all that the files hold, and then goes to the newest file.  That   *)
(* nothing is lost rests on a second one, for as long as no system call    *)
(* fails: the open file has its part name, and the complete name it will   *)
(* get is free.                                                            *)
(*                                                                         *)
(* That enforce_cap keeps the cap and takes the oldest chunks is about the *)
(* sums of their sizes, for sets of chunks of any size: the laws of these  *)
(* sums are proved first, each by induction over the subsets of a finite   *)
(* set.                                                                    *)
(***************************************************************************)
EXTENDS SpoolWriter, FiniteSetTheorems, SequenceTheorems, WellFoundedInduction, TLAPS

(***************************************************************************)
(* The invariant of the files: d stands for data, f for fd, b for buf, w   *)
(* for written, m for names, c for cur and s for setbacks                  *)
(***************************************************************************)

Sorted(s) == \A i, j \in DOMAIN s : i < j => s[i] < s[j]

(* All lines of X come before those of Y. *)
Before(X, Y) == \A x \in X, y \in Y : x < y

UpTo(X, w) == \A x \in X : x <= w

FileOK(s, b, w) ==
  Sorted(s) /\ Before(LinesIn(s), LinesIn(b)) /\ UpTo(LinesIn(s), w)

DiskOK(d, f, b, w) ==
  /\ d \in Seq(Seq(Lines)) /\ f \in DOMAIN d
  /\ b \in Seq(Lines) /\ FileOK(b, <<>>, w)
  /\ \A i \in DOMAIN d : FileOK(d[i], b, w)

NamesOK(m, d, f, c) ==
  /\ m = [n \in DOMAIN m |-> m[n]]
  /\ DOMAIN m \subseteq {"part", "complete"} \X (0 .. MaxSecs)
  /\ \A n \in DOMAIN m : m[n] \in DOMAIN d /\ (m[n] = f => n[2] = c)
  /\ \A n, o \in DOMAIN m : m[n] = m[o] => n[2] = o[2]

AcrossOK(m, d) ==
  \A n, o \in DOMAIN m :
    n[2] < o[2] => Before(LinesIn(d[m[n]]), LinesIn(d[m[o]]))

(* As long as the clock was not set back, the current chunk is the newest  *)
(* and the seconds of the names are the order of the lines.                *)
InOrder(m, d, c, s) ==
  s = 0 => (\A n \in DOMAIN m : n[2] <= c) /\ AcrossOK(m, d)

ClockOK ==
  /\ cur \in 0 .. MaxSecs /\ now \in 0 .. MaxSecs
  /\ setbacks \in 0 .. MaxSetBacks
  /\ setbacks = 0 => cur <= now

OrderInv ==
  /\ DiskOK(data, fd, buf, written)
  /\ NamesOK(names, data, fd, cur)
  /\ InOrder(names, data, cur, setbacks)
  /\ ClockOK
  /\ written \in 0 .. MaxLines

(***************************************************************************)
(* Lemmas about lines and files                                            *)
(***************************************************************************)

LEMMA LinesTyped ==
  ASSUME NEW s \in Seq(Lines)
  PROVE  LinesIn(s) \subseteq Lines /\ LinesIn(s) \subseteq Nat
<1>1. \A i \in DOMAIN s : s[i] \in Lines
  OBVIOUS
<1> QED BY <1>1 DEF LinesIn, Lines

(* What is appended to a file. *)
LEMMA Appended ==
  ASSUME NEW s \in Seq(Lines), NEW t \in Seq(Lines), NEW q, q = s \o t
  PROVE  /\ q \in Seq(Lines)
         /\ LinesIn(q) = LinesIn(s) \cup LinesIn(t)
         /\ Sorted(s) /\ Sorted(t) /\ Before(LinesIn(s), LinesIn(t)) => Sorted(q)
<1>1. Len(s) \in Nat /\ Len(t) \in Nat /\ DOMAIN s = 1 .. Len(s) /\ DOMAIN t = 1 .. Len(t)
  BY LenProperties
<1>2. /\ q \in Seq(Lines) /\ Len(q) = Len(s) + Len(t)
      /\ \A i \in 1 .. Len(s) + Len(t) :
           q[i] = IF i <= Len(s) THEN s[i] ELSE t[i - Len(s)]
  BY ConcatProperties, Zenon
<1>3. DOMAIN q = 1 .. Len(s) + Len(t)
  BY <1>2
<1>4. ASSUME NEW i \in DOMAIN q
      PROVE  \/ i \in DOMAIN s /\ q[i] = s[i]
             \/ i > Len(s) /\ i - Len(s) \in DOMAIN t /\ q[i] = t[i - Len(s)]
  BY <1>1, <1>2, <1>3, <1>4
<1>5. \A i \in DOMAIN s : i \in DOMAIN q /\ q[i] = s[i]
  BY <1>1, <1>2, <1>3
<1>6. \A i \in DOMAIN t : i + Len(s) \in DOMAIN q /\ q[i + Len(s)] = t[i]
  <2> SUFFICES ASSUME NEW i \in DOMAIN t
               PROVE  i + Len(s) \in DOMAIN q /\ q[i + Len(s)] = t[i]
    OBVIOUS
  <2>1. i + Len(s) \in 1 .. Len(s) + Len(t) /\ ~(i + Len(s) <= Len(s))
        /\ (i + Len(s)) - Len(s) = i
    BY <1>1
  <2> QED BY <1>2, <1>3, <2>1
<1>7. LinesIn(q) = LinesIn(s) \cup LinesIn(t)
  <2>1. LinesIn(q) \subseteq LinesIn(s) \cup LinesIn(t)
    BY <1>4 DEF LinesIn
  <2>2. LinesIn(s) \subseteq LinesIn(q)
    BY <1>5 DEF LinesIn
  <2>3. LinesIn(t) \subseteq LinesIn(q)
    BY <1>6 DEF LinesIn
  <2> QED BY <2>1, <2>2, <2>3
<1>8. ASSUME Sorted(s), Sorted(t), Before(LinesIn(s), LinesIn(t)) PROVE Sorted(q)
  <2> SUFFICES ASSUME NEW i \in DOMAIN q, NEW j \in DOMAIN q, i < j PROVE q[i] < q[j]
    BY DEF Sorted
  <2>0. i \in Int /\ j \in Int
    BY <1>1, <1>3
  <2>1. CASE i \in DOMAIN s /\ j \in DOMAIN s
    BY <1>5, <1>8, <2>1 DEF Sorted
  <2>2. CASE i \in DOMAIN s /\ j > Len(s)
    BY <1>1, <1>4, <1>5, <1>8, <2>2 DEF Before, LinesIn
  <2>3. CASE i > Len(s)
    <3>1. /\ i - Len(s) \in DOMAIN t /\ q[i] = t[i - Len(s)]
          /\ j - Len(s) \in DOMAIN t /\ q[j] = t[j - Len(s)]
          /\ i - Len(s) < j - Len(s)
      BY <1>1, <1>4, <2>0, <2>3
    <3> QED BY <1>8, <3>1 DEF Sorted
  <2> QED BY <1>1, <1>4, <2>1, <2>2, <2>3
<1> QED BY <1>2, <1>7, <1>8

(* e is d with the lines of s at the end of inode f. *)
Extended(d, e, f, s) ==
  /\ e \in Seq(Seq(Lines)) /\ DOMAIN e = DOMAIN d /\ Len(e) = Len(d)
  /\ e[f] = d[f] \o s
  /\ \A i \in DOMAIN d \ {f} : e[i] = d[i]

(* A write to the open file leaves the other inodes alone. *)
LEMMA FlushedFiles ==
  ASSUME NEW d, NEW s, NEW e, d \in Seq(Seq(Lines)), fd \in DOMAIN d,
         s \in Seq(Lines), e = Flushed(d, s)
  PROVE  Extended(d, e, fd, s)
<1>1. d[fd] \in Seq(Lines)
  OBVIOUS
<1>2. d[fd] \o s \in Seq(Lines)
  BY <1>1, ConcatProperties
<1>3. e = [d EXCEPT ![fd] = d[fd] \o s]
  BY DEF Flushed
<1>4. /\ e \in Seq(Seq(Lines)) /\ Len(e) = Len(d)
      /\ \A i \in 1 .. Len(d) : e[i] = IF i = fd THEN d[fd] \o s ELSE d[i]
  <2> DEFINE v == d[fd] \o s
  <2>1. v \in Seq(Lines) /\ e = [d EXCEPT ![fd] = v]
    BY <1>2, <1>3
  <2> HIDE DEF v
  <2>2. fd \in 1 .. Len(d)
    OBVIOUS
  <2>3. /\ e \in Seq(Seq(Lines)) /\ Len(e) = Len(d)
        /\ \A i \in 1 .. Len(d) : e[i] = IF i = fd THEN v ELSE d[i]
    BY <2>1, <2>2
  <2> QED BY <2>3 DEF v
<1>5. DOMAIN e = DOMAIN d /\ DOMAIN d = 1 .. Len(d)
  BY <1>4
<1> QED BY <1>4, <1>5 DEF Extended

(* Lines of e's open file: those of d's and those of X, which come after   *)
(* all that d holds.                                                       *)
GrownBy(d, e, f, X) ==
  /\ DOMAIN e = DOMAIN d /\ Len(e) = Len(d)
  /\ \A i \in DOMAIN d \ {f} : e[i] = d[i]
  /\ LinesIn(e[f]) = LinesIn(d[f]) \cup X
  /\ \A i \in DOMAIN d : Before(LinesIn(d[i]), X)

(* The BufWriter is written out. *)
LEMMA FlushOK ==
  ASSUME NEW d, NEW b, NEW w \in Nat, DiskOK(d, fd, b, w), NEW e, e = Flushed(d, b)
  PROVE  DiskOK(e, fd, <<>>, w) /\ GrownBy(d, e, fd, LinesIn(b))
<1>1. /\ d \in Seq(Seq(Lines)) /\ fd \in DOMAIN d /\ b \in Seq(Lines)
      /\ FileOK(b, <<>>, w) /\ \A i \in DOMAIN d : FileOK(d[i], b, w)
  BY DEF DiskOK
<1>2. /\ e \in Seq(Seq(Lines)) /\ DOMAIN e = DOMAIN d /\ Len(e) = Len(d)
      /\ e[fd] = d[fd] \o b /\ \A i \in DOMAIN d \ {fd} : e[i] = d[i]
  <2>1. Extended(d, e, fd, b)
    BY <1>1, FlushedFiles
  <2> QED BY <2>1 DEF Extended
<1>3. d[fd] \in Seq(Lines)
  BY <1>1
<1>4. LinesIn(e[fd]) = LinesIn(d[fd]) \cup LinesIn(b) /\ Sorted(e[fd])
  BY <1>1, <1>2, <1>3, Appended DEF FileOK
<1>5. LinesIn(<<>>) = {} /\ Sorted(<<>>)
  BY DEF LinesIn, Sorted
<1>6. \A i \in DOMAIN e : FileOK(e[i], <<>>, w)
  BY <1>1, <1>2, <1>4, <1>5 DEF FileOK, Before, UpTo
<1>7. FileOK(<<>>, <<>>, w) /\ <<>> \in Seq(Lines)
  BY <1>5 DEF FileOK, Before, UpTo
<1> QED BY <1>1, <1>2, <1>4, <1>6, <1>7 DEF DiskOK, GrownBy, FileOK

(* q is b with line v, the one after line w. *)
NextLine(w, v, b, q) == w \in Nat /\ w < MaxLines /\ v = w + 1 /\ q = Append(b, v)

(* One more line in the BufWriter: its number is higher than any before. *)
LEMMA AppendLineOK ==
  ASSUME NEW d, NEW f, NEW b, NEW w, NEW v, NEW q,
         NextLine(w, v, b, q), DiskOK(d, f, b, w)
  PROVE  DiskOK(d, f, q, v) /\ LinesIn(q) = LinesIn(b) \cup {v}
<1> DEFINE t == <<v>>
<1>0. w \in Nat /\ w < MaxLines /\ v = w + 1 /\ q = Append(b, v)
  BY DEF NextLine
<1>1. b \in Seq(Lines) /\ v \in Lines
  BY <1>0, SpoolAssumption DEF DiskOK, Lines
<1>2. t \in Seq(Lines) /\ LinesIn(t) = {v} /\ Sorted(t)
  BY <1>1 DEF LinesIn, Sorted
<1>3. q = b \o t
  BY <1>0, <1>1, AppendIsConcat
<1> HIDE DEF t
<1>a. FileOK(b, <<>>, w) /\ \A i \in DOMAIN d : FileOK(d[i], b, w)
  BY DEF DiskOK
<1>b. LinesIn(b) \subseteq Nat /\ \A i \in DOMAIN d : LinesIn(d[i]) \subseteq Nat
  <2>1. \A i \in DOMAIN d : d[i] \in Seq(Lines)
    BY DEF DiskOK
  <2> QED BY <1>1, <2>1, LinesTyped
<1>4. Before(LinesIn(b), {v})
  BY <1>0, <1>a, <1>b DEF FileOK, UpTo, Before
<1>5. q \in Seq(Lines) /\ LinesIn(q) = LinesIn(b) \cup {v} /\ Sorted(q)
  <2>1. Sorted(b) /\ Before(LinesIn(b), LinesIn(t))
    BY <1>2, <1>4, <1>a DEF FileOK
  <2>2. /\ q \in Seq(Lines) /\ LinesIn(q) = LinesIn(b) \cup LinesIn(t)
        /\ Sorted(b) /\ Sorted(t) /\ Before(LinesIn(b), LinesIn(t)) => Sorted(q)
    BY <1>1, <1>2, <1>3, Appended, Zenon
  <2> QED BY <1>2, <2>1, <2>2
<1>6. LinesIn(<<>>) = {}
  BY DEF LinesIn
<1>7. FileOK(q, <<>>, v)
  <2>1. UpTo(LinesIn(q), v)
    BY <1>0, <1>5, <1>a, <1>b DEF FileOK, UpTo
  <2> QED BY <1>5, <1>6, <2>1 DEF FileOK, Before
<1>8. ASSUME NEW i \in DOMAIN d PROVE FileOK(d[i], q, v)
  <2>1. UpTo(LinesIn(d[i]), v)
    BY <1>0, <1>8, <1>a, <1>b DEF FileOK, UpTo
  <2>2. Before(LinesIn(d[i]), LinesIn(q))
    BY <1>0, <1>5, <1>8, <1>a, <1>b DEF FileOK, UpTo, Before
  <2> QED BY <1>8, <1>a, <2>1, <2>2 DEF FileOK
<1> QED BY <1>5, <1>7, <1>8 DEF DiskOK

(* What the BufWriter holds may go, and lines may be received without it. *)
LEMMA DiskWeaker ==
  ASSUME NEW d, NEW f, NEW b, NEW w \in Nat, DiskOK(d, f, b, w)
  PROVE  DiskOK(d, f, <<>>, w) /\ DiskOK(d, f, b, w + 1)
<1>1. LinesIn(<<>>) = {} /\ Sorted(<<>>) /\ <<>> \in Seq(Lines)
  BY DEF LinesIn, Sorted
<1>2. b \in Seq(Lines) /\ \A i \in DOMAIN d : d[i] \in Seq(Lines)
  BY DEF DiskOK
<1>3. LinesIn(b) \subseteq Nat /\ \A i \in DOMAIN d : LinesIn(d[i]) \subseteq Nat
  BY <1>2, LinesTyped
<1>4. \A X : X \subseteq Nat /\ UpTo(X, w) => UpTo(X, w + 1)
  BY DEF UpTo
<1>5. DiskOK(d, f, <<>>, w)
  BY <1>1 DEF DiskOK, FileOK, Before, UpTo
<1>6. DiskOK(d, f, b, w + 1)
  BY <1>3, <1>4 DEF DiskOK, FileOK
<1> QED BY <1>5, <1>6

(* A line is received: the BufWriter spills first when it is full, and     *)
(* keeps the line or writes it out.                                        *)
LEMMA LineOK ==
  ASSUME DiskOK(data, fd, buf, written), written \in Nat, written < MaxLines
  PROVE  /\ DiskOK(SpilledData, fd, BufWithLine, written + 1)
         /\ DiskOK(FilledData, fd, <<>>, written + 1)
         /\ GrownBy(data, SpilledData, fd, IF Full THEN LinesIn(buf) ELSE {})
         /\ LinesIn(BufWithLine) =
              (IF Full THEN {} ELSE LinesIn(buf)) \cup {written + 1}
         /\ GrownBy(data, FilledData, fd, LinesIn(buf) \cup {written + 1})
<1> DEFINE S == SpilledData
           b == IF Full THEN <<>> ELSE buf
           B == BufWithLine
           F == FilledData
           X == IF Full THEN LinesIn(buf) ELSE {}
<1>0. LinesIn(<<>>) = {}
  BY DEF LinesIn
<1>1. DiskOK(S, fd, b, written) /\ GrownBy(data, S, fd, X)
  <2>1. CASE Full
    <3>1. S = Flushed(data, buf) /\ b = <<>> /\ X = LinesIn(buf)
      BY <2>1 DEF SpilledData
    <3> HIDE DEF S, b, X
    <3> QED BY <3>1, FlushOK
  <2>2. CASE ~Full
    <3>1. S = data /\ b = buf /\ X = {}
      BY <2>2 DEF SpilledData
    <3>2. GrownBy(data, data, fd, {})
      BY DEF GrownBy, Before
    <3> HIDE DEF S, b, X
    <3> QED BY <3>1, <3>2
  <2> QED BY <2>1, <2>2
<1>2. B = Append(b, written + 1)
  BY DEF BufWithLine
<1>3. LinesIn(b) = (IF Full THEN {} ELSE LinesIn(buf))
  BY <1>0
<1> HIDE DEF S, b, B, F, X
<1>4. DiskOK(S, fd, B, written + 1) /\ LinesIn(B) = LinesIn(b) \cup {written + 1}
  <2> DEFINE v == written + 1
  <2>1. v = written + 1 /\ NextLine(written, v, b, B)
    BY <1>2 DEF NextLine
  <2> HIDE DEF v
  <2>2. DiskOK(S, fd, B, v) /\ LinesIn(B) = LinesIn(b) \cup {v}
    BY <1>1, <2>1, AppendLineOK
  <2> QED BY <2>1, <2>2
<1>5. F = Flushed(S, B)
  BY DEF F, S, B, FilledData
<1>6. DiskOK(F, fd, <<>>, written + 1) /\ GrownBy(S, F, fd, LinesIn(B))
  <2> DEFINE v == written + 1
  <2>1. v \in Nat /\ DiskOK(S, fd, B, v)
    BY <1>4
  <2> HIDE DEF v
  <2>2. DiskOK(F, fd, <<>>, v) /\ GrownBy(S, F, fd, LinesIn(B))
    BY <1>5, <2>1, FlushOK
  <2> QED BY <2>2 DEF v
<1>7. X \cup LinesIn(B) = LinesIn(buf) \cup {written + 1}
  BY <1>3, <1>4 DEF X
<1>8. GrownBy(data, F, fd, LinesIn(buf) \cup {written + 1})
  <2>1. fd \in DOMAIN data
    BY DEF DiskOK
  <2>2. /\ DOMAIN S = DOMAIN data /\ Len(S) = Len(data)
        /\ \A i \in DOMAIN data \ {fd} : S[i] = data[i]
        /\ LinesIn(S[fd]) = LinesIn(data[fd]) \cup X
        /\ \A i \in DOMAIN data : Before(LinesIn(data[i]), X)
    BY <1>1 DEF GrownBy
  <2>3. /\ DOMAIN F = DOMAIN S /\ Len(F) = Len(S)
        /\ \A i \in DOMAIN S \ {fd} : F[i] = S[i]
        /\ LinesIn(F[fd]) = LinesIn(S[fd]) \cup LinesIn(B)
        /\ \A i \in DOMAIN S : Before(LinesIn(S[i]), LinesIn(B))
    BY <1>6 DEF GrownBy
  <2>4. \A i \in DOMAIN data : Before(LinesIn(data[i]), LinesIn(B))
    BY <2>1, <2>2, <2>3 DEF Before
  <2>5. \A i \in DOMAIN data : Before(LinesIn(data[i]), X \cup LinesIn(B))
    BY <2>2, <2>4 DEF Before
  <2>6. LinesIn(F[fd]) = LinesIn(data[fd]) \cup (X \cup LinesIn(B))
    BY <2>2, <2>3
  <2>7. GrownBy(data, F, fd, X \cup LinesIn(B))
    BY <2>2, <2>3, <2>5, <2>6 DEF GrownBy
  <2> QED BY <1>7, <2>7
<1> QED BY <1>1, <1>3, <1>4, <1>6, <1>8 DEF S, B, F, X

(***************************************************************************)
(* Lemmas about the directory                                              *)
(***************************************************************************)

(* Appending to the open file keeps the order across files. *)
LEMMA GrownNames ==
  ASSUME NEW m, NEW d, NEW e, NEW f, NEW c \in Nat, NEW s, NEW X,
         NamesOK(m, d, f, c), InOrder(m, d, c, s), GrownBy(d, e, f, X)
  PROVE  NamesOK(m, e, f, c) /\ InOrder(m, e, c, s)
<1>1. NamesOK(m, e, f, c)
  BY DEF NamesOK, GrownBy
<1>2. ASSUME s = 0, NEW n \in DOMAIN m, NEW o \in DOMAIN m, n[2] < o[2]
      PROVE  Before(LinesIn(e[m[n]]), LinesIn(e[m[o]]))
  <2>1. /\ n[2] \in 0 .. MaxSecs /\ o[2] \in 0 .. MaxSecs /\ o[2] <= c
        /\ m[n] \in DOMAIN d /\ m[o] \in DOMAIN d
    BY <1>2 DEF NamesOK, InOrder
  <2>2. Before(LinesIn(d[m[n]]), LinesIn(d[m[o]]))
    BY <1>2 DEF AcrossOK, InOrder
  <2>3. m[n] # f
    <3>1. n[2] # c
      BY <1>2, <2>1
    <3> QED BY <1>2, <3>1 DEF NamesOK
  <2>4. e[m[n]] = d[m[n]]
    BY <2>1, <2>3 DEF GrownBy
  <2>5. CASE m[o] # f
    BY <2>1, <2>2, <2>4, <2>5 DEF GrownBy
  <2>6. CASE m[o] = f
    <3>1. LinesIn(e[m[o]]) = LinesIn(d[m[o]]) \cup X /\ Before(LinesIn(d[m[n]]), X)
      BY <2>1, <2>6 DEF GrownBy
    <3> QED BY <2>2, <2>4, <3>1 DEF Before
  <2> QED BY <2>5, <2>6
<1> QED BY <1>1, <1>2 DEF AcrossOK, InOrder

(* Every name of r stands for a file that m has under the same second. *)
SameFiles(r, m) ==
  /\ r = [n \in DOMAIN r |-> r[n]]
  /\ \A n \in DOMAIN r : /\ n[1] \in {"part", "complete"} /\ n = <<n[1], n[2]>>
                          /\ \E o \in DOMAIN m : o[2] = n[2] /\ m[o] = r[n]

LEMMA SameFilesNames ==
  ASSUME NEW m, NEW d, NEW f, NEW c, NEW s, NamesOK(m, d, f, c),
         InOrder(m, d, c, s), NEW r, SameFiles(r, m)
  PROVE  NamesOK(r, d, f, c) /\ InOrder(r, d, c, s)
<1>1. DOMAIN r \subseteq {"part", "complete"} \X (0 .. MaxSecs)
  BY DEF SameFiles, NamesOK
<1>2. \A n \in DOMAIN r : r[n] \in DOMAIN d /\ (r[n] = f => n[2] = c)
  BY DEF SameFiles, NamesOK
<1>3. \A n, o \in DOMAIN r : r[n] = r[o] => n[2] = o[2]
  BY DEF SameFiles, NamesOK
<1>4. InOrder(r, d, c, s)
  BY DEF SameFiles, AcrossOK, InOrder
<1> QED BY <1>1, <1>2, <1>3, <1>4 DEF SameFiles, NamesOK

(* The rename, and the removal of any chunks, are of this kind. *)
LEMMA RenamedFiles ==
  ASSUME NEW m, NEW d, NEW f, NEW c, NamesOK(m, d, f, c), NEW t, Part(t) \in DOMAIN m
  PROVE  SameFiles(Renamed(m, t), m)
<1>1. /\ DOMAIN Renamed(m, t) = (DOMAIN m \ {Part(t)}) \cup {Complete(t)}
      /\ Renamed(m, t)[Complete(t)] = m[Part(t)]
      /\ \A n \in DOMAIN m \ {Part(t)} : n # Complete(t) => Renamed(m, t)[n] = m[n]
      /\ Renamed(m, t) = [n \in DOMAIN Renamed(m, t) |-> Renamed(m, t)[n]]
  BY DEF Renamed, With, Without, Restrict
<1>2. \A n \in DOMAIN m : n[1] \in {"part", "complete"} /\ n = <<n[1], n[2]>>
  BY DEF NamesOK
<1>3. Part(t)[2] = t /\ Complete(t)[2] = t /\ Complete(t)[1] = "complete"
      /\ Complete(t) = <<Complete(t)[1], Complete(t)[2]>>
  BY DEF Part, Complete
<1> QED BY <1>1, <1>2, <1>3 DEF SameFiles

LEMMA WithoutFiles ==
  ASSUME NEW r, NEW m, SameFiles(r, m), NEW K
  PROVE  SameFiles(Without(r, K), m)
  BY DEF SameFiles, Without, Restrict

(* File::create.  When no name is of a later second, the file is the       *)
(* newest, whether it is new or was there and is truncated.                *)
LEMMA CreatesOK ==
  ASSUME NEW m, NEW d, NEW f, NEW b, NEW w, NEW c \in Nat, NEW s,
         NEW t \in 0 .. MaxSecs, s = 0 => c <= t, DiskOK(d, f, b, w),
         NamesOK(m, d, f, c), InOrder(m, d, c, s), Creates(m, d, t)
  PROVE  /\ DiskOK(data', fd', b, w) /\ NamesOK(names', data', fd', t)
         /\ InOrder(names', data', t, s)
<1>a. /\ d \in Seq(Seq(Lines)) /\ \A i \in DOMAIN d : FileOK(d[i], b, w)
      /\ b \in Seq(Lines) /\ FileOK(b, <<>>, w)
  BY DEF DiskOK
<1>b. /\ \A n \in DOMAIN m : /\ n \in {"part", "complete"} \X (0 .. MaxSecs)
                             /\ n[2] \in 0 .. MaxSecs /\ m[n] \in DOMAIN d
      /\ m = [n \in DOMAIN m |-> m[n]]
      /\ \A n, o \in DOMAIN m : m[n] = m[o] => n[2] = o[2]
  BY DEF NamesOK
<1>c. LinesIn(<<>>) = {} /\ Sorted(<<>>) /\ <<>> \in Seq(Lines)
  BY DEF LinesIn, Sorted
<1>d. FileOK(<<>>, b, w) /\ \A X : Before({}, X) /\ Before(X, {})
  BY <1>c DEF FileOK, Before, UpTo
<1>e. Part(t)[2] = t /\ Part(t) \in {"part", "complete"} \X (0 .. MaxSecs)
  BY DEF Part
<1>f. s = 0 => /\ \A n \in DOMAIN m : n[2] <= t
               /\ AcrossOK(m, d)
  BY <1>b DEF InOrder
<1>1. CASE Part(t) \in DOMAIN m
  <2> DEFINE p == m[Part(t)]
  <2>1. names' = m /\ fd' = p /\ data' = [d EXCEPT ![p] = <<>>]
    BY <1>1 DEF Creates
  <2>2. p \in DOMAIN d
    BY <1>1, <1>b
  <2>4. /\ data' \in Seq(Seq(Lines)) /\ DOMAIN data' = DOMAIN d /\ data'[p] = <<>>
        /\ \A i \in DOMAIN d \ {p} : data'[i] = d[i]
    <3> HIDE DEF p
    <3> QED BY <1>a, <1>c, <2>1, <2>2
  <2>5. \A n \in DOMAIN m : m[n] = p => n[2] = t
    BY <1>1, <1>b, <1>e
  <2> HIDE DEF p
  <2>6. DiskOK(data', fd', b, w)
    BY <1>a, <1>d, <2>1, <2>2, <2>4 DEF DiskOK
  <2>7. NamesOK(names', data', fd', t)
    BY <1>b, <2>1, <2>4, <2>5 DEF NamesOK
  <2>8. InOrder(names', data', t, s)
    <3> SUFFICES ASSUME s = 0, NEW n \in DOMAIN m, NEW o \in DOMAIN m, n[2] < o[2]
                 PROVE  Before(LinesIn(data'[m[n]]), LinesIn(data'[m[o]]))
      BY <1>f, <2>1 DEF AcrossOK, InOrder
    <3>1. Before(LinesIn(d[m[n]]), LinesIn(d[m[o]]))
      BY <1>f DEF AcrossOK
    <3>2. CASE m[n] = p \/ m[o] = p
      BY <1>c, <1>d, <2>4, <3>2
    <3>3. CASE m[n] # p /\ m[o] # p
      BY <1>b, <2>4, <3>1, <3>3
    <3> QED BY <3>2, <3>3
  <2> QED BY <2>6, <2>7, <2>8
<1>2. CASE Part(t) \notin DOMAIN m
  <2> DEFINE p == Len(d) + 1
  <2>1. names' = With(m, Part(t), p) /\ fd' = p /\ data' = Append(d, <<>>)
    BY <1>2 DEF Creates
  <2>2. /\ data' \in Seq(Seq(Lines)) /\ p \in DOMAIN data' /\ data'[p] = <<>>
        /\ p \notin DOMAIN d
        /\ \A i \in DOMAIN d : i \in DOMAIN data' /\ data'[i] = d[i]
        /\ DOMAIN data' = DOMAIN d \cup {p}
    BY <1>a, <1>c, <2>1
  <2>3. /\ DOMAIN names' = DOMAIN m \cup {Part(t)} /\ names'[Part(t)] = p
        /\ \A n \in DOMAIN m : names'[n] = m[n]
        /\ names' = [n \in DOMAIN names' |-> names'[n]]
    BY <1>2, <2>1 DEF With
  <2> HIDE DEF p
  <2>4. DiskOK(data', fd', b, w)
    BY <1>a, <1>d, <2>1, <2>2 DEF DiskOK
  <2>5. ASSUME NEW n \in DOMAIN names'
        PROVE  \/ n \in DOMAIN m /\ names'[n] = m[n] /\ m[n] \in DOMAIN d /\ m[n] # p
               \/ n[2] = t /\ n = Part(t) /\ names'[n] = p
    BY <1>b, <1>e, <2>2, <2>3, <2>5
  <2>6. NamesOK(names', data', fd', t)
    <3>1. DOMAIN names' \subseteq {"part", "complete"} \X (0 .. MaxSecs)
      BY <1>b, <1>e, <2>3
    <3>2. \A n \in DOMAIN names' :
            names'[n] \in DOMAIN data' /\ (names'[n] = fd' => n[2] = t)
      BY <2>1, <2>2, <2>5
    <3>3. \A n, o \in DOMAIN names' : names'[n] = names'[o] => n[2] = o[2]
      BY <1>b, <2>5
    <3> QED BY <2>3, <3>1, <3>2, <3>3 DEF NamesOK
  <2>7. InOrder(names', data', t, s)
    <3>a. s = 0 => \A n \in DOMAIN names' : n[2] <= t
      BY <1>e, <1>f, <2>3
    <3> SUFFICES ASSUME s = 0, NEW n \in DOMAIN names', NEW o \in DOMAIN names',
                        n[2] < o[2]
                 PROVE  Before(LinesIn(data'[names'[n]]), LinesIn(data'[names'[o]]))
      BY <3>a DEF AcrossOK, InOrder
    <3>1. CASE names'[n] = p \/ names'[o] = p
      <4>1. LinesIn(data'[names'[n]]) = {} \/ LinesIn(data'[names'[o]]) = {}
        BY <1>c, <2>2, <3>1
      <4> QED BY <1>d, <4>1, Zenon
    <3>2. CASE names'[n] # p /\ names'[o] # p
      <4>1. /\ n \in DOMAIN m /\ o \in DOMAIN m
            /\ data'[names'[n]] = d[m[n]] /\ data'[names'[o]] = d[m[o]]
        BY <2>2, <2>5, <3>2
      <4> QED BY <1>f, <4>1 DEF AcrossOK
    <3> QED BY <3>1, <3>2
  <2> QED BY <2>4, <2>6, <2>7
<1> QED BY <1>1, <1>2

(***************************************************************************)
(* Order                                                                   *)
(***************************************************************************)

LEMMA InitOrderInv == Init => OrderInv
<1> SUFFICES ASSUME Init PROVE OrderInv
  OBVIOUS
<1>1. LinesIn(<<>>) = {} /\ Sorted(<<>>) /\ <<>> \in Seq(Lines)
  BY DEF LinesIn, Sorted
<1>2. FileOK(<<>>, <<>>, 0)
  BY <1>1 DEF FileOK, Before, UpTo
<1>3. data \in Seq(Seq(Lines)) /\ DOMAIN data = {1} /\ data[1] = <<>>
  BY <1>1 DEF Init
<1>4. DiskOK(data, fd, buf, written)
  BY <1>1, <1>2, <1>3 DEF Init, DiskOK
<1>5. NamesOK(names, data, fd, cur) /\ InOrder(names, data, cur, setbacks)
  BY <1>1, <1>3, SpoolAssumption DEF Init, NamesOK, AcrossOK, InOrder, Part
<1> QED BY <1>4, <1>5, SpoolAssumption DEF Init, OrderInv, ClockOK

(* The line that fills a chunk, written out and renamed; K is evicted. *)
LEMMA RotatedOK ==
  ASSUME OrderInv, FillsChunk, NEW K, NEW m, m = Without(Renamed(names, cur), K)
  PROVE  /\ DiskOK(FilledData, fd, <<>>, written + 1)
         /\ NamesOK(m, FilledData, fd, cur) /\ InOrder(m, FilledData, cur, setbacks)
<1>1. DiskOK(data, fd, buf, written) /\ written \in Nat /\ written < MaxLines
  BY SpoolAssumption DEF OrderInv, FillsChunk, ReceiveLine
<1>2. /\ DiskOK(FilledData, fd, <<>>, written + 1)
      /\ GrownBy(data, FilledData, fd, LinesIn(buf) \cup {written + 1})
  BY <1>1, LineOK
<1>3. NamesOK(names, FilledData, fd, cur) /\ InOrder(names, FilledData, cur, setbacks)
  BY <1>2, GrownNames DEF OrderInv, ClockOK
<1>4. SameFiles(m, names)
  BY <1>3, RenamedFiles, WithoutFiles DEF FillsChunk
<1>5. NamesOK(m, FilledData, fd, cur) /\ InOrder(m, FilledData, cur, setbacks)
  BY <1>3, <1>4, SameFilesNames
<1> QED BY <1>2, <1>5

(* The part of the invariant about the files. *)
FilesInv ==
  /\ DiskOK(data, fd, buf, written)
  /\ NamesOK(names, data, fd, cur)
  /\ InOrder(names, data, cur, setbacks)

(* A line is received that does not complete the chunk. *)
LEMMA LineStepOK ==
  ASSUME OrderInv, ReceiveLine, FlushesLine \/ KeepsLine,
         UNCHANGED <<names, fd, cur, setbacks>>
  PROVE  FilesInv'
<1>1. DiskOK(data, fd, buf, written) /\ written \in Nat /\ written < MaxLines
  BY SpoolAssumption DEF OrderInv, ReceiveLine
<1>2. NamesOK(names, data, fd, cur) /\ InOrder(names, data, cur, setbacks) /\ cur \in Nat
  BY DEF OrderInv, ClockOK
<1>3. /\ written' = written + 1 /\ names' = names /\ fd' = fd /\ cur' = cur
      /\ setbacks' = setbacks
  BY DEF ReceiveLine
<1>4. DiskOK(data', fd, buf', written + 1) /\ \E X : GrownBy(data, data', fd, X)
  <2>1. CASE FlushesLine
    <3>1. data' = FilledData /\ buf' = <<>>
      BY <2>1 DEF FlushesLine
    <3> QED BY <1>1, <3>1, LineOK
  <2>2. CASE KeepsLine
    <3>1. data' = SpilledData /\ buf' = BufWithLine
      BY <2>2 DEF KeepsLine
    <3> QED BY <1>1, <3>1, LineOK
  <2> QED BY <2>1, <2>2
<1>5. NamesOK(names, data', fd, cur) /\ InOrder(names, data', cur, setbacks)
  BY <1>2, <1>4, GrownNames
<1> QED BY <1>3, <1>4, <1>5 DEF FilesInv

(* The BufWriter is written out, or what it holds is lost. *)
LEMMA EmptiedOK ==
  ASSUME OrderInv, data' \in {data, Flushed(data, buf)}, buf' = <<>>,
         UNCHANGED <<fd, cur, setbacks, written>>
  PROVE  /\ DiskOK(data', fd', buf', written')
         /\ NamesOK(names, data', fd', cur') /\ InOrder(names, data', cur', setbacks')
<1>1. DiskOK(data, fd, buf, written) /\ written \in Nat
  BY SpoolAssumption DEF OrderInv
<1>2. NamesOK(names, data, fd, cur) /\ InOrder(names, data, cur, setbacks) /\ cur \in Nat
  BY DEF OrderInv, ClockOK
<1>3. fd' = fd /\ cur' = cur /\ setbacks' = setbacks /\ written' = written
  OBVIOUS
<1>4. CASE data' = data
  BY <1>1, <1>2, <1>3, <1>4, DiskWeaker
<1>5. CASE data' = Flushed(data, buf)
  <2>1. DiskOK(data', fd, <<>>, written) /\ GrownBy(data, data', fd, LinesIn(buf))
    BY <1>1, <1>5, FlushOK
  <2>2. NamesOK(names, data', fd, cur) /\ InOrder(names, data', cur, setbacks)
    BY <1>2, <2>1, GrownNames
  <2> QED BY <1>3, <2>1, <2>2
<1> QED BY <1>4, <1>5

LEMMA NextOrderInv == OrderInv /\ [Next]_vars => OrderInv'
<1> SUFFICES ASSUME OrderInv, [Next]_vars PROVE OrderInv'
  OBVIOUS
<1> DEFINE Rest == ClockOK' /\ written' \in 0 .. MaxLines
<1>a. Rest
  BY SpoolAssumption DEF OrderInv, ClockOK, Next, vars, WriteLine, WriteAndRotate,
    RotateRenameFails, RotateStopsAfterRename, RotateFlushFails, WriteFails,
    FlushFails, PollFlush, Finalize, FinalizeFails, Crash, Restart, Tick, SetBack,
    Secs, FillsChunk, ReceiveLine
<1>b. /\ DiskOK(data, fd, buf, written) /\ written \in Nat
      /\ NamesOK(names, data, fd, cur) /\ InOrder(names, data, cur, setbacks)
      /\ cur \in Nat /\ now \in 0 .. MaxSecs /\ (setbacks = 0 => cur <= now)
  BY SpoolAssumption DEF OrderInv, ClockOK
<1> SUFFICES FilesInv'
  BY <1>a DEF FilesInv, OrderInv
<1>1. CASE WriteLine
  BY <1>1, LineStepOK DEF WriteLine
<1>2. CASE WriteAndRotate
  <2> DEFINE K == Evictable(Renamed(names, cur), FilledData)
             m == Without(Renamed(names, cur), K)
             F == FilledData
  <2>1. /\ FillsChunk /\ buf' = <<>> /\ Creates(m, F, now) /\ cur' = now
        /\ setbacks' = setbacks
    BY <1>2 DEF WriteAndRotate
  <2>2. written' = written + 1
    BY <2>1 DEF FillsChunk, ReceiveLine
  <2>3. /\ DiskOK(F, fd, <<>>, written + 1) /\ NamesOK(m, F, fd, cur)
        /\ InOrder(m, F, cur, setbacks)
    <3> HIDE DEF K
    <3> QED BY <2>1, RotatedOK
  <2> HIDE DEF K, m, F
  <2> DEFINE v == written + 1
  <2>4. DiskOK(F, fd, <<>>, v) /\ written' = v
    BY <2>2, <2>3
  <2> HIDE DEF v
  <2>5. /\ DiskOK(data', fd', <<>>, v) /\ NamesOK(names', data', fd', now)
        /\ InOrder(names', data', now, setbacks)
    BY <1>b, <2>1, <2>3, <2>4, CreatesOK
  <2> QED BY <2>1, <2>4, <2>5 DEF FilesInv
<1>3. CASE RotateRenameFails
  BY <1>3, LineStepOK DEF RotateRenameFails
<1>4. CASE RotateStopsAfterRename
  <2>1. PICK K : names' = Without(Renamed(names, cur), K)
    BY <1>4 DEF RotateStopsAfterRename
  <2>2. /\ FillsChunk /\ data' = FilledData /\ buf' = <<>> /\ fd' = fd /\ cur' = cur
        /\ setbacks' = setbacks
    BY <1>4 DEF RotateStopsAfterRename, FlushesLine
  <2>3. written' = written + 1
    BY <2>2 DEF FillsChunk, ReceiveLine
  <2>4. /\ DiskOK(FilledData, fd, <<>>, written + 1)
        /\ NamesOK(names', FilledData, fd, cur)
        /\ InOrder(names', FilledData, cur, setbacks)
    BY <2>1, <2>2, RotatedOK
  <2> QED BY <2>2, <2>3, <2>4 DEF FilesInv
<1>5. CASE RotateFlushFails
  BY <1>5, LineStepOK DEF RotateFlushFails
<1>6. CASE WriteFails
  <2> DEFINE v == written + 1
  <2>1. /\ names' = names /\ fd' = fd /\ cur' = cur /\ written' = v
        /\ setbacks' = setbacks
    BY <1>6 DEF WriteFails, ReceiveLine
  <2>2. \A d, b : DiskOK(d, fd, b, written) => DiskOK(d, fd, b, v)
    BY <1>b, DiskWeaker
  <2> HIDE DEF v
  <2>3. CASE UNCHANGED <<data, buf, pending_bytes>>
    <3>1. data' = data /\ buf' = buf
      BY <2>3
    <3> QED BY <1>b, <2>1, <2>2, <3>1 DEF FilesInv
  <2>4. CASE data' = Flushed(data, buf) /\ buf' = <<>> /\ pending_bytes' = 0
    <3>1. DiskOK(data', fd, <<>>, written) /\ GrownBy(data, data', fd, LinesIn(buf))
      BY <1>b, <2>4, FlushOK
    <3>2. NamesOK(names, data', fd, cur) /\ InOrder(names, data', cur, setbacks)
      BY <1>b, <3>1, GrownNames
    <3> QED BY <2>1, <2>2, <2>4, <3>1, <3>2 DEF FilesInv
  <2> QED BY <1>6, <2>3, <2>4 DEF WriteFails
<1>7. CASE FlushFails
  BY <1>7, LineStepOK DEF FlushFails
<1>8. CASE PollFlush
  <2>1. /\ data' = Flushed(data, buf) /\ buf' = <<>>
        /\ UNCHANGED <<fd, cur, setbacks, written>> /\ names' = names
    BY <1>8 DEF PollFlush
  <2> QED BY <2>1, EmptiedOK DEF FilesInv
<1>9. CASE Finalize
  <2>1. /\ data' = Flushed(data, buf) /\ buf' = <<>>
        /\ UNCHANGED <<fd, cur, setbacks, written>>
        /\ names' = IF Part(cur) \in DOMAIN names THEN Renamed(names, cur) ELSE names
    BY <1>9 DEF Finalize
  <2>2. /\ DiskOK(data', fd', buf', written')
        /\ NamesOK(names, data', fd', cur') /\ InOrder(names, data', cur', setbacks')
    BY <2>1, EmptiedOK
  <2>3. CASE Part(cur) \in DOMAIN names
    <3>1. SameFiles(names', names)
      BY <1>b, <2>1, <2>3, RenamedFiles
    <3>2. NamesOK(names', data', fd', cur') /\ InOrder(names', data', cur', setbacks')
      BY <2>2, <3>1, SameFilesNames
    <3> QED BY <2>2, <3>2 DEF FilesInv
  <2>4. CASE Part(cur) \notin DOMAIN names
    BY <2>1, <2>2, <2>4 DEF FilesInv
  <2> QED BY <2>3, <2>4
<1>10. CASE FinalizeFails
  <2>1. /\ data' \in {data, Flushed(data, buf)} /\ buf' = <<>>
        /\ UNCHANGED <<fd, cur, setbacks, written>> /\ names' = names
    BY <1>10 DEF FinalizeFails
  <2> QED BY <2>1, EmptiedOK DEF FilesInv
<1>11. CASE Crash
  <2>1. /\ data' = data /\ buf' = <<>>
        /\ UNCHANGED <<fd, cur, setbacks, written>> /\ names' = names
    BY <1>11 DEF Crash
  <2> QED BY <2>1, EmptiedOK DEF FilesInv
<1>12. CASE Restart
  <2>1. /\ Creates(names, data, now) /\ cur' = now /\ buf' = buf /\ written' = written
        /\ setbacks' = setbacks
    BY <1>12 DEF Restart
  <2>2. /\ DiskOK(data', fd', buf, written) /\ NamesOK(names', data', fd', now)
        /\ InOrder(names', data', now, setbacks)
    BY <1>b, <2>1, CreatesOK
  <2> QED BY <2>1, <2>2 DEF FilesInv
<1>13. CASE Tick \/ SetBack \/ UNCHANGED vars
  <2>1. /\ names' = names /\ data' = data /\ fd' = fd /\ cur' = cur
        /\ buf' = buf /\ written' = written
    BY <1>13 DEF Tick, SetBack, vars
  <2>2. setbacks' = 0 => setbacks = 0
    <3>1. setbacks \in Nat
      BY DEF OrderInv, ClockOK
    <3> QED BY <1>13, <3>1 DEF Tick, SetBack, vars
  <2>3. InOrder(names', data', cur', setbacks')
    BY <1>b, <2>1, <2>2 DEF InOrder
  <2> QED BY <1>b, <2>1, <2>3 DEF FilesInv
<1> QED
  BY <1>1, <1>2, <1>3, <1>4, <1>5, <1>6, <1>7, <1>8, <1>9, <1>10, <1>11, <1>12,
     <1>13 DEF Next

(* The lines a reader finds in a file are in the order of arrival whatever *)
(* fails, is killed or is restarted, whether or not two chunks are opened  *)
(* in one second, and also after the wall clock was set back; across files *)
(* they are in the order of the names until it is.  OrderInv is inductive. *)
THEOREM KeepsOrder == Spec => []ChunksInOrder
<1>1. OrderInv => ChunksInOrder
  <2> SUFFICES ASSUME OrderInv, NEW n \in DOMAIN names, NEW o \in DOMAIN names
               PROVE  /\ Sorted(data[names[n]])
                      /\ (setbacks = 0 /\ n[2] < o[2]) =>
                           Before(LinesIn(data[names[n]]), LinesIn(data[names[o]]))
    BY DEF ChunksInOrder, Sorted, Before, LinesIn
  <2>1. names[n] \in DOMAIN data
    BY DEF OrderInv, NamesOK
  <2> QED BY <2>1 DEF OrderInv, DiskOK, FileOK, InOrder, AcrossOK
<1> QED BY InitOrderInv, NextOrderInv, <1>1, PTL DEF Spec

(***************************************************************************)
(* Types and counters                                                      *)
(***************************************************************************)

(* The BufWriter holds no more than is pending, and what is counted was    *)
(* received.                                                               *)
CountInv ==
  /\ current_bytes \in 0 .. written
  /\ Len(buf) <= BufCap
  /\ pending_bytes \in Len(buf) .. written
  /\ phase \in {"running", "finalized", "crashed"}
  /\ chunks_evicted \in Nat
  /\ evicted \subseteq Lines /\ killed \subseteq Lines
  /\ faults \in 0 .. MaxFaults /\ crashes \in 0 .. MaxCrashes

(* What a rotation evicts are finitely many chunks of received lines. *)
LEMMA EvictsTyped ==
  ASSUME OrderInv, FillsChunk, NEW K, K \subseteq Evictable(Renamed(names, cur), FilledData),
         EvictsChunks(Renamed(names, cur), FilledData, K),
         chunks_evicted \in Nat, evicted \subseteq Lines
  PROVE  chunks_evicted' \in Nat /\ evicted' \subseteq Lines
<1> DEFINE m == Renamed(names, cur)
           F == FilledData
<1>1. DiskOK(F, fd, <<>>, written + 1) /\ NamesOK(m, F, fd, cur)
  <2>1. m = Without(m, {})
    BY DEF Renamed, With, Without, Restrict
  <2>2. DiskOK(F, fd, <<>>, written + 1) /\ NamesOK(Without(m, {}), F, fd, cur)
    BY RotatedOK
  <2> QED BY <2>1, <2>2
<1>2. K \subseteq DOMAIN m
  BY DEF Evictable, CompleteChunks
<1>3. /\ chunks_evicted' = chunks_evicted + Cardinality(K)
      /\ evicted' = evicted \cup UNION {LinesIn(F[m[n]]) : n \in K}
  BY DEF EvictsChunks
<1> HIDE DEF m, F
<1>4. Cardinality(K) \in Nat
  <2>1. IsFiniteSet(0 .. MaxSecs) /\ IsFiniteSet({"part", "complete"})
    <3>1. IsFiniteSet({}) /\ IsFiniteSet({} \cup {"part"})
      BY FS_EmptySet, FS_AddElement
    <3>2. IsFiniteSet(({} \cup {"part"}) \cup {"complete"})
      BY <3>1, FS_AddElement
    <3>3. ({} \cup {"part"}) \cup {"complete"} = {"part", "complete"}
      OBVIOUS
    <3>4. 0 \in Int /\ MaxSecs \in Int
      BY SpoolAssumption
    <3> QED BY <3>2, <3>3, <3>4, FS_Interval
  <2>2. IsFiniteSet({"part", "complete"} \X (0 .. MaxSecs))
    BY <2>1, FS_Product
  <2>3. IsFiniteSet(K)
    BY <1>1, <1>2, <2>2, FS_Subset DEF NamesOK
  <2> QED BY <2>3, FS_CardinalityType
<1>5. \A n \in K : LinesIn(F[m[n]]) \subseteq Lines
  <2>1. \A n \in K : F[m[n]] \in Seq(Lines)
    BY <1>1, <1>2 DEF NamesOK, DiskOK
  <2> QED BY <2>1, LinesTyped
<1> QED BY <1>3, <1>4, <1>5

LEMMA NextCountInv == OrderInv /\ CountInv /\ [Next]_vars => CountInv'
<1> SUFFICES ASSUME OrderInv, CountInv, [Next]_vars PROVE CountInv'
  OBVIOUS
<1>a. /\ buf \in Seq(Lines) /\ Len(buf) \in Nat /\ Len(buf) <= BufCap
      /\ BufCap \in Nat \ {0} /\ Len(<<>>) = 0
      /\ written \in Nat /\ current_bytes \in 0 .. written
      /\ pending_bytes \in Len(buf) .. written /\ pending_bytes \in Nat
  BY SpoolAssumption DEF OrderInv, CountInv, DiskOK
<1>b. /\ phase \in {"running", "finalized", "crashed"}
      /\ chunks_evicted \in Nat
      /\ evicted \subseteq Lines /\ killed \subseteq Lines
      /\ faults \in 0 .. MaxFaults /\ crashes \in 0 .. MaxCrashes
      /\ MaxFaults \in Nat /\ MaxCrashes \in Nat
  BY SpoolAssumption DEF CountInv
<1> DEFINE Counted == /\ current_bytes' \in 0 .. written'
                      /\ Len(buf') <= BufCap
                      /\ pending_bytes' \in Len(buf') .. written'
           Faults == faults' \in 0 .. MaxFaults /\ crashes' \in 0 .. MaxCrashes
           Evicts == chunks_evicted' \in Nat /\ evicted' \subseteq Lines
           Phases == phase' \in {"running", "finalized", "crashed"} /\ killed' \subseteq Lines
<1> SUFFICES Counted /\ Faults /\ Evicts /\ Phases
  BY DEF CountInv
<1>1. Faults
  BY <1>b DEF Next, vars, WriteLine, WriteAndRotate, RotateRenameFails,
    RotateStopsAfterRename, RotateFlushFails, WriteFails, FlushFails, PollFlush,
    Finalize, FinalizeFails, Crash, Restart, Tick, SetBack, Fault
<1>2. Phases
  <2>1. LinesIn(buf) \subseteq Lines
    BY <1>a, LinesTyped
  <2> QED BY <1>b, <2>1 DEF Next, vars, WriteLine, WriteAndRotate, RotateRenameFails,
    RotateStopsAfterRename, RotateFlushFails, WriteFails, FlushFails, PollFlush,
    Finalize, FinalizeFails, Crash, Restart, Tick, SetBack
<1>3. Evicts
  <2>1. CASE WriteAndRotate
    <3>1. /\ FillsChunk
          /\ EvictsChunks(Renamed(names, cur), FilledData,
                          Evictable(Renamed(names, cur), FilledData))
      BY <2>1 DEF WriteAndRotate
    <3> QED BY <1>b, <3>1, EvictsTyped
  <2>2. CASE RotateStopsAfterRename
    <3>1. FillsChunk /\ \E K \in SUBSET Evictable(Renamed(names, cur), FilledData) :
            EvictsChunks(Renamed(names, cur), FilledData, K)
      BY <2>2 DEF RotateStopsAfterRename
    <3>2. PICK K \in SUBSET Evictable(Renamed(names, cur), FilledData) :
            EvictsChunks(Renamed(names, cur), FilledData, K)
      BY <3>1
    <3> QED BY <1>b, <3>1, <3>2, EvictsTyped
  <2>3. CASE chunks_evicted' = chunks_evicted /\ evicted' = evicted
    BY <1>b, <2>3
  <2> QED BY <2>1, <2>2, <2>3 DEF Next, vars, WriteLine, RotateRenameFails,
    RotateFlushFails, WriteFails, FlushFails, PollFlush, Finalize, FinalizeFails,
    Crash, Restart, Tick, SetBack
<1>4. Counted
  <2>1. ASSUME ReceiveLine, current_bytes' = current_bytes + 1, FlushesLine \/ KeepsLine
        PROVE  Counted
    <3>1. written' = written + 1
      BY <2>1 DEF ReceiveLine
    <3>2. CASE FlushesLine
      <4>1. Len(buf') = 0 /\ pending_bytes' = 0
        BY <1>a, <3>2 DEF FlushesLine
      <4> QED BY <1>a, <2>1, <3>1, <4>1
    <3>3. CASE KeepsLine
      <4>1. pending_bytes' = pending_bytes + 1 /\ buf' = BufWithLine
        BY <3>3 DEF KeepsLine
      <4>2. written + 1 \in Lines
        BY <1>a, <2>1, SpoolAssumption DEF ReceiveLine, Lines
      <4>3. Len(buf') = (IF Full THEN 0 ELSE Len(buf)) + 1
        BY <1>a, <4>1, <4>2 DEF BufWithLine
      <4>4. Len(buf') <= BufCap /\ Len(buf') <= pending_bytes + 1 /\ Len(buf') \in Nat
        BY <1>a, <4>3 DEF Full
      <4> QED BY <1>a, <2>1, <3>1, <4>1, <4>4
    <3> QED BY <2>1, <3>2, <3>3
  <2>2. ASSUME buf' = <<>>, pending_bytes' = 0, current_bytes' \in {0, current_bytes},
               written' \in {written, written + 1}
        PROVE  Counted
    BY <1>a, <2>2
  <2>3. ASSUME buf' = buf, pending_bytes' = pending_bytes, current_bytes' \in {0, current_bytes},
               written' \in {written, written + 1}
        PROVE  Counted
    BY <1>a, <2>3
  <2>4. CASE WriteLine
    BY <2>1, <2>4 DEF WriteLine
  <2>5. CASE RotateRenameFails
    BY <2>1, <2>5 DEF RotateRenameFails
  <2>6. CASE RotateFlushFails
    BY <2>1, <2>6 DEF RotateFlushFails
  <2>7. CASE FlushFails
    BY <2>1, <2>7 DEF FlushFails
  <2>8. CASE WriteAndRotate \/ RotateStopsAfterRename
    BY <2>2, <2>8 DEF WriteAndRotate, RotateStopsAfterRename, FillsChunk, ReceiveLine,
      FlushesLine
  <2>9. CASE WriteFails
    BY <2>2, <2>3, <2>9 DEF WriteFails, ReceiveLine
  <2>10. CASE PollFlush \/ Finalize \/ FinalizeFails \/ Crash
    BY <2>2, <2>10 DEF PollFlush, Finalize, FinalizeFails, Crash
  <2>11. CASE Restart \/ Tick \/ SetBack \/ UNCHANGED vars
    BY <2>3, <2>11 DEF Restart, Tick, SetBack, vars
  <2> QED BY <2>4, <2>5, <2>6, <2>7, <2>8, <2>9, <2>10, <2>11 DEF Next
<1> QED BY <1>1, <1>2, <1>3, <1>4

(* Every variable keeps its type; in particular the directory refers to    *)
(* inodes that exist, and the BufWriter never holds more than its capacity *)
(* or than what is pending, so that a poll flushes whatever it holds.      *)
THEOREM TypeCorrect == Spec => []TypeOK
<1>1. Init => CountInv
  BY SpoolAssumption DEF Init, CountInv
<1>2. OrderInv /\ CountInv => TypeOK
  <2> SUFFICES ASSUME OrderInv, CountInv PROVE TypeOK
    OBVIOUS
  <2>1. /\ names \in [DOMAIN names -> DOMAIN data] /\ DOMAIN names \subseteq Names
        /\ data \in Seq(Seq(Lines)) /\ fd \in DOMAIN data /\ buf \in Seq(Lines)
        /\ cur \in Secs /\ now \in Secs /\ setbacks \in 0 .. MaxSetBacks
    BY SpoolAssumption, SMTT(60) DEF OrderInv, NamesOK, DiskOK, ClockOK, Names, Secs
  <2>2. /\ current_bytes \in 0 .. MaxLines /\ pending_bytes \in Len(buf) .. MaxLines
        /\ written \in 0 .. MaxLines
    <3>1. written \in 0 .. MaxLines /\ MaxLines \in Nat /\ Len(buf) \in Nat
      BY <2>1, SpoolAssumption DEF OrderInv
    <3>2. current_bytes \in 0 .. written /\ pending_bytes \in Len(buf) .. written
      BY DEF CountInv
    <3> QED BY <3>1, <3>2
  <2> QED BY <2>1, <2>2 DEF CountInv, TypeOK
<1> QED BY InitOrderInv, NextOrderInv, NextCountInv, <1>1, <1>2, PTL DEF Spec

(***************************************************************************)
(* No line is lost, as long as no system call fails                        *)
(***************************************************************************)

(* The lines in the files of directory m. *)
Held(m, d) == UNION {LinesIn(d[m[n]]) : n \in DOMAIN m}

OneName(m) == \A n, o \in DOMAIN m : m[n] = m[o] => n = o

(* The open file has its part name, and its complete name is free. *)
IsOpen(m, f, c) ==
  Part(c) \in DOMAIN m /\ m[Part(c)] = f /\ Complete(c) \notin DOMAIN m

Accounted == Received \subseteq Held(names, data) \cup LinesIn(buf) \cup evicted \cup killed

AccountInv ==
  faults = 0 => /\ OneName(names)
                /\ phase = "running" => IsOpen(names, fd, cur)
                /\ Accounted

LEMMA HeldGrown ==
  ASSUME NEW m, NEW d, NEW e, NEW f, NEW c, NEW X, NamesOK(m, d, f, c),
         IsOpen(m, f, c), GrownBy(d, e, f, X)
  PROVE  Held(m, d) \cup X \subseteq Held(m, e)
<1>1. \A n \in DOMAIN m : LinesIn(d[m[n]]) \subseteq LinesIn(e[m[n]])
  <2> SUFFICES ASSUME NEW n \in DOMAIN m PROVE LinesIn(d[m[n]]) \subseteq LinesIn(e[m[n]])
    OBVIOUS
  <2>1. m[n] \in DOMAIN d
    BY DEF NamesOK
  <2>2. CASE m[n] = f
    BY <2>2 DEF GrownBy
  <2>3. CASE m[n] # f
    BY <2>1, <2>3 DEF GrownBy
  <2> QED BY <2>2, <2>3
<1>2. X \subseteq LinesIn(e[m[Part(c)]]) /\ Part(c) \in DOMAIN m
  BY DEF IsOpen, GrownBy
<1> QED BY <1>1, <1>2 DEF Held

(* r names the files of m; the part file of second c has its complete name. *)
SameHeld(m, r, d, c) ==
  /\ Held(r, d) = Held(m, d) /\ OneName(r)
  /\ DOMAIN r = (DOMAIN m \ {Part(c)}) \cup {Complete(c)}
  /\ \A n \in DOMAIN m \ {Part(c)} : r[n] = m[n]

(* r names the files of m that are not in K. *)
HeldBut(m, r, d, K) ==
  /\ Held(m, d) \subseteq Held(r, d) \cup UNION {LinesIn(d[m[n]]) : n \in K}
  /\ OneName(r) /\ DOMAIN r \subseteq DOMAIN m /\ \A n \in DOMAIN r : r[n] = m[n]

(* The rename to a free name keeps every file. *)
LEMMA HeldRenamed ==
  ASSUME NEW m, NEW d, NEW f, NEW c, IsOpen(m, f, c), OneName(m),
         NEW r, r = Renamed(m, c)
  PROVE  SameHeld(m, r, d, c)
<1>1. Part(c) \in DOMAIN m /\ Complete(c) \notin DOMAIN m /\ Part(c) # Complete(c)
  BY DEF IsOpen, Part, Complete
<1>2. /\ DOMAIN r = (DOMAIN m \ {Part(c)}) \cup {Complete(c)}
      /\ r[Complete(c)] = m[Part(c)]
      /\ \A n \in DOMAIN m \ {Part(c)} : r[n] = m[n]
  BY <1>1 DEF Renamed, With, Without, Restrict
<1>3. OneName(r)
  BY <1>1, <1>2 DEF OneName
<1>4. Held(r, d) \subseteq Held(m, d)
  BY <1>1, <1>2 DEF Held
<1>5. Held(m, d) \subseteq Held(r, d)
  <2> SUFFICES ASSUME NEW n \in DOMAIN m PROVE \E o \in DOMAIN r : r[o] = m[n]
    BY DEF Held
  <2> QED BY <1>1, <1>2
<1> QED BY <1>2, <1>3, <1>4, <1>5 DEF SameHeld

(* What leaves with the chunks in K. *)
LEMMA HeldWithout ==
  ASSUME NEW m, NEW d, NEW K, NEW r, r = Without(m, K), OneName(m)
  PROVE  HeldBut(m, r, d, K)
<1>1. DOMAIN r = DOMAIN m \ K /\ \A n \in DOMAIN r : r[n] = m[n]
  BY DEF Without, Restrict
<1>2. \A n \in DOMAIN m : n \in K \/ (n \in DOMAIN r /\ r[n] = m[n])
  BY <1>1
<1>3. Held(m, d) \subseteq Held(r, d) \cup UNION {LinesIn(d[m[n]]) : n \in K}
  BY <1>2 DEF Held
<1>4. OneName(r)
  BY <1>1 DEF OneName
<1> QED BY <1>1, <1>3, <1>4 DEF HeldBut

(* A file created in a second without a chunk is a new one. *)
LEMMA CreatesFresh ==
  ASSUME NEW m, NEW d, NEW f, NEW b, NEW w, NEW c, NEW t,
         \A n \in DOMAIN m : n[2] # t,
         DiskOK(d, f, b, w), NamesOK(m, d, f, c), OneName(m), Creates(m, d, t)
  PROVE  /\ Held(m, d) \subseteq Held(names', data') /\ OneName(names')
         /\ IsOpen(names', fd', t)
         /\ \A n \in DOMAIN m : n \in DOMAIN names' /\ data'[names'[n]] = d[m[n]]
<1> DEFINE p == Len(d) + 1
<1>1. \A n \in DOMAIN m : m[n] \in DOMAIN d
  BY DEF NamesOK
<1>2. Part(t)[2] = t /\ Complete(t)[2] = t /\ Part(t) # Complete(t)
  BY DEF Part, Complete
<1>3. Part(t) \notin DOMAIN m /\ Complete(t) \notin DOMAIN m
  BY <1>2
<1>4. names' = With(m, Part(t), p) /\ fd' = p /\ data' = Append(d, <<>>)
  BY <1>3 DEF Creates
<1>5. p \notin DOMAIN d /\ \A i \in DOMAIN d : data'[i] = d[i]
  <2>1. d \in Seq(Seq(Lines)) /\ <<>> \in Seq(Lines)
    BY DEF DiskOK
  <2> QED BY <1>4, <2>1
<1>6. /\ DOMAIN names' = DOMAIN m \cup {Part(t)} /\ names'[Part(t)] = p
      /\ \A n \in DOMAIN m : names'[n] = m[n]
  BY <1>3, <1>4 DEF With
<1> HIDE DEF p
<1>7. \A n \in DOMAIN m : n \in DOMAIN names' /\ data'[names'[n]] = d[m[n]]
  BY <1>1, <1>5, <1>6
<1>8. Held(m, d) \subseteq Held(names', data')
  BY <1>7 DEF Held
<1>9. OneName(names')
  BY <1>1, <1>3, <1>5, <1>6 DEF OneName
<1>10. IsOpen(names', fd', t)
  BY <1>2, <1>3, <1>4, <1>6 DEF IsOpen
<1> QED BY <1>7, <1>8, <1>9, <1>10

(* What a step that appends to the open file leaves of the complete files. *)
CompleteKept ==
  \A n \in CompleteChunks(names) \cap DOMAIN names' :
    data'[names'[n]] = data[names[n]]

LEMMA GrownKept ==
  ASSUME NEW e, NEW X, OrderInv, OneName(names), IsOpen(names, fd, cur),
         GrownBy(data, e, fd, X)
  PROVE  \A n \in CompleteChunks(names) : names[n] \in DOMAIN data /\ e[names[n]] = data[names[n]]
<1> SUFFICES ASSUME NEW n \in CompleteChunks(names)
             PROVE  names[n] \in DOMAIN data /\ e[names[n]] = data[names[n]]
  OBVIOUS
<1>1. n \in DOMAIN names /\ n[1] = "complete" /\ Part(cur)[1] = "part"
  BY DEF CompleteChunks, Part
<1>2. n # Part(cur)
  BY <1>1
<1>3. names[n] # fd
  BY <1>1, <1>2 DEF OneName, IsOpen
<1>4. names[n] \in DOMAIN data
  BY <1>1 DEF OrderInv, NamesOK
<1> QED BY <1>3, <1>4 DEF GrownBy

(* The effect of a step without a failing system call, for both            *)
(* properties.                                                             *)
AccountStep ==
  /\ OneName(names')
  /\ phase' = "running" => IsOpen(names', fd', cur')
  /\ Accounted'
  /\ CompleteKept

(* One more line, in the BufWriter or in the open file. *)
LEMMA LineAccounted ==
  ASSUME OrderInv, OneName(names), IsOpen(names, fd, cur), Accounted,
         ReceiveLine, FlushesLine \/ KeepsLine,
         UNCHANGED <<names, fd, cur, evicted, killed>>
  PROVE  AccountStep
<1>1. DiskOK(data, fd, buf, written) /\ written \in Nat /\ written < MaxLines
  BY SpoolAssumption DEF OrderInv, ReceiveLine
<1>2. /\ written' = written + 1 /\ names' = names /\ fd' = fd /\ cur' = cur
      /\ evicted' = evicted /\ killed' = killed
  BY DEF ReceiveLine
<1>3. NamesOK(names, data, fd, cur)
  BY DEF OrderInv
<1>4. \E X : /\ GrownBy(data, data', fd, X)
             /\ X \cup LinesIn(buf') = LinesIn(buf) \cup {written + 1}
  <2>0. LinesIn(<<>>) = {}
    BY DEF LinesIn
  <2>1. CASE FlushesLine
    <3>1. data' = FilledData /\ buf' = <<>>
      BY <2>1 DEF FlushesLine
    <3>2. GrownBy(data, data', fd, LinesIn(buf) \cup {written + 1})
      BY <1>1, <3>1, LineOK
    <3> QED BY <2>0, <3>1, <3>2
  <2>2. CASE KeepsLine
    <3>1. data' = SpilledData /\ buf' = BufWithLine
      BY <2>2 DEF KeepsLine
    <3> DEFINE X == IF Full THEN LinesIn(buf) ELSE {}
    <3>2. /\ GrownBy(data, data', fd, X)
          /\ LinesIn(buf') = (IF Full THEN {} ELSE LinesIn(buf)) \cup {written + 1}
      BY <1>1, <3>1, LineOK
    <3>3. X \cup LinesIn(buf') = LinesIn(buf) \cup {written + 1}
      BY <3>2
    <3> QED BY <3>2, <3>3
  <2> QED BY <2>1, <2>2
<1>5. PICK X : /\ GrownBy(data, data', fd, X)
               /\ X \cup LinesIn(buf') = LinesIn(buf) \cup {written + 1}
  BY <1>4
<1>6. Held(names, data) \cup X \subseteq Held(names, data')
  BY <1>3, <1>5, HeldGrown
<1>7. Received' \subseteq Received \cup {written + 1}
  BY <1>1, <1>2 DEF Received
<1>8. Accounted'
  BY <1>2, <1>5, <1>6, <1>7 DEF Accounted
<1>9. CompleteKept
  BY <1>2, <1>5, GrownKept DEF CompleteKept
<1> QED BY <1>2, <1>8, <1>9 DEF AccountStep

(* The line that fills the chunk, the rename, the evictions, the new file. *)
LEMMA RotationAccounted ==
  ASSUME OrderInv, OneName(names), IsOpen(names, fd, cur), Accounted,
         WriteAndRotate, FreshSeconds
  PROVE  AccountStep
<1> DEFINE F == FilledData
           r == Renamed(names, cur)
           K == Evictable(r, F)
           m == Without(r, K)
           v == written + 1
<1>1. /\ FillsChunk /\ buf' = <<>> /\ EvictsChunks(r, F, K) /\ Creates(m, F, now)
      /\ cur' = now /\ killed' = killed
  BY DEF WriteAndRotate
<1>2. /\ DiskOK(data, fd, buf, written) /\ written \in Nat /\ written < MaxLines
      /\ written' = v /\ cur # now /\ \A n \in DOMAIN names : n[2] # now
  BY <1>1, SpoolAssumption DEF OrderInv, FillsChunk, NewName, ReceiveLine
<1>3. evicted' = evicted \cup UNION {LinesIn(F[r[n]]) : n \in K}
  BY <1>1 DEF EvictsChunks
<1>4. GrownBy(data, F, fd, LinesIn(buf) \cup {v})
  BY <1>2, LineOK
<1>5. DiskOK(F, fd, <<>>, v) /\ NamesOK(m, F, fd, cur)
  <2> HIDE DEF K
  <2> QED BY <1>1, RotatedOK
<1>6. NamesOK(names, data, fd, cur)
  BY DEF OrderInv
<1>7. Received' \subseteq Received \cup {v}
  BY <1>2 DEF Received
<1>8. LinesIn(buf') = {}
  BY <1>1 DEF LinesIn
<1>r. r = Renamed(names, cur) /\ m = Without(r, K)
  OBVIOUS
<1> HIDE DEF F, r, K, m, v
<1>9. Held(names, data) \cup LinesIn(buf) \cup {v} \subseteq Held(names, F)
  BY <1>4, <1>6, HeldGrown
<1>10. /\ Held(r, F) = Held(names, F) /\ OneName(r)
       /\ DOMAIN r = (DOMAIN names \ {Part(cur)}) \cup {Complete(cur)}
       /\ \A n \in DOMAIN names \ {Part(cur)} : r[n] = names[n]
  <2>1. SameHeld(names, r, F, cur)
    BY <1>r, HeldRenamed
  <2> QED BY <2>1 DEF SameHeld
<1>11. /\ Held(r, F) \subseteq Held(m, F) \cup UNION {LinesIn(F[r[n]]) : n \in K}
       /\ OneName(m) /\ DOMAIN m \subseteq DOMAIN r /\ \A n \in DOMAIN m : m[n] = r[n]
  <2>1. HeldBut(r, m, F, K)
    BY <1>r, <1>10, HeldWithout
  <2> QED BY <2>1 DEF HeldBut
<1>12. /\ Held(m, F) \subseteq Held(names', data') /\ OneName(names')
       /\ IsOpen(names', fd', now)
       /\ \A n \in DOMAIN m : n \in DOMAIN names' /\ data'[names'[n]] = F[m[n]]
  <2>1. \A n \in DOMAIN m : n \in DOMAIN names \/ n = Complete(cur)
    BY <1>10, <1>11
  <2>2. \A n \in DOMAIN m : n[2] # now
    BY <1>2, <2>1 DEF Complete
  <2> QED BY <1>1, <1>5, <1>11, <2>2, CreatesFresh
<1>13. Accounted'
  BY <1>1, <1>3, <1>7, <1>8, <1>9, <1>10, <1>11, <1>12 DEF Accounted
<1>14. CompleteKept
  <2> SUFFICES ASSUME NEW n \in CompleteChunks(names), n \in DOMAIN names'
               PROVE  data'[names'[n]] = data[names[n]]
    BY DEF CompleteKept
  <2>1. n \in DOMAIN names /\ n # Part(cur) /\ n # Part(now)
    <3>1. n \in DOMAIN names /\ n[1] = "complete" /\ Part(cur)[1] = "part" /\ Part(now)[1] = "part"
      BY DEF CompleteChunks, Part
    <3> QED BY <3>1
  <2>2. DOMAIN names' \subseteq DOMAIN m \cup {Part(now)}
    BY <1>1 DEF Creates, With
  <2>3. n \in DOMAIN m
    BY <2>1, <2>2
  <2>4. data'[names'[n]] = F[m[n]] /\ m[n] = r[n] /\ r[n] = names[n]
    BY <1>10, <1>11, <1>12, <2>1, <2>3
  <2>5. F[names[n]] = data[names[n]]
    BY <1>4, GrownKept
  <2> QED BY <2>4, <2>5
<1> QED BY <1>1, <1>12, <1>13, <1>14 DEF AccountStep

(* The BufWriter is written out to the open file, at a poll or at the end. *)
LEMMA FlushAccounted ==
  ASSUME OrderInv, OneName(names), IsOpen(names, fd, cur), Accounted,
         data' = Flushed(data, buf), buf' = <<>>,
         UNCHANGED <<fd, cur, written, evicted, killed>>,
         \/ names' = names
         \/ names' = Renamed(names, cur) /\ phase' # "running"
  PROVE  AccountStep
<1>1. /\ DiskOK(data, fd, buf, written) /\ written \in Nat
      /\ NamesOK(names, data, fd, cur)
  BY SpoolAssumption DEF OrderInv
<1>2. GrownBy(data, data', fd, LinesIn(buf))
  BY <1>1, FlushOK
<1>3. Held(names, data) \cup LinesIn(buf) \subseteq Held(names, data')
  BY <1>1, <1>2, HeldGrown
<1>4. \A n \in CompleteChunks(names) : data'[names[n]] = data[names[n]]
  BY <1>2, GrownKept
<1>5. Received' = Received /\ fd' = fd /\ cur' = cur /\ evicted' = evicted /\ killed' = killed
  BY DEF Received
<1>6. CASE names' = names
  <2>1. Accounted'
    BY <1>3, <1>5, <1>6 DEF Accounted
  <2>2. CompleteKept
    BY <1>4, <1>6 DEF CompleteKept
  <2> QED BY <1>5, <1>6, <2>1, <2>2 DEF AccountStep
<1>7. CASE names' = Renamed(names, cur) /\ phase' # "running"
  <2>1. SameHeld(names, names', data', cur)
    BY <1>7, HeldRenamed
  <2>2. Held(names', data') = Held(names, data') /\ OneName(names')
    BY <2>1 DEF SameHeld
  <2>3. Accounted'
    BY <1>3, <1>5, <2>2 DEF Accounted
  <2>4. CompleteKept
    <3> SUFFICES ASSUME NEW n \in CompleteChunks(names)
                 PROVE  data'[names'[n]] = data[names[n]]
      BY DEF CompleteKept
    <3>1. n \in DOMAIN names /\ n[1] = "complete" /\ Part(cur)[1] = "part"
      BY DEF CompleteChunks, Part
    <3>2. n \in DOMAIN names \ {Part(cur)}
      BY <3>1
    <3>3. names'[n] = names[n]
      BY <2>1, <3>2 DEF SameHeld
    <3> QED BY <1>4, <3>3
  <2> QED BY <1>7, <2>2, <2>3, <2>4 DEF AccountStep
<1> QED BY <1>6, <1>7

(* Every step without a failing system call. *)
LEMMA StepAccounted ==
  ASSUME OrderInv, CountInv, AccountInv, [Next]_vars, FreshSeconds, faults' = 0
  PROVE  AccountStep
<1>0. faults \in Nat
  BY SpoolAssumption DEF CountInv
<1>1. ~Fault
  BY <1>0 DEF Fault
<1>2. faults = 0
  <2>1. faults' = faults \/ Fault
    BY DEF Next, vars, WriteLine, WriteAndRotate, RotateRenameFails,
      RotateStopsAfterRename, RotateFlushFails, WriteFails, FlushFails, PollFlush,
      Finalize, FinalizeFails, Crash, Restart, Tick, SetBack
  <2> QED BY <1>1, <2>1
<1>3. OneName(names) /\ (phase = "running" => IsOpen(names, fd, cur)) /\ Accounted
  BY <1>2 DEF AccountInv
<1>4. phase = "running" => Part(cur) \in DOMAIN names
  BY <1>3 DEF IsOpen
<1>5. CASE WriteLine
  BY <1>3, <1>5, LineAccounted DEF WriteLine, ReceiveLine
<1>6. CASE WriteAndRotate
  BY <1>3, <1>6, RotationAccounted DEF WriteAndRotate, FillsChunk, ReceiveLine
<1>7. CASE PollFlush
  BY <1>3, <1>7, FlushAccounted DEF PollFlush
<1>8. CASE Finalize
  <2>1. /\ phase = "running" /\ phase' = "finalized" /\ data' = Flushed(data, buf)
        /\ buf' = <<>> /\ UNCHANGED <<fd, cur, written, evicted, killed>>
        /\ names' = Renamed(names, cur)
    BY <1>4, <1>8 DEF Finalize
  <2> QED BY <1>3, <2>1, FlushAccounted
<1>9. CASE Crash
  <2>1. /\ names' = names /\ data' = data /\ killed' = killed \cup LinesIn(buf)
        /\ evicted' = evicted /\ written' = written /\ phase' = "crashed"
    BY <1>9 DEF Crash
  <2>2. Accounted'
    BY <1>3, <2>1 DEF Accounted, Received
  <2> QED BY <1>3, <2>1, <2>2 DEF AccountStep, CompleteKept
<1>10. CASE Restart
  <2>1. /\ DiskOK(data, fd, buf, written) /\ NamesOK(names, data, fd, cur)
        /\ \A n \in DOMAIN names : n[2] # now
    BY <1>10 DEF OrderInv, NewName, Restart
  <2>2. /\ Creates(names, data, now) /\ cur' = now /\ buf' = buf /\ written' = written
        /\ evicted' = evicted /\ killed' = killed
    BY <1>10 DEF Restart
  <2>3. /\ Held(names, data) \subseteq Held(names', data') /\ OneName(names')
        /\ IsOpen(names', fd', now)
        /\ \A n \in DOMAIN names : n \in DOMAIN names' /\ data'[names'[n]] = data[names[n]]
    BY <1>3, <2>1, <2>2, CreatesFresh
  <2>4. Accounted'
    BY <1>3, <2>2, <2>3 DEF Accounted, Received
  <2>5. CompleteKept
    BY <2>3 DEF CompleteKept, CompleteChunks
  <2> QED BY <2>2, <2>3, <2>4, <2>5 DEF AccountStep
<1>11. CASE Tick \/ SetBack \/ UNCHANGED vars
  <2>1. /\ names' = names /\ data' = data /\ killed' = killed /\ buf' = buf
        /\ evicted' = evicted /\ written' = written /\ phase' = phase
        /\ fd' = fd /\ cur' = cur
    BY <1>11 DEF Tick, SetBack, vars
  <2> QED BY <1>3, <2>1 DEF AccountStep, CompleteKept, Accounted, Received
<1>12. ~RotateRenameFails
  BY <1>1, <1>4 DEF RotateRenameFails, ReceiveLine
<1>13. ~RotateStopsAfterRename /\ ~RotateFlushFails /\ ~WriteFails /\ ~FlushFails /\ ~FinalizeFails
  BY <1>1 DEF RotateStopsAfterRename, RotateFlushFails, WriteFails, FlushFails, FinalizeFails
<1> QED BY <1>5, <1>6, <1>7, <1>8, <1>9, <1>10, <1>11, <1>12, <1>13 DEF Next

LEMMA AccountInvHolds ==
  ASSUME FreshSeconds
  PROVE  Spec => [](OrderInv /\ CountInv /\ AccountInv)
<1>1. Init => CountInv
  BY SpoolAssumption DEF Init, CountInv
<1>2. Init => AccountInv
  <2> SUFFICES ASSUME Init PROVE AccountInv
    OBVIOUS
  <2>1. DOMAIN names = {Part(0)} /\ names[Part(0)] = 1 /\ fd = 1 /\ cur = 0 /\ Received = {}
    BY DEF Init, Received
  <2>2. Complete(0) # Part(0)
    BY DEF Complete, Part
  <2> QED BY <2>1, <2>2 DEF AccountInv, OneName, IsOpen, Accounted
<1>3. OrderInv /\ CountInv /\ AccountInv /\ [Next]_vars => AccountInv'
  BY StepAccounted DEF AccountInv, AccountStep
<1> QED BY InitOrderInv, NextOrderInv, NextCountInv, <1>1, <1>2, <1>3, PTL DEF Spec

(* When chunks are opened in different seconds, no line that was counted   *)
(* as emitted is missing: it is on disk, buffered, evicted by the cap or   *)
(* was in the BufWriter of a killed process.  Every rename and every       *)
(* creation could lose a file; AccountInv says why none does.              *)
THEOREM AccountsForLines ==
  ASSUME FreshSeconds
  PROVE  Spec => []LinesAccounted
<1>1. AccountInv => LinesAccounted
  BY DEF AccountInv, LinesAccounted, Accounted, Held, OnDisk
<1> QED BY AccountInvHolds, <1>1, PTL

(* Under the same hypothesis a complete chunk never changes, until it is   *)
(* evicted: what is flushed goes to the one file that has a part name.     *)
THEOREM CompleteStaysFinal ==
  ASSUME FreshSeconds
  PROVE  Spec => CompleteIsFinal
<1>1. OrderInv /\ CountInv /\ AccountInv /\ [Next]_vars
        => [faults' = 0 =>
              \A n \in CompleteChunks(names) \cap DOMAIN names' :
                data'[names'[n]] = data[names[n]]]_vars
  BY StepAccounted DEF AccountStep, CompleteKept
<1> QED BY AccountInvHolds, <1>1, PTL DEF Spec, CompleteIsFinal

(***************************************************************************)
(* Sums over finite sets                                                   *)
(*                                                                         *)
(* What is proved of a sum is proved by taking a smallest set, or number,  *)
(* for which it fails.                                                     *)
(***************************************************************************)

(* A set of naturals with zero and every successor has them all. *)
LEMMA Naturals_Induct ==
  ASSUME NEW G \in SUBSET Nat, 0 \in G, \A n \in G : n + 1 \in G
  PROVE  G = Nat
<1> DEFINE Less == OpToRel(<, Nat)
           B == Nat \ G
<1>1. IsWellFoundedOn(Less, Nat)
  BY NatLessThanWellFounded
<1>2. \A x, y \in Nat : x < y => <<x, y>> \in Less
  BY DEF OpToRel
<1> HIDE DEF Less
<1>3. SUFFICES ASSUME B # {} PROVE FALSE
  OBVIOUS
<1>4. PICK n \in B : \A y \in B : ~(<<y, n>> \in Less)
  <2>1. B \subseteq Nat
    OBVIOUS
  <2> HIDE DEF B
  <2> QED BY <1>1, <1>3, <2>1, WFMin
<1>5. n \in Nat /\ n # 0 /\ n - 1 \in Nat /\ n - 1 < n /\ (n - 1) + 1 = n
  OBVIOUS
<1>6. n - 1 \notin B
  BY <1>2, <1>4, <1>5
<1> QED BY <1>5, <1>6

(* A set of subsets of S that has every set of which it has all the sets   *)
(* with an element less has all subsets of S.                              *)
LEMMA SubsetInduction ==
  ASSUME NEW S, IsFiniteSet(S), NEW G \in SUBSET (SUBSET S),
         \A s \in SUBSET S : (\A x \in s : s \ {x} \in G) => s \in G
  PROVE  G = SUBSET S
<1> DEFINE Good == {n \in Nat : \A s \in SUBSET S : Cardinality(s) = n => s \in G}
<1>1. ASSUME NEW s \in SUBSET S
      PROVE  IsFiniteSet(s) /\ Cardinality(s) \in Nat
  BY FS_Subset, FS_CardinalityType
<1>2. 0 \in Good
  <2> SUFFICES ASSUME NEW s \in SUBSET S, Cardinality(s) = 0 PROVE s \in G
    OBVIOUS
  <2>1. s = {}
    BY <1>1, FS_EmptySet
  <2> QED BY <2>1
<1>3. ASSUME NEW n \in Good PROVE n + 1 \in Good
  <2> SUFFICES ASSUME NEW s \in SUBSET S, Cardinality(s) = n + 1 PROVE s \in G
    OBVIOUS
  <2>1. ASSUME NEW x \in s PROVE s \ {x} \in G
    <3>1. Cardinality(s \ {x}) = Cardinality(s) - 1
      BY <1>1, FS_RemoveElement
    <3>2. Cardinality(s \ {x}) = n
      BY <3>1
    <3> QED BY <3>2
  <2> QED BY <2>1
<1>4. Good = Nat
  <2>1. Good \in SUBSET Nat
    OBVIOUS
  <2> HIDE DEF Good
  <2> QED BY <1>2, <1>3, <2>1, Naturals_Induct
<1> QED BY <1>1, <1>4

Some(s) == CHOOSE x \in s : TRUE

(* g sums up v over the sets of F. *)
SumsUp(g, v, F) ==
  g = [s \in F |-> IF s = {} THEN 0 ELSE v[Some(s)] + g[s \ {Some(s)}]]

(* The sums over the subsets of a finite set exist. *)
LEMMA SumsExist ==
  ASSUME NEW S, IsFiniteSet(S), NEW v
  PROVE  \E g : SumsUp(g, v, SUBSET S)
<1> DEFINE Sub(n) == {s \in SUBSET S : Cardinality(s) <= n}
           G == {n \in Nat : \E g : SumsUp(g, v, Sub(n))}
<1>1. ASSUME NEW s \in SUBSET S
      PROVE  IsFiniteSet(s) /\ Cardinality(s) \in Nat /\ Cardinality(s) <= Cardinality(S)
  BY FS_Subset, FS_CardinalityType
<1>2. 0 \in G
  <2> DEFINE g == [s \in Sub(0) |-> 0]
  <2>1. \A s \in Sub(0) : s = {}
    BY <1>1, FS_EmptySet
  <2>2. SumsUp(g, v, Sub(0))
    BY <2>1 DEF SumsUp
  <2> QED BY <2>2
<1>3. ASSUME NEW n \in G PROVE n + 1 \in G
  <2>1. PICK g : SumsUp(g, v, Sub(n))
    OBVIOUS
  <2> DEFINE h == [s \in Sub(n + 1) |-> IF s = {} THEN 0 ELSE v[Some(s)] + g[s \ {Some(s)}]]
  <2>2. ASSUME NEW s \in Sub(n + 1), s # {} PROVE g[s \ {Some(s)}] = h[s \ {Some(s)}]
    <3> DEFINE t == s \ {Some(s)}
    <3>1. Some(s) \in s
      BY <2>2 DEF Some
    <3>2. Cardinality(t) = Cardinality(s) - 1
      BY <1>1, <3>1, FS_RemoveElement
    <3>3. Cardinality(s) \in Nat /\ n \in Nat
      BY <1>1
    <3>4. t \in Sub(n) /\ t \in Sub(n + 1)
      BY <3>2, <3>3
    <3> HIDE DEF t
    <3>5. g[t] = IF t = {} THEN 0 ELSE v[Some(t)] + g[t \ {Some(t)}]
      BY <2>1, <3>4 DEF SumsUp
    <3>6. h[t] = g[t]
      BY <3>4, <3>5
    <3> QED BY <3>6 DEF t
  <2>3. SumsUp(h, v, Sub(n + 1))
    BY <2>2 DEF SumsUp
  <2>4. n + 1 \in Nat
    OBVIOUS
  <2> HIDE DEF h, Sub
  <2> QED BY <2>3, <2>4
<1>4. G = Nat
  <2>1. G \in SUBSET Nat
    OBVIOUS
  <2> HIDE DEF G
  <2> QED BY <1>2, <1>3, <2>1, Naturals_Induct
<1>5. Cardinality(S) \in Nat
  BY FS_CardinalityType
<1>6. Sub(Cardinality(S)) = SUBSET S
  BY <1>1
<1>7. \E g : SumsUp(g, v, Sub(Cardinality(S)))
  BY <1>4, <1>5
<1> QED BY <1>6, <1>7

(* One element and the others. *)
Unfolds(g, v, s) ==
  /\ s = {} => g[s] = 0
  /\ s # {} => Some(s) \in s /\ g[s] = v[Some(s)] + g[s \ {Some(s)}]

LEMMA SumUnfolds ==
  ASSUME NEW S, NEW v, NEW g, SumsUp(g, v, SUBSET S)
  PROVE  \A s \in SUBSET S : Unfolds(g, v, s)
<1> SUFFICES ASSUME NEW s \in SUBSET S PROVE Unfolds(g, v, s)
  OBVIOUS
<1>1. g[s] = IF s = {} THEN 0 ELSE v[Some(s)] + g[s \ {Some(s)}]
  BY DEF SumsUp
<1>2. s # {} => Some(s) \in s
  BY DEF Some
<1> QED BY <1>1, <1>2 DEF Unfolds

(* Sums over the subsets of T do not depend on what else there is. *)
SameOn(v, w, T) == \A x \in T : v[x] = w[x]

LEMMA SumsAgree ==
  ASSUME NEW S, NEW v, NEW g, SumsUp(g, v, SUBSET S),
         NEW T \in SUBSET S, IsFiniteSet(T), NEW w, NEW h, SumsUp(h, w, SUBSET T),
         SameOn(v, w, T)
  PROVE  SameOn(g, h, SUBSET T)
<1> DEFINE G == {s \in SUBSET T : g[s] = h[s]}
<1>u. /\ \A s \in SUBSET S : Unfolds(g, v, s)
      /\ \A s \in SUBSET T : Unfolds(h, w, s)
  BY SumUnfolds, Zenon
<1>1. ASSUME NEW s \in SUBSET T, \A x \in s : s \ {x} \in G PROVE s \in G
  <2>1. CASE s = {}
    BY <1>u, <2>1 DEF Unfolds
  <2>2. CASE s # {}
    <3>1. /\ Some(s) \in s /\ g[s] = v[Some(s)] + g[s \ {Some(s)}]
          /\ h[s] = w[Some(s)] + h[s \ {Some(s)}]
      BY <1>u, <2>2 DEF Unfolds
    <3> QED BY <1>1, <3>1 DEF SameOn
  <2> QED BY <2>1, <2>2
<1>2. G = SUBSET T
  <2>1. G \in SUBSET (SUBSET T)
    OBVIOUS
  <2> HIDE DEF G
  <2> QED BY <1>1, <2>1, SubsetInduction
<1> QED BY <1>2 DEF SameOn

(* The sums of naturals: a natural number, that no choice of the next      *)
(* element changes, and that adds up over the parts of a set.              *)
Sums(g, v, S) ==
  /\ IsFiniteSet(S) /\ SumsUp(g, v, SUBSET S) /\ \A x \in S : v[x] \in Nat

LEMMA SumsNat ==
  ASSUME NEW S, NEW v, NEW g, Sums(g, v, S)
  PROVE  \A s \in SUBSET S : g[s] \in Nat
<1> DEFINE G == {s \in SUBSET S : g[s] \in Nat}
<1>0. IsFiniteSet(S) /\ SumsUp(g, v, SUBSET S) /\ \A x \in S : v[x] \in Nat
  BY DEF Sums
<1>u. \A s \in SUBSET S : Unfolds(g, v, s)
  BY <1>0, SumUnfolds, Zenon
<1>1. ASSUME NEW s \in SUBSET S, \A x \in s : s \ {x} \in G PROVE s \in G
  <2>1. CASE s = {}
    <3>1. g[s] = 0
      BY <1>u, <2>1 DEF Unfolds
    <3> QED BY <3>1
  <2>2. CASE s # {}
    <3>1. Some(s) \in s /\ g[s] = v[Some(s)] + g[s \ {Some(s)}]
      BY <1>u, <2>2 DEF Unfolds
    <3>2. v[Some(s)] \in Nat /\ g[s \ {Some(s)}] \in Nat
      BY <1>0, <1>1, <3>1
    <3> QED BY <3>1, <3>2
  <2> QED BY <2>1, <2>2
<1>2. G = SUBSET S
  <2>1. G \in SUBSET (SUBSET S)
    OBVIOUS
  <2> HIDE DEF G
  <2> QED BY <1>0, <1>1, <2>1, SubsetInduction
<1> QED BY <1>2

LEMMA SumsAnyFirst ==
  ASSUME NEW S, NEW v, NEW g, Sums(g, v, S)
  PROVE  \A s \in SUBSET S : \A x \in s : g[s] = v[x] + g[s \ {x}]
<1> DEFINE G == {s \in SUBSET S : \A x \in s : g[s] = v[x] + g[s \ {x}]}
<1>0. IsFiniteSet(S) /\ SumsUp(g, v, SUBSET S) /\ \A x \in S : v[x] \in Nat
  BY DEF Sums
<1>u. \A s \in SUBSET S : Unfolds(g, v, s)
  BY <1>0, SumUnfolds, Zenon
<1>1. ASSUME NEW s \in SUBSET S, \A x \in s : s \ {x} \in G PROVE s \in G
  <2> SUFFICES ASSUME NEW x \in s PROVE g[s] = v[x] + g[s \ {x}]
    OBVIOUS
  <2>1. PICK y \in s : g[s] = v[y] + g[s \ {y}]
    BY <1>u DEF Unfolds
  <2>2. CASE x # y
    <3> DEFINE u == (s \ {y}) \ {x}
    <3>1. (s \ {x}) \ {y} = u /\ x \in s \ {y} /\ y \in s \ {x} /\ u \in SUBSET S
      BY <2>2
    <3>2. g[s \ {y}] = v[x] + g[u] /\ g[s \ {x}] = v[y] + g[u]
      BY <1>1, <3>1
    <3>3. v[x] \in Nat /\ v[y] \in Nat /\ g[u] \in Nat
      BY <1>0, <3>1, SumsNat
    <3> HIDE DEF u
    <3> QED BY <2>1, <3>2, <3>3
  <2> QED BY <2>1, <2>2
<1>2. G = SUBSET S
  <2>1. G \in SUBSET (SUBSET S)
    OBVIOUS
  <2> HIDE DEF G
  <2> QED BY <1>0, <1>1, <2>1, SubsetInduction
<1> QED BY <1>2

AddsUp(g, S) == \A t, s \in SUBSET S : t \subseteq s => g[s] = g[t] + g[s \ t]

LEMMA SumsAdd ==
  ASSUME NEW S, NEW v, NEW g, Sums(g, v, S)
  PROVE  AddsUp(g, S)
<1> DEFINE G == {t \in SUBSET S : \A s \in SUBSET S : t \subseteq s => g[s] = g[t] + g[s \ t]}
<1>0. IsFiniteSet(S) /\ SumsUp(g, v, SUBSET S) /\ \A x \in S : v[x] \in Nat
  BY DEF Sums
<1>u. \A s \in SUBSET S : Unfolds(g, v, s)
  BY <1>0, SumUnfolds, Zenon
<1>1. ASSUME NEW t \in SUBSET S, \A x \in t : t \ {x} \in G PROVE t \in G
  <2> SUFFICES ASSUME NEW s \in SUBSET S, t \subseteq s PROVE g[s] = g[t] + g[s \ t]
    OBVIOUS
  <2>1. CASE t = {}
    <3>1. g[t] = 0 /\ s \ t = s /\ g[s] \in Nat
      BY <1>u, <2>1, SumsNat DEF Unfolds
    <3> QED BY <3>1
  <2>2. CASE t # {}
    <3>1. PICK x \in t : TRUE
      BY <2>2
    <3> DEFINE r == t \ {x}
               u == s \ r
    <3>2. r \in SUBSET S /\ u \in SUBSET S /\ x \in u /\ u \ {x} = s \ t /\ r \subseteq s /\ r \in G
      BY <1>1
    <3>3. g[s] = g[r] + g[u]
      BY <3>2
    <3>4. g[u] = v[x] + g[s \ t] /\ g[t] = v[x] + g[r]
      BY <3>2, SumsAnyFirst
    <3>5. v[x] \in Nat /\ g[s \ t] \in Nat /\ g[r] \in Nat
      BY <1>0, <3>2, SumsNat
    <3> HIDE DEF r, u
    <3> QED BY <3>3, <3>4, <3>5
  <2> QED BY <2>1, <2>2
<1>2. G = SUBSET S
  <2>1. G \in SUBSET (SUBSET S)
    OBVIOUS
  <2> HIDE DEF G
  <2> QED BY <1>0, <1>1, <2>1, SubsetInduction
<1> QED BY <1>2 DEF AddsUp

LEMMA SumsMonotone ==
  ASSUME NEW S, NEW v, NEW g, Sums(g, v, S), NEW w, NEW h, Sums(h, w, S),
         \A x \in S : v[x] <= w[x]
  PROVE  \A s \in SUBSET S : g[s] <= h[s]
<1> DEFINE G == {s \in SUBSET S : g[s] <= h[s]}
<1>0. /\ IsFiniteSet(S) /\ SumsUp(g, v, SUBSET S) /\ \A x \in S : v[x] \in Nat
      /\ SumsUp(h, w, SUBSET S) /\ \A x \in S : w[x] \in Nat
  BY DEF Sums
<1>u. \A s \in SUBSET S : Unfolds(g, v, s) /\ Unfolds(h, w, s)
  <2>1. \A s \in SUBSET S : Unfolds(g, v, s)
    BY <1>0, SumUnfolds, Zenon
  <2>2. \A s \in SUBSET S : Unfolds(h, w, s)
    BY <1>0, SumUnfolds, Zenon
  <2> QED BY <2>1, <2>2
<1>1. ASSUME NEW s \in SUBSET S, \A x \in s : s \ {x} \in G PROVE s \in G
  <2>1. CASE s = {}
    <3>1. g[s] = 0 /\ h[s] = 0
      BY <1>u, <2>1 DEF Unfolds
    <3> QED BY <3>1
  <2>2. CASE s # {}
    <3> DEFINE x == Some(s)
               u == s \ {x}
    <3>1. x \in s /\ g[s] = v[x] + g[u] /\ h[s] = w[x] + h[u]
      BY <1>u, <2>2 DEF Unfolds
    <3>2. v[x] \in Nat /\ w[x] \in Nat /\ v[x] <= w[x] /\ g[u] <= h[u]
      BY <1>0, <1>1, <3>1
    <3>3. g[u] \in Nat /\ h[u] \in Nat
      BY SumsNat
    <3> HIDE DEF x, u
    <3>4. g[s] <= h[s]
      BY <3>1, <3>2, <3>3
    <3> QED BY <3>4
  <2> QED BY <2>1, <2>2
<1>2. G = SUBSET S
  <2>1. G \in SUBSET (SUBSET S)
    OBVIOUS
  <2> HIDE DEF G
  <2> QED BY <1>0, <1>1, <2>1, SubsetInduction
<1> QED BY <1>2

(***************************************************************************)
(* The bytes of the chunks                                                 *)
(***************************************************************************)

Sizes(m, d, C) == [n \in C |-> Len(d[m[n]])]

(* Bytes is the sum of the sizes, over any set of chunks. *)
LEMMA BytesAreSums ==
  ASSUME NEW C, IsFiniteSet(C), NEW m, NEW d, NEW g,
         SumsUp(g, Sizes(m, d, C), SUBSET C), NEW N \in SUBSET C
  PROVE  Bytes(m, d, N) = g[N]
<1> DEFINE v == Sizes(m, d, N)
           It(i) == i = [s \in SUBSET N |->
                           IF s = {} THEN 0
                           ELSE Len(d[m[CHOOSE x \in s : TRUE]]) + i[s \ {CHOOSE x \in s : TRUE}]]
           h == CHOOSE i : It(i)
<1>1. IsFiniteSet(N)
  BY FS_Subset
<1>2. ASSUME NEW i PROVE It(i) <=> SumsUp(i, v, SUBSET N)
  <2>1. ASSUME NEW s \in SUBSET N, s # {}
        PROVE  v[CHOOSE x \in s : TRUE] = Len(d[m[CHOOSE x \in s : TRUE]])
    <3>1. (CHOOSE x \in s : TRUE) \in N
      BY <2>1
    <3> QED BY <3>1 DEF Sizes
  <2> QED BY <2>1 DEF SumsUp, Some
<1>3. \E i : SumsUp(i, v, SUBSET N)
  BY <1>1, SumsExist
<1>5. It(h)
  <2> HIDE DEF It, v
  <2>1. \E i : It(i)
    BY <1>2, <1>3
  <2> QED BY <2>1
<1>6. Bytes(m, d, N) = h[N]
  BY DEF Bytes, MapThenSumSet, MapThenFoldSet
<1>7. SumsUp(h, v, SUBSET N)
  BY <1>2, <1>5
<1>8. SameOn(Sizes(m, d, C), v, N)
  BY DEF Sizes, SameOn
<1> HIDE DEF h, v, It
<1>9. SameOn(g, h, SUBSET N)
  BY <1>1, <1>7, <1>8, SumsAgree
<1> QED BY <1>6, <1>9 DEF SameOn

(* What is used of the sums: they are naturals that add up.  *)
BytesAddUp(m, d, C) ==
  /\ \A s \in SUBSET C : Bytes(m, d, s) \in Nat
  /\ \A t, s \in SUBSET C :
       t \subseteq s => Bytes(m, d, s) = Bytes(m, d, t) + Bytes(m, d, s \ t)

Sized(m, d, C) == IsFiniteSet(C) /\ \A n \in C : Len(d[m[n]]) \in Nat

LEMMA SizedSums ==
  ASSUME NEW m, NEW d, NEW C, Sized(m, d, C)
  PROVE  \E g : /\ Sums(g, Sizes(m, d, C), C)
                /\ \A s \in SUBSET C : Bytes(m, d, s) = g[s]
<1>1. IsFiniteSet(C) /\ \A n \in C : Sizes(m, d, C)[n] \in Nat
  BY DEF Sized, Sizes
<1>2. PICK g : SumsUp(g, Sizes(m, d, C), SUBSET C)
  BY <1>1, SumsExist
<1>3. \A s \in SUBSET C : Bytes(m, d, s) = g[s]
  BY <1>1, <1>2, BytesAreSums
<1>4. Sums(g, Sizes(m, d, C), C)
  BY <1>1, <1>2 DEF Sums
<1> QED BY <1>3, <1>4

LEMMA BytesAdd ==
  ASSUME NEW m, NEW d, NEW C, Sized(m, d, C)
  PROVE  BytesAddUp(m, d, C)
<1>1. PICK g : /\ Sums(g, Sizes(m, d, C), C)
               /\ \A s \in SUBSET C : Bytes(m, d, s) = g[s]
  BY SizedSums
<1>2. \A s \in SUBSET C : g[s] \in Nat
  BY <1>1, SumsNat
<1>3. AddsUp(g, C)
  BY <1>1, SumsAdd
<1> QED BY <1>1, <1>2, <1>3 DEF BytesAddUp, AddsUp

LEMMA BytesGrow ==
  ASSUME NEW m, NEW d, NEW r, NEW e, NEW C, Sized(m, d, C), Sized(r, e, C),
         \A n \in C : Len(d[m[n]]) <= Len(e[r[n]])
  PROVE  Bytes(m, d, C) <= Bytes(r, e, C)
<1>1. PICK g : Sums(g, Sizes(m, d, C), C) /\ \A s \in SUBSET C : Bytes(m, d, s) = g[s]
  BY SizedSums
<1>2. PICK h : Sums(h, Sizes(r, e, C), C) /\ \A s \in SUBSET C : Bytes(r, e, s) = h[s]
  BY SizedSums
<1>3. \A n \in C : Sizes(m, d, C)[n] <= Sizes(r, e, C)[n]
  BY DEF Sizes
<1>4. \A s \in SUBSET C : g[s] <= h[s]
  BY <1>1, <1>2, <1>3, SumsMonotone
<1> QED BY <1>1, <1>2, <1>4

(***************************************************************************)
(* The cap                                                                 *)
(***************************************************************************)

(* The complete chunks of a directory: finitely many, one for each second. *)
ChunksOK(m, d) ==
  /\ Sized(m, d, CompleteChunks(m))
  /\ \A n \in CompleteChunks(m) : n = Complete(n[2]) /\ n[2] \in Nat

Older(C, n) == {o \in C : o[2] < n[2]}

LEMMA EvictableWhen ==
  ASSUME NEW m, NEW d, NEW C, C = CompleteChunks(m), NEW n \in C
  PROVE  n \in Evictable(m, d)
           <=> Bytes(m, d, Older(C, n)) + MaxTotal < Bytes(m, d, C)
  BY DEF Evictable, Older

(* No chunk is kept that is older than one that goes. *)
LEMMA OldestGo ==
  ASSUME NEW m, NEW d, ChunksOK(m, d), NEW n \in Evictable(m, d),
         NEW o \in CompleteChunks(m), o \notin Evictable(m, d)
  PROVE  n[2] < o[2]
<1> DEFINE C == CompleteChunks(m)
           On == Older(C, n)
           Oo == Older(C, o)
<1>1. n \in C /\ n[2] \in Nat /\ o[2] \in Nat
  BY DEF Evictable, ChunksOK
<1>2. BytesAddUp(m, d, C)
  BY BytesAdd DEF ChunksOK
<1>3. /\ Bytes(m, d, On) + MaxTotal < Bytes(m, d, C)
      /\ ~(Bytes(m, d, Oo) + MaxTotal < Bytes(m, d, C))
  BY <1>1, EvictableWhen, Zenon
<1>4. SUFFICES ASSUME o[2] <= n[2] PROVE FALSE
  BY <1>1
<1>5. Oo \subseteq On
  BY <1>1, <1>4 DEF Older, ChunksOK
<1>6. On \in SUBSET C /\ Oo \in SUBSET C /\ On \ Oo \in SUBSET C /\ C \in SUBSET C
  BY DEF Older
<1> HIDE DEF C, On, Oo
<1>7. /\ Bytes(m, d, On) = Bytes(m, d, Oo) + Bytes(m, d, On \ Oo)
      /\ Bytes(m, d, On) \in Nat /\ Bytes(m, d, Oo) \in Nat
      /\ Bytes(m, d, On \ Oo) \in Nat /\ Bytes(m, d, C) \in Nat
  BY <1>2, <1>5, <1>6 DEF BytesAddUp
<1>8. MaxTotal \in Nat
  BY SpoolAssumption
<1> QED BY <1>3, <1>7, <1>8

(* Among chunks there is an oldest. *)
LEMMA OldestExists ==
  ASSUME NEW C, C # {}, \A n \in C : n[2] \in Nat
  PROVE  \E o \in C : \A n \in C : o[2] <= n[2]
<1> DEFINE T == {n[2] : n \in C}
           Less == OpToRel(<, Nat)
<1>1. IsWellFoundedOn(Less, Nat)
  BY NatLessThanWellFounded
<1>2. \A x, y \in Nat : x < y => <<x, y>> \in Less
  BY DEF OpToRel
<1>3. T \subseteq Nat /\ T # {}
  OBVIOUS
<1>4. PICK t \in T : \A y \in T : ~(<<y, t>> \in Less)
  <2> HIDE DEF T, Less
  <2> QED BY <1>1, <1>3, WFMin
<1>5. \A y \in T : t <= y
  <2> HIDE DEF T, Less
  <2> SUFFICES ASSUME NEW y \in T PROVE t <= y
    OBVIOUS
  <2>1. t \in Nat /\ y \in Nat /\ ~(y < t)
    BY <1>2, <1>3, <1>4, Zenon
  <2> QED BY <2>1
<1> QED BY <1>5

LEMMA DoubledIsZero ==
  ASSUME NEW b \in Nat, b = b + b
  PROVE  b = 0
  OBVIOUS

(* What stays is within the cap: it is no more than all that is not older  *)
(* than the oldest chunk that stays.                                       *)
LEMMA RestWithinCap ==
  ASSUME NEW m, NEW d, ChunksOK(m, d), NEW R, R = CompleteChunks(m) \ Evictable(m, d)
  PROVE  Bytes(m, d, R) <= MaxTotal
<1> DEFINE C == CompleteChunks(m)
<1>1. BytesAddUp(m, d, C) /\ MaxTotal \in Nat
  BY BytesAdd, SpoolAssumption DEF ChunksOK
<1>2. R \in SUBSET C /\ \A n \in C : n[2] \in Nat
  BY DEF ChunksOK
<1>3. CASE R = {}
  <2>1. {} \in SUBSET C /\ {} \ {} = {}
    OBVIOUS
  <2> HIDE DEF C
  <2>2. Bytes(m, d, {}) \in Nat /\ Bytes(m, d, {}) = Bytes(m, d, {}) + Bytes(m, d, {})
    BY <1>1, <2>1 DEF BytesAddUp
  <2>3. Bytes(m, d, {}) = 0
    <3> DEFINE b == Bytes(m, d, {})
    <3>1. b \in Nat /\ b = b + b
      BY <2>2
    <3> HIDE DEF b
    <3>2. b = 0
      BY <3>1, DoubledIsZero
    <3> QED BY <3>2 DEF b
  <2>4. Bytes(m, d, R) = 0
    BY <1>3, <2>3
  <2> QED BY <1>1, <2>4
<1>4. CASE R # {}
  <2>1. PICK o \in R : \A n \in R : o[2] <= n[2]
    BY <1>2, <1>4, OldestExists
  <2> DEFINE O == Older(C, o)
             Q == C \ O
  <2>2. ~(Bytes(m, d, O) + MaxTotal < Bytes(m, d, C))
    BY EvictableWhen, Zenon
  <2>3. /\ O \in SUBSET C /\ Q \in SUBSET C /\ R \subseteq Q /\ Q \ R \in SUBSET C
        /\ C \in SUBSET C /\ O \subseteq C
    BY <1>2, <2>1 DEF Older
  <2> HIDE DEF C, O
  <2>4. /\ Bytes(m, d, C) = Bytes(m, d, O) + Bytes(m, d, Q)
        /\ Bytes(m, d, Q) = Bytes(m, d, R) + Bytes(m, d, Q \ R)
        /\ Bytes(m, d, O) \in Nat /\ Bytes(m, d, R) \in Nat /\ Bytes(m, d, Q \ R) \in Nat
    <3>1. Bytes(m, d, C) = Bytes(m, d, O) + Bytes(m, d, Q)
      BY <1>1, <2>3 DEF BytesAddUp
    <3> HIDE DEF Q
    <3> QED BY <1>1, <1>2, <2>3, <3>1 DEF BytesAddUp
  <2> HIDE DEF Q
  <2> QED BY <1>1, <2>2, <2>4
<1> QED BY <1>3, <1>4

LEMMA NamesFinite ==
  ASSUME NEW m, NEW d, NEW f, NEW c, NamesOK(m, d, f, c),
         NEW b, NEW w, DiskOK(d, f, b, w)
  PROVE  ChunksOK(m, d)
<1> DEFINE A == {"part", "complete"}
<1>1. IsFiniteSet(0 .. MaxSecs) /\ IsFiniteSet(A)
  <2>1. IsFiniteSet({}) /\ IsFiniteSet({} \cup {"part"})
    BY FS_EmptySet, FS_AddElement
  <2>2. IsFiniteSet(({} \cup {"part"}) \cup {"complete"})
    BY <2>1, FS_AddElement
  <2>3. ({} \cup {"part"}) \cup {"complete"} = A
    OBVIOUS
  <2>4. 0 \in Int /\ MaxSecs \in Int
    BY SpoolAssumption
  <2> QED BY <2>2, <2>3, <2>4, FS_Interval
<1>2. IsFiniteSet(A \X (0 .. MaxSecs))
  <2> HIDE DEF A
  <2> QED BY <1>1, FS_Product
<1>3. CompleteChunks(m) \subseteq A \X (0 .. MaxSecs)
  BY DEF CompleteChunks, NamesOK
<1>4. IsFiniteSet(CompleteChunks(m))
  BY <1>2, <1>3, FS_Subset
<1>5. \A n \in CompleteChunks(m) : Len(d[m[n]]) \in Nat
  <2> SUFFICES ASSUME NEW n \in CompleteChunks(m) PROVE Len(d[m[n]]) \in Nat
    OBVIOUS
  <2>1. d[m[n]] \in Seq(Lines)
    BY DEF CompleteChunks, NamesOK, DiskOK
  <2> QED BY <2>1, LenProperties
<1>6. \A n \in CompleteChunks(m) : n = Complete(n[2]) /\ n[2] \in Nat
  BY DEF CompleteChunks, NamesOK, Complete
<1> QED BY <1>4, <1>5, <1>6 DEF ChunksOK, Sized

(* The directory at the time of the evictions. *)
LEMMA BeforeEvictions ==
  ASSUME OrderInv, FillsChunk, NEW r, r = Renamed(names, cur)
  PROVE  /\ ChunksOK(r, FilledData) /\ NamesOK(r, FilledData, fd, cur)
         /\ DiskOK(FilledData, fd, <<>>, written + 1)
         /\ CompleteChunks(names) \subseteq CompleteChunks(r)
<1>1. r = Without(r, {})
  BY DEF Renamed, With, Without, Restrict
<1>2. DiskOK(FilledData, fd, <<>>, written + 1) /\ NamesOK(r, FilledData, fd, cur)
  BY <1>1, RotatedOK
<1>3. ChunksOK(r, FilledData)
  BY <1>2, NamesFinite
<1>4. CompleteChunks(names) \subseteq CompleteChunks(r)
  BY DEF CompleteChunks, Renamed, With, Without, Restrict, Part
<1> QED BY <1>2, <1>3, <1>4

(* The new part file changes no complete chunk but by truncating it. *)
LEMMA CreatesShrinks ==
  ASSUME NEW m, NEW d, NEW f, NEW c, NEW b, NEW w, NamesOK(m, d, f, c), DiskOK(d, f, b, w),
         NEW t, Creates(m, d, t)
  PROVE  /\ CompleteChunks(names') = CompleteChunks(m)
         /\ \A n \in CompleteChunks(m) :
              /\ names'[n] = m[n] /\ Len(data'[names'[n]]) \in Nat
              /\ Len(data'[names'[n]]) <= Len(d[m[n]])
<1>1. \A n \in CompleteChunks(m) : n # Part(t) /\ n \in DOMAIN m
  BY DEF CompleteChunks, Part
<1>2. \A n \in DOMAIN m : m[n] \in DOMAIN d
  BY DEF NamesOK
<1>3. \A i \in DOMAIN d : Len(d[i]) \in Nat
  <2> SUFFICES ASSUME NEW i \in DOMAIN d PROVE Len(d[i]) \in Nat
    OBVIOUS
  <2>1. d[i] \in Seq(Lines)
    BY DEF DiskOK
  <2> QED BY <2>1, LenProperties
<1>4. d \in Seq(Seq(Lines)) /\ Len(<<>>) = 0 /\ <<>> \in Seq(Lines)
  BY DEF DiskOK
<1>5. CASE Part(t) \in DOMAIN m
  <2>1. names' = m /\ data' = [d EXCEPT ![m[Part(t)]] = <<>>]
    BY <1>5 DEF Creates
  <2>2. \A i \in DOMAIN d : data'[i] = d[i] \/ data'[i] = <<>>
    BY <2>1
  <2> QED BY <1>1, <1>2, <1>3, <1>4, <2>1, <2>2
<1>6. CASE Part(t) \notin DOMAIN m
  <2> DEFINE p == Len(d) + 1
  <2>1. names' = With(m, Part(t), p) /\ data' = Append(d, <<>>)
    BY <1>6 DEF Creates
  <2>2. \A i \in DOMAIN d : data'[i] = d[i]
    BY <1>4, <2>1
  <2>3. DOMAIN names' = DOMAIN m \cup {Part(t)} /\ \A n \in DOMAIN m : names'[n] = m[n]
    BY <1>6, <2>1 DEF With
  <2>4. CompleteChunks(names') = CompleteChunks(m)
    BY <2>3 DEF CompleteChunks, Part
  <2> QED BY <1>1, <1>2, <1>3, <2>2, <2>3, <2>4
<1> QED BY <1>5, <1>6

LEMMA RotationWithinCap ==
  ASSUME OrderInv, WriteAndRotate
  PROVE  Bytes(names', data', CompleteChunks(names')) <= MaxTotal
<1> DEFINE F == FilledData
           r == Renamed(names, cur)
           K == Evictable(r, F)
           m == Without(r, K)
           R == CompleteChunks(r) \ K
<1>1. FillsChunk /\ Creates(m, F, now)
  BY DEF WriteAndRotate
<1>2. ChunksOK(r, F) /\ DiskOK(F, fd, <<>>, written + 1) /\ NamesOK(r, F, fd, cur)
  BY <1>1, BeforeEvictions
<1>3. NamesOK(m, F, fd, cur)
  <2> HIDE DEF K
  <2> QED BY <1>1, RotatedOK
<1>r. R = CompleteChunks(r) \ Evictable(r, F) /\ m = Without(r, K)
  OBVIOUS
<1> HIDE DEF F, r, K, m
<1>4. CompleteChunks(m) = R /\ \A n \in R : m[n] = r[n]
  BY <1>r DEF CompleteChunks, Without, Restrict
<1>5. /\ CompleteChunks(names') = CompleteChunks(m)
      /\ \A n \in CompleteChunks(m) :
           /\ names'[n] = m[n] /\ Len(data'[names'[n]]) \in Nat
           /\ Len(data'[names'[n]]) <= Len(F[m[n]])
  BY <1>1, <1>2, <1>3, CreatesShrinks
<1>6. Bytes(r, F, R) <= MaxTotal
  BY <1>2, <1>r, RestWithinCap
<1>7. Sized(r, F, R)
  BY <1>2, FS_Subset DEF ChunksOK, Sized
<1>8. Sized(names', data', R) /\ \A n \in R : Len(data'[names'[n]]) <= Len(F[r[n]])
  BY <1>4, <1>5, <1>7 DEF Sized
<1> HIDE DEF R
<1>9. Bytes(names', data', R) <= Bytes(r, F, R)
  BY <1>7, <1>8, BytesGrow
<1>10. Bytes(names', data', R) \in Nat /\ Bytes(r, F, R) \in Nat /\ MaxTotal \in Nat
  <2>1. BytesAddUp(names', data', R) /\ BytesAddUp(r, F, R)
    BY <1>7, <1>8, BytesAdd
  <2> QED BY <2>1, SpoolAssumption DEF BytesAddUp
<1>11. CompleteChunks(names') = R
  BY <1>4, <1>5
<1> QED BY <1>6, <1>9, <1>10, <1>11

(* E goes, of the chunks that may, in the order of their age. *)
LEMMA EvictionOrder ==
  ASSUME OrderInv, FillsChunk, NEW r, r = Renamed(names, cur),
         NEW E \in SUBSET Evictable(r, FilledData),
         \A n \in E : \A o \in Evictable(r, FilledData) : o[2] < n[2] => o \in E,
         CompleteChunks(names') = CompleteChunks(r) \ E,
         NEW n \in CompleteChunks(names), n \notin DOMAIN names',
         NEW o \in CompleteChunks(names), o \in DOMAIN names'
  PROVE  n[2] < o[2]
<1> DEFINE F == FilledData
<1>1. ChunksOK(r, F) /\ CompleteChunks(names) \subseteq CompleteChunks(r)
  BY BeforeEvictions
<1>2. /\ n[2] \in Nat /\ o[2] \in Nat /\ n = Complete(n[2]) /\ o = Complete(o[2])
      /\ n \in CompleteChunks(r) /\ o \in CompleteChunks(r)
  BY <1>1 DEF ChunksOK
<1>3. n \in E /\ o \notin E
  BY <1>2 DEF CompleteChunks
<1>4. CASE o \in Evictable(r, F)
  <2>1. ~(o[2] < n[2]) /\ n[2] # o[2]
    BY <1>2, <1>3, <1>4
  <2> QED BY <1>2, <2>1
<1>5. CASE o \notin Evictable(r, F)
  BY <1>1, <1>2, <1>3, <1>5, OldestGo
<1> QED BY <1>4, <1>5

OldestFirst ==
  \A n \in CompleteChunks(names) \ DOMAIN names' :
    \A o \in CompleteChunks(names) \cap DOMAIN names' : n[2] < o[2]

LEMMA StepOldestFirst ==
  ASSUME OrderInv, [Next]_vars
  PROVE  OldestFirst
<1> DEFINE F == FilledData
           r == Renamed(names, cur)
<1>1. CASE WriteAndRotate
  <2> DEFINE K == Evictable(r, F)
             m == Without(r, K)
  <2>1. FillsChunk /\ Creates(m, F, now)
    BY <1>1 DEF WriteAndRotate
  <2>2. DiskOK(F, fd, <<>>, written + 1)
    BY <2>1, BeforeEvictions
  <2>3. NamesOK(m, F, fd, cur)
    <3> HIDE DEF K
    <3> QED BY <2>1, RotatedOK
  <2>4. CompleteChunks(m) = CompleteChunks(r) \ K
    <3> HIDE DEF K, r
    <3> QED BY DEF CompleteChunks, Without, Restrict
  <2>5. CompleteChunks(names') = CompleteChunks(m)
    <3> HIDE DEF m, F
    <3> QED BY <2>1, <2>2, <2>3, CreatesShrinks
  <2>6. /\ K \in SUBSET Evictable(r, F)
        /\ \A n \in K : \A o \in Evictable(r, F) : o[2] < n[2] => o \in K
    OBVIOUS
  <2>7. CompleteChunks(names') = CompleteChunks(r) \ K /\ r = Renamed(names, cur)
    BY <2>4, <2>5
  <2> HIDE DEF K, m, r, F
  <2> QED BY <2>1, <2>6, <2>7, EvictionOrder DEF OldestFirst, F
<1>2. CASE RotateStopsAfterRename
  <2>1. PICK E \in SUBSET Evictable(r, F) :
          /\ \A n \in E : \A o \in Evictable(r, F) : o[2] < n[2] => o \in E
          /\ names' = Without(r, E)
    BY <1>2 DEF RotateStopsAfterRename
  <2>2. FillsChunk /\ r = Renamed(names, cur)
    BY <1>2 DEF RotateStopsAfterRename
  <2> HIDE DEF r, F
  <2>3. CompleteChunks(names') = CompleteChunks(r) \ E
    BY <2>1 DEF CompleteChunks, Without, Restrict
  <2> QED BY <2>1, <2>2, <2>3, EvictionOrder DEF OldestFirst, F
<1>3. CASE Finalize
  BY <1>3 DEF Finalize, OldestFirst, CompleteChunks, Renamed, With, Without, Restrict, Part
<1>4. CASE Restart
  BY <1>4 DEF Restart, Creates, OldestFirst, CompleteChunks, With
<1>5. CASE names' = names
  BY <1>5 DEF OldestFirst, CompleteChunks
<1>6. ASSUME ~WriteAndRotate, ~RotateStopsAfterRename, ~Finalize, ~Restart
      PROVE  names' = names
  BY <1>6 DEF Next, vars, WriteLine, RotateRenameFails, RotateFlushFails, WriteFails,
     FlushFails, PollFlush, FinalizeFails, Crash, Tick, SetBack
<1> QED BY <1>1, <1>2, <1>3, <1>4, <1>5, <1>6

(* A rotation that runs to its end leaves no more complete chunks than the *)
(* cap allows, for any directory an earlier process left, any sizes of the *)
(* chunks and any cap: what enforce_cap keeps is at most what is not older *)
(* than the oldest chunk it keeps.                                         *)
THEOREM CapHoldsAfterRotation == Spec => CapAfterRotation
<1>1. OrderInv /\ [Next]_vars
        => [WriteAndRotate =>
              Bytes(names', data', CompleteChunks(names')) <= MaxTotal]_vars
  BY RotationWithinCap
<1> QED BY InitOrderInv, NextOrderInv, <1>1, PTL DEF Spec, CapAfterRotation

(* No step removes a complete chunk and keeps one with an older name, also *)
(* when a removal fails half way.                                          *)
THEOREM OldestEvictedFirst == Spec => EvictsOldestFirst
<1>1. OrderInv /\ [Next]_vars
        => [\A n \in CompleteChunks(names) \ DOMAIN names' :
              \A o \in CompleteChunks(names) \cap DOMAIN names' : n[2] < o[2]]_vars
  BY StepOldestFirst DEF OldestFirst
<1> QED BY InitOrderInv, NextOrderInv, <1>1, PTL DEF Spec, EvictsOldestFirst

=============================================================================
