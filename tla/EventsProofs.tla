---------------------------- MODULE EventsProofs ----------------------------
(* Theorems about the parser and the record walk, for every set of packets *)
(* whose payloads are bytes, cut anywhere: what is read, what becomes of   *)
(* the flight of a server, what of a hello that is cut short, and what is  *)
(* fingerprinted.                                                          *)
EXTENDS Events, SequenceTheorems, WellFoundedInduction, TLAPS

Bytes == 0 .. 255

(* The positions are natural numbers, and nothing was read, nor is the     *)
(* extension block taken to end, beyond the payload.                       *)
BoundsInv ==
  /\ payload \in Seq(Bytes)
  /\ offset \in Nat /\ ext_start \in Nat /\ ext_end \in Nat /\ reach \in Nat
  /\ InBounds

(* What BoundsInv is about. *)
bounds_vars == <<capture, offset, ext_start, ext_end, reach>>

(* A byte of a sequence of bytes is a number, also where there is none. *)
LEMMA ByteOfSeq ==
  ASSUME NEW s \in Seq(Bytes), NEW i \in Nat
  PROVE  (IF i < Len(s) THEN s[i + 1] ELSE 0) \in Nat
<1>1. CASE i < Len(s)
  <2>1. Len(s) \in Nat /\ i + 1 \in 1 .. Len(s)
    BY <1>1
  <2>2. s[i + 1] \in Bytes
    BY <2>1, ElementOfSeq
  <2>3. \A b \in Bytes : b \in Nat
    BY DEF Bytes
  <2> QED
    BY <1>1, <2>2, <2>3
<1> QED
  BY <1>1

LEMMA ByteType ==
  ASSUME payload \in Seq(Bytes)
  PROVE  \A i \in Nat : (IF i < Len(payload) THEN payload[i + 1] ELSE 0) \in Nat
  BY ByteOfSeq

LEMMA InitBoundsInv == Init => BoundsInv
<1> SUFFICES ASSUME Init PROVE BoundsInv
  OBVIOUS
<1>0. PICK c \in Packets : \E n \in MinPayload .. Len(c.payload) :
        capture = [c EXCEPT !.payload = SubSeq(@, 1, n)]
  BY DEF Init, ParserInit
<1>1. PICK n \in MinPayload .. Len(c.payload) :
        capture = [c EXCEPT !.payload = SubSeq(@, 1, n)]
  BY <1>0
<1>2. c.payload \in Seq(Bytes)
  BY ParserAssumption DEF Bytes
<1>3. SubSeq(c.payload, 1, n) \in Seq(Bytes)
  BY <1>2 DEF MinPayload
<1>4. payload = SubSeq(c.payload, 1, n)
  BY <1>1 DEF payload
<1> QED
  BY <1>3, <1>4 DEF Init, ParserInit, BoundsInv, InBounds

LEMMA StutterBoundsInv == BoundsInv /\ UNCHANGED bounds_vars => BoundsInv'
  BY DEF BoundsInv, InBounds, bounds_vars, payload

(* The parser goes on within the payload. *)
LEMMA GoToBoundsInv ==
  ASSUME BoundsInv, UNCHANGED <<capture, ext_start, ext_end>>,
         NEW next, NEW n \in Nat, GoTo(next, n), n <= Len(payload)
  PROVE  BoundsInv'
<1>1. Len(payload) \in Nat
  BY DEF BoundsInv
<1>2. payload' = payload
  BY DEF payload
<1> QED
  BY <1>1, <1>2 DEF BoundsInv, InBounds, GoTo, Larger

LEMMA FailBoundsInv ==
  ASSUME BoundsInv, Fail, UNCHANGED capture
  PROVE  BoundsInv'
  BY StutterBoundsInv DEF Fail, bounds_vars

LEMMA HeaderBoundsInv ==
  ASSUME BoundsInv, NEW next, Header(next)
  PROVE  BoundsInv'
<1> DEFINE id == HelloStart + 2 + RandomLen + 1
<1>1. id \in Nat /\ id - 1 \in Nat
  BY ParserAssumption DEF HelloStart
<1>2. Byte(id - 1) \in Nat
  BY <1>1, ByteType DEF BoundsInv, Byte
<1>3. CASE Fail
  BY <1>3, FailBoundsInv DEF Header
<1>4. CASE /\ ~(Len(payload) < id \/ Len(payload) < id + Byte(id - 1))
           /\ GoTo(next, id + Byte(id - 1))
           /\ UNCHANGED <<ext_start, ext_end>>
  <2>1. Len(payload) \in Nat
    BY DEF BoundsInv
  <2> QED
    BY <1>1, <1>2, <1>4, <2>1, GoToBoundsInv DEF Header
<1> QED
  BY <1>3, <1>4 DEF Header

LEMMA ExtensionBlockBoundsInv ==
  ASSUME BoundsInv, NEW next, ExtensionBlock(next)
  PROVE  BoundsInv'
<1>1. Len(payload) \in Nat /\ offset \in Nat /\ U16(offset) \in Nat
  BY ByteType DEF BoundsInv, U16, Byte
<1>2. payload' = payload
  BY DEF ExtensionBlock, payload
<1>3. CASE Len(payload) < offset + 2
  BY <1>3, StutterBoundsInv DEF ExtensionBlock, bounds_vars
<1>4. CASE ~(Len(payload) < offset + 2)
  <2> DEFINE block == offset + 2
             parse_len == Smaller(Len(payload) - block, U16(offset))
  <2>1. parse_len \in Nat /\ block + parse_len <= Len(payload)
    BY <1>1, <1>4 DEF Smaller
  <2>2. /\ offset' = block /\ reach' = Larger(reach, block)
        /\ ext_start' = block /\ ext_end' = block + parse_len
    BY <1>4 DEF ExtensionBlock, GoTo
  <2> QED
    BY <1>1, <1>2, <1>4, <2>1, <2>2 DEF BoundsInv, InBounds, Larger
<1> QED
  BY <1>3, <1>4

(* One case per step of the parser. *)
LEMMA ParserBoundsInv == BoundsInv /\ ParserNext => BoundsInv'
<1> SUFFICES ASSUME BoundsInv, ParserNext PROVE BoundsInv'
  OBVIOUS
<1>a. Len(payload) \in Nat /\ offset \in Nat /\ ext_end \in Nat /\ reach \in Nat
  BY DEF BoundsInv
<1>b. U16(offset) \in Nat /\ U16(offset + 2) \in Nat /\ Byte(offset) \in Nat
  <2>1. \A i \in Nat : (IF i < Len(payload) THEN payload[i + 1] ELSE 0) \in Nat
    BY ByteType DEF BoundsInv
  <2>2. U16(offset) \in Nat
    BY <1>a, <2>1 DEF U16, Byte
  <2>3. U16(offset + 2) \in Nat
    BY <1>a, <2>1 DEF U16, Byte
  <2>4. Byte(offset) \in Nat
    BY <1>a, <2>1 DEF Byte
  <2> QED
    BY <2>2, <2>3, <2>4
<1>1. CASE ParseTlsPayload
  BY <1>1, <1>a, FailBoundsInv, GoToBoundsInv DEF ParseTlsPayload, HelloStart
<1>2. CASE ClientHeader
  BY <1>2, HeaderBoundsInv DEF ClientHeader
<1>3. CASE ServerHeader
  BY <1>3, HeaderBoundsInv DEF ServerHeader
<1>4. CASE ClientCipherSuites
  <2>1. CASE Fail
    BY <1>4, <2>1, FailBoundsInv DEF ClientCipherSuites
  <2>2. CASE /\ offset + 2 + U16(offset) <= Len(payload)
             /\ GoTo("compression", offset + 2 + U16(offset))
    BY <1>4, <1>a, <1>b, <2>2, FailBoundsInv, GoToBoundsInv DEF ClientCipherSuites
  <2> QED
    BY <1>4, <1>a, <1>b, <2>1, <2>2 DEF ClientCipherSuites
<1>5. CASE ClientCompression
  BY <1>5, <1>a, <1>b, FailBoundsInv, GoToBoundsInv DEF ClientCompression
<1>6. CASE ServerCipherSuite
  BY <1>6, <1>a, FailBoundsInv, GoToBoundsInv DEF ServerCipherSuite
<1>7. CASE ClientExtensions
  BY <1>7, ExtensionBlockBoundsInv DEF ClientExtensions
<1>8. CASE ServerExtensions
  BY <1>8, ExtensionBlockBoundsInv DEF ServerExtensions
<1>9. CASE ExtensionId
  <2>1. payload' = payload
    BY <1>9 DEF ExtensionId, payload
  <2>2. CASE offset + 4 <= ext_end
    BY <1>9, <1>a, <1>b, <2>1, <2>2 DEF ExtensionId, BoundsInv, InBounds, Larger
  <2>3. CASE ~(offset + 4 <= ext_end)
    BY <1>9, <2>1, <2>3 DEF ExtensionId, BoundsInv, InBounds
  <2> QED
    BY <2>2, <2>3
<1>10. CASE ParseExtension
  <2> DEFINE end == offset + 4 + U16(offset + 2)
  <2>1. CASE offset + 4 <= ext_end /\ end <= ext_end
    <3>1. end \in Nat /\ end <= Len(payload)
      BY <1>a, <1>b, <2>1 DEF BoundsInv, InBounds
    <3>2. GoTo(pc, end)
      BY <1>10, <2>1 DEF ParseExtension
    <3> QED
      BY <1>10, <3>1, <3>2, GoToBoundsInv DEF ParseExtension
  <2>2. CASE ~(offset + 4 <= ext_end /\ end <= ext_end)
    BY <1>10, <2>2, StutterBoundsInv DEF ParseExtension, bounds_vars
  <2> QED
    BY <2>1, <2>2
<1> QED
  BY <1>1, <1>2, <1>3, <1>4, <1>5, <1>6, <1>7, <1>8, <1>9, <1>10 DEF ParserNext

LEMMA WalkBoundsInv == BoundsInv /\ WalkRecord => BoundsInv'
<1> SUFFICES ASSUME BoundsInv, WalkRecord PROVE BoundsInv'
  OBVIOUS
<1> DEFINE start == offset + 5
           end == start + U16(offset + 3)
<1>1. Len(payload) \in Nat /\ start \in Nat /\ end \in Nat /\ offset \in Nat
  BY ByteType DEF BoundsInv, U16, Byte
<1>2. start <= Len(payload)
  BY <1>1 DEF WalkRecord
<1>3. payload' = payload /\ ext_start' = ext_start /\ ext_end' = ext_end
  BY DEF WalkRecord, payload
<1>4. reach' = Larger(reach, Larger(start, Smaller(end, Len(payload))))
  BY DEF WalkRecord
<1>5. reach' \in Nat /\ reach' <= Len(payload)
  BY <1>1, <1>2, <1>4 DEF BoundsInv, InBounds, Larger, Smaller
<1>6. offset' \in Nat
  BY <1>1 DEF WalkRecord
<1> QED
  BY <1>3, <1>5, <1>6 DEF BoundsInv, InBounds

LEMMA NextBoundsInv == BoundsInv /\ [Next]_vars => BoundsInv'
<1> SUFFICES ASSUME BoundsInv, [Next]_vars PROVE BoundsInv'
  OBVIOUS
<1>1. CASE ParserNext
  BY <1>1, ParserBoundsInv
<1>2. CASE BuildAlertEvent
  BY <1>2, StutterBoundsInv DEF BuildAlertEvent, bounds_vars
<1>3. CASE BuildFallback
  BY <1>3, StutterBoundsInv DEF BuildFallback, bounds_vars
<1>4. CASE BuildAnalysis
  <2>1. UNCHANGED <<capture, ext_start, ext_end, reach>> /\ payload' = payload
    BY <1>4 DEF BuildAnalysis, payload
  <2>2. offset' \in Nat
    <3>1. U16(3) \in Nat
      BY ByteType DEF BoundsInv, U16, Byte
    <3> QED
      BY <1>4, <3>1 DEF BuildAnalysis, BoundsInv
  <2> QED
    BY <2>1, <2>2 DEF BoundsInv, InBounds
<1>5. CASE WalkRecord
  BY <1>5, WalkBoundsInv
<1>6. CASE EndOfWalk
  BY <1>6, StutterBoundsInv DEF EndOfWalk, bounds_vars
<1>7. CASE SynthesizeEvents
  BY <1>7, StutterBoundsInv DEF SynthesizeEvents, bounds_vars
<1>8. CASE UNCHANGED vars
  BY <1>8, StutterBoundsInv DEF vars, parserVars, bounds_vars
<1> QED
  BY <1>1, <1>2, <1>3, <1>4, <1>5, <1>6, <1>7, <1>8 DEF Next

(* The parser and the record walk read no byte beyond the end of the       *)
(* payload, wherever it ends and whatever its bytes are, for every length  *)
(* of the random: no capture makes the worker panic there.                 *)
THEOREM ReadsInBounds == Spec => []InBounds
<1>1. BoundsInv => InBounds
  BY DEF BoundsInv
<1> QED
  BY <1>1, InitBoundsInv, NextBoundsInv, PTL DEF Spec

(***************************************************************************)
(* Part 2, the walk over the flight of a server                            *)
(***************************************************************************)

(* What CarriesFlight says of a payload s that is cut. *)
CutFlight(s, sent) ==
  LET end == Len(sent.flight) + 1
  IN  /\ Len(sent.flight) \in Nat /\ DOMAIN sent.flight = 1 .. Len(sent.flight)
      /\ sent.starts \in [1 .. end -> Nat]
      /\ sent.starts[1] = 5 + At16(s, 3) /\ Len(s) <= sent.starts[end]
      /\ \A j, k \in 1 .. end : j < k => sent.starts[j] < sent.starts[k]
      /\ \A k \in DOMAIN sent.flight :
           LET r  == sent.flight[k]
               at == sent.starts[k]
           IN  /\ IsFlightRecord(r)
               /\ sent.starts[k + 1] = at + 5 + Len(r.body)
               /\ at < Len(s) => s[at + 1] = r.content_type
               /\ at + 5 <= Len(s) => At16(s, at + 3) = Len(r.body)
               /\ \A i \in DOMAIN r.body : at + 5 + i <= Len(s) => s[at + 5 + i] = r.body[i]

LEMMA CutCarries ==
  ASSUME NEW c, c.payload \in Seq(Bytes), NEW n \in MinPayload .. Len(c.payload),
         NEW sent, CarriesFlight(c, sent), NEW s, s = SubSeq(c.payload, 1, n)
  PROVE  CutFlight(s, sent)
<1> DEFINE P == c.payload
           N == Len(sent.flight)
<1>1. Len(P) \in Nat /\ n \in Nat /\ n <= Len(P) /\ 6 <= n
  BY DEF MinPayload
<1>2. Len(s) = n /\ \A i \in 1 .. n : s[i] = P[i]
  BY <1>1
<1>3. sent.flight \in Seq({sent.flight[i] : i \in DOMAIN sent.flight})
  BY DEF CarriesFlight, IsSequence
<1>4. N \in Nat /\ DOMAIN sent.flight = 1 .. N
  BY <1>3
<1>5. /\ sent.starts \in [1 .. N + 1 -> Nat]
      /\ sent.starts[1] = 5 + At16(P, 3) /\ sent.starts[N + 1] = Len(P)
      /\ \A j, k \in 1 .. N + 1 : j < k => sent.starts[j] < sent.starts[k]
  BY DEF CarriesFlight
<1>6. At16(s, 3) = At16(P, 3)
  BY <1>1, <1>2 DEF At16
<1> DEFINE Fine(k) ==
             LET r  == sent.flight[k]
                 at == sent.starts[k]
             IN  /\ IsFlightRecord(r)
                 /\ sent.starts[k + 1] = at + 5 + Len(r.body)
                 /\ at < Len(s) => s[at + 1] = r.content_type
                 /\ at + 5 <= Len(s) => At16(s, at + 3) = Len(r.body)
                 /\ \A i \in DOMAIN r.body : at + 5 + i <= Len(s) => s[at + 5 + i] = r.body[i]
<1>7. ASSUME NEW k \in DOMAIN sent.flight PROVE Fine(k)
  <2> DEFINE r == sent.flight[k]
             at == sent.starts[k]
  <2>1. /\ IsFlightRecord(r) /\ sent.starts[k + 1] = at + 5 + Len(r.body)
        /\ P[at + 1] = r.content_type
        /\ At16(P, at + 3) = Len(r.body)
        /\ \A i \in DOMAIN r.body : P[at + 5 + i] = r.body[i]
    BY DEF CarriesFlight
  <2>2. at \in Nat
    BY <1>4, <1>5, <1>7
  <2>3. DOMAIN r.body \subseteq Nat
    <3>1. r.body \in Seq(0 .. 255)
      BY <2>1, Zenon DEF IsFlightRecord
    <3> HIDE DEF r
    <3> QED BY <3>1
  <2> HIDE DEF r, at, P
  <2>4. at < Len(s) => s[at + 1] = r.content_type
    BY <1>1, <1>2, <2>1, <2>2
  <2>5. at + 5 <= Len(s) => At16(s, at + 3) = Len(r.body)
    <3> SUFFICES ASSUME at + 5 <= n PROVE At16(s, at + 3) = Len(r.body)
      BY <1>2
    <3>1. at + 3 + 1 \in 1 .. n /\ at + 3 + 2 \in 1 .. n
      BY <1>1, <2>2
    <3>2. s[at + 3 + 1] = P[at + 3 + 1] /\ s[at + 3 + 2] = P[at + 3 + 2]
      BY <1>2, <3>1
    <3> QED BY <2>1, <3>2 DEF At16
  <2>6. ASSUME NEW i \in DOMAIN r.body, at + 5 + i <= Len(s)
        PROVE  s[at + 5 + i] = r.body[i]
    <3>1. at + 5 + i \in 1 .. n
      BY <1>1, <1>2, <2>2, <2>3, <2>6
    <3> QED BY <1>2, <2>1, <3>1
  <2> QED BY <2>1, <2>4, <2>5, <2>6 DEF r, at
<1> HIDE DEF Fine
<1>8. \A k \in DOMAIN sent.flight : Fine(k)
  BY <1>7
<1>9. Len(s) <= sent.starts[N + 1]
  BY <1>1, <1>2, <1>5
<1> QED BY <1>4, <1>5, <1>6, <1>8, <1>9 DEF CutFlight, Fine

(* x509_parser finds a certificate that is all there. *)
LEMMA FindsCertificate ==
  ASSUME NEW leaf \in Certificates
  PROVE  parse_x509_certificate(leaf) = leaf
<1>1. IsPrefix(leaf, leaf)
  <2>1. leaf \in Seq(0 .. 255)
    BY FlightAssumption
  <2> QED BY <2>1 DEF IsPrefix
<1>2. \A x \in Certificates : IsPrefix(x, leaf) => x = leaf
  BY FlightAssumption
<1>3. (CHOOSE x \in Certificates : IsPrefix(x, leaf)) = leaf
  BY <1>1, <1>2, Zenon
<1> QED BY <1>1, <1>3 DEF parse_x509_certificate

(* Of a Certificate that is cut, the leaf is found when it is all there. *)
LEMMA LeafFound ==
  ASSUME NEW r, IsFlightRecord(r), First(r.body) = 11,
         NEW b \in Seq(Bytes), Len(b) <= Len(r.body),
         \A i \in 1 .. Len(b) : b[i] = r.body[i]
  PROVE  LeafAfter4(b) = IF 10 + Len(r.leaf) <= Len(b) THEN r.leaf ELSE None
<1> DEFINE n == Len(r.leaf)
           t == SubSeq(b, 5, Len(b))
<1>1. /\ r.leaf \in Certificates /\ ~(U24(r.body, 5) < 3) /\ U24(r.body, 8) = n
      /\ Len(r.body) >= 10 + n /\ \A i \in DOMAIN r.leaf : r.body[10 + i] = r.leaf[i]
  BY DEF IsFlightRecord
<1>2. r.leaf \in Seq(0 .. 255)
  BY <1>1, FlightAssumption
<1>3. n \in Nat /\ DOMAIN r.leaf = 1 .. n /\ Len(b) \in Nat
  BY <1>2
<1>4. CASE Len(b) < 10
  <2>1. Len(b) > 4 => Len(t) < 6
    BY <1>3, <1>4
  <2> QED BY <1>3, <1>4, <2>1 DEF LeafAfter4, parse_certificate
<1>5. CASE Len(b) >= 10
  <2>1. t \in Seq(Bytes) /\ Len(t) = Len(b) - 4 /\ \A i \in 1 .. Len(b) - 4 : t[i] = b[i + 4]
    BY <1>3, <1>5
  <2> HIDE DEF t, n
  <2>2. /\ t[1] = r.body[5] /\ t[2] = r.body[6] /\ t[3] = r.body[7]
        /\ t[4] = r.body[8] /\ t[5] = r.body[9] /\ t[6] = r.body[10]
    <3>1. \A j \in 1 .. 6 : j \in 1 .. Len(b) - 4 /\ j + 4 \in 1 .. Len(b)
      BY <1>3, <1>5
    <3>2. \A j \in 1 .. 6 : t[j] = r.body[j + 4]
      BY <2>1, <3>1
    <3> QED BY <3>2
  <2>3. U24(t, 1) = U24(r.body, 5) /\ U24(t, 4) = n
    BY <1>1, <2>2, SMTT(60) DEF U24
  <2>4. ~(U24(t, 1) < 3)
    BY <1>1, <2>3
  <2>5. LeafAfter4(b) = parse_certificate(t)
    BY <1>3, <1>5 DEF LeafAfter4, t
  <2>6. CASE Len(b) < 10 + n
    <3>1. Len(t) < 6 + U24(t, 4)
      BY <1>3, <2>1, <2>3, <2>6
    <3> QED BY <1>3, <2>4, <2>5, <2>6, <3>1 DEF parse_certificate, n
  <2>7. CASE ~(Len(b) < 10 + n)
    <3> DEFINE x == SubSeq(t, 7, 6 + U24(t, 4))
    <3>1. ~(Len(t) < 6 + U24(t, 4)) /\ ~(Len(t) < 6)
      BY <1>3, <1>5, <2>1, <2>3, <2>7
    <3>2. x \in Seq(Bytes) /\ Len(x) = n /\ \A i \in 1 .. n : x[i] = t[6 + i]
      BY <1>3, <2>1, <2>3, <3>1
    <3> HIDE DEF x
    <3>3. ASSUME NEW i \in 1 .. n PROVE x[i] = r.leaf[i]
      <4>1. 6 + i \in 1 .. Len(b) - 4 /\ 10 + i \in 1 .. Len(b) /\ 6 + i + 4 = 10 + i
        BY <1>3, <2>7
      <4>2. x[i] = b[10 + i]
        BY <2>1, <3>2, <4>1
      <4> QED BY <1>1, <1>3, <4>1, <4>2
    <3>4. x = r.leaf
      BY <1>2, <1>3, <3>2, <3>3, SMTT(60) DEF n
    <3>5. parse_certificate(t) = parse_x509_certificate(x)
      BY <2>4, <3>1 DEF parse_certificate, x
    <3>6. 10 + n <= Len(b)
      BY <1>3, <2>7
    <3> QED BY <1>1, <2>5, <3>4, <3>5, <3>6, FindsCertificate DEF n
  <2> QED BY <2>6, <2>7
<1> QED BY <1>3, <1>4, <1>5

(* The body of record k, as much of it as payload s has. *)
CutBody(s, sent, k) ==
  SubSeq(s, sent.starts[k] + 6, Smaller(sent.starts[k + 1], Len(s)))

(* The sequence ks is that of the members of S, in ascending order. *)
Ascending(ks, S) ==
  /\ ks \in Seq(S)
  /\ \A i, j \in DOMAIN ks : i < j => ks[i] < ks[j]
  /\ \A k \in S : \E i \in DOMAIN ks : ks[i] = k

(* The records kept, w, of payload s are those of ks. *)
Kept(w, s, sent, ks) ==
  /\ w \in Seq([version: Nat, body: Seq(Bytes), truncated: BOOLEAN])
  /\ Len(w) = Len(ks)
  /\ \A i \in DOMAIN ks : /\ w[i].body = CutBody(s, sent, ks[i])
                          /\ w[i].truncated = (sent.starts[ks[i] + 1] > Len(s))

(* The walk has passed count records, all handshake records and whole, and *)
(* kept those of which an event is due.                                    *)
WalkReached(sent) ==
  /\ count \in 0 .. Len(sent.flight)
  /\ offset = sent.starts[count + 1]
  /\ \A i \in 1 .. count : sent.flight[i].content_type = 22
  /\ \E ks : Ascending(ks, DueRecords(sent) \cap 1 .. count) /\ Kept(walked, payload, sent, ks)

(* One more member, larger than all others. *)
LEMMA AscendingGrows ==
  ASSUME NEW S \in SUBSET Nat, NEW ks, Ascending(ks, S), NEW k \in Nat, \A i \in S : i < k
  PROVE  Ascending(Append(ks, k), S \cup {k})
<1> DEFINE q == Append(ks, k)
           T == S \cup {k}
<1>1. ks \in Seq(T) /\ k \in T /\ ks \in Seq(S)
  BY DEF Ascending
<1>2. /\ q \in Seq(T) /\ Len(q) = Len(ks) + 1 /\ q[Len(ks) + 1] = k
      /\ \A i \in 1 .. Len(ks) : q[i] = ks[i]
      /\ Len(ks) \in Nat /\ DOMAIN ks = 1 .. Len(ks) /\ DOMAIN q = 1 .. Len(ks) + 1
  BY <1>1
<1> HIDE DEF q, T
<1>3. ASSUME NEW i \in DOMAIN q, NEW j \in DOMAIN q, i < j PROVE q[i] < q[j]
  <2>1. i \in DOMAIN ks /\ q[i] = ks[i] /\ ks[i] \in S
    BY <1>1, <1>2, <1>3
  <2>2. CASE j = Len(ks) + 1
    BY <1>2, <2>1, <2>2
  <2>3. CASE j # Len(ks) + 1
    <3>1. j \in DOMAIN ks /\ q[j] = ks[j]
      BY <1>2, <1>3, <2>3
    <3> QED BY <1>3, <2>1, <3>1 DEF Ascending
  <2> QED BY <2>2, <2>3
<1>4. ASSUME NEW x \in T PROVE \E i \in DOMAIN q : q[i] = x
  <2>1. CASE x = k
    <3>1. Len(ks) + 1 \in DOMAIN q
      BY <1>2
    <3> QED BY <1>2, <2>1, <3>1
  <2>2. CASE x \in S
    <3>1. PICK i \in DOMAIN ks : ks[i] = x
      BY <2>2 DEF Ascending
    <3>2. i \in DOMAIN q /\ q[i] = x
      BY <1>2, <3>1
    <3> QED BY <3>2
  <2> QED BY <2>1, <2>2 DEF T
<1> QED BY <1>2, <1>3, <1>4 DEF Ascending, q, T

(* The beginning of a record's body. *)
LEMMA CutBodyOK ==
  ASSUME payload \in Seq(Bytes), NEW sent, CutFlight(payload, sent),
         NEW k \in DOMAIN sent.flight, sent.starts[k] + 5 <= Len(payload)
  PROVE  LET r == sent.flight[k]
             b == CutBody(payload, sent, k)
             room == Len(payload) - sent.starts[k] - 5
         IN  /\ sent.starts[k] \in Nat /\ k + 1 \in 1 .. Len(sent.flight) + 1
             /\ IsFlightRecord(r) /\ Len(r.body) \in Nat
             /\ b \in Seq(Bytes) /\ Len(b) = Smaller(Len(r.body), room)
             /\ \A i \in 1 .. Len(b) : b[i] = r.body[i]
             /\ sent.starts[k + 1] > Len(payload) <=> room < Len(r.body)
             /\ First(b) \in {11, 13} <=>
                  First(r.body) \in {11, 13} /\ sent.starts[k] + 5 < Len(payload)
             /\ First(b) \in {11, 13} => First(b) = First(r.body)
<1> DEFINE r == sent.flight[k]
           b == CutBody(payload, sent, k)
           at == sent.starts[k]
           room == Len(payload) - at - 5
           n == Len(r.body)
           m == Smaller(sent.starts[k + 1], Len(payload))
<1>1. /\ Len(sent.flight) \in Nat /\ k \in 1 .. Len(sent.flight)
      /\ sent.starts \in [1 .. Len(sent.flight) + 1 -> Nat]
      /\ IsFlightRecord(r) /\ sent.starts[k + 1] = at + 5 + n
      /\ \A i \in DOMAIN r.body : at + 5 + i <= Len(payload) => payload[at + 5 + i] = r.body[i]
  BY DEF CutFlight
<1>2. at \in Nat /\ k + 1 \in 1 .. Len(sent.flight) + 1
  BY <1>1, SMTT(60)
<1>3. r.body \in Seq(0 .. 255) /\ n \in Nat /\ DOMAIN r.body = 1 .. n
  <2>1. r.body \in Seq(0 .. 255)
    BY <1>1, Zenon DEF IsFlightRecord
  <2> HIDE DEF r
  <2> QED BY <2>1
<1>4. Len(payload) \in Nat /\ room \in Nat
  BY <1>2
<1> HIDE DEF n, at, r
<1>5. sent.starts[k + 1] = at + 5 + n /\ at + 5 <= Len(payload)
  BY <1>1 DEF at
<1>6. m = Smaller(at + 5 + n, Len(payload))
  BY <1>5
<1>7. sent.starts[k + 1] > Len(payload) <=> room < n
  BY <1>5, <1>2, <1>3, <1>4
<1> HIDE DEF m
<1>8. m = at + 5 + Smaller(n, room) /\ Smaller(n, room) \in Nat /\ m <= Len(payload)
      /\ Smaller(n, room) <= n
  <2> DEFINE L == Len(payload)
  <2>1. /\ at \in Nat /\ n \in Nat /\ L \in Nat /\ at + 5 <= L
        /\ m = Smaller(at + 5 + n, L) /\ room = L - at - 5
    BY <1>5, <1>6, <1>2, <1>3, <1>4
  <2> HIDE DEF L, room
  <2>2. CASE at + 5 + n < L
    <3>1. m = at + 5 + n /\ n < room /\ m <= L
      BY <2>1, <2>2 DEF Smaller
    <3>2. Smaller(n, room) = n
      BY <3>1 DEF Smaller
    <3> QED BY <2>1, <3>1, <3>2 DEF L
  <2>3. CASE ~(at + 5 + n < L)
    <3>1. m = L /\ room <= n /\ room \in Nat
      BY <2>1, <2>3 DEF Smaller
    <3>2. Smaller(n, room) = room
      BY <2>1, <3>1 DEF Smaller
    <3> QED BY <2>1, <3>1, <3>2 DEF L
  <2> QED BY <2>2, <2>3
<1> HIDE DEF room
<1>9. b = SubSeq(payload, at + 6, m)
  BY DEF CutBody, at, m
<1>10. b \in Seq(Bytes) /\ Len(b) = Smaller(n, room)
      /\ \A i \in 1 .. Smaller(n, room) : b[i] = payload[at + 5 + i]
  <2> DEFINE w == Smaller(n, room)
  <2> HIDE DEF w, b
  <2>1. w \in Nat /\ m = at + 5 + w /\ m <= Len(payload)
    BY <1>8 DEF w
  <2>2. b \in Seq(Bytes) /\ Len(b) = w /\ \A i \in 1 .. w : b[i] = payload[at + 5 + i]
    BY <1>2, <1>4, <1>9, <2>1
  <2> QED BY <2>2 DEF w
<1>11. ASSUME NEW i \in 1 .. Len(b) PROVE b[i] = r.body[i]
  <2>1. i \in 1 .. n /\ at + 5 + i <= Len(payload)
    BY <1>2, <1>3, <1>4, <1>8, <1>10, <1>11
  <2>2. payload[at + 5 + i] = r.body[i]
    BY <1>1, <1>3, <2>1 DEF at, r
  <2> QED BY <1>10, <1>11, <2>2
<1>12. /\ First(b) \in {11, 13} <=> (First(r.body) \in {11, 13} /\ at + 5 < Len(payload))
       /\ First(b) \in {11, 13} => First(b) = First(r.body)
  <2>1. None \notin {11, 13}
    BY FlightAssumption
  <2>2. b # <<>> <=> (r.body # <<>> /\ at + 5 < Len(payload))
    <3>1. (b # <<>> <=> Len(b) # 0) /\ (r.body # <<>> <=> n # 0)
      <4> HIDE DEF b
      <4> QED BY <1>3, <1>10 DEF n
    <3>2. Smaller(n, room) # 0 <=> (n # 0 /\ room # 0)
      BY <1>3, <1>4 DEF Smaller
    <3>3. room # 0 <=> at + 5 < Len(payload)
      BY <1>2, <1>4 DEF room, at
    <3> QED BY <1>10, <3>1, <3>2, <3>3
  <2>3. b # <<>> => b[1] = r.body[1]
    <3> HIDE DEF b
    <3>1. b # <<>> => 1 \in 1 .. Len(b)
      BY <1>10
    <3> QED BY <1>11, <3>1
  <2> HIDE DEF b
  <2> QED BY <2>1, <2>2, <2>3 DEF First
<1> QED BY <1>1, <1>2, <1>3, <1>10, <1>11, <1>7, <1>12 DEF room, at, n, r

(* What the walk finds at offset: the record that comes next. *)
LEMMA NextRecord ==
  ASSUME BoundsInv, NEW sent, CutFlight(payload, sent), WalkReached(sent),
         offset + 5 <= Len(payload)
  PROVE  LET k == count + 1
         IN  /\ k \in DOMAIN sent.flight
             /\ Byte(offset) = sent.flight[k].content_type
             /\ offset + 5 + U16(offset + 3) = sent.starts[k + 1]
             /\ sent.starts[k + 1] \in Nat
<1> DEFINE k == count + 1
           end == Len(sent.flight) + 1
           at == sent.starts[k]
           r == sent.flight[k]
<1>1. Len(payload) \in Nat /\ offset \in Nat
  BY DEF BoundsInv
<1>2. Len(sent.flight) \in Nat /\ count \in 0 .. Len(sent.flight) /\ offset = at
  BY DEF WalkReached, CutFlight
<1>3. Len(payload) <= sent.starts[end] /\ sent.starts \in [1 .. end -> Nat]
  BY DEF CutFlight
<1>4. k # end
  BY <1>1, <1>2, <1>3
<1>5. k \in DOMAIN sent.flight /\ k \in 1 .. Len(sent.flight)
  BY <1>2, <1>4 DEF CutFlight
<1>6. /\ sent.starts[k + 1] = at + 5 + Len(r.body)
      /\ at < Len(payload) => payload[at + 1] = r.content_type
      /\ at + 5 <= Len(payload) => At16(payload, at + 3) = Len(r.body)
  BY <1>5 DEF CutFlight
<1>7. sent.starts[k + 1] \in Nat
  <2>1. k + 1 \in 1 .. end
    BY <1>2, <1>5
  <2> HIDE DEF end
  <2> QED BY <1>3, <2>1
<1> HIDE DEF k, at, r
<1>8. Byte(offset) = r.content_type
  BY <1>1, <1>2, <1>6 DEF Byte
<1>9. U16(offset + 3) = At16(payload, offset + 3)
  <2>1. offset + 3 < Len(payload) /\ offset + 3 + 1 < Len(payload)
    BY <1>1
  <2>2. Byte(offset + 3) = payload[offset + 3 + 1]
    BY <2>1 DEF Byte
  <2>3. Byte(offset + 3 + 1) = payload[offset + 3 + 1 + 1] /\ offset + 3 + 1 + 1 = offset + 3 + 2
    BY <1>1, <2>1 DEF Byte
  <2> QED BY <2>2, <2>3 DEF U16, At16
<1> QED BY <1>2, <1>5, <1>6, <1>7, <1>8, <1>9 DEF k, r

(* No record is due behind one that ends the walk. *)
LEMMA NoneLater ==
  ASSUME payload \in Seq(Bytes), NEW sent, CutFlight(payload, sent), NEW k \in Nat,
         \/ k >= MaxRecordsToWalk
         \/ k + 1 \in 1 .. Len(sent.flight) + 1 /\ sent.starts[k + 1] + 5 > Len(payload)
         \/ k \in 1 .. Len(sent.flight) /\ sent.flight[k].content_type # 22
  PROVE  DueRecords(sent) \cap 1 .. k = DueRecords(sent)
<1> SUFFICES ASSUME NEW j \in DueRecords(sent), ~(j <= k) PROVE FALSE
  <2>1. DueRecords(sent) \subseteq Nat \ {0}
    BY SMTT(60) DEF DueRecords, CutFlight
  <2> QED BY <2>1
<1>1. /\ Len(sent.flight) \in Nat /\ j \in 1 .. Len(sent.flight) /\ j <= MaxRecordsToWalk
      /\ \A i \in 1 .. j : sent.flight[i].content_type = 22
      /\ sent.starts[j] + 5 < Len(payload)
      /\ sent.starts \in [1 .. Len(sent.flight) + 1 -> Nat]
      /\ \A h, i \in 1 .. Len(sent.flight) + 1 : h < i => sent.starts[h] < sent.starts[i]
  BY DEF DueRecords, CutFlight
<1>2. Len(payload) \in Nat
  OBVIOUS
<1>3. CASE k >= MaxRecordsToWalk
  BY <1>1, <1>3 DEF MaxRecordsToWalk
<1>4. CASE k + 1 \in 1 .. Len(sent.flight) + 1 /\ sent.starts[k + 1] + 5 > Len(payload)
  <2>1. j \in 1 .. Len(sent.flight) + 1 /\ (k + 1 = j \/ k + 1 < j)
    BY <1>1
  <2>2. sent.starts[j] \in Nat /\ sent.starts[k + 1] \in Nat
    BY <1>1, <1>4, <2>1
  <2>3. k + 1 < j => sent.starts[k + 1] < sent.starts[j]
    BY <1>1, <1>4, <2>1
  <2> QED BY <1>1, <1>2, <1>4, <2>1, <2>2, <2>3
<1>5. CASE k \in 1 .. Len(sent.flight) /\ sent.flight[k].content_type # 22
  BY <1>1, <1>5
<1> QED BY <1>3, <1>4, <1>5

(* A record is kept if and only if it is due. *)
LEMMA WalkKeeps ==
  ASSUME BoundsInv, NEW sent, CutFlight(payload, sent), WalkReached(sent), WalkRecord
  PROVE  \E ks : Ascending(ks, DueRecords(sent) \cap 1 .. count + 1) /\ Kept(walked', payload, sent, ks)
<1>0. PICK k : k = count + 1
  OBVIOUS
<1> DEFINE D == DueRecords(sent)
           b == CutBody(payload, sent, k)
           cut == sent.starts[k + 1] > Len(payload)
           w == [version |-> U16(offset + 1), body |-> b, truncated |-> cut]
<1>1. /\ offset + 5 <= Len(payload) /\ count < MaxRecordsToWalk /\ capture' = capture
      /\ payload' = payload
  BY DEF WalkRecord, payload
<1>2. /\ k \in DOMAIN sent.flight
      /\ Byte(offset) = sent.flight[k].content_type
      /\ offset + 5 + U16(offset + 3) = sent.starts[k + 1]
      /\ sent.starts[k + 1] \in Nat
  BY <1>0, <1>1, NextRecord
<1>3. /\ offset \in Nat /\ offset = sent.starts[k] /\ count \in Nat
      /\ \A i \in 1 .. count : sent.flight[i].content_type = 22
      /\ payload \in Seq(Bytes)
  BY <1>0 DEF WalkReached, BoundsInv, CutFlight
<1>4. offset + 5 + 1 = sent.starts[k] + 6
  BY <1>3
<1>5. walked' = IF Byte(offset) = 22 /\ First(b) \in {11, 13} THEN Append(walked, w) ELSE walked
  <2>1. SubSeq(payload, offset + 5 + 1, Smaller(offset + 5 + U16(offset + 3), Len(payload))) = b
    BY <1>2, <1>4 DEF CutBody
  <2> HIDE DEF b
  <2> QED BY <1>2, <2>1 DEF WalkRecord
<1>6. /\ b \in Seq(Bytes)
      /\ First(b) \in {11, 13} <=>
           First(sent.flight[k].body) \in {11, 13} /\ sent.starts[k] + 5 < Len(payload)
  <2>1. sent.starts[k] + 5 <= Len(payload)
    BY <1>1, <1>3
  <2> QED BY <1>2, <1>3, <2>1, CutBodyOK DEF b
<1>7. Byte(offset) = 22 /\ First(b) \in {11, 13} <=> k \in D
  <2>1. k <= MaxRecordsToWalk
    BY <1>0, <1>1, <1>3 DEF MaxRecordsToWalk
  <2>2. (\A i \in 1 .. k : sent.flight[i].content_type = 22) <=> sent.flight[k].content_type = 22
    BY <1>0, <1>3
  <2> HIDE DEF b
  <2> QED BY <1>2, <1>6, <2>1, <2>2 DEF DueRecords
<1>8. w \in [version: Nat, body: Seq(Bytes), truncated: BOOLEAN]
  <2>1. U16(offset + 1) \in Nat
    BY <1>3, ByteType, SMTT(60) DEF U16, Byte
  <2> HIDE DEF b
  <2> QED BY <1>6, <2>1
<1>9. PICK ks : Ascending(ks, D \cap 1 .. count) /\ Kept(walked, payload, sent, ks)
  BY DEF WalkReached
<1>10. D \subseteq Nat
  BY DEF DueRecords, CutFlight
<1>11. ks \in Seq(D \cap 1 .. count) /\ Len(ks) \in Nat /\ DOMAIN ks = 1 .. Len(ks)
  BY <1>9 DEF Ascending
<1> HIDE DEF D, b, w, cut
<1>12. CASE k \in D
  <2>1. walked' = Append(walked, w)
    BY <1>5, <1>7, <1>12
  <2>2. D \cap 1 .. count + 1 = (D \cap 1 .. count) \cup {k}
    BY <1>0, <1>3, <1>12
  <2>3. Ascending(Append(ks, k), D \cap 1 .. count + 1)
    <3>1. D \cap 1 .. count \in SUBSET Nat /\ k \in Nat /\ \A i \in D \cap 1 .. count : i < k
      BY <1>0, <1>3, <1>10
    <3> QED BY <1>9, <2>2, <3>1, AscendingGrows
  <2>4. Kept(walked', payload, sent, Append(ks, k))
    <3> DEFINE W == [version: Nat, body: Seq(Bytes), truncated: BOOLEAN]
               q == Append(ks, k)
    <3>1. walked \in Seq(W) /\ Len(walked) = Len(ks)
      BY <1>9 DEF Kept
    <3>2. /\ walked' \in Seq(W) /\ Len(walked') = Len(ks) + 1 /\ walked'[Len(ks) + 1] = w
          /\ \A i \in 1 .. Len(ks) : walked'[i] = walked[i]
      <4> HIDE DEF W
      <4> QED BY <1>8, <2>1, <3>1 DEF W
    <3>3. /\ Len(q) = Len(ks) + 1 /\ DOMAIN q = 1 .. Len(ks) + 1 /\ q[Len(ks) + 1] = k
          /\ \A i \in 1 .. Len(ks) : q[i] = ks[i]
      <4>1. ks \in Seq(Nat) /\ k \in Nat
        BY <1>0, <1>3, <1>11
      <4> QED BY <1>11, <4>1
    <3> HIDE DEF W, q
    <3>4. ASSUME NEW i \in DOMAIN q
          PROVE  /\ walked'[i].body = CutBody(payload, sent, q[i])
                 /\ walked'[i].truncated = (sent.starts[q[i] + 1] > Len(payload))
      <4>1. CASE i = Len(ks) + 1
        BY <3>2, <3>3, <4>1 DEF w, b, cut
      <4>2. CASE i # Len(ks) + 1
        <5>1. i \in DOMAIN ks
          BY <1>11, <3>3, <4>2
        <5> QED BY <1>9, <1>11, <3>2, <3>3, <5>1 DEF Kept
      <4> QED BY <4>1, <4>2
    <3> QED BY <1>1, <3>2, <3>3, <3>4 DEF Kept, W, q
  <2> QED BY <2>3, <2>4 DEF D
<1>13. CASE k \notin D
  <2>1. walked' = walked
    BY <1>5, <1>7, <1>13
  <2>2. D \cap 1 .. count + 1 = D \cap 1 .. count
    BY <1>0, <1>3, <1>13
  <2>3. Kept(walked', payload, sent, ks)
    BY <1>1, <1>9, <2>1 DEF Kept
  <2> QED BY <1>9, <2>2, <2>3 DEF D
<1> QED BY <1>12, <1>13 DEF D

(* A packet with the flight of a server. *)
HasFlight == capture.sent # None /\ capture.handshake_type = 2

(* What the walk has kept when it is over is what is due. *)
WalkOver(sent) ==
  \E ks : Ascending(ks, DueRecords(sent)) /\ Kept(walked, payload, sent, ks)

(* The flight of a server, from the first record kept to the events. *)
FlightInv ==
  /\ BoundsInv /\ Len(payload) >= MinPayload
  /\ HasFlight =>
       /\ CutFlight(payload, capture.sent)
       /\ pc \notin {"walk", "synthesize", "done"} => count = 0 /\ walked = <<>>
       /\ pc = "walk" => WalkReached(capture.sent)
       /\ pc = "synthesize" => WalkOver(capture.sent)
       /\ pc = "done" => FlightWalked

LEMMA InitFlightInv == Init => FlightInv
<1> SUFFICES ASSUME Init PROVE FlightInv
  OBVIOUS
<1>0. PICK c \in Packets : \E n \in MinPayload .. Len(c.payload) :
        capture = [c EXCEPT !.payload = SubSeq(@, 1, n)]
  BY DEF Init, ParserInit
<1>1. PICK n \in MinPayload .. Len(c.payload) :
        capture = [c EXCEPT !.payload = SubSeq(@, 1, n)]
  BY <1>0
<1>2. c.payload \in Seq(Bytes)
  BY ParserAssumption DEF Bytes
<1>3. payload = SubSeq(c.payload, 1, n) /\ BoundsInv
  BY <1>1, InitBoundsInv DEF payload
<1>4. Len(payload) >= MinPayload
  BY <1>2, <1>3 DEF MinPayload
<1>5. pc \in {"alert", "record"} /\ count = 0 /\ walked = <<>>
  BY DEF Init
<1>6. ASSUME HasFlight PROVE CutFlight(payload, capture.sent)
  <2>1. capture.sent = c.sent /\ capture.handshake_type = c.handshake_type
    BY <1>1
  <2>2. CarriesFlight(c, c.sent)
    BY <1>6, <2>1, FlightAssumption DEF HasFlight
  <2> QED BY <1>2, <1>3, <2>1, <2>2, CutCarries
<1> QED BY <1>3, <1>4, <1>5, <1>6 DEF FlightInv

(* The parser leaves the walk alone and does not start it. *)
LEMMA ParserLeavesWalk ==
  ParserNext => /\ pc \notin {"walk", "synthesize", "done"}
                /\ pc' \notin {"walk", "synthesize", "done"}
                /\ capture' = capture
  BY DEF ParserNext, ParseTlsPayload, ClientHeader, ServerHeader, Header, ClientCipherSuites,
         ClientCompression, ClientExtensions, ServerExtensions, ExtensionBlock,
         ServerCipherSuite, ExtensionId, ParseExtension, GoTo, Fail

LEMMA AnalysisFlightInv == FlightInv /\ BuildAnalysis => FlightInv'
<1> SUFFICES ASSUME FlightInv, BuildAnalysis PROVE FlightInv'
  OBVIOUS
<1>1. BoundsInv' /\ capture' = capture /\ payload' = payload /\ HasFlight' = HasFlight
  BY NextBoundsInv DEF FlightInv, BuildAnalysis, Next, payload, HasFlight
<1>2. CASE ~HasFlight
  BY <1>1, <1>2 DEF FlightInv
<1>3. CASE HasFlight
  <2> DEFINE sent == capture.sent
  <2>1. /\ CutFlight(payload, sent) /\ Len(payload) >= MinPayload /\ Len(payload) \in Nat
        /\ walked = <<>> /\ count = 0 /\ walked' = <<>> /\ count' = 0
    BY <1>3 DEF FlightInv, BoundsInv, BuildAnalysis
  <2>2. sent' = sent
    BY <1>1
  <2>3. CASE effective_version <= 771
    <3>1. pc' = "walk" /\ offset' = 5 + U16(3)
      BY <1>3, <2>3 DEF BuildAnalysis, HasFlight
    <3>2. offset' = sent.starts[1]
      <4>1. U16(3) = At16(payload, 3)
        BY <2>1 DEF U16, At16, Byte, MinPayload
      <4> QED BY <2>1, <3>1, <4>1 DEF CutFlight
    <3>3. WalkReached(sent)'
      <4>1. Ascending(<<>>, DueRecords(sent)' \cap 1 .. count')
        BY <2>1 DEF Ascending
      <4>2. Kept(walked', payload', sent', <<>>)
        BY <2>1 DEF Kept
      <4>3. count' \in 0 .. Len(sent.flight) /\ offset' = sent.starts[count' + 1]
            /\ \A i \in 1 .. count' : sent.flight[i].content_type = 22
        BY <2>1, <3>2 DEF CutFlight
      <4> QED BY <2>2, <4>1, <4>2, <4>3 DEF WalkReached
    <3> QED BY <1>1, <2>1, <2>2, <3>1, <3>3 DEF FlightInv
  <2>4. CASE ~(effective_version <= 771)
    <3>1. pc' = "done"
      BY <2>4 DEF BuildAnalysis
    <3>2. event' = build_server_analysis
      BY <1>3 DEF BuildAnalysis, WithCertificate, IsCertificate, is_client, HasFlight
    <3>3. event'.version = effective_version
      BY <3>2 DEF build_server_analysis, build_fallback_analysis
    <3>4. FlightWalked'
      BY <2>4, <3>3 DEF FlightWalked
    <3> QED BY <1>1, <2>1, <2>2, <3>1, <3>4 DEF FlightInv
  <2> QED BY <2>3, <2>4
<1> QED BY <1>2, <1>3

LEMMA WalkFlightInv == FlightInv /\ WalkRecord => FlightInv'
<1> SUFFICES ASSUME FlightInv, WalkRecord PROVE FlightInv'
  OBVIOUS
<1>1. BoundsInv' /\ capture' = capture /\ payload' = payload /\ HasFlight' = HasFlight
  BY NextBoundsInv DEF FlightInv, WalkRecord, Next, payload, HasFlight
<1>2. CASE ~HasFlight
  BY <1>1, <1>2 DEF FlightInv
<1>3. CASE HasFlight
  <2>0. PICK sent : sent = capture.sent
    OBVIOUS
  <2>1. /\ BoundsInv /\ CutFlight(payload, sent) /\ WalkReached(sent) /\ Len(payload) \in Nat
        /\ payload \in Seq(Bytes) /\ pc = "walk"
        /\ offset + 5 <= Len(payload) /\ count < MaxRecordsToWalk
    BY <1>3, <2>0 DEF FlightInv, BoundsInv, WalkRecord
  <2>2. PICK k : k = count + 1
    OBVIOUS
  <2>3. /\ k \in DOMAIN sent.flight
        /\ Byte(offset) = sent.flight[k].content_type
        /\ offset + 5 + U16(offset + 3) = sent.starts[k + 1]
        /\ sent.starts[k + 1] \in Nat
    BY <2>1, <2>2, NextRecord
  <2>4. PICK ks : /\ Ascending(ks, DueRecords(sent) \cap 1 .. k)
                  /\ Kept(walked', payload, sent, ks)
    BY <2>1, <2>2, WalkKeeps
  <2>5. k \in 1 .. Len(sent.flight) /\ count \in Nat /\ Len(sent.flight) \in Nat /\ k \in Nat
    BY <2>1, <2>2, <2>3 DEF CutFlight, WalkReached
  <2>6. DueRecords(sent)' = DueRecords(sent)
    BY <1>1 DEF DueRecords
  <2> DEFINE ended == sent.flight[k].content_type # 22 \/ sent.starts[k + 1] > Len(payload)
  <2>7. /\ ended => pc' = "synthesize"
        /\ ~ended => pc' = "walk" /\ offset' = sent.starts[k + 1] /\ count' = k
    BY <2>1, <2>2, <2>3 DEF WalkRecord
  <2>8. CASE ended
    <3>1. DueRecords(sent) \cap 1 .. k = DueRecords(sent)
      <4>1. sent.starts[k + 1] > Len(payload) => sent.starts[k + 1] + 5 > Len(payload)
        BY <2>1, <2>3
      <4>2. k + 1 \in 1 .. Len(sent.flight) + 1
        BY <2>5
      <4> QED BY <2>1, <2>5, <2>8, <4>1, <4>2, NoneLater
    <3>2. WalkOver(sent)'
      BY <1>1, <2>4, <2>6, <3>1 DEF WalkOver
    <3> QED BY <1>1, <2>0, <2>1, <2>7, <2>8, <3>2 DEF FlightInv
  <2>9. CASE ~ended
    <3>1. WalkReached(sent)'
      <4>1. k + 1 = count' + 1 /\ count' \in 0 .. Len(sent.flight)
        BY <2>5, <2>7, <2>9
      <4>2. \A i \in 1 .. k : sent.flight[i].content_type = 22
        BY <2>1, <2>2, <2>5, <2>9 DEF WalkReached
      <4> QED BY <1>1, <2>4, <2>6, <2>7, <2>9, <4>1, <4>2 DEF WalkReached
    <3> QED BY <1>1, <2>0, <2>1, <2>7, <2>9, <3>1 DEF FlightInv
  <2> QED BY <2>8, <2>9
<1> QED BY <1>2, <1>3

LEMMA EndFlightInv == FlightInv /\ EndOfWalk => FlightInv'
<1> SUFFICES ASSUME FlightInv, EndOfWalk PROVE FlightInv'
  OBVIOUS
<1>1. BoundsInv' /\ capture' = capture /\ payload' = payload /\ HasFlight' = HasFlight
      /\ walked' = walked /\ pc' = "synthesize"
  BY NextBoundsInv DEF FlightInv, EndOfWalk, Next, payload, HasFlight, eventVars
<1>2. CASE ~HasFlight
  BY <1>1, <1>2 DEF FlightInv
<1>3. CASE HasFlight
  <2>0. PICK sent : sent = capture.sent
    OBVIOUS
  <2>1. /\ CutFlight(payload, sent) /\ WalkReached(sent) /\ payload \in Seq(Bytes)
        /\ count \in Nat /\ Len(sent.flight) \in Nat /\ count \in 0 .. Len(sent.flight)
        /\ offset = sent.starts[count + 1]
    <3>1. CutFlight(payload, sent) /\ WalkReached(sent) /\ payload \in Seq(Bytes)
      BY <1>3, <2>0 DEF FlightInv, BoundsInv, EndOfWalk
    <3>2. Len(sent.flight) \in Nat
      BY <3>1 DEF CutFlight
    <3>3. count \in 0 .. Len(sent.flight) /\ offset = sent.starts[count + 1]
      BY <3>1 DEF WalkReached
    <3> QED BY <3>1, <3>2, <3>3
  <2>2. DueRecords(sent) \cap 1 .. count = DueRecords(sent)
    <3>1. count + 1 \in 1 .. Len(sent.flight) + 1
      BY <2>1
    <3>2. \/ count >= MaxRecordsToWalk
          \/ sent.starts[count + 1] + 5 > Len(payload)
      BY <2>1 DEF EndOfWalk
    <3> QED BY <2>1, <3>1, <3>2, NoneLater
  <2>3. DueRecords(sent)' = DueRecords(sent)
    BY <1>1 DEF DueRecords
  <2>4. WalkOver(sent)'
    BY <1>1, <2>1, <2>2, <2>3 DEF WalkOver, WalkReached
  <2> QED BY <1>1, <2>0, <2>1, <2>4 DEF FlightInv
<1> QED BY <1>2, <1>3

(* The event of a record that was kept says what is due. *)
LEMMA SaysWhatIsDue ==
  ASSUME payload \in Seq(Bytes), NEW sent, CutFlight(payload, sent),
         NEW k \in DueRecords(sent), NEW w, w.body = CutBody(payload, sent, k),
         w.truncated = (sent.starts[k + 1] > Len(payload))
  PROVE  LET e == Synthesized(w)
         IN  <<e.handshake_type, e.truncated, e.certificate>> = Due(sent, k)
<1> DEFINE r == sent.flight[k]
           b == CutBody(payload, sent, k)
           room == Len(payload) - sent.starts[k] - 5
           due == IF r.leaf # None /\ 10 + Len(r.leaf) <= room THEN r.leaf ELSE None
<1>1. /\ k \in DOMAIN sent.flight /\ sent.starts[k] + 5 < Len(payload)
      /\ First(r.body) \in {11, 13}
  BY DEF DueRecords
<1>2. sent.starts[k] \in Nat /\ Len(payload) \in Nat
  BY <1>1, SMTT(60) DEF CutFlight
<1>3. sent.starts[k] + 5 <= Len(payload)
  BY <1>1, <1>2
<1>4. /\ IsFlightRecord(r) /\ Len(r.body) \in Nat
      /\ b \in Seq(Bytes) /\ Len(b) = Smaller(Len(r.body), room)
      /\ \A i \in 1 .. Len(b) : b[i] = r.body[i]
      /\ sent.starts[k + 1] > Len(payload) <=> room < Len(r.body)
      /\ First(b) \in {11, 13} <=>
           First(r.body) \in {11, 13} /\ sent.starts[k] + 5 < Len(payload)
      /\ First(b) \in {11, 13} => First(b) = First(r.body)
  BY <1>1, <1>3, CutBodyOK
<1>5. First(b) = First(r.body)
  BY <1>1, <1>4
<1>6. room \in Nat
  BY <1>2, <1>3
<1> HIDE DEF b, r, room, due
<1>7. (IF First(b) = 11 THEN LeafAfter4(b) ELSE None) = due
  <2>1. CASE First(b) = 11
    <3>1. Len(r.body) >= 10 + Len(r.leaf) /\ r.leaf \in Certificates
      BY <1>4, <1>5, <2>1 DEF IsFlightRecord
    <3>2. Len(r.leaf) \in Nat
      <4>1. r.leaf \in Seq(0 .. 255)
        BY <3>1, FlightAssumption
      <4> QED BY <4>1
    <3>3. Len(b) <= Len(r.body) /\ (10 + Len(r.leaf) <= Len(b) <=> 10 + Len(r.leaf) <= room)
      BY <1>4, <1>6, <3>1, <3>2 DEF Smaller
    <3>4. LeafAfter4(b) = IF 10 + Len(r.leaf) <= Len(b) THEN r.leaf ELSE None
      BY <1>4, <1>5, <2>1, <3>3, LeafFound
    <3> QED BY <2>1, <3>3, <3>4 DEF due
  <2>2. CASE First(b) # 11
    <3>1. r.leaf = None
      BY <1>4, <1>5, <2>2 DEF IsFlightRecord
    <3> QED BY <2>2, <3>1 DEF due
  <2> QED BY <2>1, <2>2
<1>8. Due(sent, k) = <<First(r.body), room < Len(r.body), due>>
  BY DEF Due, due, r, room
<1>9. w.body = b
  BY DEF b
<1>10. /\ Synthesized(w).handshake_type = First(b)
       /\ Synthesized(w).truncated = w.truncated
       /\ Synthesized(w).certificate = IF First(b) = 11 THEN LeafAfter4(b) ELSE None
  BY <1>9 DEF Synthesized, build_fallback_analysis
<1>11. w.truncated = (room < Len(r.body))
  BY <1>4
<1> QED BY <1>5, <1>7, <1>8, <1>10, <1>11, Zenon

LEMMA SynthesizeFlightInv == FlightInv /\ SynthesizeEvents => FlightInv'
<1> SUFFICES ASSUME FlightInv, SynthesizeEvents PROVE FlightInv'
  OBVIOUS
<1>1. BoundsInv' /\ capture' = capture /\ payload' = payload /\ HasFlight' = HasFlight
      /\ pc' = "done" /\ synth' = [i \in DOMAIN walked |-> Synthesized(walked[i])]
  BY NextBoundsInv DEF FlightInv, SynthesizeEvents, Next, payload, HasFlight
<1>2. CASE ~HasFlight
  BY <1>1, <1>2 DEF FlightInv
<1>3. CASE HasFlight
  <2>0. PICK sent : sent = capture.sent
    OBVIOUS
  <2>1. CutFlight(payload, sent) /\ WalkOver(sent) /\ payload \in Seq(Bytes)
    BY <1>3, <2>0 DEF FlightInv, BoundsInv, SynthesizeEvents
  <2>2. PICK ks : Ascending(ks, DueRecords(sent)) /\ Kept(walked, payload, sent, ks)
    BY <2>1 DEF WalkOver
  <2>3. ks \in Seq(DueRecords(sent)) /\ Len(walked) = Len(ks) /\ DOMAIN walked = 1 .. Len(walked)
        /\ DOMAIN ks = 1 .. Len(ks)
    BY <2>2 DEF Ascending, Kept
  <2>4. DOMAIN synth' = DOMAIN ks /\ ks \in [DOMAIN ks -> DueRecords(sent)]
    BY <1>1, <2>3
  <2>5. DueRecords(sent)' = DueRecords(sent)
    BY <1>1 DEF DueRecords
  <2>6. ASSUME NEW i \in DOMAIN ks
        PROVE  <<synth'[i].handshake_type, synth'[i].truncated, synth'[i].certificate>>
                 = Due(sent, ks[i])
    <3>1. synth'[i] = Synthesized(walked[i]) /\ ks[i] \in DueRecords(sent)
      BY <1>1, <2>3
    <3>2. /\ walked[i].body = CutBody(payload, sent, ks[i])
          /\ walked[i].truncated = (sent.starts[ks[i] + 1] > Len(payload))
      BY <2>2 DEF Kept
    <3> QED BY <2>1, <3>1, <3>2, SaysWhatIsDue
  <2>7. FlightWalked'
    <3>1. capture.sent' = sent
      BY <1>1, <2>0
    <3>2. /\ ks \in [DOMAIN synth' -> DueRecords(sent)']
          /\ \A i, j \in DOMAIN synth' : i < j => ks[i] < ks[j]
          /\ \A k \in DueRecords(sent)' : \E i \in DOMAIN synth' : ks[i] = k
      BY <2>2, <2>4, <2>5 DEF Ascending
    <3>3. \A i \in DOMAIN synth' :
            <<synth'[i].handshake_type, synth'[i].truncated, synth'[i].certificate>>
              = Due(sent, ks[i])'
      BY <1>1, <2>4, <2>6 DEF Due
    <3> QED BY <3>1, <3>2, <3>3 DEF FlightWalked
  <2> QED BY <1>1, <2>0, <2>1, <2>7 DEF FlightInv
<1> QED BY <1>2, <1>3

LEMMA NextFlightInv == FlightInv /\ [Next]_vars => FlightInv'
<1> SUFFICES ASSUME FlightInv, [Next]_vars PROVE FlightInv'
  OBVIOUS
<1>0. BoundsInv'
  BY NextBoundsInv DEF FlightInv
<1>1. CASE ParserNext /\ UNCHANGED eventVars
  <2>1. payload' = payload /\ HasFlight' = HasFlight /\ capture' = capture
    BY <1>1, ParserLeavesWalk DEF payload, HasFlight
  <2> QED BY <1>0, <1>1, <2>1, ParserLeavesWalk DEF FlightInv, eventVars
<1>2. CASE BuildAlertEvent \/ BuildFallback
  <2>1. payload' = payload /\ HasFlight' = HasFlight /\ capture' = capture /\ pc' = "done"
    BY <1>2 DEF payload, HasFlight, BuildAlertEvent, BuildFallback
  <2>2. HasFlight => event'.cipher_suites = <<>>
    BY <1>2 DEF BuildAlertEvent, BuildFallback, WithCertificate, IsCertificate, HasFlight,
                build_fallback_analysis
  <2>3. HasFlight => FlightWalked'
    BY <2>2 DEF FlightWalked
  <2> QED BY <1>0, <2>1, <2>3 DEF FlightInv
<1>3. CASE BuildAnalysis
  BY <1>3, AnalysisFlightInv
<1>4. CASE WalkRecord
  BY <1>4, WalkFlightInv
<1>5. CASE EndOfWalk
  BY <1>5, EndFlightInv
<1>6. CASE SynthesizeEvents
  BY <1>6, SynthesizeFlightInv
<1>7. CASE UNCHANGED vars
  <2>1. UNCHANGED <<capture, pc, offset, event, walked, count, synth>>
    BY <1>7 DEF vars, parserVars, eventVars
  <2>2. payload' = payload /\ HasFlight' = HasFlight
    BY <2>1 DEF payload, HasFlight
  <2>3. WalkReached(capture.sent)' = WalkReached(capture.sent)
        /\ WalkOver(capture.sent)' = WalkOver(capture.sent)
    BY <2>1, <2>2 DEF WalkReached, WalkOver, DueRecords
  <2>4. FlightWalked' = FlightWalked
    BY <2>1, <2>2 DEF FlightWalked, DueRecords, Due
  <2> QED BY <1>0, <2>1, <2>2, <2>3, <2>4 DEF FlightInv
<1> QED BY <1>1, <1>2, <1>3, <1>4, <1>5, <1>6, <1>7 DEF Next

(* The records behind a ServerHello of TLS 1.2, however many of them the   *)
(* kernel has captured and wherever it has cut them: walk_records keeps    *)
(* exactly the Certificates and CertificateRequests among the first four,  *)
(* in order, and the worker's events say of each whether it is cut and, if *)
(* it is all there, its leaf certificate.                                  *)
THEOREM WalksFlights == Spec => []FlightWalked
<1>1. FlightInv => FlightWalked
  BY DEF FlightInv, FlightWalked, HasFlight
<1> QED
  BY <1>1, InitFlightInv, NextFlightInv, PTL DEF Spec

(***************************************************************************)
(* Part 3, hellos that are cut short                                       *)
(***************************************************************************)

(* What is parsed is the beginning of packet c. *)
Captured(c) ==
  /\ c \in Packets /\ capture.sent = c.sent /\ capture.handshake_type = c.handshake_type
  /\ payload \in Seq(Bytes) /\ Len(payload) <= Len(c.payload)
  /\ \A i \in 1 .. Len(payload) : payload[i] = c.payload[i]

LEMMA InitCaptured == Init => \E c : Captured(c)
<1> SUFFICES ASSUME Init PROVE \E c : Captured(c)
  OBVIOUS
<1>0. PICK c \in Packets : \E n \in MinPayload .. Len(c.payload) :
        capture = [c EXCEPT !.payload = SubSeq(@, 1, n)]
  BY DEF Init, ParserInit
<1>1. PICK n \in MinPayload .. Len(c.payload) :
        capture = [c EXCEPT !.payload = SubSeq(@, 1, n)]
  BY <1>0
<1>2. c.payload \in Seq(Bytes)
  BY ParserAssumption DEF Bytes
<1>3. payload = SubSeq(c.payload, 1, n)
  BY <1>1 DEF payload
<1>4. /\ payload \in Seq(Bytes) /\ Len(payload) <= Len(c.payload)
      /\ \A i \in 1 .. Len(payload) : payload[i] = c.payload[i]
  BY <1>2, <1>3 DEF MinPayload
<1>5. capture.sent = c.sent /\ capture.handshake_type = c.handshake_type
  BY <1>1
<1> QED BY <1>4, <1>5 DEF Captured

LEMMA ElementIsNat ==
  ASSUME NEW s \in Seq(Bytes), NEW i \in 1 .. Len(s)
  PROVE  s[i] \in Nat
<1>1. s[i] \in Bytes
  BY ElementOfSeq
<1>2. \A b \in Bytes : b \in Nat
  BY DEF Bytes
<1> QED BY <1>1, <1>2

LEMMA ByteCaptured ==
  ASSUME NEW c, Captured(c), NEW i \in Nat, i + 1 <= Len(payload)
  PROVE  Byte(i) = c.payload[i + 1] /\ Byte(i) \in Nat
<1>1. i + 1 \in 1 .. Len(payload) /\ i < Len(payload) /\ payload \in Seq(Bytes)
  BY DEF Captured
<1>2. payload[i + 1] \in Nat
  BY <1>1, ElementIsNat
<1> QED BY <1>1, <1>2 DEF Captured, Byte

LEMMA U16Captured ==
  ASSUME NEW c, Captured(c), NEW i \in Nat, i + 2 <= Len(payload)
  PROVE  U16(i) = At16(c.payload, i) /\ U16(i) \in Nat
<1>1. Len(payload) \in Nat
  BY DEF Captured
<1>2. i + 1 \in Nat /\ i + 1 <= Len(payload) /\ i + 1 + 1 <= Len(payload) /\ i + 1 + 1 = i + 2
  BY <1>1
<1>3. Byte(i) = c.payload[i + 1] /\ Byte(i + 1) = c.payload[i + 2]
      /\ Byte(i) \in Nat /\ Byte(i + 1) \in Nat
  BY <1>2, ByteCaptured
<1> QED BY <1>3 DEF U16, At16

(* Where the session id starts, where the cipher suites and the            *)
(* compression methods do.                                                 *)
IdStart == HelloStart + 2 + RandomLen + 1
SuitesStart(c) == IdStart + c.payload[IdStart]
MethodsStart(c) == SuitesStart(c) + 2 + 2 * Len(c.sent.cipher_suites)
Count(c) == Len(c.sent.extensions)

(* The fixed part of a hello. *)
LEMMA FixedPart ==
  ASSUME NEW c \in Packets, c.sent # None
  PROVE  LET sent == c.sent
             n    == Len(sent.cipher_suites)
         IN  /\ IdStart \in Nat /\ IdStart >= 12 /\ sent.fixed \in Nat
             /\ IdStart <= sent.fixed /\ sent.fixed <= Len(c.payload)
             /\ c.payload \in Seq(Bytes) /\ Len(c.payload) \in Nat
             /\ SuitesStart(c) \in Nat /\ IdStart <= SuitesStart(c)
             /\ n \in Nat /\ DOMAIN sent.cipher_suites = 1 .. n
             /\ sent.cipher_suites = [i \in 1 .. n |-> sent.cipher_suites[i]]
             /\ sent.legacy_version = At16(c.payload, HelloStart)
             /\ c.handshake_type = 1 =>
                  /\ MethodsStart(c) \in Nat /\ SuitesStart(c) + 2 <= MethodsStart(c)
                  /\ At16(c.payload, SuitesStart(c)) = 2 * n
                  /\ \A i \in 1 .. n : sent.cipher_suites[i] =
                                         At16(c.payload, SuitesStart(c) + 2 * i)
                  /\ MethodsStart(c) < sent.fixed
                  /\ sent.fixed = MethodsStart(c) + 1 + c.payload[MethodsStart(c) + 1]
             /\ c.handshake_type # 1 =>
                  /\ sent.cipher_suites = <<At16(c.payload, SuitesStart(c))>>
                  /\ sent.fixed = SuitesStart(c) + 3
<1> DEFINE sent == c.sent
           n    == Len(sent.cipher_suites)
           P    == c.payload
<1>1. P \in Seq(Bytes) /\ CarriesHello(c, sent) /\ RandomLen \in Nat
  BY ParserAssumption DEF Bytes
<1>2. IdStart \in Nat /\ IdStart >= 12 /\ Len(P) \in Nat
  BY <1>1 DEF IdStart, HelloStart
<1>3. sent.fixed \in IdStart .. Len(P)
  BY <1>1 DEF CarriesHello, IdStart
<1>4. P[IdStart] \in Nat
  <2>1. IdStart \in 1 .. Len(P)
    BY <1>2, <1>3
  <2> QED BY <1>1, <2>1, ElementIsNat
<1>5. SuitesStart(c) \in Nat /\ IdStart <= SuitesStart(c)
  BY <1>2, <1>4 DEF SuitesStart
<1>6. sent.cipher_suites \in Seq({sent.cipher_suites[i] : i \in DOMAIN sent.cipher_suites})
  BY <1>1 DEF CarriesHello, IsSequence
<1>7. n \in Nat /\ DOMAIN sent.cipher_suites = 1 .. n
      /\ sent.cipher_suites = [i \in 1 .. n |-> sent.cipher_suites[i]]
  BY <1>6
<1>8. sent.legacy_version = At16(P, HelloStart)
  BY <1>1 DEF CarriesHello
<1>9. ASSUME c.handshake_type = 1
      PROVE  /\ MethodsStart(c) \in Nat /\ SuitesStart(c) + 2 <= MethodsStart(c)
             /\ At16(P, SuitesStart(c)) = 2 * n
             /\ \A i \in 1 .. n : sent.cipher_suites[i] = At16(P, SuitesStart(c) + 2 * i)
             /\ MethodsStart(c) < sent.fixed
             /\ sent.fixed = MethodsStart(c) + 1 + P[MethodsStart(c) + 1]
  <2>1. MethodsStart(c) \in Nat /\ SuitesStart(c) + 2 <= MethodsStart(c)
    BY <1>5, <1>7 DEF MethodsStart
  <2> QED BY <1>1, <1>9, <2>1 DEF CarriesHello, MethodsStart, SuitesStart, IdStart
<1>10. ASSUME c.handshake_type # 1
       PROVE  sent.cipher_suites = <<At16(P, SuitesStart(c))>> /\ sent.fixed = SuitesStart(c) + 3
  BY <1>1, <1>10 DEF CarriesHello, SuitesStart, IdStart
<1>11. sent.fixed \in Nat /\ IdStart <= sent.fixed /\ sent.fixed <= Len(P)
  BY <1>2, <1>3
<1> HIDE DEF P, n, sent
<1> QED BY <1>1, <1>2, <1>5, <1>7, <1>8, <1>9, <1>10, <1>11 DEF P, n, sent

(* The extensions of a hello, one behind the other. *)
LEMMA ExtensionPart ==
  ASSUME NEW c \in Packets, c.sent # None
  PROVE  LET sent   == c.sent
             starts == sent.ext_starts
             N      == Count(c)
         IN  /\ N \in Nat /\ DOMAIN sent.extensions = 1 .. N
             /\ starts \in [1 .. N + 1 -> Nat] /\ starts[1] = sent.fixed + 2
             /\ starts[N + 1] <= Len(c.payload)
             /\ starts[N + 1] = sent.fixed + 2 + At16(c.payload, sent.fixed)
             /\ \A j, k \in 1 .. N + 1 : j < k => starts[j] + 4 <= starts[k]
             /\ \A k \in 1 .. N :
                  /\ sent.extensions[k] =
                       [ext_type |-> At16(c.payload, starts[k]),
                        data |-> SubSeq(c.payload, starts[k] + 5, starts[k + 1])]
                  /\ starts[k] + 4 + At16(c.payload, starts[k] + 2) = starts[k + 1]
<1> DEFINE sent == c.sent
<1>1. CarriesHello(c, sent)
  BY ParserAssumption
<1>2. sent.extensions \in Seq({sent.extensions[i] : i \in DOMAIN sent.extensions})
  BY <1>1 DEF CarriesHello, IsSequence
<1>3. Count(c) \in Nat /\ DOMAIN sent.extensions = 1 .. Count(c)
  BY <1>2 DEF Count
<1> QED BY <1>1, <1>3 DEF CarriesHello, Count

(* The first q elements of f. *)
Prefix(f, q) == [i \in 1 .. q |-> f[i]]

SentIds(sent) == [i \in DOMAIN sent.extensions |-> sent.extensions[i].ext_type]

LEMMA PrefixGrows ==
  ASSUME NEW f, NEW q \in Nat, NEW x, x = f[q + 1]
  PROVE  Append(Prefix(f, q), x) = Prefix(f, q + 1)
<1> DEFINE V == {f[i] : i \in 1 .. q + 1}
           p == Prefix(f, q)
           a == Append(p, x)
<1>1. p \in Seq(V) /\ Len(p) = q /\ x \in V /\ \A i \in 1 .. q : p[i] = f[i]
  <2>1. p \in [1 .. q -> V] /\ x \in V
    BY DEF Prefix
  <2> QED BY <2>1 DEF Prefix
<1> HIDE DEF V, p
<1>2. /\ a \in Seq(V) /\ Len(a) = q + 1 /\ a[q + 1] = x /\ \A i \in 1 .. q : a[i] = p[i]
  BY <1>1
<1> HIDE DEF a
<1>3. a = [i \in 1 .. q + 1 |-> a[i]]
  BY <1>2
<1>4. ASSUME NEW i \in 1 .. q + 1 PROVE a[i] = f[i]
  <2>1. CASE i = q + 1
    BY <1>2, <2>1
  <2>2. CASE i # q + 1
    <3>1. i \in 1 .. q
      BY <2>2
    <3> QED BY <1>1, <1>2, <3>1
  <2> QED BY <2>1, <2>2
<1> QED BY <1>3, <1>4 DEF Prefix, a, p

LEMMA PrefixOfNone == \A f : Prefix(f, 0) = <<>>
  BY DEF Prefix

(* The fields a hello has. *)
IsHello ==
  hello = [legacy_version |-> hello.legacy_version, cipher_suites |-> hello.cipher_suites,
           extension_ids |-> hello.extension_ids, extensions |-> hello.extensions]

NoExtensions == hello.extension_ids = <<>> /\ hello.extensions = <<>>

FixedRead(sent) ==
  /\ hello.legacy_version = sent.legacy_version
  /\ hello.cipher_suites = sent.cipher_suites

(* The extension block, as much of it as the payload has. *)
InBlock(sent) ==
  /\ ext_start = sent.fixed + 2 /\ ext_start <= Len(payload)
  /\ ext_end = Smaller(Len(payload), sent.ext_starts[Len(sent.extensions) + 1])

(* The ids of the first q extensions were read: their headers are there. *)
IdsRead(sent, q) ==
  /\ hello.extension_ids = Prefix(SentIds(sent), q)
  /\ \A i \in 1 .. q : sent.ext_starts[i] + 4 <= Len(payload)

(* All ids there are. *)
IdsDone(sent) ==
  \E q \in 0 .. Len(sent.extensions) :
    /\ IdsRead(sent, q)
    /\ q < Len(sent.extensions) => sent.ext_starts[q + 1] + 4 > Len(payload)

(* How far the parser has come with the hello of packet c. *)
HelloReached(c) ==
  LET sent == c.sent
      N    == Count(c)
  IN  /\ pc \in {"record", "header", "cipher_suites", "compression", "cipher_suite",
                 "extensions"} => NoExtensions
      /\ pc = "header" => offset = HelloStart
      /\ pc \in {"cipher_suites", "cipher_suite"} =>
           /\ is_client <=> pc = "cipher_suites"
           /\ offset = SuitesStart(c) /\ hello.legacy_version = sent.legacy_version
      /\ pc = "compression" => is_client /\ offset = MethodsStart(c) /\ FixedRead(sent)
      /\ pc = "extensions" =>
           offset = sent.fixed /\ sent.fixed <= Len(payload) /\ FixedRead(sent)
      /\ pc = "extension_ids" =>
           /\ FixedRead(sent) /\ InBlock(sent) /\ hello.extensions = <<>>
           /\ \E q \in 0 .. N : IdsRead(sent, q) /\ offset = sent.ext_starts[q + 1]
      /\ pc = "parse_extensions" =>
           /\ FixedRead(sent) /\ InBlock(sent)
           /\ is_client => IdsDone(sent)
           /\ \E m \in 0 .. N : /\ hello.extensions = Prefix(sent.extensions, m)
                                /\ offset = sent.ext_starts[m + 1] /\ offset <= Len(payload)
      /\ pc = "parsed" =>
           /\ sent.fixed <= Len(payload) /\ FixedRead(sent)
           /\ is_client => IdsDone(sent)
           /\ \E m \in 0 .. N : /\ hello.extensions = Prefix(sent.extensions, m)
                                /\ WholeExtensions(sent) = 1 .. m
      /\ pc = "err" => Len(payload) < sent.fixed

HelloInv ==
  /\ BoundsInv /\ IsHello
  /\ \E c : Captured(c) /\ (c.sent # None => HelloReached(c))

(* A hello whose fixed part is cut is not parsed, one whose fixed part is  *)
(* there is not refused.                                                   *)
LEMMA RecordReached ==
  ASSUME BoundsInv, NEW c, Captured(c), c.sent # None, HelloReached(c), ParseTlsPayload
  PROVE  HelloReached(c)'
<1>1. /\ pc = "record" /\ NoExtensions /\ hello' = hello
      /\ payload' = payload /\ c \in Packets /\ Len(payload) \in Nat
  BY DEF ParseTlsPayload, HelloReached, Fail, payload, BoundsInv, Captured
<1>2. NoExtensions'
  BY <1>1 DEF NoExtensions
<1>3. CASE Len(payload) < HelloStart
  <2>1. pc' = "err"
    BY <1>3 DEF ParseTlsPayload, Fail
  <2>2. Len(payload) < c.sent.fixed
    <3>1. IdStart \in Nat /\ IdStart >= 12 /\ c.sent.fixed \in Nat /\ IdStart <= c.sent.fixed
      BY <1>1, FixedPart
    <3> QED BY <1>1, <1>3, <3>1 DEF HelloStart
  <2> QED BY <1>1, <2>1, <2>2 DEF HelloReached
<1>4. CASE ~(Len(payload) < HelloStart)
  <2>1. pc' = "header" /\ offset' = HelloStart
    BY <1>4 DEF ParseTlsPayload, GoTo
  <2> QED BY <1>2, <2>1 DEF HelloReached
<1> QED BY <1>3, <1>4

LEMMA HeaderReached ==
  ASSUME BoundsInv, IsHello, NEW c, Captured(c), c.sent # None, HelloReached(c),
         ClientHeader \/ ServerHeader
  PROVE  HelloReached(c)' /\ IsHello'
<1> DEFINE L == Len(payload)
           next == IF is_client THEN "cipher_suites" ELSE "cipher_suite"
<1>1. /\ pc = "header" /\ NoExtensions /\ offset = HelloStart /\ c \in Packets
      /\ payload' = payload /\ L \in Nat /\ capture' = capture /\ Header(next)
  BY DEF ClientHeader, ServerHeader, Header, HelloReached, payload, BoundsInv, Captured
<1>2. /\ IdStart \in Nat /\ IdStart >= 12 /\ IdStart <= c.sent.fixed /\ c.sent.fixed \in Nat
      /\ SuitesStart(c) \in Nat /\ IdStart <= SuitesStart(c) /\ SuitesStart(c) <= c.sent.fixed
      /\ c.sent.legacy_version = At16(c.payload, HelloStart)
  <2>1. /\ IdStart \in Nat /\ IdStart >= 12 /\ IdStart <= c.sent.fixed /\ c.sent.fixed \in Nat
        /\ SuitesStart(c) \in Nat /\ IdStart <= SuitesStart(c)
        /\ c.sent.legacy_version = At16(c.payload, HelloStart)
        /\ c.handshake_type # 1 => c.sent.fixed = SuitesStart(c) + 3
        /\ c.handshake_type = 1 => /\ MethodsStart(c) \in Nat
                                  /\ SuitesStart(c) + 2 <= MethodsStart(c)
                                  /\ MethodsStart(c) < c.sent.fixed
    BY <1>1, FixedPart
  <2> QED BY <2>1
<1>3. L >= IdStart => IdStart + Byte(IdStart - 1) = SuitesStart(c)
  <2> SUFFICES ASSUME L >= IdStart PROVE IdStart + Byte(IdStart - 1) = SuitesStart(c)
    OBVIOUS
  <2>1. IdStart - 1 \in Nat /\ IdStart - 1 + 1 = IdStart
    BY <1>2
  <2>2. Byte(IdStart - 1) = c.payload[IdStart]
    BY <2>1, ByteCaptured
  <2> QED BY <2>2 DEF SuitesStart
<1>4. CASE L < IdStart \/ L < IdStart + Byte(IdStart - 1)
  <2>1. pc' = "err" /\ hello' = hello
    BY <1>1, <1>4 DEF Header, Fail, IdStart
  <2>2. L < c.sent.fixed
    BY <1>1, <1>2, <1>3, <1>4
  <2> QED BY <1>1, <2>1, <2>2 DEF HelloReached, IsHello
<1>5. CASE ~(L < IdStart \/ L < IdStart + Byte(IdStart - 1))
  <2>1. /\ pc' = next /\ offset' = IdStart + Byte(IdStart - 1)
        /\ hello' = [hello EXCEPT !.legacy_version = U16(offset)]
    BY <1>1, <1>5 DEF Header, GoTo, IdStart
  <2>2. offset' = SuitesStart(c)
    BY <1>1, <1>2, <1>3, <1>5, <2>1
  <2>3. U16(offset) = c.sent.legacy_version
    <3>1. HelloStart \in Nat /\ HelloStart + 2 <= L
      BY <1>1, <1>2, <1>5 DEF HelloStart
    <3> QED BY <1>1, <1>2, <3>1, U16Captured
  <2>4. IsHello' /\ NoExtensions' /\ hello'.legacy_version = c.sent.legacy_version
    BY <1>1, <2>1, <2>3 DEF IsHello, NoExtensions
  <2>5. is_client' = is_client
    BY <1>1 DEF is_client
  <2> QED BY <2>1, <2>2, <2>4, <2>5 DEF HelloReached
<1> QED BY <1>4, <1>5

LEMMA SuitesReached ==
  ASSUME BoundsInv, IsHello, NEW c, Captured(c), c.sent # None, HelloReached(c),
         ClientCipherSuites
  PROVE  HelloReached(c)' /\ IsHello'
<1> DEFINE L == Len(payload)
           at == SuitesStart(c)
           n == Len(c.sent.cipher_suites)
           list == offset + 2
<1>1. /\ pc = "cipher_suites" /\ NoExtensions /\ offset = at /\ c \in Packets /\ is_client
      /\ payload' = payload /\ L \in Nat /\ capture' = capture
      /\ hello.legacy_version = c.sent.legacy_version
  BY DEF ClientCipherSuites, HelloReached, payload, BoundsInv, Captured
<1>2. c.handshake_type = 1
  BY <1>1 DEF is_client, Captured
<1>3. /\ at \in Nat /\ n \in Nat /\ c.sent.fixed \in Nat
      /\ MethodsStart(c) \in Nat /\ at + 2 <= MethodsStart(c)
      /\ At16(c.payload, at) = 2 * n
      /\ \A i \in 1 .. n : c.sent.cipher_suites[i] = At16(c.payload, at + 2 * i)
      /\ MethodsStart(c) < c.sent.fixed
      /\ c.sent.cipher_suites = [i \in 1 .. n |-> c.sent.cipher_suites[i]]
  BY <1>1, <1>2, FixedPart
<1>4. at + 2 + 2 * n = MethodsStart(c)
  BY DEF MethodsStart
<1> HIDE DEF at, n
<1>5. L >= list => U16(offset) = 2 * n
  BY <1>1, <1>3, U16Captured
<1>6. CASE L < list \/ L < list + U16(offset)
  <2>1. pc' = "err" /\ hello' = hello
    BY <1>1, <1>6 DEF ClientCipherSuites, Fail
  <2>2. L < c.sent.fixed
    BY <1>1, <1>3, <1>4, <1>5, <1>6
  <2> QED BY <1>1, <2>1, <2>2 DEF HelloReached, IsHello
<1>7. CASE ~(L < list \/ L < list + U16(offset))
  <2>0. U16(offset) = 2 * n /\ list + 2 * n <= L
    BY <1>1, <1>3, <1>5, <1>7
  <2> DEFINE suites == [k \in 1 .. U16(offset) \div 2 |-> U16(list + 2 * (k - 1))]
  <2>1. /\ pc' = "compression" /\ offset' = list + U16(offset)
        /\ hello' = [hello EXCEPT !.cipher_suites = suites]
    BY <1>1, <1>7 DEF ClientCipherSuites, GoTo
  <2>2. offset' = MethodsStart(c)
    BY <1>1, <1>3, <1>4, <2>0, <2>1
  <2>3. suites = c.sent.cipher_suites
    <3>1. U16(offset) \div 2 = n
      BY <1>3, <2>0
    <3>2. ASSUME NEW k \in 1 .. n PROVE U16(list + 2 * (k - 1)) = c.sent.cipher_suites[k]
      <4>1. list + 2 * (k - 1) = at + 2 * k /\ at + 2 * k \in Nat /\ at + 2 * k + 2 <= L
        <5>1. list = at + 2 /\ k \in Nat /\ k <= n /\ at \in Nat /\ n \in Nat
          BY <1>1, <1>3
        <5> HIDE DEF list, L
        <5> QED BY <1>1, <2>0, <5>1
      <4> QED BY <1>3, <4>1, U16Captured
    <3> QED BY <1>3, <3>1, <3>2
  <2> HIDE DEF suites
  <2>4. IsHello' /\ NoExtensions' /\ FixedRead(c.sent)'
    BY <1>1, <2>1, <2>3 DEF IsHello, NoExtensions, FixedRead
  <2>5. is_client'
    BY <1>1 DEF is_client
  <2> QED BY <2>1, <2>2, <2>4, <2>5 DEF HelloReached
<1> QED BY <1>6, <1>7

LEMMA CompressionReached ==
  ASSUME BoundsInv, NEW c, Captured(c), c.sent # None, HelloReached(c), ClientCompression
  PROVE  HelloReached(c)'
<1> DEFINE L == Len(payload)
           at == MethodsStart(c)
<1>1. /\ pc = "compression" /\ NoExtensions /\ offset = at /\ c \in Packets /\ is_client
      /\ payload' = payload /\ L \in Nat /\ capture' = capture /\ FixedRead(c.sent)
      /\ hello' = hello
  BY DEF ClientCompression, HelloReached, payload, BoundsInv, Captured, Fail
<1>2. c.handshake_type = 1
  BY <1>1 DEF is_client, Captured
<1>3. /\ at \in Nat /\ c.sent.fixed \in Nat /\ at < c.sent.fixed
      /\ c.sent.fixed = at + 1 + c.payload[at + 1]
  BY <1>1, <1>2, FixedPart
<1> HIDE DEF at
<1>4. L > offset => offset + 1 + Byte(offset) = c.sent.fixed
  <2> SUFFICES ASSUME L > offset PROVE offset + 1 + Byte(offset) = c.sent.fixed
    OBVIOUS
  <2>1. Byte(offset) = c.payload[at + 1]
    BY <1>1, <1>3, ByteCaptured
  <2> QED BY <1>1, <1>3, <2>1
<1>5. NoExtensions' /\ FixedRead(c.sent)'
  BY <1>1 DEF NoExtensions, FixedRead
<1>6. CASE L <= offset \/ L < offset + 1 + Byte(offset)
  <2>1. pc' = "err"
    BY <1>6 DEF ClientCompression, Fail
  <2>2. L < c.sent.fixed
    BY <1>1, <1>3, <1>4, <1>6
  <2> QED BY <1>1, <2>1, <2>2 DEF HelloReached
<1>7. CASE ~(L <= offset \/ L < offset + 1 + Byte(offset))
  <2>1. pc' = "extensions" /\ offset' = offset + 1 + Byte(offset)
    BY <1>7 DEF ClientCompression, GoTo
  <2>2. offset' = c.sent.fixed /\ c.sent.fixed <= L
    BY <1>1, <1>3, <1>4, <1>7, <2>1
  <2> QED BY <1>1, <1>5, <2>1, <2>2 DEF HelloReached
<1> QED BY <1>6, <1>7

LEMMA SuiteReached ==
  ASSUME BoundsInv, IsHello, NEW c, Captured(c), c.sent # None, HelloReached(c),
         ServerCipherSuite
  PROVE  HelloReached(c)' /\ IsHello'
<1> DEFINE L == Len(payload)
           at == SuitesStart(c)
<1>1. /\ pc = "cipher_suite" /\ NoExtensions /\ offset = at /\ c \in Packets /\ ~is_client
      /\ payload' = payload /\ L \in Nat /\ capture' = capture
      /\ hello.legacy_version = c.sent.legacy_version
  BY DEF ServerCipherSuite, HelloReached, payload, BoundsInv, Captured
<1>2. c.handshake_type # 1
  BY <1>1 DEF is_client, Captured
<1>3. /\ at \in Nat /\ c.sent.fixed = at + 3
      /\ c.sent.cipher_suites = <<At16(c.payload, at)>>
  BY <1>1, <1>2, FixedPart
<1> HIDE DEF at
<1>4. CASE L < offset + 3
  <2>1. pc' = "err" /\ hello' = hello
    BY <1>4 DEF ServerCipherSuite, Fail
  <2>2. L < c.sent.fixed
    BY <1>1, <1>3, <1>4
  <2> QED BY <1>1, <2>1, <2>2 DEF HelloReached, IsHello
<1>5. CASE ~(L < offset + 3)
  <2>1. /\ pc' = "extensions" /\ offset' = offset + 3
        /\ hello' = [hello EXCEPT !.cipher_suites = <<U16(offset)>>]
    BY <1>5 DEF ServerCipherSuite, GoTo
  <2>2. offset' = c.sent.fixed /\ c.sent.fixed <= L
    BY <1>1, <1>3, <1>5, <2>1
  <2>3. U16(offset) = At16(c.payload, at)
    <3>1. at + 2 <= L
      BY <1>1, <1>3, <1>5
    <3> QED BY <1>1, <1>3, <3>1, U16Captured
  <2>4. IsHello' /\ NoExtensions' /\ FixedRead(c.sent)'
    BY <1>1, <1>3, <2>1, <2>3 DEF IsHello, NoExtensions, FixedRead
  <2> QED BY <1>1, <2>1, <2>2, <2>4 DEF HelloReached
<1> QED BY <1>4, <1>5

(* The extensions start one behind the other. *)
LEMMA StartsGrow ==
  ASSUME NEW c \in Packets, c.sent # None
  PROVE  /\ \A k \in 1 .. Count(c) + 1 : c.sent.ext_starts[k] \in Nat
         /\ \A j, k \in 1 .. Count(c) + 1 :
              j <= k => c.sent.ext_starts[j] <= c.sent.ext_starts[k]
<1> DEFINE N == Count(c)
           starts == c.sent.ext_starts
<1>1. /\ N \in Nat /\ starts \in [1 .. N + 1 -> Nat]
      /\ \A j, k \in 1 .. N + 1 : j < k => starts[j] + 4 <= starts[k]
  BY ExtensionPart
<1> HIDE DEF N, starts
<1>2. ASSUME NEW j \in 1 .. N + 1, NEW k \in 1 .. N + 1, j <= k
      PROVE  starts[j] <= starts[k]
  <2>1. starts[j] \in Nat /\ starts[k] \in Nat
    BY <1>1
  <2>2. CASE j = k
    BY <2>1, <2>2
  <2>3. CASE j < k
    <3>1. starts[j] + 4 <= starts[k]
      BY <1>1, <2>3
    <3> QED BY <2>1, <3>1
  <2> QED BY <1>1, <1>2, <2>2, <2>3
<1> QED BY <1>1, <1>2 DEF N, starts

(* The first m extensions are whole. *)
LEMMA WholeUpTo ==
  ASSUME NEW c, Captured(c), c.sent # None, NEW m \in 0 .. Count(c),
         m > 0 => c.sent.ext_starts[m + 1] <= Len(payload),
         m < Count(c) => c.sent.ext_starts[m + 2] > Len(payload)
  PROVE  WholeExtensions(c.sent) = 1 .. m
<1> DEFINE N == Count(c)
           starts == c.sent.ext_starts
           L == Len(payload)
<1>1. /\ c \in Packets /\ N \in Nat /\ DOMAIN c.sent.extensions = 1 .. N /\ L \in Nat
  BY ExtensionPart DEF Captured
<1>2. WholeExtensions(c.sent) = {k \in 1 .. N : starts[k + 1] <= L}
  BY <1>1 DEF WholeExtensions
<1>3. /\ \A k \in 1 .. N + 1 : starts[k] \in Nat
      /\ \A j, k \in 1 .. N + 1 : j <= k => starts[j] <= starts[k]
  BY <1>1, StartsGrow
<1>4. m \in 0 .. N /\ (m > 0 => starts[m + 1] <= L) /\ (m < N => starts[m + 2] > L)
  OBVIOUS
<1> HIDE DEF N, starts, L
<1>5. ASSUME NEW k \in 1 .. N PROVE starts[k + 1] <= L <=> k <= m
  <2>1. CASE k <= m
    <3>1. k + 1 \in 1 .. N + 1 /\ m + 1 \in 1 .. N + 1 /\ k + 1 <= m + 1 /\ m > 0
      BY <1>1, <1>4, <2>1
    <3>2. starts[k + 1] <= starts[m + 1] /\ starts[m + 1] <= L
          /\ starts[k + 1] \in Nat /\ starts[m + 1] \in Nat
      BY <1>3, <1>4, <3>1
    <3> QED BY <1>1, <2>1, <3>2
  <2>2. CASE ~(k <= m)
    <3>1. k + 1 \in 1 .. N + 1 /\ m + 2 \in 1 .. N + 1 /\ m + 2 <= k + 1 /\ m < N
      BY <1>1, <1>4, <2>2
    <3>2. starts[m + 2] <= starts[k + 1] /\ starts[m + 2] > L
          /\ starts[k + 1] \in Nat /\ starts[m + 2] \in Nat
      BY <1>3, <1>4, <3>1
    <3> QED BY <1>1, <2>2, <3>2
  <2> QED BY <2>1, <2>2
<1> QED BY <1>1, <1>2, <1>4, <1>5

(* Without the header of an extension, none is read. *)
LEMMA NothingRead ==
  ASSUME NEW c, Captured(c), c.sent # None, NoExtensions,
         Count(c) > 0 => c.sent.ext_starts[1] + 4 > Len(payload)
  PROVE  /\ IdsDone(c.sent)
         /\ hello.extensions = Prefix(c.sent.extensions, 0)
         /\ WholeExtensions(c.sent) = 1 .. 0
<1> DEFINE N == Count(c)
           starts == c.sent.ext_starts
<1>1. /\ c \in Packets /\ N \in Nat /\ Len(payload) \in Nat
      /\ \A j, k \in 1 .. N + 1 : j < k => starts[j] + 4 <= starts[k]
  BY ExtensionPart DEF Captured
<1>2. \A k \in 1 .. N + 1 : starts[k] \in Nat
  BY <1>1, StartsGrow
<1>3. IdsRead(c.sent, 0)
  BY PrefixOfNone DEF IdsRead, NoExtensions
<1>4. IdsDone(c.sent)
  BY <1>1, <1>3 DEF IdsDone, Count
<1>5. N > 0 => starts[0 + 2] > Len(payload)
  <2> SUFFICES ASSUME N > 0 PROVE starts[2] > Len(payload)
    OBVIOUS
  <2>1. starts[1] + 4 > Len(payload)
    OBVIOUS
  <2> HIDE DEF N, starts
  <2>2. 1 \in 1 .. N + 1 /\ 2 \in 1 .. N + 1
    BY <1>1
  <2>3. starts[1] + 4 <= starts[2] /\ starts[1] \in Nat /\ starts[2] \in Nat
    BY <1>1, <1>2, <2>2
  <2> QED BY <1>1, <2>1, <2>3
<1>6. WholeExtensions(c.sent) = 1 .. 0
  BY <1>1, <1>5, WholeUpTo
<1> QED BY <1>4, <1>6, PrefixOfNone DEF NoExtensions

LEMMA BlockReached ==
  ASSUME BoundsInv, NEW c, Captured(c), c.sent # None, HelloReached(c),
         ClientExtensions \/ ServerExtensions
  PROVE  HelloReached(c)'
<1> DEFINE L == Len(payload)
           sent == c.sent
           N == Count(c)
           starts == c.sent.ext_starts
           block == offset + 2
           len == Smaller(L - block, U16(offset))
           next == IF is_client THEN "extension_ids" ELSE "parse_extensions"
<1>1. /\ pc = "extensions" /\ NoExtensions /\ offset = sent.fixed /\ sent.fixed <= L
      /\ FixedRead(sent) /\ c \in Packets /\ L \in Nat /\ offset \in Nat
      /\ capture' = capture /\ payload' = payload /\ hello' = hello /\ ExtensionBlock(next)
  BY DEF ClientExtensions, ServerExtensions, ExtensionBlock, HelloReached, payload, BoundsInv,
         Captured
<1>2. /\ N \in Nat /\ starts[1] = block /\ starts[N + 1] = block + At16(c.payload, offset)
      /\ \A j, k \in 1 .. N + 1 : j < k => starts[j] + 4 <= starts[k]
      /\ \A k \in 1 .. N + 1 : starts[k] \in Nat
  BY <1>1, ExtensionPart, StartsGrow
<1>3. FixedRead(sent)' /\ NoExtensions' /\ is_client' = is_client
  BY <1>1 DEF FixedRead, NoExtensions, is_client
<1>4. ASSUME pc' = "parsed", N > 0 => starts[1] + 4 > L
      PROVE  HelloReached(c)'
  <2>1. /\ IdsDone(sent) /\ WholeExtensions(sent) = 1 .. 0
        /\ hello.extensions = Prefix(sent.extensions, 0)
    BY <1>1, <1>4, NothingRead
  <2>2. IdsDone(sent)' /\ WholeExtensions(sent)' = 1 .. 0
    BY <1>1, <2>1 DEF IdsDone, IdsRead, WholeExtensions
  <2>3. 0 \in 0 .. N
    BY <1>2
  <2> QED BY <1>1, <1>3, <1>4, <2>1, <2>2, <2>3 DEF HelloReached
<1>5. CASE L < block
  <2>1. pc' = "parsed"
    BY <1>1, <1>5 DEF ExtensionBlock
  <2>2. starts[1] + 4 > L
    BY <1>1, <1>2, <1>5
  <2> QED BY <1>4, <2>1, <2>2
<1>6. CASE ~(L < block)
  <2>1. /\ pc' = IF len > 0 THEN next ELSE "parsed"
        /\ offset' = block /\ ext_start' = block /\ ext_end' = block + len
    BY <1>1, <1>6 DEF ExtensionBlock, GoTo
  <2>2. U16(offset) = At16(c.payload, offset) /\ U16(offset) \in Nat
    BY <1>1, <1>6, U16Captured
  <2>3. starts[N + 1] = block + U16(offset)
    BY <1>2, <2>2
  <2>4. CASE len > 0
    <3>1. block + len = Smaller(L, starts[N + 1])
      <4> HIDE DEF L
      <4>1. starts[N + 1] = block + U16(offset) /\ block \in Nat /\ block <= L /\ L \in Nat
        BY <1>1, <1>6, <2>3
      <4> HIDE DEF block, starts
      <4> QED BY <2>2, <4>1 DEF Smaller
    <3>2. InBlock(sent)'
      BY <1>1, <1>6, <2>1, <3>1 DEF InBlock, Count
    <3>3. 0 \in 0 .. N /\ offset' = starts[0 + 1] /\ offset' <= L /\ pc' = next
      BY <1>1, <1>2, <1>6, <2>1, <2>4
    <3>4. IdsRead(sent, 0)'
      BY <1>3, PrefixOfNone DEF IdsRead, NoExtensions
    <3>5. CASE is_client
      BY <1>1, <1>3, <3>2, <3>3, <3>4, <3>5 DEF HelloReached, NoExtensions
    <3>6. CASE ~is_client
      <4>1. hello'.extensions = Prefix(sent.extensions, 0)
        BY <1>3, PrefixOfNone DEF NoExtensions
      <4> QED BY <1>1, <1>3, <3>2, <3>3, <3>6, <4>1 DEF HelloReached
    <3> QED BY <3>5, <3>6
  <2>5. CASE ~(len > 0)
    <3>1. L = block \/ U16(offset) = 0
      BY <1>1, <1>6, <2>2, <2>5 DEF Smaller
    <3>2. N > 0 => starts[1] + 4 > L
      <4> SUFFICES ASSUME N > 0 PROVE starts[1] + 4 > L
        OBVIOUS
      <4> HIDE DEF N, starts, L
      <4>1. 1 \in 1 .. N + 1 /\ N + 1 \in 1 .. N + 1 /\ 1 < N + 1
        BY <1>2
      <4>2. starts[1] + 4 <= starts[N + 1]
        BY <1>2, <4>1
      <4>3. U16(offset) # 0
        BY <1>1, <1>2, <2>3, <4>2
      <4> QED BY <1>1, <1>2, <3>1, <4>3
    <3> QED BY <1>4, <2>1, <2>5, <3>2
  <2> QED BY <2>4, <2>5
<1> QED BY <1>5, <1>6

(* In the extension block, behind the first k extensions: when the header  *)
(* of the next one is there, it is read as it was sent; when it is not,    *)
(* the payload ends, or there is no next one.                              *)
LEMMA AtExtension ==
  ASSUME BoundsInv, NEW c, Captured(c), c.sent # None, InBlock(c.sent),
         NEW k \in 0 .. Count(c), offset = c.sent.ext_starts[k + 1]
  PROVE  LET sent == c.sent
             next == sent.ext_starts[k + 2]
         IN  /\ offset + 4 <= ext_end =>
                  /\ k + 1 \in 1 .. Count(c) /\ k + 2 \in 1 .. Count(c) + 1
                  /\ U16(offset) = sent.extensions[k + 1].ext_type
                  /\ offset + 4 + U16(offset + 2) = next
                  /\ offset + 4 <= Len(payload) /\ next \in Nat
                  /\ next <= ext_end => next <= Len(payload)
                  /\ ~(next <= ext_end) => next > Len(payload)
             /\ ~(offset + 4 <= ext_end) /\ k < Count(c) =>
                  offset + 4 > Len(payload) /\ next > Len(payload)
<1> DEFINE N == Count(c)
           starts == c.sent.ext_starts
           L == Len(payload)
           next == starts[k + 2]
           exts == c.sent.extensions
<1>1. /\ c \in Packets /\ N \in Nat /\ L \in Nat /\ offset \in Nat
      /\ \A i \in 1 .. N + 1 : starts[i] \in Nat
      /\ \A i, j \in 1 .. N + 1 : i < j => starts[i] + 4 <= starts[j]
      /\ \A i, j \in 1 .. N + 1 : i <= j => starts[i] <= starts[j]
      /\ \A i \in 1 .. N :
           /\ exts[i].ext_type = At16(c.payload, starts[i])
           /\ starts[i] + 4 + At16(c.payload, starts[i] + 2) = starts[i + 1]
  <2>1. c \in Packets /\ L \in Nat /\ offset \in Nat
    BY DEF Captured, BoundsInv
  <2>2. /\ N \in Nat
        /\ \A i, j \in 1 .. N + 1 : i < j => starts[i] + 4 <= starts[j]
        /\ \A i \in 1 .. N :
             /\ exts[i] = [ext_type |-> At16(c.payload, starts[i]),
                           data |-> SubSeq(c.payload, starts[i] + 5, starts[i + 1])]
             /\ starts[i] + 4 + At16(c.payload, starts[i] + 2) = starts[i + 1]
    BY <2>1, ExtensionPart
  <2>3. /\ \A i \in 1 .. N + 1 : starts[i] \in Nat
        /\ \A i, j \in 1 .. N + 1 : i <= j => starts[i] <= starts[j]
    BY <2>1, StartsGrow
  <2> HIDE DEF N, starts, L, exts
  <2>4. ASSUME NEW i \in 1 .. N PROVE exts[i].ext_type = At16(c.payload, starts[i])
    <3>1. exts[i] = [ext_type |-> At16(c.payload, starts[i]),
                     data |-> SubSeq(c.payload, starts[i] + 5, starts[i + 1])]
      BY <2>2
    <3> QED BY <3>1
  <2> QED BY <2>1, <2>2, <2>3, <2>4
<1>2. ext_end = Smaller(L, starts[N + 1]) /\ offset = starts[k + 1]
  BY DEF InBlock, Count
<1>3. k \in 0 .. N
  OBVIOUS
<1> HIDE DEF N, starts, L, exts
<1>4. N + 1 \in 1 .. N + 1 /\ starts[N + 1] \in Nat /\ ext_end <= L
      /\ ext_end <= starts[N + 1] /\ (ext_end = L \/ ext_end = starts[N + 1])
  BY <1>1, <1>2 DEF Smaller
<1>5. k < N => /\ k + 1 \in 1 .. N /\ k + 1 \in 1 .. N + 1 /\ k + 2 \in 1 .. N + 1
               /\ next \in Nat /\ next <= starts[N + 1] /\ offset + 4 <= next
  <2> SUFFICES ASSUME k < N
               PROVE  /\ k + 1 \in 1 .. N /\ k + 1 \in 1 .. N + 1 /\ k + 2 \in 1 .. N + 1
                      /\ next \in Nat /\ next <= starts[N + 1] /\ offset + 4 <= next
    OBVIOUS
  <2>1. /\ k + 1 \in 1 .. N /\ k + 1 \in 1 .. N + 1 /\ k + 2 \in 1 .. N + 1
        /\ k + 1 < k + 2 /\ k + 2 <= N + 1
    BY <1>1, <1>3
  <2> QED BY <1>1, <1>2, <1>4, <2>1
<1>6. ASSUME offset + 4 <= ext_end
      PROVE  /\ k + 1 \in 1 .. N /\ k + 2 \in 1 .. N + 1
             /\ U16(offset) = exts[k + 1].ext_type
             /\ offset + 4 + U16(offset + 2) = next
             /\ offset + 4 <= L /\ next \in Nat
             /\ next <= ext_end => next <= L
             /\ ~(next <= ext_end) => next > L
  <2>1. k < N
    <3>1. k # N
      BY <1>1, <1>2, <1>4, <1>6
    <3> QED BY <1>1, <1>3, <3>1, SMTT(60)
  <2>2. offset + 4 <= L /\ ext_end \in Nat
    BY <1>1, <1>4, <1>6
  <2>3. U16(offset) = At16(c.payload, offset) /\ U16(offset + 2) = At16(c.payload, offset + 2)
    <3>1. offset + 2 \in Nat /\ offset + 2 <= L /\ offset + 2 + 2 <= L
      BY <1>1, <2>2
    <3> QED BY <1>1, <3>1, U16Captured DEF L
  <2>4. U16(offset) = exts[k + 1].ext_type
    BY <1>1, <1>2, <1>5, <2>1, <2>3
  <2>5. k + 1 + 1 = k + 2
    BY <1>1, <1>3
  <2>6. offset + 4 + U16(offset + 2) = next
    BY <1>1, <1>2, <1>5, <2>1, <2>3, <2>5
  <2>7. next \in Nat /\ (next <= ext_end => next <= L) /\ (~(next <= ext_end) => next > L)
    <3> HIDE DEF next
    <3> QED BY <1>1, <1>4, <1>5, <2>1, <2>2
  <2> QED BY <1>5, <2>1, <2>2, <2>4, <2>6, <2>7
<1>7. ASSUME ~(offset + 4 <= ext_end), k < N
      PROVE  offset + 4 > L /\ next > L
  <2> HIDE DEF next
  <2> QED BY <1>1, <1>4, <1>5, <1>7
<1> QED BY <1>6, <1>7 DEF N, starts, L, exts

(* A stretch of a sequence. *)
LEMMA SliceOf ==
  ASSUME NEW s \in Seq(Bytes), NEW at \in Nat, NEW end \in Nat, end <= Len(s)
  PROVE  LET a == SubSeq(s, at + 5, end)
             n == IF at + 5 <= end THEN end - at - 4 ELSE 0
         IN  /\ a \in Seq(Bytes) /\ Len(a) = n
             /\ \A i \in 1 .. n : a[i] = s[at + 4 + i]
  OBVIOUS

(* The same stretch of a payload and of the packet it was cut from. *)
LEMMA SameSlice ==
  ASSUME NEW s \in Seq(Bytes), NEW t \in Seq(Bytes), Len(s) <= Len(t),
         \A i \in 1 .. Len(s) : s[i] = t[i],
         NEW at \in Nat, NEW end \in Nat, end <= Len(s)
  PROVE  SubSeq(s, at + 5, end) = SubSeq(t, at + 5, end)
<1> DEFINE a == SubSeq(s, at + 5, end)
           b == SubSeq(t, at + 5, end)
           n == IF at + 5 <= end THEN end - at - 4 ELSE 0
<1>1. Len(s) \in Nat /\ Len(t) \in Nat /\ n \in Nat
  OBVIOUS
<1>2. end <= Len(t)
  BY <1>1
<1>3. a \in Seq(Bytes) /\ Len(a) = n /\ \A i \in 1 .. n : a[i] = s[at + 4 + i]
  BY SliceOf
<1>4. b \in Seq(Bytes) /\ Len(b) = n /\ \A i \in 1 .. n : b[i] = t[at + 4 + i]
  BY <1>2, SliceOf
<1>5. ASSUME NEW i \in 1 .. n PROVE at + 4 + i \in 1 .. Len(s)
  BY <1>1
<1> HIDE DEF a, b, n
<1>6. \A i \in 1 .. n : a[i] = b[i]
  BY <1>3, <1>4, <1>5
<1> QED BY <1>1, <1>3, <1>4, <1>6 DEF a, b

LEMMA IdReached ==
  ASSUME BoundsInv, IsHello, NEW c, Captured(c), c.sent # None, HelloReached(c), ExtensionId
  PROVE  HelloReached(c)' /\ IsHello'
<1> DEFINE L == Len(payload)
           sent == c.sent
           N == Count(c)
           ids == SentIds(sent)
<1>1. /\ pc = "extension_ids" /\ c \in Packets /\ L \in Nat /\ offset \in Nat
      /\ FixedRead(sent) /\ InBlock(sent) /\ hello.extensions = <<>>
      /\ capture' = capture /\ payload' = payload
      /\ ext_start' = ext_start /\ ext_end' = ext_end
  BY DEF ExtensionId, HelloReached, payload, BoundsInv, Captured
<1>2. PICK q \in 0 .. N : IdsRead(sent, q) /\ offset = sent.ext_starts[q + 1]
  BY <1>1 DEF HelloReached
<1>3. /\ N \in Nat /\ DOMAIN sent.extensions = 1 .. N /\ sent.ext_starts[1] = sent.fixed + 2
  BY <1>1, ExtensionPart
<1>4. InBlock(sent)' /\ is_client' = is_client
  BY <1>1 DEF InBlock, is_client
<1>5. CASE offset + 4 <= ext_end
  <2>1. /\ hello' = [hello EXCEPT !.extension_ids = Append(hello.extension_ids, U16(offset))]
        /\ offset' = offset + 4 + U16(offset + 2) /\ pc' = "extension_ids"
    BY <1>1, <1>5 DEF ExtensionId
  <2>2. /\ q + 1 \in 1 .. N /\ U16(offset) = sent.extensions[q + 1].ext_type
        /\ offset' = sent.ext_starts[q + 2] /\ offset + 4 <= L
    BY <1>1, <1>2, <1>5, <2>1, AtExtension
  <2>3. U16(offset) = ids[q + 1] /\ q \in Nat /\ q + 1 + 1 = q + 2 /\ q + 1 \in 0 .. N
    BY <1>3, <2>2 DEF SentIds
  <2>4. hello'.extension_ids = Prefix(ids, q + 1)
    <3>1. hello'.extension_ids = Append(Prefix(ids, q), U16(offset))
      BY <1>2, <2>1 DEF IsHello, IdsRead
    <3> HIDE DEF ids
    <3> QED BY <2>3, <3>1, PrefixGrows
  <2>5. \A i \in 1 .. q + 1 : sent.ext_starts[i] + 4 <= L
    BY <1>2, <2>2, <2>3 DEF IdsRead
  <2>6. IdsRead(sent, q + 1)'
    BY <1>1, <2>4, <2>5 DEF IdsRead
  <2>7. IsHello' /\ FixedRead(sent)' /\ hello'.extensions = <<>>
    BY <1>1, <2>1 DEF IsHello, FixedRead
  <2> QED BY <1>4, <2>1, <2>2, <2>3, <2>6, <2>7 DEF HelloReached
<1>6. CASE ~(offset + 4 <= ext_end)
  <2>1. hello' = hello /\ offset' = ext_start /\ pc' = "parse_extensions"
    BY <1>6 DEF ExtensionId
  <2>2. q < N => sent.ext_starts[q + 1] + 4 > L
    BY <1>1, <1>2, <1>6, AtExtension
  <2>3. IdsDone(sent)'
    BY <1>1, <1>2, <2>1, <2>2 DEF IdsDone, IdsRead, Count
  <2>4. IsHello' /\ FixedRead(sent)' /\ hello'.extensions = Prefix(sent.extensions, 0)
    BY <1>1, <2>1, PrefixOfNone DEF IsHello, FixedRead
  <2>5. offset' = sent.ext_starts[0 + 1] /\ offset' <= L /\ 0 \in 0 .. N
    BY <1>1, <1>3, <2>1 DEF InBlock
  <2> QED BY <1>1, <1>4, <2>1, <2>3, <2>4, <2>5 DEF HelloReached
<1> QED BY <1>5, <1>6

LEMMA ExtensionReached ==
  ASSUME BoundsInv, IsHello, NEW c, Captured(c), c.sent # None, HelloReached(c), ParseExtension
  PROVE  HelloReached(c)' /\ IsHello'
<1> DEFINE L == Len(payload)
           sent == c.sent
           N == Count(c)
           end == offset + 4 + U16(offset + 2)
<1>1. /\ pc = "parse_extensions" /\ c \in Packets /\ L \in Nat /\ offset \in Nat
      /\ FixedRead(sent) /\ InBlock(sent) /\ (is_client => IdsDone(sent))
      /\ capture' = capture /\ payload' = payload
      /\ ext_start' = ext_start /\ ext_end' = ext_end
  BY DEF ParseExtension, HelloReached, payload, BoundsInv, Captured
<1>2. PICK m \in 0 .. N : /\ hello.extensions = Prefix(sent.extensions, m)
                          /\ offset = sent.ext_starts[m + 1] /\ offset <= L
  BY <1>1 DEF HelloReached
<1>3. N \in Nat
  BY <1>1, ExtensionPart
<1>4. InBlock(sent)' /\ is_client' = is_client
  BY <1>1 DEF InBlock, is_client
<1>5. CASE offset + 4 <= ext_end /\ end <= ext_end
  <2> DEFINE e == Extension(U16(offset), offset + 4, end)
  <2>1. /\ hello' = [hello EXCEPT !.extensions = Append(hello.extensions, e)]
        /\ offset' = end /\ pc' = "parse_extensions"
    BY <1>1, <1>5 DEF ParseExtension, GoTo
  <2>2. /\ m + 1 \in 1 .. N /\ U16(offset) = sent.extensions[m + 1].ext_type
        /\ end = sent.ext_starts[m + 2] /\ end \in Nat /\ end <= L
    BY <1>1, <1>2, <1>5, AtExtension
  <2>3. m \in Nat /\ m + 1 + 1 = m + 2 /\ m + 1 \in 0 .. N
    BY <1>3, <2>2
  <2>4. sent.extensions[m + 1] =
          [ext_type |-> At16(c.payload, offset), data |-> SubSeq(c.payload, offset + 5, end)]
    <3>1. \A k \in 1 .. N : sent.extensions[k] =
            [ext_type |-> At16(c.payload, sent.ext_starts[k]),
             data |-> SubSeq(c.payload, sent.ext_starts[k] + 5, sent.ext_starts[k + 1])]
      BY <1>1, ExtensionPart
    <3> HIDE DEF N, end
    <3> QED BY <1>2, <2>2, <2>3, <3>1
  <2>5. SubSeq(payload, offset + 4 + 1, end) = SubSeq(c.payload, offset + 5, end)
    <3>1. /\ c.payload \in Seq(Bytes) /\ payload \in Seq(Bytes) /\ L <= Len(c.payload)
          /\ \A i \in 1 .. L : payload[i] = c.payload[i]
      BY <1>1, FixedPart DEF Captured
    <3> HIDE DEF end
    <3>2. offset + 4 + 1 = offset + 5 /\ offset \in Nat /\ L \in Nat
      BY <1>1, <3>1
    <3>3. end \in Nat /\ end <= L
      BY <2>2
    <3> HIDE DEF L
    <3>4. SubSeq(payload, offset + 5, end) = SubSeq(c.payload, offset + 5, end)
      BY <3>1, <3>2, <3>3, SameSlice DEF L
    <3> QED BY <3>2, <3>4
  <2> HIDE DEF end
  <2>6. e = sent.extensions[m + 1]
    <3>1. U16(offset) = At16(c.payload, offset)
      BY <2>2, <2>4
    <3> QED BY <2>4, <2>5, <3>1 DEF Extension
  <2> HIDE DEF e
  <2>7. hello'.extensions = Prefix(sent.extensions, m + 1)
    <3>1. hello'.extensions = Append(Prefix(sent.extensions, m), e)
      BY <1>2, <2>1 DEF IsHello
    <3> QED BY <2>3, <2>6, <3>1, PrefixGrows
  <2>8. IsHello' /\ FixedRead(sent)' /\ hello'.extension_ids = hello.extension_ids
    BY <1>1, <2>1 DEF IsHello, FixedRead
  <2>9. is_client' => IdsDone(sent)'
    BY <1>1, <1>4, <2>8 DEF IdsDone, IdsRead
  <2> QED BY <1>1, <1>4, <2>1, <2>2, <2>3, <2>7, <2>8, <2>9 DEF HelloReached
<1>6. CASE ~(offset + 4 <= ext_end /\ end <= ext_end)
  <2>1. pc' = "parsed" /\ hello' = hello
    BY <1>6 DEF ParseExtension
  <2>2. m < N => sent.ext_starts[m + 2] > L
    BY <1>1, <1>2, <1>6, AtExtension
  <2>3. WholeExtensions(sent) = 1 .. m
    BY <1>2, <2>2, WholeUpTo
  <2>4. WholeExtensions(sent)' = 1 .. m
    BY <1>1, <2>3 DEF WholeExtensions
  <2>5. IsHello' /\ FixedRead(sent)'
    BY <1>1, <2>1 DEF IsHello, FixedRead
  <2>6. is_client' => IdsDone(sent)'
    BY <1>1, <1>4, <2>1 DEF IdsDone, IdsRead
  <2>7. sent.fixed <= L
    <3>1. sent.fixed \in Nat /\ sent.fixed + 2 <= L
      BY <1>1, FixedPart DEF InBlock
    <3> QED BY <1>1, <3>1
  <2> QED BY <1>1, <1>2, <2>1, <2>4, <2>5, <2>6, <2>7 DEF HelloReached
<1> QED BY <1>5, <1>6

LEMMA InitHelloInv == Init => HelloInv
<1> SUFFICES ASSUME Init PROVE HelloInv
  OBVIOUS
<1>1. PICK c : Captured(c)
  BY InitCaptured
<1>2. IsHello /\ NoExtensions /\ pc \in {"alert", "record"}
  BY DEF Init, ParserInit, IsHello, NoExtensions
<1>3. HelloReached(c)
  BY <1>2 DEF HelloReached
<1> QED BY <1>1, <1>2, <1>3, InitBoundsInv DEF HelloInv

LEMMA NextHelloInv == HelloInv /\ [Next]_vars => HelloInv'
<1> SUFFICES ASSUME HelloInv, [Next]_vars PROVE HelloInv'
  OBVIOUS
<1>1. PICK c : Captured(c) /\ (c.sent # None => HelloReached(c))
  BY DEF HelloInv
<1>2. BoundsInv /\ IsHello /\ BoundsInv'
  BY NextBoundsInv DEF HelloInv
<1>3. capture' = capture
  BY ParserLeavesWalk DEF Next, vars, parserVars, BuildAlertEvent, BuildFallback, BuildAnalysis,
                          WalkRecord, EndOfWalk, SynthesizeEvents
<1>4. Captured(c)'
  BY <1>1, <1>3 DEF Captured, payload
<1> SUFFICES IsHello' /\ (c.sent # None => HelloReached(c)')
  BY <1>2, <1>4 DEF HelloInv
<1>5. ASSUME hello' = hello, UNCHANGED <<pc, offset, ext_start, ext_end>>
      PROVE  IsHello' /\ (c.sent # None => HelloReached(c)')
  <2>1. payload' = payload /\ is_client' = is_client
    BY <1>3 DEF payload, is_client
  <2> QED BY <1>1, <1>2, <1>5, <2>1, SMTT(60)
          DEF IsHello, HelloReached, NoExtensions, FixedRead, InBlock, IdsDone, IdsRead,
              WholeExtensions
<1>6. ASSUME hello' = hello, pc' \in {"done", "walk", "synthesize"}
      PROVE  IsHello' /\ (c.sent # None => HelloReached(c)')
  BY <1>2, <1>6 DEF IsHello, HelloReached
<1>7. CASE BuildAlertEvent \/ BuildFallback \/ BuildAnalysis \/ WalkRecord \/ EndOfWalk
            \/ SynthesizeEvents
  <2>1. hello' = hello /\ pc' \in {"done", "walk", "synthesize"}
    BY <1>7 DEF BuildAlertEvent, BuildFallback, BuildAnalysis, WalkRecord, EndOfWalk,
                SynthesizeEvents
  <2> QED BY <1>6, <2>1
<1>8. CASE UNCHANGED vars
  BY <1>5, <1>8 DEF vars, parserVars
<1>9. CASE ParserNext
  <2>1. CASE c.sent # None
    <3>1. HelloReached(c)
      BY <1>1, <2>1
    <3>2. CASE ParseTlsPayload
      <4>1. hello' = hello
        BY <3>2 DEF ParseTlsPayload, Fail
      <4> QED BY <1>1, <1>2, <2>1, <3>1, <3>2, <4>1, RecordReached DEF IsHello
    <3>3. CASE ClientHeader \/ ServerHeader
      BY <1>1, <1>2, <2>1, <3>1, <3>3, HeaderReached
    <3>4. CASE ClientCipherSuites
      BY <1>1, <1>2, <2>1, <3>1, <3>4, SuitesReached
    <3>5. CASE ClientCompression
      <4>1. hello' = hello
        BY <3>5 DEF ClientCompression, Fail
      <4> QED BY <1>1, <1>2, <2>1, <3>1, <3>5, <4>1, CompressionReached DEF IsHello
    <3>6. CASE ServerCipherSuite
      BY <1>1, <1>2, <2>1, <3>1, <3>6, SuiteReached
    <3>7. CASE ClientExtensions \/ ServerExtensions
      <4>1. hello' = hello
        BY <3>7 DEF ClientExtensions, ServerExtensions, ExtensionBlock
      <4> QED BY <1>1, <1>2, <2>1, <3>1, <3>7, <4>1, BlockReached DEF IsHello
    <3>8. CASE ExtensionId
      BY <1>1, <1>2, <2>1, <3>1, <3>8, IdReached
    <3>9. CASE ParseExtension
      BY <1>1, <1>2, <2>1, <3>1, <3>9, ExtensionReached
    <3> QED BY <1>9, <3>2, <3>3, <3>4, <3>5, <3>6, <3>7, <3>8, <3>9 DEF ParserNext
  <2>2. IsHello'
    BY <1>2, <1>9 DEF IsHello, ParserNext, ParseTlsPayload, ClientHeader, ServerHeader, Header,
           ClientCipherSuites, ClientCompression, ServerCipherSuite, ClientExtensions,
           ServerExtensions, ExtensionBlock, ExtensionId, ParseExtension, Fail
  <2> QED BY <2>1, <2>2
<1> QED BY <1>7, <1>8, <1>9 DEF Next

(* A set of numbers up to N that is not empty has a greatest element. *)
LEMMA GreatestNatural ==
  ASSUME NEW N \in Nat, NEW S \in SUBSET (1 .. N), S # {}
  PROVE  Max(S) \in S
<1> DEFINE Less == OpToRel(<, Nat)
           D == {N - x : x \in S}
<1>1. IsWellFoundedOn(Less, Nat)
  BY NatLessThanWellFounded
<1>2. \A x, y \in Nat : x < y => <<x, y>> \in Less
  BY DEF OpToRel
<1>3. D \subseteq Nat /\ D # {}
  <2>1. \A x \in S : N - x \in Nat
    OBVIOUS
  <2>2. PICK x : x \in S
    OBVIOUS
  <2>3. N - x \in D
    BY <2>2
  <2> QED BY <2>1, <2>3, Zenon
<1> HIDE DEF Less
<1>4. \E x \in D : \A y \in D : ~(<<y, x>> \in Less)
  <2> HIDE DEF D
  <2> QED BY <1>1, <1>3, WFMin
<1>5. PICK d \in D : \A y \in D : ~(<<y, d>> \in Less)
  BY <1>4
<1>6. PICK x \in S : d = N - x
  BY <1>5
<1>7. ASSUME NEW y \in S PROVE x >= y
  <2>1. N - y \in D /\ N - y \in Nat /\ d \in Nat
    BY <1>3, <1>5
  <2>2. ~(N - y < d)
    BY <1>2, <1>5, <2>1
  <2> QED BY <1>6, <2>2
<1> QED BY <1>6, <1>7 DEF Max

(* The extractors read an extension that is all there as its sender meant  *)
(* it: those of a ClientHello, those of a ServerHello.                     *)
ClientReads(e) ==
  /\ e.ext_type = SupportedVersions =>
       extract_supported_versions(e.data, TRUE) = Meaning(e)
  /\ e.ext_type = SupportedGroups => extract_supported_groups(e.data) = Meaning(e)
  /\ e.ext_type = SignatureAlgorithms => extract_signature_algorithms(e.data) = Meaning(e)
  /\ e.ext_type = SignatureAlgorithmsCert =>
       extract_signature_algorithms_cert(e.data) = Meaning(e)
  /\ e.ext_type = KeyShare => extract_key_share_groups(e.data, TRUE) = Meaning(e)
  /\ e.ext_type = ServerName => extract_sni(e.data) = Meaning(e)
  /\ e.ext_type = Alpn => extract_alpn(e.data) = Meaning(e)
  /\ e.ext_type \in {PreSharedKey, EarlyData, PskKeyExchangeModes, SessionTicket} =>
       Meaning(e) = TRUE

ServerReads(e) ==
  /\ e.ext_type = SupportedVersions =>
       First(extract_supported_versions(e.data, FALSE)) = Meaning(e)
  /\ e.ext_type = KeyShare => First(extract_key_share_groups(e.data, FALSE)) = Meaning(e)
  /\ e.ext_type = PreSharedKey => (e.data # <<>>) = Meaning(e)

ExtractorsRight ==
  \A c \in Packets : c.sent # None =>
    \A k \in DOMAIN c.sent.extensions :
      IF c.handshake_type = 1 THEN ClientReads(c.sent.extensions[k])
                              ELSE ServerReads(c.sent.extensions[k])

(* Parsed and sent, the last extension of a type is the same. *)
LEMMA FoundSame ==
  ASSUME NEW c \in Packets, c.sent # None, NEW m \in 0 .. Count(c),
         hello.extensions = Prefix(c.sent.extensions, m),
         WholeExtensions(c.sent) = 1 .. m, NEW type
  PROVE  LET e == hello.extensions
             s == c.sent.extensions
             F == {i \in DOMAIN e : e[i].ext_type = type}
         IN  /\ {i \in WholeExtensions(c.sent) : s[i].ext_type = type} = F
             /\ F # {} => /\ Max(F) \in F /\ e[Max(F)] = s[Max(F)]
                          /\ Max(F) \in DOMAIN s /\ s[Max(F)].ext_type = type
<1> DEFINE e == hello.extensions
           s == c.sent.extensions
           F == {i \in DOMAIN e : e[i].ext_type = type}
<1>1. Count(c) \in Nat /\ DOMAIN s = 1 .. Count(c)
  BY ExtensionPart
<1>2. DOMAIN e = 1 .. m /\ \A i \in 1 .. m : e[i] = s[i] /\ i \in DOMAIN s
  BY <1>1 DEF Prefix
<1> HIDE DEF e, s
<1>3. {i \in WholeExtensions(c.sent) : s[i].ext_type = type} = F
  BY <1>2
<1>4. ASSUME F # {} PROVE Max(F) \in F
  <2>1. F \in SUBSET (1 .. m) /\ m \in Nat
    BY <1>1, <1>2
  <2> HIDE DEF F
  <2> QED BY <1>4, <2>1, GreatestNatural
<1>5. ASSUME F # {}
      PROVE  e[Max(F)] = s[Max(F)] /\ Max(F) \in DOMAIN s /\ s[Max(F)].ext_type = type
  <2>1. PICK i : i = Max(F) /\ i \in F
    BY <1>4, <1>5
  <2>2. e[i] = s[i] /\ i \in DOMAIN s /\ s[i].ext_type = type
    BY <1>2, <2>1
  <2> QED BY <2>1, <2>2
<1> QED BY <1>3, <1>4, <1>5 DEF e, s

(* The last extension of a type, of the extensions e. *)
LastOf(e, type) == e[Max({i \in DOMAIN e : e[i].ext_type = type})]

LEMMA SaidByLast ==
  ASSUME NEW c \in Packets, c.sent # None, NEW m \in 0 .. Count(c),
         hello.extensions = Prefix(c.sent.extensions, m),
         WholeExtensions(c.sent) = 1 .. m, NEW type
  PROVE  LET e == hello.extensions
         IN  /\ \A d : Said(c.sent, type, d) =
                         IF Present(e, type) THEN Meaning(LastOf(e, type)) ELSE d
             /\ Present(e, type) =>
                  /\ LastOf(e, type).ext_type = type
                  /\ \E k \in DOMAIN c.sent.extensions : LastOf(e, type) = c.sent.extensions[k]
<1> DEFINE e == hello.extensions
           s == c.sent.extensions
           F == {i \in DOMAIN e : e[i].ext_type = type}
<1>1. /\ {i \in WholeExtensions(c.sent) : s[i].ext_type = type} = F
      /\ F # {} => /\ Max(F) \in F /\ e[Max(F)] = s[Max(F)]
                   /\ Max(F) \in DOMAIN s /\ s[Max(F)].ext_type = type
  BY FoundSame
<1>2. Present(e, type) <=> F # {}
  BY DEF Present
<1>3. LastOf(e, type) = e[Max(F)]
  BY DEF LastOf
<1>4. \A d : Said(c.sent, type, d) = IF F = {} THEN d ELSE Meaning(s[Max(F)])
  BY <1>1 DEF Said
<1> HIDE DEF F, e, s
<1> QED BY <1>1, <1>2, <1>3, <1>4 DEF e, s

(* Of a ClientHello, field for field. *)
LEMMA ClientFields ==
  ASSUME ExtractorsRight, NEW c \in Packets, c.sent # None, c.handshake_type = 1,
         NEW m \in 0 .. Count(c), hello.extensions = Prefix(c.sent.extensions, m),
         WholeExtensions(c.sent) = 1 .. m, FixedRead(c.sent)
  PROVE  ParsedClientHello = [ClientSaid(c.sent) EXCEPT !.extension_ids = hello.extension_ids]
<1> DEFINE sent == c.sent
           e == hello.extensions
           p == ParsedClientHello
<1>1. ASSUME NEW type
      PROVE  /\ \A d : Said(sent, type, d) =
                         IF Present(e, type) THEN Meaning(LastOf(e, type)) ELSE d
             /\ Present(e, type) =>
                  LastOf(e, type).ext_type = type /\ ClientReads(LastOf(e, type))
  <2>1. /\ \A d : Said(sent, type, d) =
                    IF Present(e, type) THEN Meaning(LastOf(e, type)) ELSE d
        /\ Present(e, type) =>
             /\ LastOf(e, type).ext_type = type
             /\ \E k \in DOMAIN sent.extensions : LastOf(e, type) = sent.extensions[k]
    BY SaidByLast
  <2>2. \A k \in DOMAIN sent.extensions : ClientReads(sent.extensions[k])
    BY DEF ExtractorsRight
  <2> QED BY <2>1, <2>2
<1>2. p.supported_versions = Said(sent, SupportedVersions, <<>>)
  <2>1. p.supported_versions = IF Present(e, SupportedVersions)
          THEN extract_supported_versions(LastOf(e, SupportedVersions).data, TRUE) ELSE <<>>
    BY DEF ParsedClientHello, Extract, Present, LastOf
  <2> HIDE DEF p, e, sent
  <2>2. Said(sent, SupportedVersions, <<>>) =
          IF Present(e, SupportedVersions) THEN Meaning(LastOf(e, SupportedVersions)) ELSE <<>>
    BY <1>1, Zenon
  <2>3. Present(e, SupportedVersions) =>
          LastOf(e, SupportedVersions).ext_type = SupportedVersions /\ ClientReads(LastOf(e, SupportedVersions))
    BY <1>1, Zenon
  <2> QED BY <2>1, <2>2, <2>3 DEF ClientReads
<1>3. p.supported_groups = Said(sent, SupportedGroups, <<>>)
  <2>1. p.supported_groups = IF Present(e, SupportedGroups)
          THEN extract_supported_groups(LastOf(e, SupportedGroups).data) ELSE <<>>
    BY DEF ParsedClientHello, Extract, Present, LastOf
  <2> HIDE DEF p, e, sent
  <2>2. Said(sent, SupportedGroups, <<>>) =
          IF Present(e, SupportedGroups) THEN Meaning(LastOf(e, SupportedGroups)) ELSE <<>>
    BY <1>1, Zenon
  <2>3. Present(e, SupportedGroups) =>
          LastOf(e, SupportedGroups).ext_type = SupportedGroups /\ ClientReads(LastOf(e, SupportedGroups))
    BY <1>1, Zenon
  <2> QED BY <2>1, <2>2, <2>3 DEF ClientReads
<1>4. p.signature_algorithms = Said(sent, SignatureAlgorithms, <<>>)
  <2>1. p.signature_algorithms = IF Present(e, SignatureAlgorithms)
          THEN extract_signature_algorithms(LastOf(e, SignatureAlgorithms).data) ELSE <<>>
    BY DEF ParsedClientHello, Extract, Present, LastOf
  <2> HIDE DEF p, e, sent
  <2>2. Said(sent, SignatureAlgorithms, <<>>) =
          IF Present(e, SignatureAlgorithms) THEN Meaning(LastOf(e, SignatureAlgorithms)) ELSE <<>>
    BY <1>1, Zenon
  <2>3. Present(e, SignatureAlgorithms) =>
          LastOf(e, SignatureAlgorithms).ext_type = SignatureAlgorithms /\ ClientReads(LastOf(e, SignatureAlgorithms))
    BY <1>1, Zenon
  <2> QED BY <2>1, <2>2, <2>3 DEF ClientReads
<1>5. p.signature_algorithms_cert = Said(sent, SignatureAlgorithmsCert, <<>>)
  <2>1. p.signature_algorithms_cert = IF Present(e, SignatureAlgorithmsCert)
          THEN extract_signature_algorithms_cert(LastOf(e, SignatureAlgorithmsCert).data) ELSE <<>>
    BY DEF ParsedClientHello, Extract, Present, LastOf
  <2> HIDE DEF p, e, sent
  <2>2. Said(sent, SignatureAlgorithmsCert, <<>>) =
          IF Present(e, SignatureAlgorithmsCert) THEN Meaning(LastOf(e, SignatureAlgorithmsCert)) ELSE <<>>
    BY <1>1, Zenon
  <2>3. Present(e, SignatureAlgorithmsCert) =>
          LastOf(e, SignatureAlgorithmsCert).ext_type = SignatureAlgorithmsCert /\ ClientReads(LastOf(e, SignatureAlgorithmsCert))
    BY <1>1, Zenon
  <2> QED BY <2>1, <2>2, <2>3 DEF ClientReads
<1>6. p.key_share_groups = Said(sent, KeyShare, <<>>)
  <2>1. p.key_share_groups = IF Present(e, KeyShare)
          THEN extract_key_share_groups(LastOf(e, KeyShare).data, TRUE) ELSE <<>>
    BY DEF ParsedClientHello, Extract, Present, LastOf
  <2> HIDE DEF p, e, sent
  <2>2. Said(sent, KeyShare, <<>>) =
          IF Present(e, KeyShare) THEN Meaning(LastOf(e, KeyShare)) ELSE <<>>
    BY <1>1, Zenon
  <2>3. Present(e, KeyShare) =>
          LastOf(e, KeyShare).ext_type = KeyShare /\ ClientReads(LastOf(e, KeyShare))
    BY <1>1, Zenon
  <2> QED BY <2>1, <2>2, <2>3 DEF ClientReads
<1>7. p.sni = Said(sent, ServerName, None)
  <2>1. p.sni = IF Present(e, ServerName)
          THEN extract_sni(LastOf(e, ServerName).data) ELSE None
    BY DEF ParsedClientHello, Extract, Present, LastOf
  <2> HIDE DEF p, e, sent
  <2>2. Said(sent, ServerName, None) =
          IF Present(e, ServerName) THEN Meaning(LastOf(e, ServerName)) ELSE None
    BY <1>1, Zenon
  <2>3. Present(e, ServerName) =>
          LastOf(e, ServerName).ext_type = ServerName /\ ClientReads(LastOf(e, ServerName))
    BY <1>1, Zenon
  <2> QED BY <2>1, <2>2, <2>3 DEF ClientReads
<1>8. p.alpn = Said(sent, Alpn, <<>>)
  <2>1. p.alpn = IF Present(e, Alpn)
          THEN extract_alpn(LastOf(e, Alpn).data) ELSE <<>>
    BY DEF ParsedClientHello, Extract, Present, LastOf
  <2> HIDE DEF p, e, sent
  <2>2. Said(sent, Alpn, <<>>) =
          IF Present(e, Alpn) THEN Meaning(LastOf(e, Alpn)) ELSE <<>>
    BY <1>1, Zenon
  <2>3. Present(e, Alpn) =>
          LastOf(e, Alpn).ext_type = Alpn /\ ClientReads(LastOf(e, Alpn))
    BY <1>1, Zenon
  <2> QED BY <2>1, <2>2, <2>3 DEF ClientReads
<1>9. ASSUME NEW type \in {PreSharedKey, EarlyData, PskKeyExchangeModes, SessionTicket}
      PROVE  Said(sent, type, FALSE) = Present(e, type)
  <2>1. Present(e, type) => Meaning(LastOf(e, type)) = TRUE
    BY <1>1 DEF ClientReads
  <2>2. Said(sent, type, FALSE) = IF Present(e, type) THEN Meaning(LastOf(e, type)) ELSE FALSE
    BY <1>1
  <2>3. Present(e, type) \in BOOLEAN
    BY DEF Present
  <2> HIDE DEF e, sent
  <2> QED BY <2>1, <2>2, <2>3, Zenon
<1>10. /\ p.psk_offered = Said(sent, PreSharedKey, FALSE)
       /\ p.early_data_offered = Said(sent, EarlyData, FALSE)
       /\ p.psk_key_exchange_modes_offered = Said(sent, PskKeyExchangeModes, FALSE)
       /\ p.session_ticket_offered = Said(sent, SessionTicket, FALSE)
  <2>1. /\ p.psk_offered = Present(e, PreSharedKey)
        /\ p.early_data_offered = Present(e, EarlyData)
        /\ p.psk_key_exchange_modes_offered = Present(e, PskKeyExchangeModes)
        /\ p.session_ticket_offered = Present(e, SessionTicket)
    BY DEF ParsedClientHello
  <2> HIDE DEF p, e, sent
  <2> QED BY <1>9, <2>1, Zenon
<1>11. /\ p.legacy_version = sent.legacy_version /\ p.cipher_suites = sent.cipher_suites
       /\ p.extension_ids = hello.extension_ids
  BY DEF ParsedClientHello, FixedRead
<1>12. p = [legacy_version |-> p.legacy_version, cipher_suites |-> p.cipher_suites,
            extension_ids |-> p.extension_ids,
            supported_versions |-> p.supported_versions,
            supported_groups |-> p.supported_groups,
            signature_algorithms |-> p.signature_algorithms,
            signature_algorithms_cert |-> p.signature_algorithms_cert,
            key_share_groups |-> p.key_share_groups, sni |-> p.sni, alpn |-> p.alpn,
            psk_offered |-> p.psk_offered, early_data_offered |-> p.early_data_offered,
            psk_key_exchange_modes_offered |-> p.psk_key_exchange_modes_offered,
            session_ticket_offered |-> p.session_ticket_offered]
  BY DEF ParsedClientHello, Extract
<1> DEFINE sv == Said(sent, SupportedVersions, <<>>)
           sg == Said(sent, SupportedGroups, <<>>)
           sa == Said(sent, SignatureAlgorithms, <<>>)
           sc == Said(sent, SignatureAlgorithmsCert, <<>>)
           ks == Said(sent, KeyShare, <<>>)
           sn == Said(sent, ServerName, None)
           al == Said(sent, Alpn, <<>>)
           psk == Said(sent, PreSharedKey, FALSE)
           ed == Said(sent, EarlyData, FALSE)
           km == Said(sent, PskKeyExchangeModes, FALSE)
           st == Said(sent, SessionTicket, FALSE)
           version == sent.legacy_version
           suites == sent.cipher_suites
           ids == SentIds(sent)
           read == hello.extension_ids
<1>13. ClientSaid(sent) =
         [legacy_version |-> version, cipher_suites |-> suites, extension_ids |-> ids,
          supported_versions |-> sv, supported_groups |-> sg, signature_algorithms |-> sa,
          signature_algorithms_cert |-> sc, key_share_groups |-> ks, sni |-> sn, alpn |-> al,
          psk_offered |-> psk, early_data_offered |-> ed,
          psk_key_exchange_modes_offered |-> km, session_ticket_offered |-> st]
  BY Zenon DEF ClientSaid, SentIds
<1> HIDE DEF sv, sg, sa, sc, ks, sn, al, psk, ed, km, st, version, suites, ids, read, p, e
<1>14. [ClientSaid(sent) EXCEPT !.extension_ids = read] =
         [legacy_version |-> version, cipher_suites |-> suites, extension_ids |-> read,
          supported_versions |-> sv, supported_groups |-> sg, signature_algorithms |-> sa,
          signature_algorithms_cert |-> sc, key_share_groups |-> ks, sni |-> sn, alpn |-> al,
          psk_offered |-> psk, early_data_offered |-> ed,
          psk_key_exchange_modes_offered |-> km, session_ticket_offered |-> st]
  BY <1>13
<1>15. /\ p.supported_versions = sv /\ p.supported_groups = sg /\ p.signature_algorithms = sa
       /\ p.signature_algorithms_cert = sc /\ p.key_share_groups = ks /\ p.sni = sn
       /\ p.alpn = al /\ p.psk_offered = psk /\ p.early_data_offered = ed
       /\ p.psk_key_exchange_modes_offered = km /\ p.session_ticket_offered = st
       /\ p.legacy_version = version /\ p.cipher_suites = suites /\ p.extension_ids = read
  BY <1>2, <1>3, <1>4, <1>5, <1>6, <1>7, <1>8, <1>10, <1>11, Zenon
     DEF sv, sg, sa, sc, ks, sn, al, psk, ed, km, st, version, suites, read
<1>16. p = [ClientSaid(sent) EXCEPT !.extension_ids = read]
  BY <1>12, <1>14, <1>15
<1> QED BY <1>16 DEF p, read

(* Of a ServerHello. *)
LEMMA ServerFields ==
  ASSUME ExtractorsRight, NEW c \in Packets, c.sent # None, c.handshake_type # 1,
         NEW m \in 0 .. Count(c), hello.extensions = Prefix(c.sent.extensions, m),
         WholeExtensions(c.sent) = 1 .. m, FixedRead(c.sent)
  PROVE  ParsedServerHello = ServerSaid(c.sent)
<1> DEFINE sent == c.sent
           e == hello.extensions
           p == ParsedServerHello
<1>1. ASSUME NEW type
      PROVE  /\ \A d : Said(sent, type, d) =
                         IF Present(e, type) THEN Meaning(LastOf(e, type)) ELSE d
             /\ Present(e, type) =>
                  LastOf(e, type).ext_type = type /\ ServerReads(LastOf(e, type))
  <2>1. /\ \A d : Said(sent, type, d) =
                    IF Present(e, type) THEN Meaning(LastOf(e, type)) ELSE d
        /\ Present(e, type) =>
             /\ LastOf(e, type).ext_type = type
             /\ \E k \in DOMAIN sent.extensions : LastOf(e, type) = sent.extensions[k]
    BY SaidByLast
  <2>2. \A k \in DOMAIN sent.extensions : ServerReads(sent.extensions[k])
    BY DEF ExtractorsRight
  <2> QED BY <2>1, <2>2
<1>2. p.negotiated_version = Said(sent, SupportedVersions, None)
  <2>1. p.negotiated_version = IF Present(e, SupportedVersions)
          THEN First(extract_supported_versions(LastOf(e, SupportedVersions).data, FALSE)) ELSE None
    BY DEF ParsedServerHello, Extract, Present, LastOf
  <2> HIDE DEF p, e, sent
  <2> QED BY <1>1, <2>1 DEF ServerReads
<1>3. p.key_share_group = Said(sent, KeyShare, None)
  <2>1. p.key_share_group = IF Present(e, KeyShare)
          THEN First(extract_key_share_groups(LastOf(e, KeyShare).data, FALSE)) ELSE None
    BY DEF ParsedServerHello, Extract, Present, LastOf
  <2> HIDE DEF p, e, sent
  <2> QED BY <1>1, <2>1 DEF ServerReads
<1>4. p.psk_selected = Said(sent, PreSharedKey, FALSE)
  <2>1. p.psk_selected = IF Present(e, PreSharedKey)
          THEN LastOf(e, PreSharedKey).data # <<>> ELSE FALSE
    BY DEF ParsedServerHello, Extract, Present, LastOf
  <2> HIDE DEF p, e, sent
  <2>2. Present(e, PreSharedKey) =>
          (LastOf(e, PreSharedKey).data # <<>>) = Meaning(LastOf(e, PreSharedKey))
    BY <1>1, Zenon DEF ServerReads
  <2>3. Said(sent, PreSharedKey, FALSE) =
          IF Present(e, PreSharedKey) THEN Meaning(LastOf(e, PreSharedKey)) ELSE FALSE
    BY <1>1
  <2> QED BY <2>1, <2>2, <2>3, Zenon
<1>5. p.legacy_version = sent.legacy_version /\ p.cipher_suites = sent.cipher_suites
  BY DEF ParsedServerHello, FixedRead
<1>6. p = [legacy_version |-> p.legacy_version, cipher_suites |-> p.cipher_suites,
           negotiated_version |-> p.negotiated_version,
           key_share_group |-> p.key_share_group, psk_selected |-> p.psk_selected]
  BY DEF ParsedServerHello, Extract
<1> HIDE DEF p
<1> QED BY <1>2, <1>3, <1>4, <1>5, <1>6 DEF ServerSaid, p

(* At most one id more than extensions: that of the one that is cut. *)
LEMMA OneIdMore ==
  ASSUME NEW c, Captured(c), c.sent # None, NEW m \in 0 .. Count(c), NEW q \in 0 .. Count(c),
         WholeExtensions(c.sent) = 1 .. m,
         \A i \in 1 .. q : c.sent.ext_starts[i] + 4 <= Len(payload),
         q < Count(c) => c.sent.ext_starts[q + 1] + 4 > Len(payload)
  PROVE  q - m \in {0, 1}
<1> DEFINE N == Count(c)
           starts == c.sent.ext_starts
           L == Len(payload)
<1>1. /\ c \in Packets /\ N \in Nat /\ L \in Nat
      /\ \A i, j \in 1 .. N + 1 : i < j => starts[i] + 4 <= starts[j]
      /\ \A k \in 1 .. N + 1 : starts[k] \in Nat
      /\ \A i, j \in 1 .. N + 1 : i <= j => starts[i] <= starts[j]
  BY ExtensionPart, StartsGrow DEF Captured
<1>2. \A k \in 1 .. N : starts[k + 1] <= L <=> k \in 1 .. m
  BY <1>1, ExtensionPart DEF WholeExtensions
<1>3. /\ m \in 0 .. N /\ q \in 0 .. N /\ (q < N => starts[q + 1] + 4 > L)
      /\ \A i \in 1 .. q : starts[i] + 4 <= L
  OBVIOUS
<1> HIDE DEF N, starts, L
<1>4. ~(q < m)
  <2> SUFFICES ASSUME q < m PROVE FALSE
    OBVIOUS
  <2>1. /\ q < N /\ m \in 1 .. N /\ m \in 1 .. m /\ q + 1 \in 1 .. N + 1 /\ m + 1 \in 1 .. N + 1
        /\ q + 1 < m + 1
    BY <1>1, <1>3
  <2>2. starts[q + 1] + 4 <= starts[m + 1] /\ starts[m + 1] <= L
        /\ starts[q + 1] \in Nat /\ starts[m + 1] \in Nat
    BY <1>1, <1>2, <2>1
  <2> QED BY <1>1, <1>3, <2>1, <2>2
<1>5. ~(q > m + 1)
  <2> SUFFICES ASSUME q > m + 1 PROVE FALSE
    OBVIOUS
  <2>1. /\ m + 1 \in 1 .. N /\ m + 1 \notin 1 .. m /\ m + 2 \in 1 .. N + 1 /\ q \in 1 .. N + 1
        /\ q \in 1 .. q /\ m + 2 <= q /\ m + 1 + 1 = m + 2
    BY <1>1, <1>3
  <2>2. starts[m + 2] <= starts[q] /\ ~(starts[m + 2] <= L) /\ starts[q] + 4 <= L
        /\ starts[m + 2] \in Nat /\ starts[q] \in Nat
    BY <1>1, <1>2, <1>3, <2>1
  <2> QED BY <1>1, <2>2
<1> QED BY <1>1, <1>3, <1>4, <1>5

LEMMA PrefixIsSubSeq ==
  ASSUME NEW f, NEW N \in Nat, f = [i \in 1 .. N |-> f[i]], NEW q \in 0 .. N
  PROVE  Len(Prefix(f, q)) = q /\ Prefix(f, q) = SubSeq(f, 1, q)
<1> DEFINE V == {f[i] : i \in 1 .. N}
           p == Prefix(f, q)
           s == SubSeq(f, 1, q)
<1>1. f \in [1 .. N -> V]
  OBVIOUS
<1> HIDE DEF V
<1>2. f \in Seq(V) /\ Len(f) = N
  BY <1>1
<1>3. s \in Seq(V) /\ Len(s) = q /\ \A i \in 1 .. q : s[i] = f[i]
  BY <1>2
<1>4. p \in Seq(V) /\ Len(p) = q /\ \A i \in 1 .. q : p[i] = f[i]
  <2>1. p \in [1 .. q -> V] /\ q \in Nat /\ \A i \in 1 .. q : p[i] = f[i]
    BY <1>1 DEF Prefix
  <2> HIDE DEF p
  <2> QED BY <2>1
<1> HIDE DEF p, s
<1>5. p = s
  BY <1>3, <1>4, SeqEqual
<1> QED BY <1>4, <1>5 DEF p, s

LEMMA HelloInvHonest == ExtractorsRight /\ HelloInv => CutHelloHonest
<1> SUFFICES ASSUME ExtractorsRight, HelloInv, capture.sent # None, pc \in {"parsed", "err"}
             PROVE  LET sent == capture.sent
                        ids  == hello.extension_ids
                    IN  /\ pc = "parsed" <=> Len(payload) >= sent.fixed
                        /\ (pc = "parsed" /\ is_client) =>
                             LET said == ClientSaid(sent)
                             IN  /\ ParsedClientHello = [said EXCEPT !.extension_ids = ids]
                                 /\ ids = SubSeq(said.extension_ids, 1, Len(ids))
                                 /\ Len(ids) - Len(hello.extensions) \in {0, 1}
                        /\ (pc = "parsed" /\ ~is_client) => ParsedServerHello = ServerSaid(sent)
  BY DEF CutHelloHonest
<1>1. PICK c : Captured(c) /\ (c.sent # None => HelloReached(c))
  BY DEF HelloInv
<1>2. /\ capture.sent = c.sent /\ c.sent # None /\ c \in Packets /\ HelloReached(c)
      /\ is_client <=> c.handshake_type = 1
  BY <1>1 DEF Captured, is_client
<1>3. pc = "parsed" <=> Len(payload) >= c.sent.fixed
  <2>1. Len(payload) \in Nat /\ c.sent.fixed \in Nat
    <3>1. c.sent.fixed \in Nat
      BY <1>2, FixedPart
    <3> QED BY <1>1, <3>1 DEF Captured
  <2>2. (pc = "parsed" => c.sent.fixed <= Len(payload)) /\ (pc = "err" => Len(payload) < c.sent.fixed)
    BY <1>2 DEF HelloReached
  <2> QED BY <2>1, <2>2
<1>4. ASSUME pc = "parsed"
      PROVE  /\ is_client =>
                  LET said == ClientSaid(c.sent)
                      ids  == hello.extension_ids
                  IN  /\ ParsedClientHello = [said EXCEPT !.extension_ids = ids]
                      /\ ids = SubSeq(said.extension_ids, 1, Len(ids))
                      /\ Len(ids) - Len(hello.extensions) \in {0, 1}
             /\ ~is_client => ParsedServerHello = ServerSaid(c.sent)
  <2>1. /\ FixedRead(c.sent) /\ (is_client => IdsDone(c.sent))
        /\ \E m \in 0 .. Count(c) : /\ hello.extensions = Prefix(c.sent.extensions, m)
                                    /\ WholeExtensions(c.sent) = 1 .. m
    BY <1>2, <1>4 DEF HelloReached
  <2>2. PICK m \in 0 .. Count(c) : /\ hello.extensions = Prefix(c.sent.extensions, m)
                                   /\ WholeExtensions(c.sent) = 1 .. m
    BY <2>1
  <2>3. CASE ~is_client
    BY <1>2, <2>1, <2>2, <2>3, ServerFields
  <2>4. CASE is_client
    <3> DEFINE ids == hello.extension_ids
               said == ClientSaid(c.sent)
    <3>1. ParsedClientHello = [said EXCEPT !.extension_ids = ids]
      BY <1>2, <2>1, <2>2, <2>4, ClientFields
    <3>2. PICK q \in 0 .. Count(c) :
            /\ IdsRead(c.sent, q)
            /\ q < Count(c) => c.sent.ext_starts[q + 1] + 4 > Len(payload)
      BY <2>1, <2>4 DEF IdsDone, Count
    <3>3. Count(c) \in Nat /\ DOMAIN c.sent.extensions = 1 .. Count(c)
      BY <1>2, ExtensionPart
    <3>4. SentIds(c.sent) = [i \in 1 .. Count(c) |-> SentIds(c.sent)[i]]
      BY <3>3 DEF SentIds
    <3>5. Len(ids) = q /\ ids = SubSeq(SentIds(c.sent), 1, q)
      <4>1. ids = Prefix(SentIds(c.sent), q)
        BY <3>2 DEF IdsRead
      <4>2. /\ Len(Prefix(SentIds(c.sent), q)) = q
            /\ Prefix(SentIds(c.sent), q) = SubSeq(SentIds(c.sent), 1, q)
        BY <3>3, <3>4, PrefixIsSubSeq
      <4> QED BY <4>1, <4>2, ZenonT(60)
    <3>6. said.extension_ids = SentIds(c.sent)
      BY DEF ClientSaid, SentIds
    <3>7. Len(hello.extensions) = m
      <4>1. hello.extensions \in [1 .. m -> {c.sent.extensions[i] : i \in 1 .. m}] /\ m \in Nat
        BY <2>2, <3>3 DEF Prefix
      <4> QED BY <4>1
    <3>8. q - m \in {0, 1}
      BY <1>1, <1>2, <2>2, <3>2, OneIdMore DEF IdsRead
    <3> HIDE DEF said, ids
    <3>9. ids = SubSeq(said.extension_ids, 1, Len(ids))
      BY <3>5, <3>6
    <3>10. Len(ids) - Len(hello.extensions) \in {0, 1}
      BY <3>5, <3>7, <3>8
    <3> QED BY <2>4, <3>1, <3>9, <3>10 DEF said, ids
  <2> QED BY <2>3, <2>4
<1> QED BY <1>2, <1>3, <1>4

(* A hello cut short anywhere, with any extensions in any order: it is     *)
(* parsed exactly when its fixed part is there, every field is what the    *)
(* peer sent or absent, and the ids name at most the extension that is cut *)
(* besides those that were parsed, given that the extractors are right     *)
(* about an extension that is all there.                                   *)
THEOREM HonestHellos == ExtractorsRight /\ Spec => []CutHelloHonest
<1>1. ExtractorsRight /\ Init => ExtractorsRight /\ HelloInv
  BY InitHelloInv
<1>2. (ExtractorsRight /\ HelloInv) /\ [Next]_vars => (ExtractorsRight /\ HelloInv)'
  BY NextHelloInv
<1> QED
  BY <1>1, <1>2, HelloInvHonest, PTL DEF Spec

(***************************************************************************)
(* Part 4, what is fingerprinted                                           *)
(***************************************************************************)

(* The fingerprint of a whole ClientHello is that of what the peer sent,   *)
(* which Ja4Stable compares with that of the plain hello.                  *)
Ja4OfSent ==
  (event # None /\ is_client /\ capture.sent # None) =>
    (event.ja4 # None /\ IsWhole(capture.sent) => event.ja4 = ja4(ClientSaid(capture.sent)))

(* A whole ClientHello is parsed as what was sent, its ids included. *)
LEMMA WholeParsed ==
  ASSUME ExtractorsRight, HelloInv, pc = "parsed", is_client, capture.sent # None,
         IsWhole(capture.sent)
  PROVE  ParsedClientHello = ClientSaid(capture.sent)
<1>1. PICK c : Captured(c) /\ (c.sent # None => HelloReached(c))
  BY DEF HelloInv
<1>2. /\ capture.sent = c.sent /\ c.sent # None /\ c \in Packets /\ HelloReached(c)
      /\ c.handshake_type = 1
  BY <1>1 DEF Captured, is_client
<1>3. /\ FixedRead(c.sent) /\ IdsDone(c.sent)
      /\ \E m \in 0 .. Count(c) : /\ hello.extensions = Prefix(c.sent.extensions, m)
                                  /\ WholeExtensions(c.sent) = 1 .. m
  BY <1>2 DEF HelloReached
<1>4. PICK m \in 0 .. Count(c) : /\ hello.extensions = Prefix(c.sent.extensions, m)
                                 /\ WholeExtensions(c.sent) = 1 .. m
  BY <1>3
<1>5. PICK q \in 0 .. Count(c) :
        /\ IdsRead(c.sent, q)
        /\ q < Count(c) => c.sent.ext_starts[q + 1] + 4 > Len(payload)
  BY <1>3 DEF IdsDone, Count
<1>6. Count(c) \in Nat /\ DOMAIN c.sent.extensions = 1 .. Count(c)
  BY <1>2, ExtensionPart
<1>7. m = Count(c)
  <2>1. 1 .. m = 1 .. Count(c)
    BY <1>2, <1>4, <1>6 DEF IsWhole
  <2> QED BY <1>6, <2>1
<1>8. q = Count(c)
  <2>1. q - m \in {0, 1}
    BY <1>1, <1>2, <1>4, <1>5, OneIdMore DEF IdsRead
  <2> QED BY <1>6, <1>7, <2>1
<1>9. hello.extension_ids = SentIds(c.sent)
  <2>1. hello.extension_ids = Prefix(SentIds(c.sent), q)
    BY <1>5 DEF IdsRead
  <2> QED BY <1>6, <1>8, <2>1 DEF Prefix, SentIds
<1>10. ParsedClientHello = [ClientSaid(c.sent) EXCEPT !.extension_ids = hello.extension_ids]
  BY <1>2, <1>3, <1>4, ClientFields
<1>11. [ClientSaid(c.sent) EXCEPT !.extension_ids = SentIds(c.sent)] = ClientSaid(c.sent)
  <2>1. ClientSaid(c.sent).extension_ids = SentIds(c.sent)
    BY DEF ClientSaid, SentIds
  <2>2. ClientSaid(c.sent) = [x \in DOMAIN ClientSaid(c.sent) |-> ClientSaid(c.sent)[x]]
    BY DEF ClientSaid
  <2> QED BY <2>1, <2>2
<1> QED BY <1>2, <1>9, <1>10, <1>11

LEMMA NextJa4OfSent ==
  ExtractorsRight /\ HelloInv /\ (event = None \/ Ja4OfSent) /\ [Next]_vars
    => (event = None \/ Ja4OfSent)'
<1> SUFFICES ASSUME ExtractorsRight, HelloInv, event = None \/ Ja4OfSent, [Next]_vars
             PROVE  (event = None \/ Ja4OfSent)'
  OBVIOUS
<1>1. capture' = capture
  BY ParserLeavesWalk DEF Next, vars, parserVars, BuildAlertEvent, BuildFallback, BuildAnalysis,
                          WalkRecord, EndOfWalk, SynthesizeEvents
<1>2. payload' = payload /\ is_client' = is_client
  BY <1>1 DEF payload, is_client
<1>3. IsWhole(capture.sent)' = IsWhole(capture.sent)
      /\ ClientSaid(capture.sent)' = ClientSaid(capture.sent)
  BY <1>1, <1>2 DEF IsWhole, ClientSaid, Said, WholeExtensions
<1>4. CASE event' = event
  BY <1>1, <1>2, <1>3, <1>4 DEF Ja4OfSent
<1>5. CASE BuildAlertEvent \/ BuildFallback
  <2>1. event'.ja4 = None
    BY <1>5 DEF BuildAlertEvent, BuildFallback, WithCertificate, build_fallback_analysis
  <2> QED BY <2>1 DEF Ja4OfSent
<1>6. CASE BuildAnalysis
  <2>1. is_client => event'.ja4 = ja4(ParsedClientHello)
    BY <1>6 DEF BuildAnalysis, WithCertificate, IsCertificate, is_client,
                build_client_analysis, build_fallback_analysis
  <2>2. pc = "parsed"
    BY <1>6 DEF BuildAnalysis
  <2> QED BY <1>1, <1>2, <1>3, <2>1, <2>2, WholeParsed DEF Ja4OfSent
<1> QED BY <1>4, <1>5, <1>6 DEF Next, vars, eventVars, WalkRecord, EndOfWalk, SynthesizeEvents

(* JA4 is computed from exactly what the client sent, nothing lost, added  *)
(* or out of order, for every whole ClientHello with any extensions: that  *)
(* the fingerprint does not tell GREASE or the order apart is then a       *)
(* matter of ja4 alone.                                                    *)
THEOREM FingerprintsTheHello == ExtractorsRight /\ Spec => []Ja4OfSent
<1> DEFINE J == ExtractorsRight /\ HelloInv /\ (event = None \/ Ja4OfSent)
<1>1. ExtractorsRight /\ Init => J
  BY InitHelloInv DEF Init
<1>2. J /\ [Next]_vars => J'
  BY NextHelloInv, NextJa4OfSent
<1>3. J => Ja4OfSent
  BY DEF Ja4OfSent
<1> QED
  BY <1>1, <1>2, <1>3, PTL DEF Spec

=============================================================================
