---------------------------- MODULE WorkerProofs ----------------------------
(***************************************************************************)
(* The safety properties of Correlator, for any set of connections, any    *)
(* table size, TTL and clock, and those of Worker, for any handshakes and  *)
(* any number of captures lost, early or repeated.                         *)
(*                                                                         *)
(* Part 1, the correlator.  The inductive invariant says of each pending   *)
(* entry that it is the latest hello of its connection, of the table that  *)
(* it is finite and within its limit, and of the negotiation just returned *)
(* that it is about a hello no entry stands for any more, if it ended the  *)
(* handshake.                                                              *)
(*                                                                         *)
(* Part 2, the worker.  It drives the correlator only by the correlator's  *)
(* own operations, so that what part 1 shows of the table holds here.  The *)
(* inductive invariant adds what links the table, the record in hand and   *)
(* the events to the captures that have come in: every mark of a client    *)
(* Certificate or a CertificateRequest goes back to one.                   *)
(*                                                                         *)
(* Part 3, mutual handshakes.  The inductive invariant follows a handshake *)
(* from capture to capture and says what the tables and the record in hand *)
(* must hold by then for it to be reported.                                *)
(***************************************************************************)
EXTENDS Worker, FiniteSetTheorems, SequenceTheorems, TLAPS

(***************************************************************************)
(* Part 1, the correlator.  The inductive invariant; h stands for hellos,  *)
(* m for pending, n for negotiated                                         *)
(***************************************************************************)

IsHistory(h) ==
  /\ h \in [DOMAIN h -> Conns]
  /\ \E n \in 0 .. MaxHellos : DOMAIN h = 1 .. n

(* i is the latest hello of connection k. *)
Latest(h, k, i) ==
  /\ i \in DOMAIN h
  /\ h[i] = k
  /\ \A j \in DOMAIN h : h[j] = k => j <= i

EntryOK(h, k, s) ==
  /\ s \in Summary
  /\ Latest(h, k, s.hello)
  /\ s.post_sh_negotiation # None =>
       /\ s.mtls_requested
       /\ s.post_sh_negotiation.hello = s.hello
       /\ s.post_sh_negotiation.key = k
       /\ s.post_sh_negotiation.mtls_requested

TableOK(h, m) ==
  /\ m = [k \in DOMAIN m |-> m[k]]
  /\ DOMAIN m \subseteq Conns
  /\ IsFiniteSet(DOMAIN m)
  /\ Cardinality(DOMAIN m) <= MaxEntries
  /\ \A k \in DOMAIN m : EntryOK(h, k, m[k])

JoinOK(h, m, n) ==
  \/ n = None
  \/ /\ n \in Negotiation
     /\ Latest(h, n.key, n.hello)
     /\ n.rides = "cert" => n.mtls /\ n.mtls_requested
     /\ Terminal(n) => \A k \in DOMAIN m : m[k].hello # n.hello

ClockOK == clock \in 0 .. MaxClock /\ steps \in 0 .. ClockSteps

Inv ==
  /\ IsHistory(hellos)
  /\ TableOK(hellos, pending)
  /\ JoinOK(hellos, pending, negotiated)
  /\ ClockOK

(* The invariant is the conjunction of the checked properties. *)
LEMMA InvImplies ==
  Inv => /\ TypeOK /\ Bounded /\ JoinsLatestHello /\ PendingIsLatest
         /\ ConsumedOnce /\ CertificateCompletesMtls
<1> SUFFICES ASSUME Inv
             PROVE  /\ TypeOK /\ Bounded /\ JoinsLatestHello /\ PendingIsLatest
                    /\ ConsumedOnce /\ CertificateCompletesMtls
  OBVIOUS
<1>1. TypeOK
  BY DEF Inv, IsHistory, TableOK, EntryOK, JoinOK, ClockOK, TypeOK
<1>2. Bounded
  BY DEF Inv, TableOK, Bounded
<1>3. JoinsLatestHello
  BY DEF Inv, JoinOK, Latest, JoinsLatestHello, HellosOf
<1>4. PendingIsLatest
  BY DEF Inv, TableOK, EntryOK, Latest, PendingIsLatest, HellosOf
<1>5. ConsumedOnce
  BY DEF Inv, JoinOK, ConsumedOnce
<1>6. CertificateCompletesMtls
  BY DEF Inv, JoinOK, CertificateCompletesMtls
<1> QED BY <1>1, <1>2, <1>3, <1>4, <1>5, <1>6

(***************************************************************************)
(* Lemmas about the table                                                  *)
(***************************************************************************)

(* Removing entries keeps the table in order. *)
LEMMA WithoutOK ==
  ASSUME NEW h, NEW m, TableOK(h, m), NEW K
  PROVE  TableOK(h, Without(m, K))
<1> DEFINE w == Without(m, K)
<1>1. /\ DOMAIN w = DOMAIN m \ K
      /\ \A k \in DOMAIN w : w[k] = m[k]
      /\ w = [k \in DOMAIN w |-> w[k]]
  BY DEF Without, Restrict
<1>2. /\ IsFiniteSet(DOMAIN w)
      /\ Cardinality(DOMAIN w) <= Cardinality(DOMAIN m)
      /\ Cardinality(DOMAIN w) \in Nat /\ Cardinality(DOMAIN m) \in Nat
  BY <1>1, FS_Subset, FS_CardinalityType DEF TableOK
<1>3. Cardinality(DOMAIN w) <= MaxEntries
  BY <1>2, CorrelatorAssumption DEF TableOK
<1>4. TableOK(h, w)
  <2> HIDE DEF w
  <2> QED BY <1>1, <1>2, <1>3 DEF TableOK
<1> QED BY <1>4

(* Replacing an entry by one that is in order keeps the table in order. *)
LEMMA ReplaceOK ==
  ASSUME NEW h, NEW m, TableOK(h, m), NEW k \in DOMAIN m, NEW v, EntryOK(h, k, v)
  PROVE  TableOK(h, [m EXCEPT ![k] = v])
  BY DEF TableOK

(* The negotiation that ends a handshake: its hello belonged to the entry  *)
(* that is removed, and to no other.                                       *)
LEMMA TerminalJoinOK ==
  ASSUME NEW h, NEW m, TableOK(h, m), NEW k \in DOMAIN m,
         NEW n \in Negotiation, n.key = k, n.hello = m[k].hello,
         n.rides = "cert" => n.mtls /\ n.mtls_requested
  PROVE  JoinOK(h, Without(m, {k}), n)
<1>1. Latest(h, k, m[k].hello)
  BY DEF TableOK, EntryOK
<1>2. ASSUME NEW j \in DOMAIN m \ {k} PROVE m[j].hello # m[k].hello
  BY <1>1 DEF TableOK, EntryOK, Latest
<1>3. /\ DOMAIN Without(m, {k}) = DOMAIN m \ {k}
      /\ \A j \in DOMAIN m \ {k} : Without(m, {k})[j] = m[j]
  BY DEF Without, Restrict
<1> QED BY <1>1, <1>2, <1>3 DEF JoinOK

(* build_negotiation reports the entry's own hello. *)
LEMMA BuildNegotiationOK ==
  ASSUME NEW k \in Conns, NEW s \in Summary,
         NEW outcome \in {"negotiated", "failed"}, NEW rides \in {"sh", "alert"}
  PROVE  LET n == BuildNegotiation(k, s, outcome, rides)
         IN  /\ n \in Negotiation /\ n.key = k /\ n.hello = s.hello
             /\ n.mtls_requested = s.mtls_requested
             /\ n.outcome = outcome /\ n.rides = rides
  BY DEF BuildNegotiation, Negotiation, Summary

(* A new hello: its number is one more than any before. *)
LEMMA NewHelloOK ==
  ASSUME NEW h, IsHistory(h), Cardinality(DOMAIN h) < MaxHellos, NEW k \in Conns
  PROVE  LET i == Cardinality(DOMAIN h) + 1
             g == With(h, i, k)
         IN  /\ i \in HelloIds
             /\ IsHistory(g)
             /\ Latest(g, k, i)
             /\ \A j, l : (j # k /\ Latest(h, j, l)) => Latest(g, j, l)
<1> DEFINE i == Cardinality(DOMAIN h) + 1
           g == With(h, i, k)
<1>1. PICK n \in 0 .. MaxHellos : DOMAIN h = 1 .. n
  BY DEF IsHistory
<1>2. MaxHellos \in Nat /\ n \in Nat
  BY <1>1, CorrelatorAssumption
<1>3. Cardinality(1 .. n) = n
  <2>1. 1 \in Int /\ n \in Int
    BY <1>2
  <2>2. Cardinality(1 .. n) = IF 1 > n THEN 0 ELSE n - 1 + 1
    BY <2>1, FS_Interval
  <2> QED BY <1>2, <2>2
<1>4. i = n + 1 /\ n + 1 \in 1 .. MaxHellos
  BY <1>1, <1>2, <1>3
<1>5. /\ DOMAIN g = 1 .. n + 1
      /\ g[n + 1] = k
      /\ \A j \in 1 .. n : g[j] = h[j]
  <2>1. (1 .. n) \cup {n + 1} = 1 .. n + 1
    BY <1>2
  <2>2. \A j \in 1 .. n : j # n + 1
    BY <1>2
  <2> QED BY <1>1, <1>4, <2>1, <2>2 DEF With
<1>6. IsHistory(g)
  <2>1. \A j \in DOMAIN g : g[j] \in Conns
    <3>1. \A j \in 1 .. n : h[j] \in Conns
      BY <1>1 DEF IsHistory
    <3>2. \A j \in 1 .. n + 1 : j \in 1 .. n \/ j = n + 1
      BY <1>2
    <3> HIDE DEF g
    <3> QED BY <1>5, <3>1, <3>2
  <2>2. g = [j \in DOMAIN g |-> g[j]]
    BY DEF With
  <2>3. n + 1 \in 0 .. MaxHellos
    BY <1>2, <1>4
  <2> QED BY <1>5, <2>1, <2>2, <2>3 DEF IsHistory
<1>7. Latest(g, k, n + 1)
  BY <1>2, <1>5 DEF Latest
<1>8. ASSUME NEW j, NEW l, j # k, Latest(h, j, l) PROVE Latest(g, j, l)
  <2>1. l \in 1 .. n /\ h[l] = j /\ \A x \in 1 .. n : h[x] = j => x <= l
    BY <1>1, <1>8 DEF Latest
  <2>2. l \in 1 .. n + 1 /\ g[l] = j
    BY <1>2, <1>5, <2>1
  <2>3. \A x \in 1 .. n + 1 : g[x] = j => x <= l
    BY <1>2, <1>5, <1>8, <2>1
  <2> QED BY <1>5, <2>2, <2>3 DEF Latest
<1>9. i \in HelloIds
  BY <1>4 DEF HelloIds
<1> QED BY <1>4, <1>6, <1>7, <1>8, <1>9

(* The table after room was made and a hello added: still within limits,   *)
(* whether the key is new, replaced or the one evicted.                    *)
LEMMA AddHelloOK ==
  ASSUME NEW h, NEW g, NEW m, TableOK(h, m), NEW k \in Conns, NEW v,
         NEW evicted, MakeRoom(m, evicted),
         EntryOK(g, k, v),
         \A j, l : (j # k /\ Latest(h, j, l)) => Latest(g, j, l)
  PROVE  TableOK(g, With(Without(m, {evicted}), k, v))
<1> DEFINE w == Without(m, {evicted})
           t == With(w, k, v)
<1>1. /\ DOMAIN w = DOMAIN m \ {evicted}
      /\ \A j \in DOMAIN w : w[j] = m[j]
  BY DEF Without, Restrict
<1>2. /\ DOMAIN t = DOMAIN w \cup {k}
      /\ t[k] = v
      /\ \A j \in DOMAIN w \ {k} : t[j] = w[j]
      /\ t = [j \in DOMAIN t |-> t[j]]
  BY DEF With
<1>3. IsFiniteSet(DOMAIN m) /\ Cardinality(DOMAIN m) \in Nat
  BY FS_CardinalityType DEF TableOK
<1>4. IsFiniteSet(DOMAIN w) /\ Cardinality(DOMAIN w) \in Nat
  BY <1>1, <1>3, FS_RemoveElement, FS_CardinalityType
<1>5. Cardinality(DOMAIN w) < MaxEntries
  <2>1. Cardinality(DOMAIN w) = IF evicted \in DOMAIN m THEN Cardinality(DOMAIN m) - 1
                                ELSE Cardinality(DOMAIN m)
    BY <1>1, <1>3, FS_RemoveElement
  <2>2. CASE Cardinality(DOMAIN m) >= MaxEntries
    <3>1. evicted \in DOMAIN m
      BY <2>2 DEF MakeRoom, Oldest
    <3> QED BY <1>3, <2>1, <3>1, CorrelatorAssumption DEF TableOK
  <2>3. CASE ~(Cardinality(DOMAIN m) >= MaxEntries)
    BY <1>3, <2>1, <2>3, CorrelatorAssumption
  <2> QED BY <2>2, <2>3
<1>6. IsFiniteSet(DOMAIN t) /\ Cardinality(DOMAIN t) <= MaxEntries
  <2>1. /\ IsFiniteSet(DOMAIN w \cup {k})
        /\ Cardinality(DOMAIN w \cup {k}) =
             IF k \in DOMAIN w THEN Cardinality(DOMAIN w) ELSE Cardinality(DOMAIN w) + 1
    BY <1>4, FS_AddElement
  <2> QED BY <1>2, <1>4, <1>5, <2>1, CorrelatorAssumption
<1>7. ASSUME NEW j \in DOMAIN t PROVE EntryOK(g, j, t[j])
  <2>1. CASE j = k
    BY <1>2, <2>1
  <2>2. CASE j # k
    <3>1. j \in DOMAIN m /\ t[j] = m[j]
      BY <1>1, <1>2, <1>7, <2>2
    <3>2. EntryOK(h, j, m[j])
      BY <3>1 DEF TableOK
    <3>3. Latest(g, j, m[j].hello)
      BY <2>2, <3>2 DEF EntryOK
    <3> QED BY <3>1, <3>2, <3>3 DEF EntryOK
  <2> QED BY <2>1, <2>2
<1>8. DOMAIN t \subseteq Conns
  BY <1>1, <1>2 DEF TableOK
<1>9. TableOK(g, t)
  <2> HIDE DEF t
  <2> QED BY <1>2, <1>6, <1>7, <1>8 DEF TableOK
<1> QED BY <1>9

(***************************************************************************)
(* The invariant                                                           *)
(***************************************************************************)

(* The empty table and nothing returned. *)
LEMMA InitInv == Init => Inv
<1> SUFFICES ASSUME Init PROVE Inv
  OBVIOUS
<1>1. IsHistory(hellos)
  <2>1. DOMAIN hellos = 1 .. 0 /\ 0 \in 0 .. MaxHellos
    BY CorrelatorAssumption DEF Init
  <2> QED BY <2>1 DEF Init, IsHistory
<1>2. TableOK(hellos, pending)
  <2>1. DOMAIN pending = {} /\ IsFiniteSet({}) /\ Cardinality({}) = 0
    BY FS_EmptySet DEF Init
  <2> QED BY <2>1, CorrelatorAssumption DEF Init, TableOK
<1>3. ClockOK
  BY CorrelatorAssumption DEF Init, ClockOK
<1> QED BY <1>1, <1>2, <1>3 DEF Init, Inv, JoinOK

(* Every message, sweep and clock step preserves the invariant. *)
LEMMA NextInv == Inv /\ [Next]_vars => Inv'
<1> SUFFICES ASSUME Inv, [Next]_vars PROVE Inv'
  OBVIOUS
<1> USE DEF Inv
<1>1. ASSUME NEW k \in Conns, NEW evicted, OnClientHello(k, evicted) PROVE Inv'
  <2> DEFINE i == Cardinality(DOMAIN hellos) + 1
             g == With(hellos, i, k)
  <2>1. /\ i \in HelloIds /\ IsHistory(g) /\ Latest(g, k, i)
        /\ \A j, l : (j # k /\ Latest(hellos, j, l)) => Latest(g, j, l)
    BY <1>1, NewHelloOK DEF OnClientHello, HelloCount
  <2>2. hellos' = g
    BY <1>1 DEF OnClientHello, HelloCount
  <2>3. EntryOK(g, k, NewSummary)
    <3>1. NewSummary = [hello |-> i, ts |-> clock, mtls_requested |-> FALSE,
                        mtls |-> FALSE, post_sh_negotiation |-> None]
      BY DEF NewSummary, HelloCount
    <3>2. NewSummary \in Summary
      BY <2>1, <3>1 DEF Summary, ClockOK
    <3> QED BY <2>1, <3>1, <3>2 DEF EntryOK
  <2>4. TableOK(g, pending')
    BY <1>1, <2>1, <2>3, AddHelloOK DEF OnClientHello
  <2> QED BY <1>1, <2>1, <2>2, <2>4 DEF OnClientHello, JoinOK, ClockOK
<1>2. ASSUME NEW k \in DOMAIN pending
      PROVE  k \in Conns /\ pending[k] \in Summary /\ EntryOK(hellos, k, pending[k])
  BY DEF TableOK, EntryOK
<1>3. ASSUME NEW k \in Conns, OnServerHelloMtls(k) PROVE Inv'
  <2> DEFINE n == BuildNegotiation(k, pending[k], "negotiated", "sh")
             v == [pending[k] EXCEPT !.post_sh_negotiation = n]
  <2>1. k \in DOMAIN pending /\ pending[k].mtls_requested
    BY <1>3 DEF OnServerHelloMtls
  <2>2. pending[k] \in Summary /\ EntryOK(hellos, k, pending[k])
    BY <1>2, <2>1
  <2>3. /\ n \in Negotiation /\ n.key = k /\ n.hello = pending[k].hello
        /\ n.mtls_requested /\ n.outcome = "negotiated" /\ n.rides = "sh"
    BY <2>1, <2>2, BuildNegotiationOK
  <2> HIDE DEF n
  <2>4. /\ v \in Summary /\ v.hello = pending[k].hello
        /\ v.mtls_requested = pending[k].mtls_requested
        /\ v.post_sh_negotiation = n
    BY <2>2, <2>3 DEF Summary
  <2>5. EntryOK(hellos, k, v)
    BY <2>1, <2>2, <2>3, <2>4 DEF EntryOK
  <2>6. pending' = [pending EXCEPT ![k] = v] /\ negotiated' = n
    BY <1>3 DEF OnServerHelloMtls, n
  <2>7. TableOK(hellos, pending')
    BY <2>1, <2>5, <2>6, ReplaceOK
  <2>8. JoinOK(hellos, pending', negotiated')
    BY <2>2, <2>3, <2>6 DEF JoinOK, EntryOK, Terminal
  <2> QED BY <1>3, <2>7, <2>8 DEF OnServerHelloMtls, ClockOK
<1>4. ASSUME NEW k \in Conns, OnServerHello(k) \/ OnAlert(k) PROVE Inv'
  <2>1. k \in DOMAIN pending /\ pending' = Without(pending, {k})
    BY <1>4 DEF OnServerHello, OnAlert
  <2>2. pending[k] \in Summary
    BY <1>2, <2>1
  <2>3. /\ negotiated' \in Negotiation /\ negotiated'.key = k
        /\ negotiated'.hello = pending[k].hello /\ negotiated'.rides # "cert"
    BY <1>4, <2>1, <2>2, BuildNegotiationOK DEF OnServerHello, OnAlert
  <2>4. JoinOK(hellos, pending', negotiated')
    BY <2>1, <2>3, TerminalJoinOK
  <2>5. TableOK(hellos, pending')
    BY <2>1, WithoutOK
  <2> QED BY <1>4, <2>4, <2>5 DEF OnServerHello, OnAlert, ClockOK
<1>5. ASSUME NEW k \in Conns, OnCertificateRequest(k) PROVE Inv'
  <2> DEFINE v == [pending[k] EXCEPT !.mtls_requested = TRUE]
  <2>1. k \in DOMAIN pending /\ pending' = [pending EXCEPT ![k] = v]
    BY <1>5 DEF OnCertificateRequest
  <2>2. pending[k] \in Summary /\ EntryOK(hellos, k, pending[k])
    BY <1>2, <2>1
  <2>3. EntryOK(hellos, k, v)
    BY <2>2 DEF EntryOK, Summary
  <2>4. TableOK(hellos, pending')
    BY <2>1, <2>3, ReplaceOK
  <2> QED BY <1>5, <2>4 DEF OnCertificateRequest, JoinOK, ClockOK
<1>6. ASSUME NEW k \in Conns, OnClientCertificateJoined(k) PROVE Inv'
  <2> DEFINE o == pending[k].post_sh_negotiation
  <2>1. k \in DOMAIN pending /\ pending' = Without(pending, {k}) /\ o # None
    BY <1>6 DEF OnClientCertificateJoined
  <2>2. /\ o \in Negotiation /\ o.key = k /\ o.hello = pending[k].hello
        /\ o.mtls_requested
    BY <1>2, <2>1 DEF EntryOK, Summary
  <2>3. negotiated' = [o EXCEPT !.mtls = TRUE, !.rides = "cert"]
    BY <1>6 DEF OnClientCertificateJoined
  <2> HIDE DEF o
  <2>4. /\ negotiated' \in Negotiation /\ negotiated'.key = k
        /\ negotiated'.hello = pending[k].hello
        /\ negotiated'.mtls /\ negotiated'.mtls_requested
    BY <2>2, <2>3 DEF Negotiation
  <2>5. JoinOK(hellos, pending', negotiated')
    BY <2>1, <2>4, TerminalJoinOK
  <2>6. TableOK(hellos, pending')
    BY <2>1, WithoutOK
  <2> QED BY <1>6, <2>5, <2>6 DEF OnClientCertificateJoined, ClockOK
<1>7. ASSUME NEW k \in Conns, OnClientCertificateEarly(k) PROVE Inv'
  <2> DEFINE v == [pending[k] EXCEPT !.mtls = TRUE]
  <2>1. k \in DOMAIN pending /\ pending' = [pending EXCEPT ![k] = v]
    BY <1>7 DEF OnClientCertificateEarly
  <2>2. pending[k] \in Summary /\ EntryOK(hellos, k, pending[k])
    BY <1>2, <2>1
  <2>3. EntryOK(hellos, k, v)
    BY <2>2 DEF EntryOK, Summary
  <2>4. TableOK(hellos, pending')
    BY <2>1, <2>3, ReplaceOK
  <2> QED BY <1>7, <2>4 DEF OnClientCertificateEarly, JoinOK, ClockOK
<1>8. ASSUME NEW k \in Conns, OnUnknownFlow(k) PROVE Inv'
  BY <1>8 DEF OnUnknownFlow, JoinOK, ClockOK
<1>9. CASE SweepExpired
  <2> DEFINE K == {k \in DOMAIN pending : ~(Elapsed(pending[k].ts) < Ttl)}
  <2>1. pending' = Without(pending, K)
    <3>1. {k \in DOMAIN pending : Elapsed(pending[k].ts) < Ttl} = DOMAIN pending \ K
      OBVIOUS
    <3> QED BY <1>9, <3>1 DEF SweepExpired, Without
  <2>2. TableOK(hellos, pending')
    BY <2>1, WithoutOK
  <2> QED BY <1>9, <2>2 DEF SweepExpired, JoinOK, ClockOK
<1>10. CASE ClockRuns \/ ClockSetBack
  <2>1. ClockOK'
    BY <1>10, CorrelatorAssumption DEF ClockRuns, ClockSetBack, ClockOK
  <2> QED BY <1>10, <2>1 DEF ClockRuns, ClockSetBack, JoinOK
<1>11. CASE UNCHANGED vars
  BY <1>11 DEF vars, ClockOK
<1> QED BY <1>1, <1>3, <1>4, <1>5, <1>6, <1>7, <1>8, <1>9, <1>10, <1>11 DEF Next

(* The inductive invariant holds however messages, sweeps and clock steps  *)
(* are ordered.                                                            *)
THEOREM InvHolds == Spec => []Inv
  BY InitInv, NextInv, PTL DEF Spec

(* Every pending entry and every negotiation is well formed. *)
THEOREM TypeCorrect == Spec => []TypeOK
  BY InvHolds, InvImplies, PTL

(* The table stays within max_entries. *)
THEOREM TableBounded == Spec => []Bounded
  BY InvHolds, InvImplies, PTL

(* A negotiation joins the latest ClientHello of its own connection. *)
THEOREM JoinsLatest == Spec => []JoinsLatestHello
  BY InvHolds, InvImplies, PTL

(* Every pending entry is the latest ClientHello of its connection. *)
THEOREM PendingLatest == Spec => []PendingIsLatest
  BY InvHolds, InvImplies, PTL

(* The message that ends a handshake consumes its ClientHello. *)
THEOREM HelloConsumedOnce == Spec => []ConsumedOnce
  BY InvHolds, InvImplies, PTL

(* The negotiation a client Certificate completes is mutual. *)
THEOREM CertificateIsMutual == Spec => []CertificateCompletesMtls
  BY InvHolds, InvImplies, PTL

(***************************************************************************)
(* Nothing is lost silently                                                *)
(***************************************************************************)

(* Entry k survives the step, is reported by it, or has a reason to go. *)
Excused(k) ==
  \/ k \in DOMAIN pending' /\ pending'[k].hello >= pending[k].hello
  \/ negotiated' # None /\ negotiated'.hello = pending[k].hello
  \/ Cardinality(DOMAIN pending) = MaxEntries /\ k \in Oldest(pending)
  \/ clock - pending[k].ts >= Ttl
  \/ clock < pending[k].ts

(* The hello of an entry is a number, not above the number of hellos. *)
LEMMA EntryNumbered ==
  ASSUME Inv, NEW k \in DOMAIN pending
  PROVE  /\ pending[k] \in Summary
         /\ pending[k].hello \in Nat /\ pending[k].hello <= HelloCount
         /\ HelloCount \in Nat
<1>1. EntryOK(hellos, k, pending[k])
  BY DEF Inv, TableOK
<1>2. PICK n \in 0 .. MaxHellos : DOMAIN hellos = 1 .. n
  BY DEF Inv, IsHistory
<1>3. n \in Nat
  BY <1>2, CorrelatorAssumption
<1>4. Cardinality(1 .. n) = n
  <2>1. Cardinality(1 .. n) = IF 1 > n THEN 0 ELSE n - 1 + 1
    BY <1>3, FS_Interval
  <2> QED BY <1>3, <2>1
<1> QED BY <1>1, <1>2, <1>3, <1>4 DEF EntryOK, Latest, HelloCount

(* An entry the sweep takes has outlived the TTL, or is of the future. *)
LEMMA SweptIsOld ==
  ASSUME Inv, NEW k \in DOMAIN pending, ~(Elapsed(pending[k].ts) < Ttl)
  PROVE  clock - pending[k].ts >= Ttl \/ clock < pending[k].ts
<1>1. pending[k].ts \in 0 .. MaxClock /\ clock \in 0 .. MaxClock
  BY EntryNumbered DEF Inv, ClockOK, Summary
<1>2. ASSUME NEW ts \in Nat, NEW now \in Nat, now <= MaxClock, ts <= now
      PROVE  (now - ts) % ClockMod = now - ts
  <2>1. now - ts \in 0 .. ClockMod - 1 /\ ClockMod \in Nat \ {0}
    BY <1>2, CorrelatorAssumption
  <2> QED BY <2>1
<1>3. CASE pending[k].ts <= clock
  <2>1. Elapsed(pending[k].ts) = clock - pending[k].ts
    BY <1>1, <1>2, <1>3, CorrelatorAssumption DEF Elapsed
  <2> QED BY <1>1, <2>1, CorrelatorAssumption
<1> QED BY <1>1, <1>3, CorrelatorAssumption

(* Every step of the correlator keeps, reports or excuses each entry. *)
LEMMA NextExcused ==
  ASSUME Inv, [Next]_vars, NEW k \in DOMAIN pending
  PROVE  Excused(k)
<1> USE DEF Excused
<1>1. /\ pending[k].hello \in Nat /\ pending[k].hello <= HelloCount
      /\ HelloCount \in Nat /\ pending[k] \in Summary
  BY EntryNumbered
<1>2. ASSUME NEW K, pending' = Without(pending, K), k \notin K
      PROVE  Excused(k)
  <2>1. k \in DOMAIN pending' /\ pending'[k] = pending[k]
    BY <1>2 DEF Without, Restrict
  <2> QED BY <1>1, <2>1
<1>3. CASE UNCHANGED pending
  BY <1>1, <1>3
<1>4. ASSUME NEW c \in Conns, NEW evicted, OnClientHello(c, evicted) PROVE Excused(k)
  <2>1. pending' = With(Without(pending, {evicted}), c, NewSummary) /\ MakeRoom(pending, evicted)
    BY <1>4 DEF OnClientHello
  <2>2. CASE k = c
    <3>1. k \in DOMAIN pending' /\ pending'[k] = NewSummary
      BY <2>1, <2>2 DEF With
    <3> QED BY <1>1, <3>1 DEF NewSummary
  <2>3. CASE k # c /\ k # evicted
    <3>1. k \in DOMAIN pending' /\ pending'[k] = pending[k]
      BY <2>1, <2>3 DEF With, Without, Restrict
    <3> QED BY <1>1, <3>1
  <2>4. CASE k = evicted
    <3>1. k # None
      BY CorrelatorAssumption DEF Inv, TableOK
    <3>2. Cardinality(DOMAIN pending) >= MaxEntries /\ k \in Oldest(pending)
      BY <2>1, <2>4, <3>1 DEF MakeRoom
    <3>3. Cardinality(DOMAIN pending) \in Nat /\ Cardinality(DOMAIN pending) <= MaxEntries
      BY FS_CardinalityType DEF Inv, TableOK
    <3> QED BY <3>2, <3>3, CorrelatorAssumption
  <2> QED BY <2>2, <2>3, <2>4
<1>5. ASSUME NEW c \in Conns, OnServerHelloMtls(c) \/ OnCertificateRequest(c)
                                \/ OnClientCertificateEarly(c)
      PROVE  Excused(k)
  <2>1. k \in DOMAIN pending' /\ pending'[k].hello = pending[k].hello
    BY <1>1, <1>5 DEF OnServerHelloMtls, OnCertificateRequest, OnClientCertificateEarly, Summary
  <2> QED BY <1>1, <2>1
<1>6. ASSUME NEW c \in Conns, OnServerHello(c) \/ OnAlert(c) \/ OnClientCertificateJoined(c)
      PROVE  Excused(k)
  <2>1. pending' = Without(pending, {c}) /\ c \in DOMAIN pending
    BY <1>6 DEF OnServerHello, OnAlert, OnClientCertificateJoined
  <2>2. CASE k = c
    <3>1. CASE OnServerHello(c) \/ OnAlert(c)
      <4>1. negotiated' \in Negotiation /\ negotiated'.hello = pending[c].hello
        BY <1>1, <2>2, <3>1, BuildNegotiationOK DEF OnServerHello, OnAlert
      <4> QED BY <2>2, <4>1, CorrelatorAssumption
    <3>2. CASE OnClientCertificateJoined(c)
      <4> DEFINE o == pending[c].post_sh_negotiation
      <4>1. o # None /\ negotiated' = [o EXCEPT !.mtls = TRUE, !.rides = "cert"]
        BY <3>2 DEF OnClientCertificateJoined
      <4>2. o \in Negotiation /\ o.hello = pending[c].hello
        BY <2>1, <4>1 DEF Inv, TableOK, EntryOK, Summary
      <4> HIDE DEF o
      <4>3. negotiated' \in Negotiation /\ negotiated'.hello = pending[c].hello
        BY <4>1, <4>2 DEF Negotiation
      <4> QED BY <2>2, <4>3, CorrelatorAssumption
    <3> QED BY <1>6, <3>1, <3>2
  <2>3. CASE k # c
    BY <1>2, <2>1, <2>3
  <2> QED BY <2>2, <2>3
<1>7. CASE SweepExpired
  <2> DEFINE K == {c \in DOMAIN pending : ~(Elapsed(pending[c].ts) < Ttl)}
  <2>1. pending' = Without(pending, K)
    <3>1. {c \in DOMAIN pending : Elapsed(pending[c].ts) < Ttl} = DOMAIN pending \ K
      OBVIOUS
    <3> QED BY <1>7, <3>1 DEF SweepExpired, Without
  <2>2. CASE k \in K
    BY <2>2, SweptIsOld
  <2>3. CASE k \notin K
    BY <1>2, <2>1, <2>3
  <2> QED BY <2>2, <2>3
<1> QED BY <1>3, <1>4, <1>5, <1>6, <1>7
        DEF Next, OnUnknownFlow, ClockRuns, ClockSetBack, vars

(* A hello leaves the table unreported only when it is replaced, is the    *)
(* oldest of a full table, has outlived the TTL, or the clock was set back *)
(* to before its arrival (on_client_hello, sweep_expired).                 *)
THEOREM LosesNothingSilently == Spec => NoSilentLoss
<1>1. Inv /\ [Next]_vars =>
        [\A k \in DOMAIN pending : Excused(k)]_vars
  BY NextExcused
<1> QED BY <1>1, InvHolds, PTL DEF Spec, NoSilentLoss, Excused

(***************************************************************************)
(* Part 2, the worker.  The inductive invariant; P stands for the          *)
(* connections an incoming Certificate was captured of, A for those with a *)
(* CertificateRequest                                                      *)
(***************************************************************************)

Presenting ==
  {k \in Conns : \E c \in Gone(k) : c.msg = "certificate" /\ Ingress(c)}
Asking == {k \in Conns : \E c \in Gone(k) : Requests(c)}

(* What n, an entry or a negotiation of connection k, says is so. *)
Backed(P, A, k, n) ==
  /\ n.mtls => k \in P
  /\ n.mtls_requested => k \in A

TableBacked(P, A, m) ==
  \A k \in DOMAIN m :
    /\ Backed(P, A, k, m[k])
    /\ m[k].post_sh_negotiation # None => Backed(P, A, k, m[k].post_sh_negotiation)

(* Negotiation n is of connection k, and msg the message that completes it. *)
Fits(n, k, msg) ==
  /\ n.key = k
  /\ <<n.rides, msg>> \in
       {<<"sh", "server_hello">>, <<"alert", "alert">>, <<"cert", "certificate">>}

FitsAndBacked(P, A, n, k, msg) == Fits(n, k, msg) /\ Backed(P, A, k, n)

EventBacked(P, A, e) ==
  e.negotiation # None => FitsAndBacked(P, A, e.negotiation, e.key, e.msg)

(* A call the worker may make for connection k. *)
CallBacked(P, A, k, call) ==
  /\ call = "certificate" => k \in P
  /\ call = "certificate_request" => k \in A

JobBacked(P, A, j) ==
  /\ \A i \in DOMAIN j.calls : /\ j.calls[i] \in {j.cap.msg, "certificate_request"}
                               /\ CallBacked(P, A, j.cap.key, j.calls[i])
  /\ j.negotiation # None =>
       FitsAndBacked(P, A, j.negotiation, j.cap.key, j.cap.msg)

HeldOK ==
  \A r \in DOMAIN held :
    /\ held[r].cap \in RawCapture /\ held[r].cap.part # "whole"
    /\ held[r].ts \in 0 .. MaxClock

(* WorkerTypeOK without the parts that Inv and HeldOK state. *)
LoopOK ==
  /\ script \in Scripts
  /\ unsent \in [Conns -> SUBSET Nat]
  /\ faults \in 0 .. MaxFaults
  /\ stage \in {"recv", "calls", "sweep"}
  /\ job \in Job \cup {None}
  /\ (stage = "calls") <=> (job # None)
  /\ timeout_counter \in 0 .. SweepEvery - 1

CountersOK ==
  /\ sh_without_ch \in Nat /\ alerts_dropped \in Nat
  /\ certs_dropped_13 \in Nat /\ unswept \in Nat

WorkerInv ==
  /\ Inv
  /\ LoopOK
  /\ HeldOK
  /\ CountersOK
  /\ events \subseteq Event
  /\ TableBacked(Presenting, Asking, pending)
  /\ \A e \in events : EventBacked(Presenting, Asking, e)
  /\ job # None => JobBacked(Presenting, Asking, job)

LEMMA WorkerInvTyped == WorkerInv => WorkerTypeOK
<1>1. WorkerInv => TypeOK
  BY InvImplies DEF WorkerInv
<1> QED BY <1>1 DEF WorkerInv, WorkerTypeOK, LoopOK, HeldOK, CountersOK

LEMMA WorkerInvFits == WorkerInv => NegotiationFits
  BY DEF WorkerInv, EventBacked, FitsAndBacked, Fits, NegotiationFits

(***************************************************************************)
(* Lemmas about captures and their calls                                   *)
(***************************************************************************)

(* More captures have come in: what was backed still is. *)
LEMMA BackedGrows ==
  ASSUME NEW P, NEW A, NEW Q, NEW B, P \subseteq Q, A \subseteq B
  PROVE  /\ \A m : TableBacked(P, A, m) => TableBacked(Q, B, m)
         /\ \A e : EventBacked(P, A, e) => EventBacked(Q, B, e)
         /\ \A j : JobBacked(P, A, j) => JobBacked(Q, B, j)
<1>1. \A k, n : Backed(P, A, k, n) => Backed(Q, B, k, n)
  BY DEF Backed
<1>2. \A k, n, msg : FitsAndBacked(P, A, n, k, msg) => FitsAndBacked(Q, B, n, k, msg)
  BY <1>1 DEF FitsAndBacked
<1>3. \A k, call : CallBacked(P, A, k, call) => CallBacked(Q, B, k, call)
  BY DEF CallBacked
<1>4. \A m : TableBacked(P, A, m) => TableBacked(Q, B, m)
  BY <1>1, Zenon DEF TableBacked
<1>5. \A e : EventBacked(P, A, e) => EventBacked(Q, B, e)
  BY <1>2, Zenon DEF EventBacked
<1>6. \A j : JobBacked(P, A, j) => JobBacked(Q, B, j)
  BY <1>2, <1>3, Zenon DEF JobBacked
<1> QED BY <1>4, <1>5, <1>6

(* The requests a walk finds are requests of the capture. *)
LEMMA WalkedRequestsOK ==
  ASSUME NEW c \in RawCapture
  PROVE  /\ WalkedRequests(c) \in Seq({"certificate_request"})
         /\ WalkedRequests(c) # <<>> => Requests(c)
<1> DEFINE S == {i \in DOMAIN Walked(c) : Walked(c)[i] = "certificate_request"}
           n == Cardinality(S)
           q == [i \in 1 .. n |-> "certificate_request"]
<1>1. c.flight \in Seq({"certificate", "certificate_request"})
  BY DEF RawCapture
<1>2. Walked(c) \in Seq({"certificate", "certificate_request"})
  BY <1>1 DEF Walked
<1>3. IsFiniteSet(DOMAIN Walked(c))
  <2>1. DOMAIN Walked(c) = 1 .. Len(Walked(c)) /\ Len(Walked(c)) \in Nat
    BY <1>2, LenProperties
  <2>2. IsFiniteSet(1 .. Len(Walked(c)))
    BY <2>1, FS_Interval
  <2> QED BY <2>1, <2>2
<1>4. IsFiniteSet(S) /\ n \in Nat
  BY <1>3, FS_Subset, FS_CardinalityType
<1>5. q \in Seq({"certificate_request"})
  <2> HIDE DEF n
  <2> QED BY <1>4
<1>6. ASSUME q # <<>> PROVE Requests(c)
  <2>1. n # 0
    <3>1. n = 0 => q = <<>>
      <4> HIDE DEF n
      <4> QED OBVIOUS
    <3> QED BY <1>6, <3>1
  <2>2. PICK i \in DOMAIN Walked(c) : Walked(c)[i] = "certificate_request"
    BY <2>1, FS_EmptySet
  <2>3. Walked(c) # <<>>
    BY <2>2
  <2>4. Walked(c) = c.flight
    BY <2>3 DEF Walked
  <2> QED BY <2>2, <2>4 DEF Requests
<1> QED BY <1>5, <1>6 DEF WalkedRequests

(* The calls a capture leads to: the capture's own message, and its        *)
(* CertificateRequests; a Certificate only if it is incoming.              *)
LEMMA CallsOK ==
  ASSUME NEW c \in RawCapture
  PROVE  /\ Calls(c) \in Seq(Messages)
         /\ \A i \in DOMAIN Calls(c) :
              /\ Calls(c)[i] \in {c.msg, "certificate_request"}
              /\ Calls(c)[i] = "certificate" => c.msg = "certificate" /\ Ingress(c)
              /\ Calls(c)[i] = "certificate_request" => Requests(c)
<1> DEFINE w == WalkedRequests(c)
<1>a. c.msg \in Messages
  BY DEF RawCapture
<1>1. CASE c.msg = "server_hello" /\ c.parses
  <2>1. Calls(c) = w \o <<"server_hello">>
    BY <1>1 DEF Calls
  <2>2. w \in Seq({"certificate_request"}) /\ (w # <<>> => Requests(c))
    BY WalkedRequestsOK
  <2> HIDE DEF w
  <2>3. /\ w \in Seq(Messages) /\ <<"server_hello">> \in Seq(Messages)
        /\ Len(<<"server_hello">>) = 1 /\ <<"server_hello">>[1] = "server_hello"
    BY <2>2 DEF Messages
  <2>4. /\ w \o <<"server_hello">> \in Seq(Messages)
        /\ Len(w \o <<"server_hello">>) = Len(w) + Len(<<"server_hello">>)
        /\ \A i \in 1 .. Len(w) + Len(<<"server_hello">>) :
             (w \o <<"server_hello">>)[i] =
               IF i <= Len(w) THEN w[i] ELSE <<"server_hello">>[i - Len(w)]
    BY <2>3, ConcatProperties, Zenon
  <2> DEFINE q == w \o <<"server_hello">>
  <2>5. ASSUME NEW i \in DOMAIN q
        PROVE  \/ q[i] = "server_hello"
               \/ q[i] = "certificate_request" /\ Requests(c)
    <3>1. Len(w) \in Nat /\ DOMAIN q = 1 .. Len(w) + 1 /\ DOMAIN w = 1 .. Len(w)
      BY <2>2, <2>3, <2>4
    <3>2. CASE i <= Len(w)
      <4>1. i \in DOMAIN w /\ q[i] = w[i]
        BY <2>3, <2>4, <2>5, <3>1, <3>2
      <4>2. w[i] = "certificate_request"
        BY <2>2, <4>1
      <4>3. w # <<>>
        BY <4>1
      <4> QED BY <2>2, <4>1, <4>2, <4>3
    <3>3. CASE ~(i <= Len(w))
      <4>1. i = Len(w) + 1 /\ i - Len(w) = 1
        BY <2>5, <3>1, <3>3
      <4>2. q[i] = <<"server_hello">>[i - Len(w)]
        BY <2>3, <2>4, <3>1, <3>3, <4>1
      <4> QED BY <2>3, <4>1, <4>2
    <3> QED BY <3>2, <3>3
  <2> HIDE DEF q
  <2> QED BY <1>1, <2>1, <2>4, <2>5 DEF q
<1>2. CASE Calls(c) = <<>>
  BY <1>2
<1>3. CASE Calls(c) = <<c.msg>> /\ (c.msg = "certificate" => Ingress(c))
  <2>1. <<c.msg>> \in Seq(Messages) /\ DOMAIN <<c.msg>> = {1} /\ <<c.msg>>[1] = c.msg
    BY <1>a
  <2>2. c.msg = "certificate_request" => Requests(c)
    BY DEF Requests
  <2> QED BY <1>3, <2>1, <2>2
<1> QED BY <1>1, <1>2, <1>3 DEF Calls

(***************************************************************************)
(* Lemmas about the worker's use of the correlator                         *)
(***************************************************************************)

LEMMA JobTyped ==
  ASSUME LoopOK, stage = "calls"
  PROVE  /\ job \in Job /\ job # None
         /\ job.cap \in RawCapture /\ job.cap.key \in Conns /\ job.cap.msg \in Messages
         /\ job.calls \in Seq(Messages)
         /\ job.negotiation \in Negotiation \cup {None}
<1>1. job \in Job /\ job # None
  BY DEF LoopOK
<1>2. job.cap \in RawCapture /\ job.calls \in Seq(Messages)
      /\ job.negotiation \in Negotiation \cup {None}
  BY <1>1 DEF Job
<1>3. job.cap.key \in Conns /\ job.cap.msg \in Messages
  BY <1>2 DEF RawCapture
<1> QED BY <1>1, <1>2, <1>3

(* The head and the rest of the calls. *)
LEMMA CallsSplit ==
  ASSUME NEW S, NEW q \in Seq(S), q # <<>>
  PROVE  /\ Head(q) = q[1] /\ 1 \in DOMAIN q /\ Head(q) \in S
         /\ Tail(q) \in Seq(S)
         /\ \A i \in DOMAIN Tail(q) : i + 1 \in DOMAIN q /\ Tail(q)[i] = q[i + 1]
  OBVIOUS

(* Whatever the worker does, the correlator sees its own operations. *)
LEMMA WorkerStepsCorrelator ==
  ASSUME LoopOK, [WorkerNext]_workerVars
  PROVE  [Next]_vars
<1>1. ASSUME NEW c, Take(c) PROVE UNCHANGED vars
  BY <1>1 DEF Take, tableVars, vars
<1>2. ASSUME NEW k \in Conns, NEW i, Receive(k, i) \/ ReceiveAgain(k, i) \/ Lose(k, i)
      PROVE  UNCHANGED vars
  BY <1>1, <1>2 DEF Receive, ReceiveAgain, Lose, tableVars, vars
<1>3. CASE Correlate
  <2>1. job.cap.key \in Conns
    BY <1>3, JobTyped DEF Correlate
  <2>2. CorrelatorCall(job.cap.key, Head(job.calls))
    BY <1>3 DEF Correlate
  <2>3. ASSUME NEW k \in Conns, NEW call, CorrelatorCall(k, call) PROVE Next
    BY <2>3 DEF CorrelatorCall, Next
  <2> QED BY <2>1, <2>2, <2>3
<1>4. CASE Drop13 \/ Emit
  BY <1>4 DEF Drop13, Emit, tableVars, vars
<1>5. CASE Sweep
  BY <1>5 DEF Sweep, Next
<1>6. CASE TimePasses
  BY <1>6 DEF TimePasses, Next
<1>7. CASE UNCHANGED workerVars
  BY <1>7 DEF workerVars, tableVars, vars
<1>8. CASE \E k \in Conns : \E i \in DOMAIN script[k] :
             Receive(k, i) \/ ReceiveAgain(k, i) \/ Lose(k, i)
  BY <1>2, <1>8
<1> QED BY <1>3, <1>4, <1>5, <1>6, <1>7, <1>8 DEF WorkerNext

(* A call the captures back leaves a table they back, and returns a        *)
(* negotiation that fits the call.                                         *)
LEMMA CorrelatorCallBacked ==
  ASSUME Inv, NEW P, NEW A, TableBacked(P, A, pending),
         NEW k \in Conns, NEW call, CallBacked(P, A, k, call), CorrelatorCall(k, call)
  PROVE  /\ TableBacked(P, A, pending')
         /\ negotiated' # None => FitsAndBacked(P, A, negotiated', k, call)
<1>1. ASSUME NEW K, pending' = Without(pending, K) PROVE TableBacked(P, A, pending')
  BY <1>1 DEF TableBacked, Without, Restrict
<1>2. ASSUME NEW j \in DOMAIN pending
      PROVE  /\ pending[j] \in Summary /\ Backed(P, A, j, pending[j])
             /\ pending[j].post_sh_negotiation # None =>
                  /\ Backed(P, A, j, pending[j].post_sh_negotiation)
                  /\ pending[j].post_sh_negotiation \in Negotiation
                  /\ pending[j].post_sh_negotiation.key = j
  BY DEF Inv, TableOK, EntryOK, Summary, TableBacked
<1>3. ASSUME k \in DOMAIN pending, NEW v, pending' = [pending EXCEPT ![k] = v],
             Backed(P, A, k, v),
             v.post_sh_negotiation # None => Backed(P, A, k, v.post_sh_negotiation)
      PROVE  TableBacked(P, A, pending')
  <2>1. /\ DOMAIN pending' = DOMAIN pending /\ pending'[k] = v
        /\ \A j \in DOMAIN pending \ {k} : pending'[j] = pending[j]
    BY <1>3 DEF Inv, TableOK
  <2> QED BY <1>3, <2>1 DEF TableBacked
<1>4. ASSUME NEW evicted, call = "client_hello", OnClientHello(k, evicted)
      PROVE  TableBacked(P, A, pending') /\ negotiated' = None
  <2>1. /\ pending' = With(Without(pending, {evicted}), k, NewSummary)
        /\ negotiated' = None
    BY <1>4 DEF OnClientHello
  <2>2. ASSUME NEW j \in DOMAIN pending'
        PROVE  (j \in DOMAIN pending /\ pending'[j] = pending[j]) \/ pending'[j] = NewSummary
    BY <2>1, <2>2 DEF With, Without, Restrict
  <2>3. \A j : Backed(P, A, j, NewSummary) /\ NewSummary.post_sh_negotiation = None
    BY DEF NewSummary, Backed
  <2> HIDE DEF NewSummary
  <2> QED BY <2>1, <2>2, <2>3 DEF TableBacked
<1>5. ASSUME NEW outcome \in {"negotiated", "failed"}, NEW rides \in {"sh", "alert"},
             k \in DOMAIN pending,
             NEW n, n = BuildNegotiation(k, pending[k], outcome, rides)
      PROVE  n.key = k /\ n.rides = rides /\ Backed(P, A, k, n)
  BY <1>2, <1>5 DEF BuildNegotiation, Backed
<1>6. ASSUME call = "server_hello", OnServerHelloMtls(k)
      PROVE  TableBacked(P, A, pending') /\ FitsAndBacked(P, A, negotiated', k, call)
  <2> DEFINE n == BuildNegotiation(k, pending[k], "negotiated", "sh")
             v == [pending[k] EXCEPT !.post_sh_negotiation = n]
  <2>1. k \in DOMAIN pending /\ negotiated' = n /\ pending' = [pending EXCEPT ![k] = v]
    BY <1>6 DEF OnServerHelloMtls
  <2>2. n.key = k /\ n.rides = "sh" /\ Backed(P, A, k, n)
    BY <1>5, <2>1
  <2> HIDE DEF n
  <2>3. pending[k] \in Summary /\ Backed(P, A, k, pending[k])
    BY <1>2, <2>1
  <2>4. /\ v.post_sh_negotiation = n /\ v.mtls = pending[k].mtls
        /\ v.mtls_requested = pending[k].mtls_requested
    BY <2>3 DEF Summary
  <2>5. Backed(P, A, k, v)
    BY <2>3, <2>4 DEF Backed
  <2> HIDE DEF v
  <2>6. TableBacked(P, A, pending')
    BY <1>3, <2>1, <2>2, <2>4, <2>5
  <2> QED BY <1>6, <2>1, <2>2, <2>6 DEF FitsAndBacked, Fits
<1>7. ASSUME \/ call = "server_hello" /\ OnServerHello(k)
             \/ call = "alert" /\ OnAlert(k)
      PROVE  TableBacked(P, A, pending') /\ FitsAndBacked(P, A, negotiated', k, call)
  <2>1. CASE call = "server_hello" /\ OnServerHello(k)
    BY <1>1, <1>5, <2>1 DEF OnServerHello, FitsAndBacked, Fits
  <2>2. CASE call = "alert" /\ OnAlert(k)
    BY <1>1, <1>5, <2>2 DEF OnAlert, FitsAndBacked, Fits
  <2> QED BY <1>7, <2>1, <2>2
<1>8. ASSUME call = "certificate_request", OnCertificateRequest(k)
      PROVE  TableBacked(P, A, pending') /\ negotiated' = None
  <2> DEFINE v == [pending[k] EXCEPT !.mtls_requested = TRUE]
  <2>1. k \in DOMAIN pending /\ negotiated' = None /\ pending' = [pending EXCEPT ![k] = v]
    BY <1>8 DEF OnCertificateRequest
  <2>2. /\ v.post_sh_negotiation = pending[k].post_sh_negotiation
        /\ v.mtls = pending[k].mtls /\ k \in A
    BY <1>2, <1>8, <2>1 DEF Summary, CallBacked
  <2> HIDE DEF v
  <2>3. Backed(P, A, k, v)
    BY <1>2, <2>1, <2>2 DEF Backed
  <2> QED BY <1>2, <1>3, <2>1, <2>2, <2>3
<1>9. ASSUME call = "certificate", OnClientCertificateEarly(k)
      PROVE  TableBacked(P, A, pending') /\ negotiated' = None
  <2> DEFINE v == [pending[k] EXCEPT !.mtls = TRUE]
  <2>1. k \in DOMAIN pending /\ negotiated' = None /\ pending' = [pending EXCEPT ![k] = v]
    BY <1>9 DEF OnClientCertificateEarly
  <2>2. /\ v.post_sh_negotiation = pending[k].post_sh_negotiation
        /\ v.mtls_requested = pending[k].mtls_requested /\ k \in P
    BY <1>2, <1>9, <2>1 DEF Summary, CallBacked
  <2> HIDE DEF v
  <2>3. Backed(P, A, k, v)
    BY <1>2, <2>1, <2>2 DEF Backed
  <2> QED BY <1>2, <1>3, <2>1, <2>2, <2>3
<1>10. ASSUME call = "certificate", OnClientCertificateJoined(k)
       PROVE  TableBacked(P, A, pending') /\ FitsAndBacked(P, A, negotiated', k, call)
  <2> DEFINE o == pending[k].post_sh_negotiation
  <2>1. /\ k \in DOMAIN pending /\ o # None /\ pending' = Without(pending, {k})
        /\ negotiated' = [o EXCEPT !.mtls = TRUE, !.rides = "cert"]
    BY <1>10 DEF OnClientCertificateJoined
  <2>2. o \in Negotiation /\ o.key = k /\ Backed(P, A, k, o)
    BY <1>2, <2>1
  <2> HIDE DEF o
  <2>3. /\ negotiated'.key = k /\ negotiated'.rides = "cert"
        /\ negotiated'.mtls_requested = o.mtls_requested
    BY <2>1, <2>2 DEF Negotiation
  <2>4. k \in P
    BY <1>10 DEF CallBacked
  <2> QED BY <1>1, <1>10, <2>1, <2>2, <2>3, <2>4 DEF FitsAndBacked, Fits, Backed
<1>11. CASE OnUnknownFlow(k)
  BY <1>11 DEF OnUnknownFlow
<1> QED BY <1>4, <1>6, <1>7, <1>8, <1>9, <1>10, <1>11 DEF CorrelatorCall

(***************************************************************************)
(* The invariant                                                           *)
(***************************************************************************)

LEMMA InitWorkerInv == WorkerInit => WorkerInv
<1> SUFFICES ASSUME WorkerInit PROVE WorkerInv
  OBVIOUS
<1>1. Inv
  BY InitInv DEF WorkerInit
<1>2. LoopOK
  <2>1. \A k \in Conns : DOMAIN script[k] \subseteq Nat
    <3>1. \A k \in Conns : script[k] \in Seq(RawCapture)
      BY WorkerAssumption DEF WorkerInit
    <3> QED BY <3>1
  <2> QED BY <2>1, WorkerAssumption DEF WorkerInit, LoopOK
<1>3. HeldOK /\ CountersOK
  BY DEF WorkerInit, HeldOK, CountersOK
<1>4. TableBacked(Presenting, Asking, pending)
  BY DEF WorkerInit, Init, TableBacked
<1> QED BY <1>1, <1>2, <1>3, <1>4 DEF WorkerInit, WorkerInv

(* A record to analyze is backed once its capture counts as received. *)
LEMMA AnalyzeBacked ==
  ASSUME NEW c \in RawCapture, Analyze(c), NEW P, NEW A,
         c.msg = "certificate" /\ Ingress(c) => c.key \in P,
         Requests(c) => c.key \in A
  PROVE  /\ stage' = "calls" /\ job' \in Job /\ job' # None
         /\ JobBacked(P, A, job')
<1>1. job' = [cap |-> c, calls |-> Calls(c), negotiation |-> None] /\ stage' = "calls"
  BY DEF Analyze
<1>2. Calls(c) \in Seq(Messages)
  BY CallsOK
<1>3. job' \in Job
  BY <1>1, <1>2 DEF Job
<1>4. job' # None
  BY <1>3, WorkerAssumption
<1>5. job'.cap = c /\ job'.calls = Calls(c) /\ job'.negotiation = None
  BY <1>1
<1>6. \A i \in DOMAIN Calls(c) : /\ Calls(c)[i] \in {c.msg, "certificate_request"}
                                 /\ CallBacked(P, A, c.key, Calls(c)[i])
  BY CallsOK DEF CallBacked
<1> QED BY <1>1, <1>3, <1>4, <1>5, <1>6 DEF JobBacked

(* The counter of the sweeps stays within its range. *)
LEMMA EndOfBodyOK ==
  ASSUME LoopOK, CountersOK, EndOfBody
  PROVE  /\ timeout_counter' \in 0 .. SweepEvery - 1
         /\ stage' \in {"recv", "sweep"} /\ job' = None /\ unswept' \in Nat
<1>1. timeout_counter \in Nat /\ SweepEvery \in Nat \ {0} /\ unswept \in Nat
  BY WorkerAssumption DEF LoopOK, CountersOK
<1>2. \A n \in Nat : (n + 1) % SweepEvery \in 0 .. SweepEvery - 1
  BY <1>1
<1> QED BY <1>1, <1>2 DEF EndOfBody

(* A capture that counts as received is taken. *)
LEMMA TakeOK ==
  ASSUME LoopOK, HeldOK, CountersOK, Inv, NEW c \in RawCapture, Take(c), NEW P, NEW A,
         c.msg = "certificate" /\ Ingress(c) => c.key \in P,
         Requests(c) => c.key \in A
  PROVE  /\ HeldOK'
         /\ stage' \in {"recv", "calls", "sweep"} /\ job' \in Job \cup {None}
         /\ (stage' = "calls") <=> (job' # None)
         /\ timeout_counter' \in 0 .. SweepEvery - 1
         /\ unswept' \in Nat
         /\ job' # None => JobBacked(P, A, job')
<1>a. timeout_counter \in 0 .. SweepEvery - 1 /\ unswept \in Nat
  BY DEF LoopOK, CountersOK
<1>1. CASE c.part = "whole" /\ Analyze(c) /\ UNCHANGED held
  <2>1. UNCHANGED <<timeout_counter, unswept>> /\ HeldOK'
    BY <1>1 DEF Analyze, HeldOK
  <2>2. stage' = "calls" /\ job' \in Job /\ job' # None /\ JobBacked(P, A, job')
    BY <1>1, AnalyzeBacked
  <2> QED BY <1>a, <2>1, <2>2
<1>2. CASE /\ Completes(c)
           /\ Analyze([c EXCEPT !.part = "head"])
           /\ held' = Without(held, {ReasmKey(c)})
  <2> DEFINE d == [c EXCEPT !.part = "head"]
  <2>1. /\ d \in RawCapture /\ d.key = c.key /\ d.msg = c.msg
        /\ d.from = c.from /\ d.flight = c.flight
    BY DEF RawCapture
  <2>2. Analyze(d)
    BY <1>2
  <2> HIDE DEF d
  <2>3. Ingress(d) = Ingress(c) /\ Requests(d) = Requests(c)
    BY <2>1 DEF Ingress, Requests
  <2>4. stage' = "calls" /\ job' \in Job /\ job' # None /\ JobBacked(P, A, job')
    BY <2>1, <2>2, <2>3, AnalyzeBacked
  <2>5. UNCHANGED <<timeout_counter, unswept>>
    BY <2>2 DEF Analyze
  <2>6. HeldOK'
    BY <1>2 DEF HeldOK, Without, Restrict
  <2> QED BY <1>a, <2>4, <2>5, <2>6
<1>3. CASE /\ c.part # "whole" /\ ~Completes(c)
           /\ held' = With(held, ReasmKey(c), [cap |-> c, ts |-> Created(c)])
           /\ EndOfBody
  <2>1. HeldOK'
    <3> DEFINE v == [cap |-> c, ts |-> Created(c)]
    <3>1. v.cap = c /\ v.ts \in 0 .. MaxClock
      BY DEF Inv, ClockOK, HeldOK, Created
    <3>2. \A r \in DOMAIN held' : held'[r] = v \/ (r \in DOMAIN held /\ held'[r] = held[r])
      BY <1>3 DEF With
    <3> HIDE DEF v
    <3> QED BY <1>3, <3>1, <3>2 DEF HeldOK
  <2> QED BY <1>3, <2>1, EndOfBodyOK
<1> QED BY <1>1, <1>2, <1>3 DEF Take

(* Captures come in, and never come out again. *)
LEMMA GoneGrows ==
  ASSUME UNCHANGED script, \A k \in Conns : unsent'[k] \subseteq unsent[k]
  PROVE  Presenting \subseteq Presenting' /\ Asking \subseteq Asking'
<1>1. \A k \in Conns : Gone(k) \subseteq Gone(k)'
  BY DEF Gone
<1>2. \A c : Ingress(c)' = Ingress(c) /\ Requests(c)' = Requests(c)
  BY DEF Ingress, Requests
<1> QED BY <1>1, <1>2 DEF Presenting, Asking

(* A step that takes a capture, with the wire as it is afterwards. *)
LEMMA TakeInv ==
  ASSUME WorkerInv, NEW k \in Conns, NEW i \in DOMAIN script[k] \ unsent'[k],
         Take(script[k][i]), UNCHANGED script,
         unsent' \in [Conns -> SUBSET Nat], faults' \in 0 .. MaxFaults,
         \A j \in Conns : unsent'[j] \subseteq unsent[j]
  PROVE  WorkerInv'
<1> DEFINE c == script[k][i]
<1>1. Presenting \subseteq Presenting' /\ Asking \subseteq Asking'
  BY GoneGrows
<1>2. script \in Scripts
  BY DEF WorkerInv, LoopOK
<1>3. c \in RawCapture /\ c.key = k
  <2>1. script[k] \in Seq(RawCapture) /\ c.key = k
    BY <1>2, WorkerAssumption
  <2> QED BY <2>1, ElementOfSeq
<1>4. c \in Gone(k)'
  BY DEF Gone
<1>5. /\ c.msg = "certificate" /\ Ingress(c) => c.key \in Presenting'
      /\ Requests(c) => c.key \in Asking'
  BY <1>3, <1>4 DEF Presenting, Asking, Ingress, Requests
<1>6. Take(c)
  OBVIOUS
<1> HIDE DEF c
<1>7. LoopOK /\ HeldOK /\ CountersOK /\ Inv
  BY DEF WorkerInv
<1>8. /\ HeldOK'
      /\ stage' \in {"recv", "calls", "sweep"} /\ job' \in Job \cup {None}
      /\ (stage' = "calls") <=> (job' # None)
      /\ timeout_counter' \in 0 .. SweepEvery - 1
      /\ unswept' \in Nat
      /\ job' # None => JobBacked(Presenting', Asking', job')
  <2> DEFINE P == Presenting'
             A == Asking'
  <2> HIDE DEF P, A
  <2>1. c.msg = "certificate" /\ Ingress(c) => c.key \in P
    BY <1>5 DEF P
  <2>2. Requests(c) => c.key \in A
    BY <1>5 DEF A
  <2>3. job' # None => JobBacked(P, A, job')
    BY <1>3, <1>6, <1>7, <2>1, <2>2, TakeOK
  <2> QED BY <1>3, <1>6, <1>7, <2>1, <2>2, <2>3, TakeOK DEF P, A
<1>9. UNCHANGED <<pending, negotiated, clock, steps, hellos, events, sh_without_ch,
                  alerts_dropped, certs_dropped_13>>
  BY <1>6 DEF Take, tableVars, outVars
<1>10. Inv'
  BY <1>7, <1>9, NextInv DEF vars
<1>11. TableBacked(Presenting', Asking', pending')
  BY <1>1, <1>9, BackedGrows DEF WorkerInv
<1>12. \A e \in events' : EventBacked(Presenting', Asking', e)
  BY <1>1, <1>9, BackedGrows DEF WorkerInv
<1>13. LoopOK' /\ CountersOK'
  BY <1>2, <1>7, <1>8, <1>9 DEF LoopOK, CountersOK
<1>14. events' \subseteq Event
  BY <1>9 DEF WorkerInv
<1> QED BY <1>8, <1>10, <1>11, <1>12, <1>13, <1>14 DEF WorkerInv

(* The steps that leave the wire alone. *)
LEMMA WireSame ==
  ASSUME UNCHANGED wireVars
  PROVE  Presenting' = Presenting /\ Asking' = Asking
  BY DEF wireVars, Presenting, Asking, Gone, Ingress, Requests

(* The emitted events. *)
LEMMA EmitOK ==
  ASSUME WorkerInv, Emit, NEW e \in events'
  PROVE  e \in Event /\ EventBacked(Presenting, Asking, e)
<1> DEFINE c == job.cap
<1>1. stage = "calls"
  BY DEF Emit
<1>2. /\ c \in RawCapture /\ c.key \in Conns /\ c.msg \in Messages
      /\ job.negotiation \in Negotiation \cup {None} /\ job # None
  BY <1>1, JobTyped DEF WorkerInv
<1>3. CASE e \in events
  BY <1>3 DEF WorkerInv
<1>4. ASSUME NEW i \in DOMAIN Walked(c), e = Plain(c.key, Walked(c)[i], FALSE)
      PROVE  e \in Event /\ EventBacked(Presenting, Asking, e)
  <2>1. c.flight \in Seq({"certificate", "certificate_request"})
    BY <1>2 DEF RawCapture
  <2>2. Walked(c) \in Seq({"certificate", "certificate_request"})
    BY <2>1 DEF Walked
  <2>3. Walked(c)[i] \in Messages
    BY <1>4, <2>2 DEF Messages
  <2>4. /\ e = [key |-> c.key, msg |-> Walked(c)[i], negotiation |-> None,
                truncated |-> FALSE]
        /\ e.negotiation = None
    BY <1>4 DEF Plain
  <2> QED BY <1>2, <2>3, <2>4 DEF Event, EventBacked
<1>5. CASE e = [key |-> c.key, msg |-> c.msg, negotiation |-> job.negotiation,
                truncated |-> FALSE]
  <2>1. e \in Event
    BY <1>2, <1>5 DEF Event
  <2>2. e.negotiation = job.negotiation /\ e.key = c.key /\ e.msg = c.msg
    BY <1>5
  <2>3. JobBacked(Presenting, Asking, job)
    BY <1>2 DEF WorkerInv
  <2> QED BY <2>1, <2>2, <2>3 DEF EventBacked, JobBacked
<1> QED BY <1>3, <1>4, <1>5 DEF Emit

(* Every step of the loop, the wire and the clock preserves the invariant. *)
LEMMA NextWorkerInv == WorkerInv /\ [WorkerNext]_workerVars => WorkerInv'
<1> SUFFICES ASSUME WorkerInv, [WorkerNext]_workerVars PROVE WorkerInv'
  OBVIOUS
<1>a. Inv /\ LoopOK /\ HeldOK /\ CountersOK
  BY DEF WorkerInv
<1>b. Inv'
  BY <1>a, WorkerStepsCorrelator, NextInv
<1>1. ASSUME NEW k \in Conns, NEW i \in DOMAIN script[k], Receive(k, i) PROVE WorkerInv'
  <2>1. /\ unsent' = [unsent EXCEPT ![k] = @ \ {i}] /\ UNCHANGED script
        /\ Take(script[k][i]) /\ faults' <= MaxFaults
        /\ faults' = faults \/ faults' = faults + 1
    BY <1>1 DEF Receive
  <2>2. /\ i \in DOMAIN script[k] \ unsent'[k] /\ unsent' \in [Conns -> SUBSET Nat]
        /\ \A j \in Conns : unsent'[j] \subseteq unsent[j]
    BY <1>a, <1>1, <2>1 DEF LoopOK
  <2>3. faults' \in 0 .. MaxFaults
    BY <1>a, <2>1, WorkerAssumption DEF LoopOK
  <2> QED BY <2>1, <2>2, <2>3, TakeInv
<1>2. ASSUME NEW k \in Conns, NEW i \in DOMAIN script[k], ReceiveAgain(k, i) PROVE WorkerInv'
  <2>1. /\ UNCHANGED <<script, unsent>> /\ Take(script[k][i])
        /\ faults < MaxFaults /\ faults' = faults + 1
        /\ i \in DOMAIN script[k] \ unsent[k]
    BY <1>2 DEF ReceiveAgain
  <2>2. faults' \in 0 .. MaxFaults
    BY <1>a, <2>1, WorkerAssumption DEF LoopOK
  <2>3. unsent' \in [Conns -> SUBSET Nat] /\ i \in DOMAIN script[k] \ unsent'[k]
        /\ \A j \in Conns : unsent'[j] \subseteq unsent[j]
    BY <1>a, <2>1 DEF LoopOK
  <2> QED BY <2>1, <2>2, <2>3, TakeInv
<1>3. ASSUME NEW k \in Conns, NEW i, Lose(k, i) PROVE WorkerInv'
  <2>1. /\ unsent' = [unsent EXCEPT ![k] = @ \ {i}]
        /\ faults < MaxFaults /\ faults' = faults + 1
        /\ UNCHANGED <<script, pending, events, sh_without_ch, alerts_dropped,
                       certs_dropped_13, stage, job, timeout_counter, unswept, held>>
    BY <1>3 DEF Lose, tableVars, outVars, loopVars
  <2>2. faults' \in 0 .. MaxFaults
    BY <1>a, <2>1, WorkerAssumption DEF LoopOK
  <2>3. unsent' \in [Conns -> SUBSET Nat] /\ \A j \in Conns : unsent'[j] \subseteq unsent[j]
    BY <1>a, <2>1 DEF LoopOK
  <2>4. Presenting \subseteq Presenting' /\ Asking \subseteq Asking'
    BY <2>1, <2>3, GoneGrows
  <2>5. LoopOK' /\ HeldOK' /\ CountersOK'
    BY <1>a, <2>1, <2>2, <2>3 DEF LoopOK, HeldOK, CountersOK
  <2>6. /\ TableBacked(Presenting', Asking', pending')
        /\ \A e \in events' : EventBacked(Presenting', Asking', e)
        /\ job' # None => JobBacked(Presenting', Asking', job')
    BY <2>1, <2>4, BackedGrows DEF WorkerInv
  <2> QED BY <1>b, <2>1, <2>5, <2>6 DEF WorkerInv
<1>4. CASE Correlate
  <2> DEFINE P == Presenting
             A == Asking
             call == Head(job.calls)
             k == job.cap.key
  <2>1. /\ stage = "calls" /\ job.calls # <<>> /\ CorrelatorCall(k, call)
        /\ job' = [job EXCEPT !.calls = Tail(@), !.negotiation = negotiated']
        /\ UNCHANGED wireVars
        /\ UNCHANGED <<script, unsent, faults, events, sh_without_ch, alerts_dropped,
                       certs_dropped_13, stage, timeout_counter, unswept, held>>
    BY <1>4 DEF Correlate, wireVars, outVars
  <2>2. /\ job \in Job /\ job # None /\ k \in Conns /\ job.calls \in Seq(Messages)
    BY <1>a, <2>1, JobTyped
  <2>3. TableBacked(P, A, pending) /\ JobBacked(P, A, job)
    BY <2>2 DEF WorkerInv
  <2>4. /\ call \in {job.cap.msg, "certificate_request"} /\ CallBacked(P, A, k, call)
        /\ Tail(job.calls) \in Seq(Messages)
        /\ \A i \in DOMAIN Tail(job.calls) :
             /\ Tail(job.calls)[i] \in {job.cap.msg, "certificate_request"}
             /\ CallBacked(P, A, k, Tail(job.calls)[i])
    <3>1. /\ Head(job.calls) = job.calls[1] /\ 1 \in DOMAIN job.calls
          /\ Tail(job.calls) \in Seq(Messages)
          /\ \A i \in DOMAIN Tail(job.calls) :
               i + 1 \in DOMAIN job.calls /\ Tail(job.calls)[i] = job.calls[i + 1]
      BY <2>1, <2>2, CallsSplit
    <3> QED BY <2>3, <3>1 DEF JobBacked
  <2>5. /\ TableBacked(P, A, pending')
        /\ negotiated' # None => FitsAndBacked(P, A, negotiated', k, call)
    <3> HIDE DEF P, A, call, k
    <3> QED BY <1>a, <2>1, <2>2, <2>3, <2>4, CorrelatorCallBacked
  <2>6. negotiated' \in Negotiation \cup {None}
    BY <1>b DEF Inv, JoinOK
  <2>7. /\ job'.cap = job.cap /\ job'.calls = Tail(job.calls)
        /\ job'.negotiation = negotiated' /\ job' \in Job
    <3>1. /\ job = [cap |-> job.cap, calls |-> job.calls, negotiation |-> job.negotiation]
          /\ job.cap \in RawCapture
      BY <2>2 DEF Job
    <3>2. job' = [cap |-> job.cap, calls |-> Tail(job.calls), negotiation |-> negotiated']
      BY <2>1, <3>1
    <3> QED BY <2>4, <2>6, <3>1, <3>2 DEF Job
  <2>8. negotiated' # None => FitsAndBacked(P, A, negotiated', k, job.cap.msg)
    <3>1. \A n : Fits(n, k, call) => call # "certificate_request"
      BY DEF Fits
    <3> QED BY <2>4, <2>5, <3>1 DEF FitsAndBacked
  <2>9. JobBacked(P, A, job')
    BY <2>4, <2>7, <2>8 DEF JobBacked
  <2>10. Presenting' = P /\ Asking' = A
    BY <2>1, WireSame
  <2>11. job' # None
    BY <2>7, WorkerAssumption
  <2>12. LoopOK' /\ HeldOK' /\ CountersOK'
    BY <1>a, <2>1, <2>7, <2>11 DEF LoopOK, HeldOK, CountersOK
  <2> QED BY <1>b, <2>1, <2>5, <2>9, <2>10, <2>12 DEF WorkerInv
<1>5. CASE Drop13
  <2>1. /\ UNCHANGED wireVars
        /\ UNCHANGED <<script, unsent, faults, pending, events, sh_without_ch,
                       alerts_dropped, timeout_counter, held>>
        /\ stage' = "recv" /\ job' = None
        /\ certs_dropped_13' = certs_dropped_13 + 1 /\ unswept' = unswept + 1
    BY <1>5 DEF Drop13, wireVars, tableVars
  <2>2. Presenting' = Presenting /\ Asking' = Asking
    BY <2>1, WireSame
  <2>3. LoopOK' /\ HeldOK' /\ CountersOK'
    BY <1>a, <2>1 DEF LoopOK, HeldOK, CountersOK
  <2> QED BY <1>b, <2>1, <2>2, <2>3 DEF WorkerInv
<1>6. CASE Emit
  <2>1. /\ UNCHANGED wireVars /\ EndOfBody
        /\ UNCHANGED <<script, unsent, faults, pending, certs_dropped_13, held>>
    BY <1>6 DEF Emit, wireVars, tableVars
  <2>2. Presenting' = Presenting /\ Asking' = Asking
    BY <2>1, WireSame
  <2>3. sh_without_ch' \in Nat /\ alerts_dropped' \in Nat
    BY <1>a, <1>6 DEF Emit, CountersOK
  <2>4. /\ timeout_counter' \in 0 .. SweepEvery - 1
        /\ stage' \in {"recv", "sweep"} /\ job' = None /\ unswept' \in Nat
    BY <1>a, <2>1, EndOfBodyOK
  <2>5. LoopOK' /\ HeldOK' /\ CountersOK'
    BY <1>a, <2>1, <2>3, <2>4 DEF LoopOK, HeldOK, CountersOK
  <2>6. \A e \in events' : e \in Event /\ EventBacked(Presenting, Asking, e)
    BY <1>6, EmitOK
  <2> QED BY <1>b, <2>1, <2>2, <2>4, <2>5, <2>6 DEF WorkerInv
<1>7. CASE Sweep
  <2>1. /\ UNCHANGED wireVars /\ held' = Without(held, ExpiredHeld)
        /\ UNCHANGED <<script, unsent, faults, sh_without_ch, alerts_dropped,
                       certs_dropped_13, job, timeout_counter>>
        /\ stage = "sweep" /\ stage' = "recv" /\ unswept' = 0
        /\ pending' = Restrict(pending, {k \in DOMAIN pending : Elapsed(pending[k].ts) < Ttl})
    BY <1>7 DEF Sweep, SweepExpired, wireVars
  <2>2. Presenting' = Presenting /\ Asking' = Asking
    BY <2>1, WireSame
  <2>3. TableBacked(Presenting, Asking, pending')
    BY <2>1 DEF WorkerInv, TableBacked, Restrict
  <2>4. LoopOK' /\ CountersOK' /\ job' = None
    BY <1>a, <2>1 DEF LoopOK, CountersOK
  <2>5. HeldOK'
    BY <1>a, <2>1 DEF HeldOK, Without, Restrict
  <2>6. ASSUME NEW e \in events' PROVE e \in Event /\ EventBacked(Presenting, Asking, e)
    <3>1. CASE e \in events
      BY <3>1 DEF WorkerInv
    <3>2. ASSUME NEW r \in DOMAIN held, e = Plain(held[r].cap.key, held[r].cap.msg, TRUE)
          PROVE  e \in Event /\ EventBacked(Presenting, Asking, e)
      <4>1. held[r].cap.key \in Conns /\ held[r].cap.msg \in Messages
        BY <1>a DEF HeldOK, RawCapture
      <4> QED BY <3>2, <4>1 DEF Plain, Event, EventBacked
    <3> QED BY <1>7, <3>1, <3>2 DEF Sweep, ExpiredHeld
  <2> QED BY <1>b, <2>2, <2>3, <2>4, <2>5, <2>6 DEF WorkerInv
<1>8. CASE TimePasses \/ UNCHANGED workerVars
  <2>1. /\ UNCHANGED wireVars
        /\ UNCHANGED <<script, unsent, faults, pending, events, sh_without_ch,
                       alerts_dropped, certs_dropped_13, stage, job, timeout_counter,
                       unswept, held>>
    BY <1>8 DEF TimePasses, ClockRuns, workerVars, wireVars, tableVars, outVars, loopVars
  <2>2. Presenting' = Presenting /\ Asking' = Asking
    BY <2>1, WireSame
  <2>3. LoopOK' /\ HeldOK' /\ CountersOK'
    BY <1>a, <2>1 DEF LoopOK, HeldOK, CountersOK
  <2> QED BY <1>b, <2>1, <2>2, <2>3 DEF WorkerInv
<1> QED BY <1>1, <1>2, <1>3, <1>4, <1>5, <1>6, <1>7, <1>8 DEF WorkerNext

(* The inductive invariant holds whatever captures come in, in any order. *)
THEOREM WorkerInvHolds == WorkerSpec => []WorkerInv
  BY InitWorkerInv, NextWorkerInv, PTL DEF WorkerSpec

(* The worker's own state and its two tables are well formed. *)
THEOREM WorkerTypeCorrect == WorkerSpec => []WorkerTypeOK
  BY WorkerInvHolds, WorkerInvTyped, PTL

(* The worker uses the correlator only through its operations, one at a    *)
(* time: a behaviour of the loop (capture.rs) is a behaviour of            *)
(* Correlator, and every theorem of part 1 holds of it.                    *)
THEOREM ImplementsCorrelator == WorkerSpec => Spec
<1>1. WorkerInit => Init
  BY DEF WorkerInit
<1>2. WorkerInv /\ [WorkerNext]_workerVars => [Next]_vars
  BY WorkerStepsCorrelator DEF WorkerInv
<1> QED BY <1>1, <1>2, WorkerInvHolds, PTL DEF WorkerSpec, Spec

(* A negotiation rides an event of its own connection and of the message   *)
(* that completed it, whatever is lost, early or repeated.                 *)
THEOREM FitsItsEvent == WorkerSpec => []NegotiationFits
  BY WorkerInvHolds, WorkerInvFits, PTL

(* An event of a connection whose server runs on this host, so that the    *)
(* incoming Certificate is the client's (FLAG_INGRESS, capture.rs), says   *)
(* mtls only if the client has presented a certificate, whichever peers of *)
(* other connections run here; an event of any connection says             *)
(* mtls_requested only if the server has asked for one.                    *)
THEOREM MtlsIsBacked == WorkerSpec => []MtlsIsReal
<1>1. WorkerInv => MtlsIsReal
  <2> SUFFICES ASSUME WorkerInv, NEW e \in events, e.negotiation # None
               PROVE  /\ (e.negotiation.mtls /\ Host[e.key] = "server") =>
                           \E c \in Gone(e.key) : ClientCertificate(c)
                      /\ e.negotiation.mtls_requested => \E c \in Gone(e.key) : Requests(c)
    BY DEF MtlsIsReal
  <2>1. e.key \in Conns /\ Backed(Presenting, Asking, e.key, e.negotiation)
    BY DEF WorkerInv, Event, EventBacked, FitsAndBacked
  <2>2. ASSUME NEW k \in Conns, Host[k] = "server", NEW c \in Gone(k), Ingress(c)
        PROVE  c.from = "client"
    <3>1. PICK i \in DOMAIN script[k] : c = script[k][i]
      BY DEF Gone
    <3>2. script[k] \in Seq(RawCapture) /\ c.key = k
      BY <3>1, WorkerAssumption DEF WorkerInv, LoopOK
    <3>3. c \in RawCapture
      BY <3>1, <3>2, ElementOfSeq
    <3> QED BY <2>2, <3>2, <3>3 DEF Ingress, RawCapture
  <2> QED BY <2>1, <2>2 DEF Backed, Presenting, Asking, ClientCertificate
<1> QED BY <1>1, WorkerInvHolds, PTL

(***************************************************************************)
(* A failure is final                                                      *)
(***************************************************************************)

Failed(n) == n # None /\ n.outcome = "failed"

(* No entry of table m is of the hello of n, one of h, and none will be. *)
Spent(h, m, n) ==
  /\ n.hello \in DOMAIN h
  /\ \A k \in DOMAIN m : m[k].hello # n.hello

(* The hellos of the failures already reported, and of one about to be.    *)
FinalInv ==
  /\ \A f \in events : Failed(f.negotiation) =>
       /\ Spent(hellos, pending, f.negotiation)
       /\ job # None /\ job.negotiation # None =>
            job.negotiation.hello # f.negotiation.hello
  /\ job # None /\ Failed(job.negotiation) => Spent(hellos, pending, job.negotiation)

(* A step of the correlator reports a hello of the table, and adds none    *)
(* but a new one.                                                          *)
LEMMA CorrelatorHellos ==
  ASSUME Inv, Next
  PROVE  /\ DOMAIN hellos \subseteq DOMAIN hellos'
         /\ \A k \in DOMAIN pending' :
              \/ k \in DOMAIN pending /\ pending'[k].hello = pending[k].hello
              \/ pending'[k].hello \notin DOMAIN hellos
         /\ \/ negotiated' = None
            \/ \E k \in DOMAIN pending : negotiated'.hello = pending[k].hello
<1>1. \A k \in DOMAIN pending : pending[k] \in Summary
  BY DEF Inv, TableOK, EntryOK
<1>2. ASSUME NEW k \in Conns, NEW evicted, OnClientHello(k, evicted)
      PROVE  /\ DOMAIN hellos \subseteq DOMAIN hellos'
             /\ \A j \in DOMAIN pending' :
                  \/ j \in DOMAIN pending /\ pending'[j].hello = pending[j].hello
                  \/ pending'[j].hello \notin DOMAIN hellos
             /\ negotiated' = None
  <2>1. NewSummary.hello \notin DOMAIN hellos
    <3>1. PICK n \in 0 .. MaxHellos : DOMAIN hellos = 1 .. n
      BY DEF Inv, IsHistory
    <3>2. n \in Nat
      BY <3>1, CorrelatorAssumption
    <3>3. Cardinality(1 .. n) = n
      <4>1. Cardinality(1 .. n) = IF 1 > n THEN 0 ELSE n - 1 + 1
        BY <3>2, FS_Interval
      <4> QED BY <3>2, <4>1
    <3> QED BY <3>1, <3>2, <3>3 DEF NewSummary, HelloCount
  <2>2. ASSUME NEW j \in DOMAIN pending'
        PROVE  (j \in DOMAIN pending /\ pending'[j] = pending[j]) \/ pending'[j] = NewSummary
    BY <1>2, <2>2 DEF OnClientHello, With, Without, Restrict
  <2>3. DOMAIN hellos \subseteq DOMAIN hellos' /\ negotiated' = None
    BY <1>2 DEF OnClientHello, With
  <2> HIDE DEF NewSummary
  <2> QED BY <2>1, <2>2, <2>3
<1>3. ASSUME NEW k \in Conns, OnServerHelloMtls(k) \/ OnCertificateRequest(k)
                                 \/ OnClientCertificateEarly(k)
      PROVE  /\ UNCHANGED hellos
             /\ \A j \in DOMAIN pending' :
                  j \in DOMAIN pending /\ pending'[j].hello = pending[j].hello
             /\ \/ negotiated' = None
                \/ k \in DOMAIN pending /\ negotiated'.hello = pending[k].hello
  <2>1. CASE OnServerHelloMtls(k)
    BY <1>1, <2>1 DEF OnServerHelloMtls, BuildNegotiation, Summary
  <2>2. CASE OnCertificateRequest(k) \/ OnClientCertificateEarly(k)
    BY <1>1, <2>2 DEF OnCertificateRequest, OnClientCertificateEarly, Summary
  <2> QED BY <1>3, <2>1, <2>2
<1>4. ASSUME NEW k \in Conns, OnServerHello(k) \/ OnAlert(k) \/ OnClientCertificateJoined(k)
      PROVE  /\ UNCHANGED hellos
             /\ \A j \in DOMAIN pending' :
                  j \in DOMAIN pending /\ pending'[j].hello = pending[j].hello
             /\ k \in DOMAIN pending /\ negotiated'.hello = pending[k].hello
  <2>1. /\ UNCHANGED hellos /\ k \in DOMAIN pending
        /\ \A j \in DOMAIN pending' :
             j \in DOMAIN pending /\ pending'[j].hello = pending[j].hello
    BY <1>4 DEF OnServerHello, OnAlert, OnClientCertificateJoined, Without, Restrict
  <2>2. CASE OnServerHello(k) \/ OnAlert(k)
    BY <2>1, <2>2 DEF OnServerHello, OnAlert, BuildNegotiation
  <2>3. CASE OnClientCertificateJoined(k)
    <3> DEFINE o == pending[k].post_sh_negotiation
    <3>1. o # None /\ negotiated' = [o EXCEPT !.mtls = TRUE, !.rides = "cert"]
      BY <2>3 DEF OnClientCertificateJoined
    <3>2. o \in Negotiation /\ o.hello = pending[k].hello
      BY <2>1, <3>1 DEF Inv, TableOK, EntryOK, Summary
    <3> HIDE DEF o
    <3>3. negotiated'.hello = o.hello
      BY <3>1, <3>2 DEF Negotiation
    <3> QED BY <2>1, <3>2, <3>3
  <2> QED BY <1>4, <2>2, <2>3
<1>5. CASE SweepExpired
  BY <1>5 DEF SweepExpired, Restrict
<1>6. ASSUME NEW k \in Conns, OnUnknownFlow(k)
      PROVE  UNCHANGED <<pending, hellos>> /\ negotiated' = None
  BY <1>6 DEF OnUnknownFlow
<1>7. CASE ClockRuns \/ ClockSetBack
  BY <1>7 DEF ClockRuns, ClockSetBack
<1> QED BY <1>2, <1>3, <1>4, <1>5, <1>6, <1>7 DEF Next

(* What is spent stays spent. *)
LEMMA SpentStays ==
  ASSUME Inv, [Next]_vars, NEW n, Spent(hellos, pending, n)
  PROVE  Spent(hellos', pending', n)
<1>1. CASE Next
  BY <1>1, CorrelatorHellos DEF Spent
<1>2. CASE UNCHANGED vars
  BY <1>2 DEF Spent, vars
<1> QED BY <1>1, <1>2

(* Every step keeps the reported failures final. *)
LEMMA NextFinalInv ==
  WorkerInv /\ WorkerInv' /\ FinalInv /\ [WorkerNext]_workerVars => FinalInv'
<1> SUFFICES ASSUME WorkerInv, WorkerInv', FinalInv, [WorkerNext]_workerVars
             PROVE  FinalInv'
  OBVIOUS
<1>a. Inv /\ LoopOK /\ Inv' /\ [Next]_vars
  BY WorkerStepsCorrelator DEF WorkerInv
<1>b. \A n : Spent(hellos, pending, n) => Spent(hellos', pending', n)
  BY <1>a, SpentStays
<1>1. ASSUME job' = None,
             \A f \in events' : Failed(f.negotiation) =>
               \/ f \in events
               \/ job # None /\ f.negotiation = job.negotiation
      PROVE  FinalInv'
  BY <1>b, <1>1, Zenon DEF FinalInv
<1>2. CASE UNCHANGED <<job, events>>
  BY <1>b, <1>2, Zenon DEF FinalInv
<1>3. ASSUME NEW c, Take(c) PROVE FinalInv'
  <2>1. UNCHANGED events
    BY <1>3 DEF Take, outVars
  <2>2. ASSUME NEW d, Analyze(d) PROVE job'.negotiation = None
    BY <2>2 DEF Analyze
  <2>3. job'.negotiation = None \/ job' = None
    BY <1>3, <2>2 DEF Take, EndOfBody
  <2>4. ~Failed(None)
    BY DEF Failed
  <2> QED BY <1>b, <2>1, <2>3, <2>4, Zenon DEF FinalInv
<1>4. ASSUME NEW k \in Conns, NEW i, Receive(k, i) \/ ReceiveAgain(k, i) \/ Lose(k, i)
      PROVE  FinalInv'
  <2>1. CASE Receive(k, i) \/ ReceiveAgain(k, i)
    BY <1>3, <2>1 DEF Receive, ReceiveAgain
  <2>2. CASE Lose(k, i)
    BY <1>2, <2>2 DEF Lose, outVars, loopVars
  <2> QED BY <1>4, <2>1, <2>2
<1>5. CASE Correlate
  <2>1. /\ stage = "calls" /\ UNCHANGED events
        /\ CorrelatorCall(job.cap.key, Head(job.calls))
        /\ job' = [job EXCEPT !.calls = Tail(@), !.negotiation = negotiated']
    BY <1>5 DEF Correlate, outVars
  <2>2. job \in Job /\ job # None /\ job.cap.key \in Conns
    BY <1>a, <2>1, JobTyped
  <2>3. job'.negotiation = negotiated'
    BY <2>1, <2>2 DEF Job
  <2>4. Next
    BY <2>1, <2>2 DEF CorrelatorCall, Next
  <2>5. \/ negotiated' = None
        \/ \E k \in DOMAIN pending : negotiated'.hello = pending[k].hello
    BY <1>a, <2>4, CorrelatorHellos
  <2>6. Failed(negotiated') => Spent(hellos', pending', negotiated')
    BY <1>a DEF Failed, Spent, Inv, JoinOK, Latest, Terminal
  <2>7. ASSUME NEW f \in events, Failed(f.negotiation), negotiated' # None
        PROVE  negotiated'.hello # f.negotiation.hello
    BY <2>5, <2>7 DEF FinalInv, Spent
  <2> QED BY <1>b, <2>1, <2>3, <2>6, <2>7 DEF FinalInv
<1>6. CASE Drop13
  BY <1>1, <1>6 DEF Drop13
<1>7. CASE Emit
  <2>1. job' = None /\ job # None
    BY <1>a, <1>7, JobTyped DEF Emit, EndOfBody
  <2>2. ASSUME NEW f \in events', Failed(f.negotiation)
        PROVE  f \in events \/ f.negotiation = job.negotiation
    BY <1>7, <2>2 DEF Emit, Plain, Failed
  <2> QED BY <1>1, <2>1, <2>2
<1>8. CASE Sweep
  <2>1. UNCHANGED job /\ job = None
    BY <1>a, <1>8 DEF Sweep, LoopOK
  <2>2. ASSUME NEW f \in events', Failed(f.negotiation) PROVE f \in events
    BY <1>8, <2>2 DEF Sweep, Plain, Failed
  <2> QED BY <1>1, <2>1, <2>2
<1>9. CASE TimePasses \/ UNCHANGED workerVars
  BY <1>2, <1>9 DEF TimePasses, outVars, loopVars, workerVars
<1> QED BY <1>4, <1>5, <1>6, <1>7, <1>8, <1>9 DEF WorkerNext

(* A handshake reported as failed stays so: no negotiation about to be     *)
(* emitted is of a ClientHello whose failure an alert has reported         *)
(* (on_alert removes the entry before the event is sent).                  *)
THEOREM FailureStaysFinal == WorkerSpec => []FailureIsFinal
<1>1. WorkerInit => FinalInv
  BY DEF WorkerInit, FinalInv
<1>2. WorkerInv /\ FinalInv => FailureIsFinal
  BY DEF WorkerInv, LoopOK, FinalInv, Failed, FailureIsFinal
<1> QED BY <1>1, <1>2, NextFinalInv, WorkerInvHolds, PTL DEF WorkerSpec

(***************************************************************************)
(* Part 3, mutual handshakes are reported.  A flight follows a handshake   *)
(* from its ClientHello over the server's flight to the client's           *)
(* Certificate; the invariant says how far the worker has come with it.    *)
(***************************************************************************)

(* A ClientHello that is analyzed at capture h of the script s: in one     *)
(* packet, or in two of which the first comes just before, after whole     *)
(* records only.                                                           *)
HelloAt(s, h) ==
  /\ s[h].msg = "client_hello" /\ s[h].parses
  /\ \/ s[h].part = "whole"
     \/ /\ s[h].part = "tail" /\ h - 1 \in DOMAIN s
        /\ s[h - 1].part = "head" /\ s[h - 1].from = s[h].from
        /\ \A i \in DOMAIN s : i < h - 1 => s[i].part = "whole"

(* The server's hello and its request in one packet; the client's          *)
(* certificate; a record that leads to no call.                            *)
Asks(c) == \E i \in DOMAIN Walked(c) : Walked(c)[i] = "certificate_request"
Presents(c) == ClientCertificate(c) /\ c.part = "whole" /\ ~c.v13
Idles(c) == c.part = "whole" /\ Calls(c) = <<>>

(* A mutual TLS 1.2 handshake: hello, flight and certificate in this order *)
(* with only the server's certificates and the like between them, whatever *)
(* comes before and after.                                                 *)
Flight(s, h, a, p) ==
  /\ h < a /\ a < p
  /\ HelloAt(s, h) /\ Asks(s[a]) /\ Presents(s[p])
  /\ \A i \in DOMAIN s : (h < i /\ i < p /\ i # a) => Idles(s[i])

(* The connections that FlightReported is about. *)
Mutual(s, k) ==
  /\ Host[k] = "server"
  /\ \E i \in DOMAIN s : ClientCertificate(s[i])
  /\ \E i \in DOMAIN s : Asks(s[i])

(* Hypothesis on the scripts: a handshake with a flight that asks for a    *)
(* certificate and a client that presents one is a TLS 1.2 handshake.      *)
FlightsComplete ==
  \A s \in Scripts : \A k \in Conns :
    Mutual(s[k], k) => \E h, a, p \in DOMAIN s[k] : Flight(s[k], h, a, p)

(* Hypothesis on the table: as long as nothing is lost, a ClientHello      *)
(* finds room.                                                             *)
HasRoom ==
  (/\ faults = 0 /\ stage = "calls" /\ job.calls # <<>>
   /\ Head(job.calls) = "client_hello")
    => Cardinality(DOMAIN pending) < MaxEntries

InTime == faults = 0 /\ clock < Ttl /\ clock < ReasmTimeout

(* The worker is at a record of connection k. *)
AtWork(k) == job # None /\ job.cap.key = k

(* The first segment of the hello at h is in the reassembler, once it has  *)
(* come; before, nothing of the connection is.                             *)
HelloWaits(k, s, h, n) ==
  s[h].part = "tail" =>
    IF n = h - 1
    THEN ReasmKey(s[h]) \in DOMAIN held /\ held[ReasmKey(s[h])].cap.part = "head"
    ELSE \A d \in BOOLEAN : <<k, d>> \notin DOMAIN held

(* Requests, and the hello after them; the request is noted by then.       *)
Joining(k, calls) ==
  /\ calls # <<>>
  /\ calls[Len(calls)] = "server_hello"
  /\ \A i \in DOMAIN calls : i # Len(calls) => calls[i] = "certificate_request"
  /\ Len(calls) = 1 => pending[k].mtls_requested

(* The negotiation in hand says that the handshake was mutual. *)
SaysMutual(n) == n # None /\ n.mtls_requested /\ n.mtls

(* How far the worker has come when n captures of the connection are in.   *)
Progress(k, s, h, a, p, n) ==
  \/ n < h /\ HelloWaits(k, s, h, n)
  \/ n = h /\ AtWork(k) /\ job.calls = <<"client_hello">>
  \/ h <= n /\ n < a /\ k \in DOMAIN pending /\ (AtWork(k) => job.calls = <<>>)
  \/ n = a /\ AtWork(k) /\ k \in DOMAIN pending /\ Joining(k, job.calls)
  \/ /\ a <= n /\ n < p /\ k \in DOMAIN pending
     /\ pending[k].post_sh_negotiation # None /\ (AtWork(k) => job.calls = <<>>)
  \/ /\ n = p /\ AtWork(k) /\ k \in DOMAIN pending
     /\ pending[k].post_sh_negotiation # None
     /\ job.calls = <<"certificate">> /\ ~Drops13(job.cap)
  \/ /\ n = p /\ AtWork(k) /\ job.calls = <<>>
     /\ SaysMutual(job.negotiation) /\ ~Drops13(job.cap)
  \/ ReportedMutual(k)

(* The captures of connection k are in up to the n-th. *)
ComeIn(k, s, n) == unsent[k] = {i \in DOMAIN s : n < i}

FollowsFlight(k) ==
  \E h, a, p \in DOMAIN script[k] :
    /\ Flight(script[k], h, a, p)
    /\ \E n \in Nat : ComeIn(k, script[k], n) /\ Progress(k, script[k], h, a, p, n)

PendingSince == \A k \in DOMAIN pending : pending[k].ts <= clock

FlightInv ==
  /\ PendingSince
  /\ InTime => \A k \in Conns : Mutual(script[k], k) => FollowsFlight(k)

(* The calls of the records of a flight. *)
LEMMA HelloCalls ==
  ASSUME NEW c \in RawCapture, c.msg = "client_hello", c.parses
  PROVE  Calls(c) = <<"client_hello">>
  BY DEF Calls

LEMMA PresentsCalls ==
  ASSUME NEW c \in RawCapture, Presents(c), Host[c.key] = "server"
  PROVE  Calls(c) = <<"certificate">> /\ ~Drops13(c)
<1>1. c.msg = "certificate" /\ Ingress(c)
  BY DEF Presents, ClientCertificate, Ingress
<1> QED BY <1>1 DEF Calls, Presents, Drops13

LEMMA AsksCalls ==
  ASSUME NEW c \in RawCapture, Asks(c)
  PROVE  /\ c.part = "whole"
         /\ Calls(c) # <<>>
         /\ Calls(c)[Len(Calls(c))] = "server_hello"
         /\ \A i \in DOMAIN Calls(c) : i # Len(Calls(c)) => Calls(c)[i] = "certificate_request"
         /\ Len(Calls(c)) # 1
<1> DEFINE S == {i \in DOMAIN Walked(c) : Walked(c)[i] = "certificate_request"}
           w == WalkedRequests(c)
           one == <<"server_hello">>
<1>1. /\ c.msg = "server_hello" /\ c.part = "whole" /\ c.parses
      /\ Walked(c) = c.flight
  BY DEF Asks, Walked
<1>2. Calls(c) = w \o one
  BY <1>1 DEF Calls
<1>3. w \in Seq({"certificate_request"})
  BY WalkedRequestsOK
<1>4. Len(w) # 0 /\ Len(w) \in Nat
  <2>1. S # {}
    BY DEF Asks
  <2>2. IsFiniteSet(S)
    <3>1. c.flight \in Seq({"certificate", "certificate_request"})
      BY DEF RawCapture
    <3>2. DOMAIN Walked(c) = 1 .. Len(c.flight) /\ Len(c.flight) \in Nat
      BY <1>1, <3>1, LenProperties
    <3>3. IsFiniteSet(DOMAIN Walked(c))
      BY <3>2, FS_Interval
    <3> QED BY <3>3, FS_Subset
  <2>3. Cardinality(S) # 0 /\ Cardinality(S) \in Nat
    BY <2>1, <2>2, FS_EmptySet, FS_CardinalityType
  <2>4. w = [i \in 1 .. Cardinality(S) |-> "certificate_request"]
    BY DEF WalkedRequests
  <2> HIDE DEF S, w
  <2> QED BY <2>3, <2>4
<1>5. one \in Seq(Messages) /\ Len(one) = 1 /\ one[1] = "server_hello"
  BY DEF Messages
<1>6. w \in Seq(Messages)
  BY <1>3 DEF Messages
<1> DEFINE q == w \o one
<1> HIDE DEF w, one
<1>7. /\ q \in Seq(Messages)
      /\ Len(q) = Len(w) + Len(one)
      /\ \A i \in 1 .. Len(w) + Len(one) :
           q[i] = IF i <= Len(w) THEN w[i] ELSE one[i - Len(w)]
  BY <1>5, <1>6, ConcatProperties, Zenon
<1> HIDE DEF q
<1>8. DOMAIN q = 1 .. Len(w) + 1 /\ DOMAIN w = 1 .. Len(w) /\ Len(q) = Len(w) + 1
  BY <1>3, <1>5, <1>7
<1>9. q[Len(q)] = "server_hello"
  <2>1. Len(q) \in 1 .. Len(w) + Len(one) /\ ~(Len(q) <= Len(w)) /\ Len(q) - Len(w) = 1
    BY <1>4, <1>5, <1>8
  <2> QED BY <1>5, <1>7, <2>1
<1>10. ASSUME NEW i \in DOMAIN q, i # Len(q) PROVE q[i] = "certificate_request"
  <2>1. i \in 1 .. Len(w) + Len(one) /\ i <= Len(w) /\ i \in DOMAIN w
    BY <1>4, <1>5, <1>8, <1>10
  <2>2. q[i] = w[i]
    BY <1>7, <2>1
  <2> QED BY <1>3, <2>1, <2>2
<1>11. q # <<>> /\ Len(q) # 1
  BY <1>4, <1>8
<1>12. Calls(c) = q
  BY <1>2 DEF q
<1> QED BY <1>1, <1>9, <1>10, <1>11, <1>12

(* The calls of the server's flight, one by one. *)
LEMMA JoiningSplit ==
  ASSUME NEW k, NEW q \in Seq(Messages), Joining(k, q)
  PROVE  \/ Len(q) = 1 /\ Head(q) = "server_hello" /\ Tail(q) = <<>> /\ pending[k].mtls_requested
         \/ /\ Head(q) = "certificate_request" /\ Tail(q) # <<>>
            /\ Tail(q)[Len(Tail(q))] = "server_hello"
            /\ \A i \in DOMAIN Tail(q) :
                 i # Len(Tail(q)) => Tail(q)[i] = "certificate_request"
<1>1. /\ Len(q) \in Nat \ {0} /\ DOMAIN q = 1 .. Len(q) /\ Head(q) = q[1]
      /\ Len(Tail(q)) = Len(q) - 1 /\ DOMAIN Tail(q) = 1 .. Len(q) - 1
      /\ \A i \in 1 .. Len(q) - 1 : Tail(q)[i] = q[i + 1]
  BY DEF Joining
<1>2. CASE Len(q) = 1
  BY <1>1, <1>2 DEF Joining
<1>3. CASE Len(q) # 1
  <2>1. Head(q) = "certificate_request"
    BY <1>1, <1>3 DEF Joining
  <2>2. Tail(q) # <<>> /\ Tail(q)[Len(Tail(q))] = "server_hello"
    <3>1. Len(Tail(q)) \in 1 .. Len(q) - 1 /\ Len(Tail(q)) + 1 = Len(q)
      BY <1>1, <1>3
    <3>2. Tail(q)[Len(Tail(q))] = q[Len(Tail(q)) + 1]
      BY <1>1, <3>1
    <3>3. Len(Tail(q)) # 0
      BY <1>1, <1>3
    <3> QED BY <3>1, <3>2, <3>3 DEF Joining
  <2>3. ASSUME NEW i \in DOMAIN Tail(q), i # Len(Tail(q))
        PROVE  Tail(q)[i] = "certificate_request"
    <3>1. i \in 1 .. Len(q) - 1 /\ i + 1 \in DOMAIN q /\ i + 1 # Len(q)
      BY <1>1, <2>3
    <3>2. Tail(q)[i] = q[i + 1]
      BY <1>1, <3>1
    <3> QED BY <3>1, <3>2 DEF Joining
  <2> QED BY <2>1, <2>2, <2>3
<1> QED BY <1>2, <1>3

(* A step that does not concern connection k. *)
LEMMA FrameProgress ==
  ASSUME NEW k \in Conns, NEW s, NEW h \in DOMAIN s, NEW a, NEW p, NEW n,
         s[h].key = k, Ingress(s[h]) \in BOOLEAN,
         Progress(k, s, h, a, p, n),
         \A d \in BOOLEAN : /\ <<k, d>> \in DOMAIN held' <=> <<k, d>> \in DOMAIN held
                            /\ <<k, d>> \in DOMAIN held => held'[<<k, d>>] = held[<<k, d>>],
         k \in DOMAIN pending => k \in DOMAIN pending' /\ pending'[k] = pending[k],
         events \subseteq events',
         job' = job \/ (~AtWork(k) /\ ~AtWork(k)')
  PROVE  Progress(k, s, h, a, p, n)'
<1>1. HelloWaits(k, s, h, n) => HelloWaits(k, s, h, n)'
  <2>1. ReasmKey(s[h]) = <<k, Ingress(s[h])>> /\ ReasmKey(s[h])' = ReasmKey(s[h])
    BY DEF ReasmKey, Ingress
  <2> QED BY <2>1 DEF HelloWaits
<1>2. ReportedMutual(k) => ReportedMutual(k)'
  BY DEF ReportedMutual
<1>3. CASE ~AtWork(k) /\ ~AtWork(k)'
  BY <1>1, <1>2, <1>3 DEF Progress
<1>4. CASE job' = job
  <2>1. AtWork(k)' <=> AtWork(k)
    BY <1>4 DEF AtWork
  <2>2. ASSUME k \in DOMAIN pending, Joining(k, job.calls) PROVE Joining(k, job.calls)'
    BY <1>4, <2>2 DEF Joining
  <2>3. /\ Drops13(job.cap)' <=> Drops13(job.cap)
        /\ SaysMutual(job.negotiation)' <=> SaysMutual(job.negotiation)
        /\ job'.calls = job.calls
    BY <1>4 DEF Drops13, SaysMutual
  <2> QED BY <1>1, <1>2, <2>1, <2>2, <2>3 DEF Progress
<1> QED BY <1>3, <1>4

(* A call for another connection leaves the entry of k alone when the      *)
(* table has room.                                                         *)
LEMMA OtherCall ==
  ASSUME Inv, NEW k \in DOMAIN pending, NEW j \in Conns \ {k}, NEW call,
         call = "client_hello" => Cardinality(DOMAIN pending) < MaxEntries,
         CorrelatorCall(j, call)
  PROVE  k \in DOMAIN pending' /\ pending'[k] = pending[k]
<1>1. ASSUME NEW evicted, call = "client_hello", OnClientHello(j, evicted)
      PROVE  k \in DOMAIN pending' /\ pending'[k] = pending[k]
  <2>1. IsFiniteSet(DOMAIN pending) /\ DOMAIN pending \subseteq Conns
    BY DEF Inv, TableOK
  <2>2. Cardinality(DOMAIN pending) \in Nat
    BY <2>1, FS_CardinalityType
  <2>3. evicted = None
    BY <1>1, <2>2, CorrelatorAssumption DEF OnClientHello, MakeRoom
  <2>4. evicted # k
    BY <2>1, <2>3, CorrelatorAssumption
  <2> QED BY <1>1, <2>4 DEF OnClientHello, With, Without, Restrict
<1>2. CASE OnServerHelloMtls(j)
  BY <1>2 DEF OnServerHelloMtls
<1>3. CASE OnServerHello(j) \/ OnAlert(j) \/ OnClientCertificateJoined(j)
  BY <1>3 DEF OnServerHello, OnAlert, OnClientCertificateJoined, Without, Restrict
<1>4. CASE OnCertificateRequest(j) \/ OnClientCertificateEarly(j) \/ OnUnknownFlow(j)
  BY <1>4 DEF OnCertificateRequest, OnClientCertificateEarly, OnUnknownFlow
<1> QED BY <1>1, <1>2, <1>3, <1>4 DEF CorrelatorCall

(* What the calls of a flight do to the entry of their own connection. *)
LEMMA OwnCall ==
  ASSUME Inv, NEW k \in Conns, NEW call, CorrelatorCall(k, call)
  PROVE  /\ call = "client_hello" => k \in DOMAIN pending'
         /\ (k \in DOMAIN pending /\ call = "certificate_request") =>
              k \in DOMAIN pending' /\ pending'[k].mtls_requested
         /\ (k \in DOMAIN pending /\ call = "server_hello" /\ pending[k].mtls_requested) =>
              k \in DOMAIN pending' /\ pending'[k].post_sh_negotiation # None
         /\ (/\ k \in DOMAIN pending /\ call = "certificate"
             /\ pending[k].post_sh_negotiation # None) => SaysMutual(negotiated')
<1>1. CASE call = "client_hello"
  BY <1>1 DEF CorrelatorCall, OnClientHello, With
<1>2. ASSUME k \in DOMAIN pending, call = "certificate_request"
      PROVE  k \in DOMAIN pending' /\ pending'[k].mtls_requested
  <2>1. pending[k] \in Summary
    BY <1>2 DEF Inv, TableOK, EntryOK
  <2>2. OnCertificateRequest(k)
    BY <1>2 DEF CorrelatorCall, OnUnknownFlow
  <2> QED BY <1>2, <2>1, <2>2 DEF OnCertificateRequest, Summary
<1>3. ASSUME k \in DOMAIN pending, call = "server_hello", pending[k].mtls_requested
      PROVE  k \in DOMAIN pending' /\ pending'[k].post_sh_negotiation # None
  <2>1. pending[k] \in Summary
    BY <1>3 DEF Inv, TableOK, EntryOK
  <2>2. OnServerHelloMtls(k)
    BY <1>3 DEF CorrelatorCall, OnUnknownFlow, OnServerHello
  <2> DEFINE m == BuildNegotiation(k, pending[k], "negotiated", "sh")
  <2>3. m \in Negotiation
    BY <2>1 DEF BuildNegotiation, Negotiation, Summary
  <2>4. m # None
    BY <2>3, CorrelatorAssumption
  <2>5. pending' = [pending EXCEPT ![k].post_sh_negotiation = m]
    BY <2>2 DEF OnServerHelloMtls
  <2> HIDE DEF m
  <2> QED BY <1>3, <2>1, <2>4, <2>5 DEF Summary
<1>4. ASSUME k \in DOMAIN pending, call = "certificate", pending[k].post_sh_negotiation # None
      PROVE  SaysMutual(negotiated')
  <2>1. pending[k] \in Summary
    BY <1>4 DEF Inv, TableOK, EntryOK
  <2>2. OnClientCertificateJoined(k)
    BY <1>4 DEF CorrelatorCall, OnUnknownFlow, OnClientCertificateEarly
  <2> DEFINE m == pending[k].post_sh_negotiation
  <2>3. m \in Negotiation /\ m.mtls_requested
    <3>1. PendingIsLatest
      BY InvImplies
    <3> QED BY <1>4, <2>1, <3>1 DEF PendingIsLatest, Summary
  <2>4. negotiated' = [m EXCEPT !.mtls = TRUE, !.rides = "cert"]
    BY <2>2 DEF OnClientCertificateJoined
  <2> HIDE DEF m
  <2>5. negotiated' \in Negotiation /\ negotiated'.mtls /\ negotiated'.mtls_requested
    BY <2>3, <2>4 DEF Negotiation
  <2> QED BY <2>5, CorrelatorAssumption DEF SaysMutual
<1> QED BY <1>1, <1>2, <1>3, <1>4

(* The next capture of the connection comes in. *)
LEMMA OwnReceive ==
  ASSUME WorkerInv, NEW k \in Conns, Host[k] = "server", NEW s, s = script[k],
         NEW h \in DOMAIN s, NEW a \in DOMAIN s, NEW p \in DOMAIN s, Flight(s, h, a, p),
         NEW n \in Nat, ComeIn(k, s, n), Progress(k, s, h, a, p, n),
         NEW i \in DOMAIN s, Receive(k, i), faults = 0, faults' = 0
  PROVE  ComeIn(k, s, n + 1)' /\ Progress(k, s, h, a, p, n + 1)'
<1>1. /\ s \in Seq(RawCapture) /\ \A j \in DOMAIN s : s[j].key = k
  BY WorkerAssumption DEF WorkerInv, LoopOK
<1>2. /\ DOMAIN s = 1 .. Len(s) /\ Len(s) \in Nat
      /\ h \in Nat /\ a \in Nat /\ p \in Nat /\ i \in Nat
  BY <1>1
<1>3. i = n + 1
  <2>1. i \in unsent[k] /\ \A j \in unsent[k] : i <= j
    BY DEF Receive
  <2>2. n < i /\ n + 1 \in DOMAIN s
    BY <1>2, <2>1 DEF ComeIn
  <2>3. n + 1 \in unsent[k]
    BY <2>2 DEF ComeIn
  <2> QED BY <1>2, <2>1, <2>2, <2>3
<1>4. ComeIn(k, s, n + 1)'
  <2>1. unsent'[k] = unsent[k] \ {i}
    BY DEF Receive, WorkerInv, LoopOK
  <2> QED BY <1>2, <1>3, <2>1 DEF ComeIn
<1> DEFINE c == s[i]
<1>5. c \in RawCapture /\ c.key = k
  BY <1>1, ElementOfSeq
<1>6. Take(c) /\ stage = "recv"
  BY DEF Receive, Take
<1>7. ~AtWork(k) /\ pending' = pending /\ events' = events
  BY <1>6 DEF Take, tableVars, outVars, WorkerInv, LoopOK, AtWork
<1>8. c.part = "whole" =>
        /\ job' = [cap |-> c, calls |-> Calls(c), negotiation |-> None] /\ held' = held
        /\ job' # None
  <2>1. ASSUME c.part = "whole", Analyze(c), held' = held
        PROVE  /\ job' = [cap |-> c, calls |-> Calls(c), negotiation |-> None]
               /\ job' # None
    <3>1. job' = [cap |-> c, calls |-> Calls(c), negotiation |-> None]
      BY <2>1 DEF Analyze
    <3>2. job' \in Job
      BY <1>5, <3>1, CallsOK DEF Job
    <3> QED BY <3>1, <3>2, WorkerAssumption
  <2> QED BY <1>6, <2>1 DEF Take, Completes
<1> DEFINE Analyzed == /\ AtWork(k)' /\ job'.calls = Calls(c) /\ job'.cap = c
<1>9. c.part = "whole" => Analyzed /\ held' = held
  BY <1>5, <1>8 DEF AtWork
<1> HIDE DEF c
<1>10. ReportedMutual(k) => ReportedMutual(k)'
  BY <1>7 DEF ReportedMutual
<1>11. CASE n < h /\ HelloWaits(k, s, h, n) /\ n + 1 # h
  <2>1. HelloWaits(k, s, h, n + 1)'
    <3> SUFFICES ASSUME s[h].part = "tail" PROVE HelloWaits(k, s, h, n + 1)'
      BY DEF HelloWaits
    <3>1. /\ h - 1 \in DOMAIN s /\ s[h - 1].part = "head" /\ s[h - 1].from = s[h].from
          /\ \A j \in DOMAIN s : j < h - 1 => s[j].part = "whole"
      BY DEF Flight, HelloAt
    <3>2. \A d \in BOOLEAN : <<k, d>> \notin DOMAIN held
      BY <1>2, <1>11 DEF HelloWaits
    <3>3. CASE n + 1 = h - 1
      <4>1. c = s[h - 1] /\ c.part = "head"
        BY <1>3, <3>1, <3>3 DEF c
      <4>2. /\ ReasmKey(c) = ReasmKey(s[h]) /\ ReasmKey(s[h])' = ReasmKey(s[h])
            /\ ReasmKey(c) \in {<<k, d>> : d \in BOOLEAN}
        <5>1. c.key = k /\ s[h].key = k /\ c.from = s[h].from
          BY <1>1, <1>5, <3>1, <4>1
        <5>2. Ingress(c) = Ingress(s[h]) /\ Ingress(c) \in BOOLEAN
          BY <5>1 DEF Ingress
        <5>3. ReasmKey(c) = <<k, Ingress(c)>> /\ ReasmKey(s[h]) = <<k, Ingress(c)>>
          BY <5>1, <5>2 DEF ReasmKey
        <5>4. ReasmKey(s[h])' = ReasmKey(s[h])
          BY DEF ReasmKey, Ingress
        <5> QED BY <5>2, <5>3, <5>4
      <4>3. ~Completes(c)
        BY <3>2, <4>2 DEF Completes
      <4>4. held' = With(held, ReasmKey(c), [cap |-> c, ts |-> Created(c)])
        BY <1>6, <4>1, <4>3 DEF Take
      <4>5. ReasmKey(c) \in DOMAIN held' /\ held'[ReasmKey(c)] = [cap |-> c, ts |-> Created(c)]
        BY <4>4 DEF With
      <4>6. held'[ReasmKey(c)].cap = c
        BY <4>5
      <4> QED BY <3>3, <4>1, <4>2, <4>5, <4>6 DEF HelloWaits
    <3>4. CASE n + 1 # h - 1
      <4>1. c.part = "whole"
        BY <1>2, <1>3, <1>11, <3>1, <3>4, SMTT(60) DEF c
      <4> QED BY <1>9, <3>2, <3>4, <4>1 DEF HelloWaits
    <3> QED BY <3>3, <3>4
  <2>2. n + 1 < h
    BY <1>2, <1>11
  <2> QED BY <1>4, <2>1, <2>2 DEF Progress
<1>12. CASE n < h /\ HelloWaits(k, s, h, n) /\ n + 1 = h
  <2>1. c = s[h] /\ HelloAt(s, h) /\ c.msg = "client_hello" /\ c.parses
    BY <1>3, <1>12 DEF c, Flight, HelloAt
  <2>2. CASE c.part = "whole"
    <3>1. Calls(c) = <<"client_hello">>
      BY <1>5, <2>1, HelloCalls
    <3> QED BY <1>4, <1>9, <1>12, <2>2, <3>1 DEF Progress
  <2>3. CASE c.part # "whole"
    <3>1. c.part = "tail"
      BY <2>1, <2>3 DEF HelloAt
    <3>2. ReasmKey(c) \in DOMAIN held /\ held[ReasmKey(c)].cap.part = "head"
      BY <1>2, <1>12, <2>1, <3>1 DEF HelloWaits
    <3> DEFINE d == [c EXCEPT !.part = "head"]
    <3>3. Completes(c)
      BY <3>1, <3>2 DEF Completes
    <3>4. Analyze(d)
      BY <1>6, <3>1, <3>3 DEF Take
    <3>5. d \in RawCapture /\ d.key = k /\ d.msg = "client_hello" /\ d.parses
      BY <1>5, <2>1 DEF RawCapture
    <3> HIDE DEF d
    <3>6. Calls(d) = <<"client_hello">>
      BY <3>5, HelloCalls
    <3>7. job' = [cap |-> d, calls |-> Calls(d), negotiation |-> None]
      BY <3>4 DEF Analyze
    <3>8. job' \in Job
      BY <3>5, <3>7, CallsOK DEF Job
    <3>9. AtWork(k)' /\ job'.calls = <<"client_hello">>
      BY <3>5, <3>6, <3>7, <3>8, WorkerAssumption DEF AtWork
    <3> QED BY <1>4, <1>12, <3>9 DEF Progress
  <2> QED BY <2>2, <2>3
<1>13. CASE h <= n /\ n < a /\ k \in DOMAIN pending
  <2>1. CASE n + 1 = a
    <3>1. Asks(c)
      BY <1>3, <2>1 DEF c, Flight
    <3>2. Analyzed
      BY <1>5, <1>9, <3>1, AsksCalls
    <3>3. Joining(k, job.calls)'
      BY <1>5, <3>1, <3>2, AsksCalls DEF Joining
    <3> QED BY <1>4, <1>7, <1>13, <2>1, <3>2, <3>3 DEF Progress
  <2>2. CASE n + 1 # a
    <3>1. Idles(c)
      BY <1>2, <1>3, <1>13, <2>2 DEF c, Flight
    <3>2. job'.calls = <<>>
      BY <1>9, <3>1 DEF Idles
    <3>3. h <= n + 1 /\ n + 1 < a
      BY <1>2, <1>13, <2>2
    <3> QED BY <1>4, <1>7, <1>13, <3>2, <3>3 DEF Progress
  <2> QED BY <2>1, <2>2
<1>14. CASE /\ a <= n /\ n < p /\ k \in DOMAIN pending
            /\ pending[k].post_sh_negotiation # None
  <2>1. CASE n + 1 = p
    <3>1. Presents(c)
      BY <1>3, <2>1 DEF c, Flight
    <3>2. Calls(c) = <<"certificate">> /\ ~Drops13(c)
      BY <1>5, <3>1, PresentsCalls
    <3>3. Analyzed
      BY <1>9, <3>1 DEF Presents
    <3>4. ~Drops13(job.cap)'
      BY <3>2, <3>3 DEF Drops13
    <3> QED BY <1>4, <1>7, <1>14, <2>1, <3>2, <3>3, <3>4 DEF Progress
  <2>2. CASE n + 1 # p
    <3>1. Idles(c)
      BY <1>2, <1>3, <1>14, <2>2 DEF c, Flight
    <3>2. job'.calls = <<>>
      BY <1>9, <3>1 DEF Idles
    <3>3. a <= n + 1 /\ n + 1 < p
      BY <1>2, <1>14, <2>2
    <3> QED BY <1>4, <1>7, <1>14, <3>2, <3>3 DEF Progress
  <2> QED BY <2>1, <2>2
<1>15. CASE ReportedMutual(k)
  BY <1>4, <1>10, <1>15 DEF Progress
<1> QED BY <1>7, <1>11, <1>12, <1>13, <1>14, <1>15 DEF Progress

(* The worker makes a call for the record of the connection in hand. *)
LEMMA OwnCorrelate ==
  ASSUME WorkerInv, NEW k \in Conns, NEW s, NEW h \in Nat, NEW a \in Nat, NEW p \in Nat,
         Flight(s, h, a, p), NEW n \in Nat,
         Progress(k, s, h, a, p, n), Correlate, AtWork(k)
  PROVE  Progress(k, s, h, a, p, n)'
<1>1. /\ stage = "calls" /\ job.calls # <<>> /\ UNCHANGED <<held, events>>
      /\ CorrelatorCall(k, Head(job.calls))
      /\ job' = [job EXCEPT !.calls = Tail(@), !.negotiation = negotiated']
  BY DEF Correlate, AtWork, outVars
<1>2. /\ job \in Job /\ job.calls \in Seq(Messages)
  BY <1>1, JobTyped DEF WorkerInv
<1>3. /\ job'.cap = job.cap /\ job'.calls = Tail(job.calls) /\ job'.negotiation = negotiated'
  BY <1>1, <1>2 DEF Job
<1>4. job' # None
  <2>1. LoopOK
    BY DEF WorkerInv
  <2>2. negotiated' \in Negotiation \cup {None}
    <3>1. Inv'
      BY <2>1, WorkerStepsCorrelator, NextInv DEF WorkerInv, WorkerNext
    <3> QED BY <3>1 DEF Inv, JoinOK
  <2>3. Tail(job.calls) \in Seq(Messages)
    BY <1>1, <1>2
  <2>4. job' \in Job
    BY <1>1, <1>2, <2>2, <2>3 DEF Job
  <2> QED BY <2>4, WorkerAssumption
<1>5. AtWork(k)'
  BY <1>3, <1>4 DEF AtWork
<1>6. Inv
  BY DEF WorkerInv
<1>7. Drops13(job.cap)' = Drops13(job.cap)
  BY <1>3 DEF Drops13
<1>8. CASE n < h /\ HelloWaits(k, s, h, n)
  <2>1. HelloWaits(k, s, h, n)'
    BY <1>1, <1>8 DEF HelloWaits, ReasmKey, Ingress
  <2> QED BY <1>8, <2>1 DEF Progress
<1>9. CASE n = h /\ job.calls = <<"client_hello">>
  <2>1. Head(job.calls) = "client_hello" /\ Tail(job.calls) = <<>>
    BY <1>9
  <2>2. k \in DOMAIN pending'
    BY <1>1, <1>6, <2>1, OwnCall
  <2>3. h <= n /\ n < a
    BY <1>9 DEF Flight
  <2> QED BY <1>3, <2>1, <2>2, <2>3 DEF Progress
<1>10. CASE n = a /\ k \in DOMAIN pending /\ Joining(k, job.calls)
  <2> DEFINE q == job.calls
  <2>1. \/ Head(q) = "server_hello" /\ Tail(q) = <<>> /\ pending[k].mtls_requested
        \/ /\ Head(q) = "certificate_request" /\ Tail(q) # <<>>
           /\ Tail(q)[Len(Tail(q))] = "server_hello"
           /\ \A i \in DOMAIN Tail(q) :
                i # Len(Tail(q)) => Tail(q)[i] = "certificate_request"
    BY <1>2, <1>10, JoiningSplit
  <2>2. CASE Head(q) = "server_hello" /\ Tail(q) = <<>> /\ pending[k].mtls_requested
    <3>1. k \in DOMAIN pending' /\ pending'[k].post_sh_negotiation # None
      BY <1>1, <1>6, <1>10, <2>2, OwnCall
    <3>2. a <= n /\ n < p
      BY <1>10 DEF Flight
    <3> QED BY <1>3, <2>2, <3>1, <3>2 DEF Progress
  <2>3. CASE /\ Head(q) = "certificate_request" /\ Tail(q) # <<>>
             /\ Tail(q)[Len(Tail(q))] = "server_hello"
             /\ \A i \in DOMAIN Tail(q) :
                  i # Len(Tail(q)) => Tail(q)[i] = "certificate_request"
    <3>1. k \in DOMAIN pending' /\ pending'[k].mtls_requested
      BY <1>1, <1>6, <1>10, <2>3, OwnCall
    <3>2. Joining(k, job.calls)'
      BY <1>3, <2>3, <3>1 DEF Joining
    <3> QED BY <1>5, <1>10, <3>1, <3>2 DEF Progress
  <2> QED BY <2>1, <2>2, <2>3
<1>11. CASE /\ n = p /\ k \in DOMAIN pending /\ pending[k].post_sh_negotiation # None
            /\ job.calls = <<"certificate">> /\ ~Drops13(job.cap)
  <2>1. Head(job.calls) = "certificate" /\ Tail(job.calls) = <<>>
    BY <1>11
  <2>2. SaysMutual(negotiated')
    BY <1>1, <1>6, <1>11, <2>1, OwnCall
  <2>3. SaysMutual(job.negotiation)'
    BY <1>3, <2>2 DEF SaysMutual
  <2> QED BY <1>3, <1>5, <1>7, <1>11, <2>1, <2>3 DEF Progress
<1>12. CASE ReportedMutual(k)
  <2>1. ReportedMutual(k)'
    BY <1>1, <1>12 DEF ReportedMutual
  <2> QED BY <2>1 DEF Progress
<1> QED BY <1>1, <1>8, <1>9, <1>10, <1>11, <1>12 DEF Progress

(* The record of the connection in hand is done with. *)
LEMMA OwnEnd ==
  ASSUME WorkerInv, NEW k \in Conns, NEW s, NEW h, NEW a, NEW p, NEW n,
         Progress(k, s, h, a, p, n), Emit \/ Drop13, AtWork(k)
  PROVE  Progress(k, s, h, a, p, n)'
<1>1. /\ stage = "calls" /\ job.calls = <<>> /\ job' = None /\ held' = held
      /\ pending' = pending /\ events \subseteq events'
  BY DEF Emit, Drop13, EndOfBody, tableVars
<1>2. ~AtWork(k)'
  BY <1>1 DEF AtWork
<1>3. HelloWaits(k, s, h, n) => HelloWaits(k, s, h, n)'
  BY <1>1 DEF HelloWaits, ReasmKey, Ingress
<1>4. ReportedMutual(k) => ReportedMutual(k)'
  BY <1>1 DEF ReportedMutual
<1>5. CASE SaysMutual(job.negotiation) /\ ~Drops13(job.cap)
  <2> DEFINE e == [key |-> job.cap.key, msg |-> job.cap.msg,
                   negotiation |-> job.negotiation, truncated |-> FALSE]
  <2>1. e \in events'
    BY <1>5 DEF Emit, Drop13
  <2>2. e.key = k /\ e.negotiation = job.negotiation
    BY DEF AtWork
  <2> HIDE DEF e
  <2>3. ReportedMutual(k)'
    BY <1>5, <2>1, <2>2 DEF ReportedMutual, SaysMutual
  <2> QED BY <2>3 DEF Progress
<1>6. Joining(k, job.calls) => job.calls # <<>>
  BY DEF Joining
<1>7. <<"client_hello">> # <<>> /\ <<"certificate">> # <<>>
  OBVIOUS
<1> QED BY <1>1, <1>2, <1>3, <1>4, <1>5, <1>6, <1>7 DEF Progress

(* Nothing of connection k is swept in time. *)
LEMMA SweepKeeps ==
  ASSUME WorkerInv, PendingSince, InTime, Sweep, NEW k
  PROVE  /\ DOMAIN held' = DOMAIN held /\ \A r \in DOMAIN held : held'[r] = held[r]
         /\ events \subseteq events'
         /\ k \in DOMAIN pending => k \in DOMAIN pending' /\ pending'[k] = pending[k]
<1>1. clock \in 0 .. MaxClock /\ Ttl \in Nat /\ ReasmTimeout \in Nat
      /\ MaxClock \in Nat /\ ClockMod \in Nat /\ MaxClock < ClockMod
  BY CorrelatorAssumption, WorkerAssumption DEF WorkerInv, Inv, ClockOK
<1>2. DOMAIN held' = DOMAIN held /\ \A r \in DOMAIN held : held'[r] = held[r]
  <2>1. ExpiredHeld = {}
    <3> SUFFICES ASSUME NEW r \in DOMAIN held PROVE ~(clock - held[r].ts >= ReasmTimeout)
      BY DEF ExpiredHeld
    <3>1. held[r].ts \in 0 .. MaxClock
      BY DEF WorkerInv, HeldOK
    <3> QED BY <1>1, <3>1 DEF InTime
  <2> QED BY <2>1 DEF Sweep, Without, Restrict
<1>3. ASSUME k \in DOMAIN pending PROVE k \in DOMAIN pending' /\ pending'[k] = pending[k]
  <2>1. pending[k].ts \in 0 .. MaxClock /\ pending[k].ts <= clock
    BY <1>3 DEF WorkerInv, Inv, TableOK, EntryOK, Summary, PendingSince
  <2> DEFINE t == clock - pending[k].ts
  <2>2. t \in 0 .. ClockMod - 1 /\ t < Ttl
    BY <1>1, <2>1 DEF InTime
  <2> HIDE DEF t
  <2>3. t % ClockMod = t
    BY <1>1, <2>2
  <2>4. Elapsed(pending[k].ts) < Ttl
    BY <2>2, <2>3 DEF Elapsed, t
  <2> QED BY <1>3, <2>4 DEF Sweep, SweepExpired, Restrict
<1> QED BY <1>2, <1>3 DEF Sweep

(* No entry is from the future: the clock does not go back here. *)
LEMMA PendingSinceStep ==
  ASSUME WorkerInv, PendingSince, [WorkerNext]_workerVars
  PROVE  PendingSince'
<1>1. LoopOK /\ Inv /\ Inv'
  BY WorkerStepsCorrelator, NextInv DEF WorkerInv
<1>2. clock \in Nat
  BY <1>1, CorrelatorAssumption DEF Inv, ClockOK
<1>3. \A k \in DOMAIN pending : pending[k] \in Summary /\ pending[k].ts \in Nat
  BY <1>1, CorrelatorAssumption DEF Inv, TableOK, EntryOK, Summary
<1>4. CASE clock' = clock /\ pending' = pending
  BY <1>4 DEF PendingSince
<1>5. ASSUME NEW k \in Conns, NEW call, CorrelatorCall(k, call) PROVE PendingSince'
  <2>0. clock' = clock
    BY <1>5 DEF CorrelatorCall, OnClientHello, OnServerHelloMtls, OnServerHello, OnAlert,
                OnCertificateRequest, OnClientCertificateJoined, OnClientCertificateEarly,
                OnUnknownFlow
  <2>1. ASSUME NEW evicted, OnClientHello(k, evicted) PROVE PendingSince'
    <3>1. NewSummary.ts = clock
      BY DEF NewSummary
    <3>2. \A j \in DOMAIN pending' : \/ pending'[j] = NewSummary
                                     \/ j \in DOMAIN pending /\ pending'[j] = pending[j]
      BY <2>1 DEF OnClientHello, With, Without, Restrict
    <3> QED BY <1>2, <2>0, <3>1, <3>2 DEF PendingSince
  <2>2. CASE OnServerHelloMtls(k) \/ OnCertificateRequest(k) \/ OnClientCertificateEarly(k)
    <3>1. DOMAIN pending' = DOMAIN pending
          /\ \A j \in DOMAIN pending : pending'[j].ts = pending[j].ts
      BY <1>3, <2>2 DEF OnServerHelloMtls, OnCertificateRequest, OnClientCertificateEarly, Summary
    <3> QED BY <2>0, <3>1 DEF PendingSince
  <2>3. CASE OnServerHello(k) \/ OnAlert(k) \/ OnClientCertificateJoined(k) \/ OnUnknownFlow(k)
    BY <2>0, <2>3 DEF OnServerHello, OnAlert, OnClientCertificateJoined, OnUnknownFlow,
                      Without, Restrict, PendingSince
  <2> QED BY <1>5, <2>1, <2>2, <2>3 DEF CorrelatorCall
<1>6. CASE Correlate
  BY <1>1, <1>5, <1>6, JobTyped DEF Correlate
<1>7. CASE Sweep
  BY <1>7 DEF Sweep, SweepExpired, Restrict, PendingSince
<1>8. CASE TimePasses
  BY <1>2, <1>3, <1>8 DEF TimePasses, ClockRuns, PendingSince
<1>9. CASE Drop13 \/ Emit \/ UNCHANGED workerVars
  BY <1>4, <1>9 DEF Drop13, Emit, workerVars, tableVars
<1>10. ASSUME NEW k, NEW i, Receive(k, i) \/ ReceiveAgain(k, i) \/ Lose(k, i)
       PROVE  PendingSince'
  BY <1>4, <1>10 DEF Receive, ReceiveAgain, Lose, Take, tableVars
<1> QED BY <1>6, <1>7, <1>8, <1>9, <1>10 DEF WorkerNext

(* Every step in time takes a handshake on, or leaves it where it is. *)
LEMMA FollowsStep ==
  ASSUME WorkerInv, HasRoom, PendingSince, InTime, InTime', [WorkerNext]_workerVars,
         NEW k \in Conns, Host[k] = "server", NEW s, s = script[k],
         NEW h \in DOMAIN s, NEW a \in DOMAIN s, NEW p \in DOMAIN s, Flight(s, h, a, p),
         NEW n \in Nat, ComeIn(k, s, n), Progress(k, s, h, a, p, n)
  PROVE  \E m \in Nat : ComeIn(k, s, m)' /\ Progress(k, s, h, a, p, m)'
<1>1. /\ s \in Seq(RawCapture) /\ s[h].key = k /\ Ingress(s[h]) \in BOOLEAN
      /\ DOMAIN s \subseteq Nat
  BY WorkerAssumption DEF WorkerInv, LoopOK, Ingress
<1>2. LoopOK /\ Inv
  BY DEF WorkerInv
<1>3. unsent'[k] = unsent[k] => ComeIn(k, s, n)'
  BY DEF ComeIn
<1> DEFINE HeldSame == \A d \in BOOLEAN :
             /\ <<k, d>> \in DOMAIN held' <=> <<k, d>> \in DOMAIN held
             /\ <<k, d>> \in DOMAIN held => held'[<<k, d>>] = held[<<k, d>>]
           EntrySame == k \in DOMAIN pending => k \in DOMAIN pending' /\ pending'[k] = pending[k]
<1>4. ASSUME unsent'[k] = unsent[k], HeldSame, EntrySame, events \subseteq events',
             job' = job \/ (~AtWork(k) /\ ~AtWork(k)')
      PROVE  ComeIn(k, s, n)' /\ Progress(k, s, h, a, p, n)'
  BY <1>1, <1>3, <1>4, FrameProgress
<1> HIDE DEF HeldSame, EntrySame
<1>5. ASSUME NEW j \in Conns, NEW i \in DOMAIN script[j], Receive(j, i)
      PROVE  \E m \in Nat : ComeIn(k, s, m)' /\ Progress(k, s, h, a, p, m)'
  <2>1. CASE j = k
    <3>1. faults = 0 /\ faults' = 0
      BY DEF InTime
    <3>2. i \in DOMAIN s /\ Receive(k, i)
      BY <1>5, <2>1
    <3>3. ComeIn(k, s, n + 1)' /\ Progress(k, s, h, a, p, n + 1)'
      BY <3>1, <3>2, OwnReceive
    <3> QED BY <3>3
  <2>2. CASE j # k
    <3> DEFINE c == script[j][i]
    <3>1. c \in RawCapture /\ c.key = j
      <4>1. script[j] \in Seq(RawCapture) /\ c.key = j
        BY <1>2, WorkerAssumption DEF LoopOK
      <4> QED BY <4>1, ElementOfSeq
    <3>2. Take(c) /\ unsent'[k] = unsent[k]
      BY <1>2, <1>5, <2>2 DEF Receive, LoopOK
    <3> HIDE DEF c
    <3>3. ~AtWork(k) /\ EntrySame /\ events \subseteq events'
      BY <1>2, <3>2 DEF Take, tableVars, outVars, LoopOK, AtWork, EntrySame
    <3>4. \A d \in BOOLEAN : ReasmKey(c) # <<k, d>>
      BY <2>2, <3>1 DEF ReasmKey
    <3>5. HeldSame
      BY <3>2, <3>4 DEF Take, With, Without, Restrict, HeldSame
    <3>6. ~AtWork(k)'
      <4> DEFINE d == [c EXCEPT !.part = "head"]
      <4>1. d.key = j
        BY <3>1 DEF RawCapture
      <4>2. Analyze(c) \/ Analyze(d) \/ EndOfBody
        BY <3>2 DEF Take
      <4> HIDE DEF d
      <4>3. ASSUME NEW x, Analyze(x), x.key = j PROVE ~AtWork(k)'
        BY <2>2, <4>3 DEF Analyze, AtWork
      <4> QED BY <3>1, <4>1, <4>2, <4>3 DEF EndOfBody, AtWork
    <3> QED BY <1>4, <3>2, <3>3, <3>5, <3>6
  <2> QED BY <2>1, <2>2
<1>6. ASSUME NEW j \in Conns, NEW i, ReceiveAgain(j, i) \/ Lose(j, i) PROVE FALSE
  BY <1>2, <1>6 DEF ReceiveAgain, Lose, InTime, LoopOK
<1>7. CASE Correlate
  <2>1. unsent'[k] = unsent[k] /\ HeldSame /\ events \subseteq events'
    BY <1>7 DEF Correlate, wireVars, outVars, HeldSame
  <2>2. CASE AtWork(k)
    <3>1. Progress(k, s, h, a, p, n)'
      BY <1>1, <1>7, <2>2, OwnCorrelate
    <3> QED BY <1>3, <2>1, <3>1
  <2>3. CASE ~AtWork(k)
    <3>1. /\ stage = "calls" /\ job.calls # <<>>
          /\ CorrelatorCall(job.cap.key, Head(job.calls))
      BY <1>7 DEF Correlate
    <3>2. job.cap.key \in Conns \ {k} /\ job \in Job
      BY <1>2, <2>3, <3>1, JobTyped DEF AtWork
    <3>3. Head(job.calls) = "client_hello" => Cardinality(DOMAIN pending) < MaxEntries
      BY <3>1 DEF HasRoom, InTime
    <3>4. EntrySame
      BY <1>2, <3>1, <3>2, <3>3, OtherCall DEF EntrySame
    <3>5. job'.cap = job.cap
      BY <1>7, <3>2 DEF Correlate, Job
    <3>6. ~AtWork(k)'
      BY <3>2, <3>5 DEF AtWork
    <3> QED BY <1>4, <2>1, <2>3, <3>4, <3>6
  <2> QED BY <2>2, <2>3
<1>8. CASE Emit \/ Drop13
  <2>1. /\ unsent'[k] = unsent[k] /\ HeldSame /\ events \subseteq events' /\ EntrySame
        /\ job' = None
    BY <1>8 DEF Emit, Drop13, EndOfBody, wireVars, tableVars, HeldSame, EntrySame
  <2>2. ~AtWork(k)'
    BY <2>1 DEF AtWork
  <2>3. CASE AtWork(k)
    <3>1. Progress(k, s, h, a, p, n)'
      BY <1>8, <2>3, OwnEnd
    <3> QED BY <1>3, <2>1, <3>1
  <2> QED BY <1>4, <2>1, <2>2, <2>3
<1>9. CASE Sweep
  <2>1. unsent'[k] = unsent[k] /\ job' = job
    BY <1>9 DEF Sweep, wireVars
  <2>2. HeldSame /\ EntrySame /\ events \subseteq events'
    BY <1>9, SweepKeeps DEF HeldSame, EntrySame
  <2> QED BY <1>4, <2>1, <2>2
<1>10. CASE TimePasses \/ UNCHANGED workerVars
  <2>1. /\ unsent'[k] = unsent[k] /\ job' = job
        /\ HeldSame /\ EntrySame /\ events \subseteq events'
    BY <1>10 DEF TimePasses, ClockRuns, workerVars, wireVars, tableVars, outVars, loopVars,
                 HeldSame, EntrySame
  <2> QED BY <1>4, <2>1
<1> QED BY <1>5, <1>6, <1>7, <1>8, <1>9, <1>10 DEF WorkerNext

LEMMA FlightInvInit == FlightsComplete /\ WorkerInit => FlightInv
<1> SUFFICES ASSUME FlightsComplete, WorkerInit PROVE FlightInv
  OBVIOUS
<1>1. PendingSince
  BY DEF WorkerInit, Init, PendingSince
<1>2. ASSUME NEW k \in Conns, Mutual(script[k], k) PROVE FollowsFlight(k)
  <2>1. script \in Scripts /\ unsent[k] = DOMAIN script[k]
    BY DEF WorkerInit
  <2>2. PICK h, a, p \in DOMAIN script[k] : Flight(script[k], h, a, p)
    BY <1>2, <2>1 DEF FlightsComplete
  <2>3. DOMAIN script[k] \subseteq Nat \ {0}
    <3>1. script[k] \in Seq(RawCapture)
      BY <2>1, WorkerAssumption
    <3> QED BY <3>1
  <2>4. ComeIn(k, script[k], 0)
    BY <2>1, <2>3 DEF ComeIn
  <2>5. Progress(k, script[k], h, a, p, 0)
    <3>1. 0 < h
      BY <2>3
    <3>2. DOMAIN held = {}
      BY DEF WorkerInit
    <3>3. script[k][h].part = "tail" => 0 # h - 1
      BY <2>2, <2>3 DEF Flight, HelloAt
    <3>4. HelloWaits(k, script[k], h, 0)
      BY <3>2, <3>3 DEF HelloWaits
    <3> QED BY <3>1, <3>4 DEF Progress
  <2> QED BY <2>2, <2>4, <2>5 DEF FollowsFlight
<1> QED BY <1>1, <1>2 DEF FlightInv

LEMMA FlightInvNext ==
  WorkerInv /\ FlightInv /\ HasRoom /\ [WorkerNext]_workerVars => FlightInv'
<1> SUFFICES ASSUME WorkerInv, FlightInv, HasRoom, [WorkerNext]_workerVars PROVE FlightInv'
  OBVIOUS
<1>1. PendingSince /\ PendingSince'
  BY PendingSinceStep DEF FlightInv
<1>2. script' = script
  BY DEF WorkerNext, Receive, ReceiveAgain, Lose, Correlate, Drop13, Emit, Sweep, TimePasses,
         workerVars, wireVars
<1>3. ASSUME InTime', NEW k \in Conns, Mutual(script'[k], k) PROVE FollowsFlight(k)'
  <2>1. InTime
    <3>1. /\ clock \in Nat /\ clock' \in {clock, clock + 1}
          /\ faults \in Nat /\ faults' \in {faults, faults + 1}
      <4>1. clock \in Nat /\ faults \in Nat
        BY CorrelatorAssumption, WorkerAssumption DEF WorkerInv, Inv, ClockOK, LoopOK
      <4>2. ASSUME NEW k1, NEW call, CorrelatorCall(k1, call) PROVE clock' = clock
        BY <4>2 DEF CorrelatorCall, OnClientHello, OnServerHelloMtls, OnServerHello, OnAlert,
                OnCertificateRequest, OnClientCertificateJoined, OnClientCertificateEarly,
                OnUnknownFlow
      <4>3. clock' \in {clock, clock + 1}
        BY <4>2, ZenonT(60) DEF WorkerNext, Receive, ReceiveAgain, Lose, Take, Correlate, Drop13, Emit,
                    Sweep, SweepExpired, TimePasses, ClockRuns, workerVars, tableVars
      <4>4. faults' \in {faults, faults + 1}
        BY DEF WorkerNext, Receive, ReceiveAgain, Lose, Correlate, Drop13, Emit,
               Sweep, TimePasses, workerVars, wireVars
      <4> QED BY <4>1, <4>3, <4>4
    <3>2. Ttl \in Nat /\ ReasmTimeout \in Nat
      BY CorrelatorAssumption, WorkerAssumption
    <3> QED BY <1>3, <3>1, <3>2 DEF InTime
  <2>2. Host[k] = "server" /\ FollowsFlight(k)
    BY <1>2, <1>3, <2>1 DEF FlightInv, Mutual
  <2>3. PICK s : s = script[k]
    OBVIOUS
  <2>4. PICK h, a, p \in DOMAIN s :
          /\ Flight(s, h, a, p)
          /\ \E n \in Nat : ComeIn(k, s, n) /\ Progress(k, s, h, a, p, n)
    BY <2>2, <2>3 DEF FollowsFlight
  <2>5. PICK n \in Nat : ComeIn(k, s, n) /\ Progress(k, s, h, a, p, n)
    BY <2>4
  <2>6. \E m \in Nat : ComeIn(k, s, m)' /\ Progress(k, s, h, a, p, m)'
    BY <1>1, <1>3, <2>1, <2>2, <2>3, <2>4, <2>5, FollowsStep
  <2>7. s = script'[k]
    BY <1>2, <2>3
  <2> QED BY <2>4, <2>6, <2>7 DEF FollowsFlight
<1> QED BY <1>1, <1>3 DEF FlightInv

(* A handshake that has been handled to its end was reported. *)
LEMMA FlightInvReports == WorkerInv /\ FlightInv => FlightReported
<1> SUFFICES ASSUME WorkerInv, FlightInv, NEW k \in Conns, Finished(k),
                    Mutual(script[k], k)
             PROVE  ReportedMutual(k)
  BY DEF FlightReported, Mutual, Asks
<1>1. InTime /\ unsent[k] = {} /\ stage = "recv"
  BY DEF Finished, InTime
<1>2. PICK h, a, p \in DOMAIN script[k], n \in Nat :
        ComeIn(k, script[k], n) /\ Progress(k, script[k], h, a, p, n)
        /\ Flight(script[k], h, a, p)
  BY <1>1 DEF FlightInv, FollowsFlight
<1>3. DOMAIN script[k] \subseteq Nat
  <2>1. script[k] \in Seq(RawCapture)
    BY WorkerAssumption DEF WorkerInv, LoopOK
  <2> QED BY <2>1
<1>4. ~(n < h) /\ ~(n < a) /\ ~(n < p)
  BY <1>1, <1>2 DEF ComeIn
<1>5. ~AtWork(k)
  BY <1>1 DEF WorkerInv, LoopOK, AtWork
<1> QED BY <1>2, <1>4, <1>5 DEF Progress

(* On the server's host a mutual TLS 1.2 handshake, its ClientHello whole  *)
(* or in two segments and its CertificateRequest in the packet of the      *)
(* ServerHello, is reported as mutual once its captures are handled        *)
(* (capture.rs, correlate.rs): for any handshakes beside it and any        *)
(* interleaving with them, sweeps included.  The hypotheses are that the   *)
(* captures of such a connection are a handshake, in its order, and that   *)
(* the table has room for each hello, without which it may be evicted.     *)
THEOREM ReportsFlights ==
  FlightsComplete /\ WorkerSpec /\ []HasRoom => []FlightReported
<1>1. FlightsComplete /\ WorkerInit => FlightInv
  BY FlightInvInit
<1>2. WorkerInv /\ FlightInv /\ HasRoom /\ [WorkerNext]_workerVars => FlightInv'
  BY FlightInvNext
<1>3. WorkerInv /\ FlightInv => FlightReported
  BY FlightInvReports
<1> QED BY <1>1, <1>2, <1>3, WorkerInvHolds, PTL DEF WorkerSpec

=============================================================================
