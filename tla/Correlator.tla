----------------------------- MODULE Correlator -----------------------------
(***************************************************************************)
(* The ClientHello/ServerHello correlator                                  *)
(* (crates/tls-probe-cli/src/correlate.rs).                                *)
(*                                                                         *)
(* A ClientHello is held per connection until a ServerHello, an alert or   *)
(* (on an mTLS flow) the client's Certificate joins it; a sweep drops      *)
(* entries older than the TTL, and a full table makes room for a new one   *)
(* by dropping the oldest.                                                 *)
(*                                                                         *)
(* The fields a ClientHello contributes to a negotiation (version, groups, *)
(* SNI, early data) travel together: the summary is the number of the      *)
(* ClientHello, counted in order of arrival.  The clock is SystemTime:     *)
(* nanoseconds in a u64, and the subtraction wraps as it does in the       *)
(* release profile, which has no overflow checks.                          *)
(***************************************************************************)
EXTENDS Integers, FiniteSets, Functions

CONSTANTS
  Conns,       (* ConnKeys                                                   *)
  MaxEntries,  (* Correlator::max_entries (8192)                             *)
  Ttl,         (* Correlator::ttl_ns (10 s)                                  *)
  ClockMod,    (* size of the u64 clock (2^64)                               *)
  MaxClock,    (* bound: the largest reading of the clock                    *)
  MaxHellos,   (* bound: ClientHellos observed                               *)
  ClockSteps,  (* bound: times the wall clock is set back                    *)
  None         (* Option::None                                               *)

HelloIds == 1 .. MaxHellos

Negotiation ==
  [key: Conns, hello: HelloIds, outcome: {"negotiated", "failed"},
   mtls_requested: BOOLEAN, mtls: BOOLEAN, rides: {"sh", "alert", "cert"}]

ASSUME CorrelatorAssumption ==
  /\ MaxEntries \in Nat \ {0}
  /\ Ttl \in Nat \ {0}
  /\ MaxClock \in Nat
  /\ ClockMod \in Nat /\ MaxClock < ClockMod
  /\ MaxHellos \in Nat
  /\ ClockSteps \in Nat
  /\ None \notin Conns
  /\ None \notin Negotiation

VARIABLES
  pending,    (* Correlator::pending, a function on the keys present          *)
  negotiated, (* the Negotiation the last call returned, or None              *)
  clock,      (* current_time_ns()                                            *)
  steps,      (* times the clock was set back                                 *)
  hellos      (* ClientHellos observed so far, by connection, oldest first    *)

vars == <<pending, negotiated, clock, steps, hellos>>

(* Ghost numbering: the ClientHellos are 1, 2, ... in order of arrival. *)
HelloCount == Cardinality(DOMAIN hellos)

(* (ClientHelloSummary, insertion_ns) *)
Summary ==
  [hello: HelloIds, ts: 0 .. MaxClock, mtls_requested: BOOLEAN, mtls: BOOLEAN,
   post_sh_negotiation: Negotiation \cup {None}]

(* Every pending entry and every returned negotiation is well formed.      *)
TypeOK ==
  /\ pending \in [DOMAIN pending -> Summary]
  /\ DOMAIN pending \subseteq Conns
  /\ negotiated \in Negotiation \cup {None}
  /\ clock \in 0 .. MaxClock
  /\ steps \in 0 .. ClockSteps
  /\ hellos \in [DOMAIN hellos -> Conns]
  /\ DOMAIN hellos \in {1 .. n : n \in 0 .. MaxHellos}

(***************************************************************************)
(* Operations                                                              *)
(***************************************************************************)

With(m, k, v) == [x \in DOMAIN m \cup {k} |-> IF x = k THEN v ELSE m[x]]
Without(m, K) == Restrict(m, DOMAIN m \ K)

Oldest(m) == {k \in DOMAIN m : \A j \in DOMAIN m : m[k].ts <= m[j].ts}

(* Mutant: the test lets the table grow one past its limit.                *)
MakeRoom_OffByOne(m, evicted) ==
  IF Cardinality(DOMAIN m) > MaxEntries
  THEN evicted \in Oldest(m)
  ELSE evicted = None

(* Mutant: any entry may go.                                               *)
MakeRoom_AnyEntry(m, evicted) ==
  IF Cardinality(DOMAIN m) >= MaxEntries
  THEN evicted \in DOMAIN m
  ELSE evicted = None

(* The entry dropped to make room: an oldest one (min_by_key over a        *)
(* HashMap picks any of several), also when the new hello's key is already *)
(* in the table.                                                           *)
MakeRoom(m, evicted) ==
  IF Cardinality(DOMAIN m) >= MaxEntries
  THEN evicted \in Oldest(m)
  ELSE evicted = None

NewSummary ==
  [hello |-> HelloCount + 1, ts |-> clock, mtls_requested |-> FALSE,
   mtls |-> FALSE, post_sh_negotiation |-> None]

(* build_negotiation, and the "failed" negotiation on_alert builds. *)
BuildNegotiation(k, s, outcome, rides) ==
  [key |-> k, hello |-> s.hello, outcome |-> outcome,
   mtls_requested |-> s.mtls_requested, mtls |-> s.mtls, rides |-> rides]

(* Mutant: a second ClientHello does not replace the pending one.          *)
OnClientHello_KeepsFirst(k, evicted) ==
  /\ HelloCount < MaxHellos
  /\ MakeRoom(pending, evicted)
  /\ LET m == Without(pending, {evicted})
     IN  pending' = IF k \in DOMAIN m THEN m ELSE With(m, k, NewSummary)
  /\ hellos' = With(hellos, HelloCount + 1, k)
  /\ negotiated' = None
  /\ UNCHANGED <<clock, steps>>

OnClientHello(k, evicted) ==
  /\ HelloCount < MaxHellos
  /\ MakeRoom(pending, evicted)
  /\ pending' = With(Without(pending, {evicted}), k, NewSummary)
  /\ hellos' = With(hellos, HelloCount + 1, k)
  /\ negotiated' = None
  /\ UNCHANGED <<clock, steps>>

(* Mutant: the negotiation is stored but the entry is that of no request.  *)
OnServerHelloMtls_RequestCleared(k) ==
  /\ k \in DOMAIN pending
  /\ pending[k].mtls_requested
  /\ LET n == BuildNegotiation(k, pending[k], "negotiated", "sh")
     IN  /\ negotiated' = n
         /\ pending' = [pending EXCEPT ![k].post_sh_negotiation = n,
                                       ![k].mtls_requested = FALSE]
  /\ UNCHANGED <<clock, steps, hellos>>

(* A ServerHello on an mTLS flow: the entry stays for the client's         *)
(* Certificate, which will report this negotiation again.                  *)
OnServerHelloMtls(k) ==
  /\ k \in DOMAIN pending
  /\ pending[k].mtls_requested
  /\ LET n == BuildNegotiation(k, pending[k], "negotiated", "sh")
     IN  /\ negotiated' = n
         /\ pending' = [pending EXCEPT ![k].post_sh_negotiation = n]
  /\ UNCHANGED <<clock, steps, hellos>>

OnServerHello(k) ==
  /\ k \in DOMAIN pending
  /\ ~pending[k].mtls_requested
  /\ negotiated' = BuildNegotiation(k, pending[k], "negotiated", "sh")
  /\ pending' = Without(pending, {k})
  /\ UNCHANGED <<clock, steps, hellos>>

(* Mutant: the alert reports the failure but leaves the hello pending.     *)
OnAlert_KeepsEntry(k) ==
  /\ k \in DOMAIN pending
  /\ negotiated' = BuildNegotiation(k, pending[k], "failed", "alert")
  /\ UNCHANGED <<pending, clock, steps, hellos>>

OnAlert(k) ==
  /\ k \in DOMAIN pending
  /\ negotiated' = BuildNegotiation(k, pending[k], "failed", "alert")
  /\ pending' = Without(pending, {k})
  /\ UNCHANGED <<clock, steps, hellos>>

OnCertificateRequest(k) ==
  /\ k \in DOMAIN pending
  /\ pending' = [pending EXCEPT ![k].mtls_requested = TRUE]
  /\ negotiated' = None
  /\ UNCHANGED <<clock, steps, hellos>>

(* The client's Certificate after the ServerHello join: the negotiation    *)
(* stored then is returned once more with mtls set, and the entry goes.    *)
OnClientCertificateJoined(k) ==
  /\ k \in DOMAIN pending
  /\ pending[k].post_sh_negotiation # None
  /\ negotiated' = [pending[k].post_sh_negotiation EXCEPT !.mtls = TRUE,
                                                          !.rides = "cert"]
  /\ pending' = Without(pending, {k})
  /\ UNCHANGED <<clock, steps, hellos>>

(* The client's Certificate before the join: only noted. *)
OnClientCertificateEarly(k) ==
  /\ k \in DOMAIN pending
  /\ pending[k].post_sh_negotiation = None
  /\ pending' = [pending EXCEPT ![k].mtls = TRUE]
  /\ negotiated' = None
  /\ UNCHANGED <<clock, steps, hellos>>

(* A message on a connection without a pending ClientHello: each handler   *)
(* returns None and changes nothing.                                       *)
OnUnknownFlow(k) ==
  /\ k \notin DOMAIN pending
  /\ negotiated' = None
  /\ UNCHANGED <<pending, clock, steps, hellos>>

(* now_ns - ts, in u64. *)
Elapsed(ts) == (clock - ts) % ClockMod

SweepExpired ==
  /\ pending' = Restrict(pending, {k \in DOMAIN pending : Elapsed(pending[k].ts) < Ttl})
  /\ negotiated' = None
  /\ UNCHANGED <<clock, steps, hellos>>

(* The wall clock runs, and may be set back (NTP, an administrator). *)
ClockRuns ==
  /\ clock < MaxClock
  /\ clock' = clock + 1
  /\ negotiated' = None
  /\ UNCHANGED <<pending, steps, hellos>>

ClockSetBack ==
  /\ steps < ClockSteps
  /\ clock > 0
  /\ clock' \in 0 .. clock - 1
  /\ steps' = steps + 1
  /\ negotiated' = None
  /\ UNCHANGED <<pending, hellos>>

Init ==
  /\ pending = [k \in {} |-> None]
  /\ negotiated = None
  /\ clock = 0
  /\ steps = 0
  /\ hellos = [i \in {} |-> None]

Next ==
  \/ \E k \in Conns :
       \/ \E evicted \in Conns \cup {None} : OnClientHello(k, evicted)
       \/ OnServerHelloMtls(k)
       \/ OnServerHello(k)
       \/ OnAlert(k)
       \/ OnCertificateRequest(k)
       \/ OnClientCertificateJoined(k)
       \/ OnClientCertificateEarly(k)
       \/ OnUnknownFlow(k)
  \/ SweepExpired
  \/ ClockRuns
  \/ ClockSetBack

Spec == Init /\ [][Next]_vars

(***************************************************************************)
(* Properties                                                              *)
(***************************************************************************)

(* The table never holds more than max_entries hellos, with replacement,   *)
(* eviction, retained mTLS flows and sweeps in any order.                  *)
Bounded == Cardinality(DOMAIN pending) <= MaxEntries

(* The ClientHellos seen on connection k. *)
HellosOf(k) == {i \in DOMAIN hellos : hellos[i] = k}

(* A negotiation joins the latest ClientHello of its own connection:       *)
(* never that of another connection, never one that a later hello replaced *)
(* (HelloRetryRequest makes the client send a second one).                 *)
JoinsLatestHello ==
  negotiated # None =>
    /\ negotiated.hello \in HellosOf(negotiated.key)
    /\ \A i \in HellosOf(negotiated.key) : i <= negotiated.hello

(* Every pending entry is the latest hello of its connection, and what an  *)
(* mTLS entry stored at the ServerHello join is about that same hello.     *)
PendingIsLatest ==
  \A k \in DOMAIN pending :
    LET s == pending[k]
    IN  /\ s.hello \in HellosOf(k)
        /\ \A i \in HellosOf(k) : i <= s.hello
        /\ s.post_sh_negotiation # None =>
             /\ s.mtls_requested
             /\ s.post_sh_negotiation.hello = s.hello
             /\ s.post_sh_negotiation.key = k
             /\ s.post_sh_negotiation.mtls_requested

(* The negotiations after which the correlator forgets the connection.     *)
Terminal(n) ==
  \/ n.outcome = "failed"
  \/ n.rides = "cert"
  \/ ~n.mtls_requested

(* A hello is consumed by the message that ends its handshake: after an    *)
(* alert, a completed mTLS exchange or a plain ServerHello join has been   *)
(* reported, no entry of that hello is left for a later message to join.   *)
ConsumedOnce ==
  negotiated # None /\ Terminal(negotiated) =>
    \A k \in DOMAIN pending : pending[k].hello # negotiated.hello

(* The negotiation that rides a client Certificate says that the exchange  *)
(* was mutual: requested by the server and answered by the client.         *)
CertificateCompletesMtls ==
  negotiated # None /\ negotiated.rides = "cert" =>
    negotiated.mtls /\ negotiated.mtls_requested

(* A hello leaves the table without being reported only when a newer hello *)
(* of its connection replaces it, when the table is full and it is one of  *)
(* the oldest, when it has outlived the TTL, or when the wall clock was    *)
(* set back to before its arrival.                                         *)
NoSilentLoss ==
  [][\A k \in DOMAIN pending :
       \/ k \in DOMAIN pending' /\ pending'[k].hello >= pending[k].hello
       \/ negotiated' # None /\ negotiated'.hello = pending[k].hello
       \/ Cardinality(DOMAIN pending) = MaxEntries /\ k \in Oldest(pending)
       \/ clock - pending[k].ts >= Ttl
       \/ clock < pending[k].ts]_vars

(***************************************************************************)
(* What the documentation says and the code does not keep.                 *)
(***************************************************************************)

(* "Sweeps expired entries (older than TTL)": the sweep drops no entry     *)
(* that is younger than the TTL.                                           *)
SweepsOnlyExpired ==
  [][SweepExpired =>
       \A k \in DOMAIN pending \ DOMAIN pending' :
         clock - pending[k].ts >= Ttl]_vars

=============================================================================
