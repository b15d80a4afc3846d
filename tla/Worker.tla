------------------------------- MODULE Worker -------------------------------
(***************************************************************************)
(* The worker task of the capture command                                  *)
(* (crates/tls-probe-cli/src/commands/capture.rs, the task that owns the   *)
(* reassembler and the correlator): which correlator calls a capture       *)
(* leads to and in which order, which events it is turned into, what the   *)
(* counters count, and when the two tables are swept.                      *)
(*                                                                         *)
(* The wire is a script of captures per connection.  The captures of a     *)
(* connection reach the worker in order; each that is lost, comes early or *)
(* comes again costs one unit of a fault budget.  The reassembler, which   *)
(* has a module of its own, is reduced to records of two segments.         *)
(***************************************************************************)
EXTENDS Correlator, Sequences

CONSTANTS
  Scripts,      (* handshakes: per connection, the captures it leads to     *)
  Host,         (* per connection, the peer that runs on the probe's host   *)
  SweepEvery,   (* captures between two sweeps (500)                        *)
  ReasmTimeout, (* Reassembler::timeout, in ticks of the clock              *)
  MaxFaults     (* bound: lost, early and repeated captures                 *)

Messages ==
  {"client_hello", "server_hello", "alert", "certificate", "certificate_request"}

(* A RawTlsCapture.  part: the whole record, or the fragment or the        *)
(* continuation of a segmented one.  flight: the records after the first   *)
(* that walk_records finds in the payload.  parses: parse_tls_payload, or  *)
(* parse_alert, succeeds.  v13: effective_version() of what it parses to   *)
(* is TLS 1.3; a Certificate is parsed as if it were a hello.              *)
RawCapture ==
  [key: Conns, from: {"client", "server"}, msg: Messages,
   part: {"whole", "head", "tail"},
   flight: Seq({"certificate", "certificate_request"}),
   parses: BOOLEAN, v13: BOOLEAN]

(* The record in hand, the correlator calls it has yet to make and the     *)
(* negotiation they have returned so far.                                  *)
Job ==
  [cap: RawCapture, calls: Seq(Messages), negotiation: Negotiation \cup {None}]

ASSUME WorkerAssumption ==
  /\ \A s \in Scripts : \A k \in Conns :
       s[k] \in Seq(RawCapture) /\ \A i \in DOMAIN s[k] : s[k][i].key = k
  /\ Host \in [Conns -> {"client", "server"}]
  /\ SweepEvery \in Nat \ {0}
  /\ ReasmTimeout \in Nat \ {0}
  /\ MaxFaults \in Nat
  /\ ClockSteps = 0
  /\ None \notin Job

VARIABLES
  script,            (* the handshakes of this behaviour                      *)
  unsent,            (* per connection, the captures still to come           *)
  faults,            (* faults so far                                        *)
  held,              (* the reassembler's entries: half records              *)
  stage,             (* where the loop is                                    *)
  job,               (* the Job, or None between two records                 *)
  timeout_counter,   (* modulo SweepEvery                                    *)
  events,            (* what was sent to the writer                          *)
  sh_without_ch,     (* correlator_sh_without_ch                             *)
  alerts_dropped,
  certs_dropped_13,
  unswept            (* ghost: captures handled since the last sweep         *)

wireVars == <<script, unsent, faults>>
tableVars == <<pending, negotiated, clock, steps, hellos>>
outVars == <<events, sh_without_ch, alerts_dropped, certs_dropped_13>>
loopVars == <<stage, job, timeout_counter, unswept>>
workerVars == <<wireVars, tableVars, outVars, loopVars, held>>

Event ==
  [key: Conns, msg: Messages, negotiation: Negotiation \cup {None},
   truncated: BOOLEAN]

(* The worker's own state is well formed, and so are its two tables.       *)
WorkerTypeOK ==
  /\ TypeOK
  /\ script \in Scripts
  /\ unsent \in [Conns -> SUBSET Nat]
  /\ faults \in 0 .. MaxFaults
  /\ \A r \in DOMAIN held : held[r].ts \in 0 .. MaxClock /\ held[r].cap.part # "whole"
  /\ stage \in {"recv", "calls", "sweep"}
  /\ job \in Job \cup {None}
  /\ (stage = "calls") <=> (job # None)
  /\ timeout_counter \in 0 .. SweepEvery - 1
  /\ events \subseteq Event
  /\ \A n \in {sh_without_ch, alerts_dropped, certs_dropped_13, unswept} : n \in Nat

WorkerInit ==
  /\ Init
  /\ script \in Scripts
  /\ unsent = [k \in Conns |-> DOMAIN script[k]] /\ faults = 0
  /\ held = [r \in {} |-> None]
  /\ stage = "recv" /\ job = None /\ timeout_counter = 0
  /\ events = {}
  /\ sh_without_ch = 0 /\ alerts_dropped = 0 /\ certs_dropped_13 = 0
  /\ unswept = 0

(***************************************************************************)
(* Operations                                                              *)
(***************************************************************************)

(* FLAG_INGRESS: the capture's sender is the other host. *)
Ingress(c) == c.from # Host[c.key]

(* The records after a ServerHello of TLS 1.2 or earlier that came in one  *)
(* packet; an assembled one is not walked.                                 *)
Walked(c) ==
  IF c.msg = "server_hello" /\ c.part = "whole" /\ c.parses /\ ~c.v13
  THEN c.flight ELSE <<>>

(* The calls for the requests among them. *)
WalkedRequests(c) ==
  LET n == Cardinality({i \in DOMAIN Walked(c) : Walked(c)[i] = "certificate_request"})
  IN  [i \in 1 .. n |-> "certificate_request"]

(* Mutant: the requests are noted after the join. *)
Calls_HelloFirst(c) ==
  CASE c.msg = "server_hello" /\ c.parses ->
         <<"server_hello">> \o WalkedRequests(c)
    [] c.msg = "certificate" /\ ~Ingress(c) -> <<>>
    [] c.msg \in {"client_hello", "server_hello", "alert"} /\ ~c.parses -> <<>>
    [] OTHER -> <<c.msg>>

(* Mutant: any Certificate is taken for the client's. *)
Calls_AnyCertificate(c) ==
  CASE c.msg = "server_hello" /\ c.parses ->
         WalkedRequests(c) \o <<"server_hello">>
    [] c.msg \in {"client_hello", "server_hello", "alert"} /\ ~c.parses -> <<>>
    [] OTHER -> <<c.msg>>

(* The correlator calls a record leads to.  The requests that follow a     *)
(* ServerHello in its packet are noted before the join; an incoming        *)
(* Certificate is taken for the client's.                                  *)
Calls(c) ==
  CASE c.msg = "server_hello" /\ c.parses ->
         WalkedRequests(c) \o <<"server_hello">>
    [] c.msg = "certificate" /\ ~Ingress(c) -> <<>>
    [] c.msg \in {"client_hello", "server_hello", "alert"} /\ ~c.parses -> <<>>
    [] OTHER -> <<c.msg>>

(* The end of the loop body: every SweepEvery captures the tables are      *)
(* swept.                                                                  *)
EndOfBody ==
  /\ timeout_counter' = (timeout_counter + 1) % SweepEvery
  /\ stage' = IF timeout_counter + 1 = SweepEvery THEN "sweep" ELSE "recv"
  /\ job' = None
  /\ unswept' = unswept + 1

(* Mutant: the negotiation of the record before is not cleared. *)
Analyze_StaleNegotiation(c) ==
  /\ stage' = "calls"
  /\ job' = [cap |-> c, calls |-> Calls(c), negotiation |-> negotiated]
  /\ UNCHANGED <<timeout_counter, unswept>>

(* A record to analyze: the calls it leads to come next. *)
Analyze(c) ==
  /\ stage' = "calls"
  /\ job' = [cap |-> c, calls |-> Calls(c), negotiation |-> None]
  /\ UNCHANGED <<timeout_counter, unswept>>

ReasmKey(c) == <<c.key, Ingress(c)>>

Completes(c) ==
  c.part # "whole" /\ ReasmKey(c) \in DOMAIN held /\ held[ReasmKey(c)].cap.part # c.part

(* An entry keeps the time it was created at when its half comes again. *)
Created(c) == IF ReasmKey(c) \in DOMAIN held THEN held[ReasmKey(c)].ts ELSE clock

(* recv() and Reassembler::insert: a whole record, or one whose other      *)
(* segment is there, is analyzed; otherwise the segment waits.             *)
Take(c) ==
  /\ stage = "recv"
  /\ \/ c.part = "whole" /\ Analyze(c) /\ UNCHANGED held
     \/ /\ Completes(c)
        /\ Analyze([c EXCEPT !.part = "head"])
        /\ held' = Without(held, {ReasmKey(c)})
     \/ /\ c.part # "whole" /\ ~Completes(c)
        /\ held' = With(held, ReasmKey(c), [cap |-> c, ts |-> Created(c)])
        /\ EndOfBody
  /\ UNCHANGED <<tableVars, outVars>>

(* The next capture of connection k, or a later one first. *)
Receive(k, i) ==
  /\ i \in unsent[k]
  /\ faults' = IF \A j \in unsent[k] : i <= j THEN faults ELSE faults + 1
  /\ faults' <= MaxFaults
  /\ unsent' = [unsent EXCEPT ![k] = @ \ {i}]
  /\ Take(script[k][i])
  /\ UNCHANGED script

(* A retransmitted segment is captured again. *)
ReceiveAgain(k, i) ==
  /\ i \in DOMAIN script[k] \ unsent[k]
  /\ faults < MaxFaults
  /\ faults' = faults + 1
  /\ Take(script[k][i])
  /\ UNCHANGED <<script, unsent>>

(* A capture that the ring buffer or the channel had no room for. *)
Lose(k, i) ==
  /\ i \in unsent[k]
  /\ faults < MaxFaults
  /\ faults' = faults + 1
  /\ unsent' = [unsent EXCEPT ![k] = @ \ {i}]
  /\ UNCHANGED <<script, tableVars, outVars, loopVars, held>>

CorrelatorCall(k, call) ==
  \/ /\ call = "client_hello"
     /\ \E evicted \in Conns \cup {None} : OnClientHello(k, evicted)
  \/ call = "server_hello" /\ (OnServerHelloMtls(k) \/ OnServerHello(k))
  \/ call = "alert" /\ OnAlert(k)
  \/ call = "certificate_request" /\ OnCertificateRequest(k)
  \/ /\ call = "certificate"
     /\ OnClientCertificateJoined(k) \/ OnClientCertificateEarly(k)
  \/ call # "client_hello" /\ OnUnknownFlow(k)

Correlate ==
  /\ stage = "calls"
  /\ job.calls # <<>>
  /\ CorrelatorCall(job.cap.key, Head(job.calls))
  /\ job' = [job EXCEPT !.calls = Tail(@), !.negotiation = negotiated']
  /\ UNCHANGED <<wireVars, outVars, stage, timeout_counter, unswept, held>>

Drops13(c) == c.msg \in {"certificate", "certificate_request"} /\ c.v13

(* What looks like TLS 1.3 is not emitted; the loop starts over. *)
Drop13 ==
  /\ stage = "calls"
  /\ job.calls = <<>>
  /\ Drops13(job.cap)
  /\ certs_dropped_13' = certs_dropped_13 + 1
  /\ stage' = "recv"
  /\ job' = None
  /\ unswept' = unswept + 1
  /\ UNCHANGED <<wireVars, tableVars, events, sh_without_ch,
                 alerts_dropped, timeout_counter, held>>

Plain(k, msg, truncated) ==
  [key |-> k, msg |-> msg, negotiation |-> None, truncated |-> truncated]

(* The events of the walked records, then that of the record itself.       *)
(* Hellos and alerts that found no ClientHello are counted; an alert that  *)
(* does not parse is counted, too.                                         *)
Emit ==
  /\ stage = "calls"
  /\ job.calls = <<>>
  /\ ~Drops13(job.cap)
  /\ LET c      == job.cap
         joined == job.negotiation # None
     IN  /\ events' = events
              \cup {Plain(c.key, Walked(c)[i], FALSE) : i \in DOMAIN Walked(c)}
              \cup {[key |-> c.key, msg |-> c.msg,
                     negotiation |-> job.negotiation, truncated |-> FALSE]}
         /\ sh_without_ch' = sh_without_ch +
              IF c.msg = "server_hello" /\ c.parses /\ ~joined THEN 1 ELSE 0
         /\ alerts_dropped' = alerts_dropped +
              IF c.msg = "alert" /\ ~joined THEN 1 ELSE 0
  /\ EndOfBody
  /\ UNCHANGED <<wireVars, tableVars, certs_dropped_13, held>>

ExpiredHeld == {r \in DOMAIN held : clock - held[r].ts >= ReasmTimeout}

(* Both tables are swept.  An expired record is emitted as it is, and      *)
(* never reaches the correlator.                                           *)
Sweep ==
  /\ stage = "sweep"
  /\ SweepExpired
  /\ LET heads == {r \in ExpiredHeld : held[r].cap.part = "head"}
     IN  events' = events \cup
           {Plain(held[r].cap.key, held[r].cap.msg, TRUE) : r \in heads}
  /\ held' = Without(held, ExpiredHeld)
  /\ stage' = "recv"
  /\ unswept' = 0
  /\ UNCHANGED <<wireVars, sh_without_ch, alerts_dropped, certs_dropped_13, job,
                 timeout_counter>>

TimePasses ==
  /\ ClockRuns
  /\ UNCHANGED <<wireVars, outVars, loopVars, held>>

WorkerNext ==
  \/ \E k \in Conns : \E i \in DOMAIN script[k] :
       Receive(k, i) \/ ReceiveAgain(k, i) \/ Lose(k, i)
  \/ Correlate
  \/ Drop13
  \/ Emit
  \/ Sweep
  \/ TimePasses

WorkerSpec == WorkerInit /\ [][WorkerNext]_workerVars

(***************************************************************************)
(* Properties                                                              *)
(***************************************************************************)

(* The captures of connection k that were received or lost. *)
Gone(k) == {script[k][i] : i \in DOMAIN script[k] \ unsent[k]}

(* Captures of a client's Certificate, and of a CertificateRequest.        *)
ClientCertificate(c) == c.msg = "certificate" /\ c.from = "client"
Requests(c) ==
  \/ c.msg = "certificate_request"
  \/ \E i \in DOMAIN c.flight : c.flight[i] = "certificate_request"

(* An event of a connection whose server runs on this host says mtls only  *)
(* if its client has presented a certificate; an event of any connection   *)
(* says mtls_requested only if its server has asked for one: with captures *)
(* lost, early and repeated, a hello replaced, evicted or swept, and       *)
(* connections interleaved.  (For a connection whose client runs on this   *)
(* host the first part is false: MtlsMeansClient, below.)                  *)
MtlsIsReal ==
  \A e \in events : e.negotiation # None =>
    /\ (e.negotiation.mtls /\ Host[e.key] = "server") =>
         \E c \in Gone(e.key) : ClientCertificate(c)
    /\ e.negotiation.mtls_requested => \E c \in Gone(e.key) : Requests(c)

(* A handshake reported as failed stays so: no negotiation that is about   *)
(* to be emitted is of a ClientHello that an earlier event reported as     *)
(* failed, also when the ServerHello or the alert is captured twice or out *)
(* of order.                                                               *)
FailureIsFinal ==
  (stage = "calls" /\ job.calls = <<>> /\ job.negotiation # None) =>
    \A f \in events :
      (f.negotiation # None /\ f.negotiation.outcome = "failed") =>
        f.negotiation.hello # job.negotiation.hello

(* A negotiation rides an event of its own connection and of the message   *)
(* that completed it: "failed" an alert, "negotiated" a ServerHello or the *)
(* client's Certificate.                                                   *)
NegotiationFits ==
  \A e \in events : e.negotiation # None =>
    /\ e.negotiation.key = e.key
    /\ <<e.negotiation.rides, e.msg>> \in
         {<<"sh", "server_hello">>, <<"alert", "alert">>, <<"cert", "certificate">>}

(* Some event of connection k says that the handshake was mutual. *)
ReportedMutual(k) ==
  \E e \in events : /\ e.key = k /\ e.negotiation # None
                    /\ e.negotiation.mtls_requested /\ e.negotiation.mtls

(* Every capture of connection k has reached the worker and was handled,   *)
(* before any timeout.                                                     *)
Finished(k) ==
  /\ faults = 0 /\ unsent[k] = {} /\ stage = "recv"
  /\ clock < Ttl /\ clock < ReasmTimeout

(* On the server's host, a handshake whose ServerHello and                 *)
(* CertificateRequest are in one packet, and whose client presents a       *)
(* certificate, has an event that says so when all of its captures reached *)
(* the worker in time and found room in the table.                         *)
FlightReported ==
  \A k \in Conns :
    (/\ Finished(k) /\ Host[k] = "server"
     /\ \E i \in DOMAIN script[k] : ClientCertificate(script[k][i])
     /\ \E i \in DOMAIN script[k] : \E j \in DOMAIN Walked(script[k][i]) :
          Walked(script[k][i])[j] = "certificate_request")
      => ReportedMutual(k)

(***************************************************************************)
(* What the documentation says and the code does not keep.                 *)
(***************************************************************************)

(* README: "`mtls_requested` (server asked for a client cert), `mtls`      *)
(* (client presented one)": a handshake in which a certificate is asked    *)
(* for and presented has an event that says so, in whichever packets.      *)
MutualReported ==
  \A k \in Conns :
    (/\ Finished(k)
     /\ \E i \in DOMAIN script[k] : ClientCertificate(script[k][i])
     /\ \E i \in DOMAIN script[k] : Requests(script[k][i]))
      => ReportedMutual(k)

(* "client-sent Certificate implies mTLS", README: "`mtls` (client         *)
(* presented one)": on any host, an event says mtls only if the client has *)
(* presented a certificate.  Where the client runs on this host, the       *)
(* incoming Certificate is the server's; one that is captured before the   *)
(* ServerHello finds the entry of the ClientHello and is taken for the     *)
(* client's.                                                               *)
MtlsMeansClient ==
  \A e \in events :
    (e.negotiation # None /\ e.negotiation.mtls) =>
      \E c \in Gone(e.key) : ClientCertificate(c)

(* README: "alerts with no matching ClientHello are dropped, counted in    *)
(* `alerts_dropped`": an alert is emitted only with its negotiation.       *)
UnmatchedAlertsDropped ==
  \A e \in events : e.msg = "alert" => e.negotiation # None

(* "Skip emitting this event and jump to sweep logic": the tables are      *)
(* swept at least every SweepEvery captures.                               *)
SweptInTime == unswept <= SweepEvery

=============================================================================
