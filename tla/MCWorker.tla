------------------------------ MODULE MCWorker ------------------------------
(* Handshakes for the model checker to send past the worker. *)
EXTENDS Worker, TLC

CONSTANTS a, b

Cap(k, from, msg) ==
  [key |-> k, from |-> from, msg |-> msg, part |-> "whole", flight |-> <<>>,
   parses |-> TRUE, v13 |-> FALSE]

Segments(c) == <<[c EXCEPT !.part = "head"], [c EXCEPT !.part = "tail"]>>

Flight == <<"certificate", "certificate_request">>

(* A mutual TLS 1.2 handshake: a segmented ClientHello, the server's       *)
(* flight in one packet, the client's Certificate.                         *)
MutualInFlight(k) ==
  Segments(Cap(k, "client", "client_hello")) \o
    <<[Cap(k, "server", "server_hello") EXCEPT !.flight = Flight],
      Cap(k, "client", "certificate")>>

(* The same with every record in a packet of its own. *)
MutualApart(k) ==
  <<Cap(k, "client", "client_hello"), Cap(k, "server", "server_hello"),
    Cap(k, "server", "certificate"), Cap(k, "server", "certificate_request"),
    Cap(k, "client", "certificate")>>

(* The server answers with an alert. *)
Refused(k) == <<Cap(k, "client", "client_hello"), Cap(k, "server", "alert")>>

(* The client refuses what the server chose. *)
Rejected(k) ==
  <<Cap(k, "client", "client_hello"), Cap(k, "server", "server_hello"),
    Cap(k, "client", "alert")>>

(* TLS 1.3 with HelloRetryRequest: two hellos of either side. *)
Retried(k) ==
  LET sh == [Cap(k, "server", "server_hello") EXCEPT !.v13 = TRUE]
  IN  <<Cap(k, "client", "client_hello"), sh, Cap(k, "client", "client_hello"), sh>>

(* An alert that is too short, a ServerHello that does not parse, and a    *)
(* CertificateRequest whose bytes look like a TLS 1.3 hello.               *)
Oddities(k) ==
  <<Cap(k, "client", "client_hello"),
    [Cap(k, "server", "certificate_request") EXCEPT !.v13 = TRUE],
    [Cap(k, "server", "server_hello") EXCEPT !.parses = FALSE],
    [Cap(k, "server", "alert") EXCEPT !.parses = FALSE]>>

TwoConns == {a, b}

Both(x, y) == a :> x @@ b :> y

(* The handshakes of the passing run; mutual ones in either form alone. *)
AllScripts ==
  {Both(MutualInFlight(a), Refused(b)), Both(Refused(a), Rejected(b)),
   Both(MutualInFlight(a), Retried(b)),
   Both(MutualApart(a), Oddities(b)), Both(Refused(a), MutualApart(b))}
FlightScripts == {Both(MutualInFlight(a), Refused(b))}
ApartScripts == {Both(MutualApart(a), Oddities(b))}

(* The server of a and the client of b run on this host. *)
OneEach == a :> "server" @@ b :> "client"
OnClient == [k \in TwoConns |-> "client"]

=============================================================================
