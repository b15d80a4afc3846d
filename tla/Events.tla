------------------------------- MODULE Events -------------------------------
(***************************************************************************)
(* From a capture to its events (crates/tls-probe-cli/src: tls.rs, ja4.rs, *)
(* record_walk.rs, certificate.rs, and the parts of commands/capture.rs    *)
(* that call them): what is parsed becomes an event with a JA4             *)
(* fingerprint, what does not parse a bare event, an alert one of its own; *)
(* the records behind a ServerHello of TLS 1.2 become events, too.         *)
(*                                                                         *)
(* The names of numbers, the addresses and the times of an event are left  *)
(* out.  A hash stands for what is hashed.                                 *)
(***************************************************************************)
EXTENDS HelloParser, SequencesExt

CONSTANT Certificates  (* DER encodings that x509_parser accepts             *)

U24(s, i) == 65536 * s[i] + 256 * s[i + 1] + s[i + 2]

(* A record behind a ServerHello, as its sender meant it: a Certificate,   *)
(* and nothing else, has a leaf, the first certificate of its list.        *)
IsFlightRecord(r) ==
  /\ r.content_type \in 0 .. 255 /\ r.body \in Seq(0 .. 255)
  /\ IF First(r.body) # 11 THEN r.leaf = None
     ELSE /\ r.leaf \in Certificates /\ Len(r.body) >= 10 + Len(r.leaf)
          /\ ~(U24(r.body, 5) < 3) /\ U24(r.body, 8) = Len(r.leaf)
          /\ \A i \in DOMAIN r.leaf : r.body[10 + i] = r.leaf[i]

(* The payload of packet c is a record with a ServerHello and then those   *)
(* of sent.flight, the k-th from offset sent.starts[k] on.                 *)
CarriesFlight(c, sent) ==
  LET end == Len(sent.flight) + 1
  IN  /\ IsSequence(sent.flight)
      /\ sent.starts \in [1 .. end -> Nat]
      /\ sent.starts[1] = 5 + At16(c.payload, 3) /\ sent.starts[end] = Len(c.payload)
      /\ \A j, k \in 1 .. end : j < k => sent.starts[j] < sent.starts[k]
      /\ \A k \in DOMAIN sent.flight :
           LET r  == sent.flight[k]
               at == sent.starts[k]
           IN  /\ IsFlightRecord(r)
               /\ sent.starts[k + 1] = at + 5 + Len(r.body)
               /\ c.payload[at + 1] = r.content_type
               /\ At16(c.payload, at + 3) = Len(r.body)
               /\ \A i \in DOMAIN r.body : c.payload[at + 5 + i] = r.body[i]

(* The flight of a ServerHello is in its payload.  No certificate is the   *)
(* beginning of another: DER says how long it is.                          *)
ASSUME FlightAssumption ==
  /\ None \notin 0 .. 255
  /\ Certificates \subseteq Seq(0 .. 255)
  /\ \A x, y \in Certificates : IsPrefix(x, y) => x = y
  /\ \A c \in Packets : (c.sent # None /\ c.handshake_type = 2) =>
       CarriesFlight(c, c.sent)

VARIABLES
  event,    (* the event of the capture itself                               *)
  walked,   (* the records found behind a ServerHello                        *)
  count,    (* how many records were walked over                             *)
  synth     (* the events made of them                                       *)

eventVars == <<event, walked, count, synth>>
vars == <<parserVars, eventVars>>

Init ==
  /\ ParserInit
  /\ pc = IF capture.content_type = 21 THEN "alert" ELSE "record"
  /\ event = None /\ walked = <<>> /\ count = 0 /\ synth = <<>>

(***************************************************************************)
(* JA4                                                                     *)
(***************************************************************************)

(* Both bytes are the same, and end in 0xA. *)
is_grease(v) == v \div 256 = v % 256 /\ v % 16 = 10

NotGrease(s) == SelectSeq(s, LAMBDA v : ~is_grease(v))
Sorted(s) == SortSeq(s, LAMBDA v, w : v < w)

(* The highest version offered, GREASE aside. *)
ja4_version_string(h) ==
  LET versions == Range(NotGrease(h.supported_versions))
      v == IF versions = {} THEN h.legacy_version ELSE Max(versions)
  IN  IF v \in 769 .. 772 THEN v ELSE "00"

IsAlphanumeric(b) == b \in (48 .. 57) \cup (65 .. 90) \cup (97 .. 122)

(* The first and the last character of the first protocol. *)
alpn_chars(h) ==
  IF h.alpn = <<>> \/ First(h.alpn) = <<>> THEN "00"
  ELSE LET ends == <<h.alpn[1][1], Last(h.alpn[1])>>
       IN  IF \A i \in 1 .. 2 : IsAlphanumeric(ends[i]) THEN ends ELSE "99"

cipher_hash(h) == Sorted(NotGrease(h.cipher_suites))

(* Mutant: the ids are hashed in the order they were sent in. *)
extension_hash_WireOrder(h) ==
  <<SelectSeq(NotGrease(h.extension_ids), LAMBDA e : e \notin {ServerName, Alpn}),
    h.signature_algorithms>>

(* The extension ids without those of SNI and ALPN, sorted, and the        *)
(* signature algorithms as they were sent.                                 *)
extension_hash(h) ==
  <<Sorted(SelectSeq(NotGrease(h.extension_ids),
                     LAMBDA e : e \notin {ServerName, Alpn})),
    h.signature_algorithms>>

ja4(h) ==
  [version |-> ja4_version_string(h),
   sni |-> h.sni # None,
   cipher_count |-> Min({Len(NotGrease(h.cipher_suites)), 99}),
   extension_count |-> Min({Len(NotGrease(h.extension_ids)), 99}),
   alpn |-> alpn_chars(h),
   c_hash |-> cipher_hash(h),
   e_hash |-> extension_hash(h)]

(***************************************************************************)
(* Events                                                                  *)
(***************************************************************************)

(* build_fallback_analysis: what the kernel wrote into the capture. *)
build_fallback_analysis ==
  [handshake_type |-> capture.handshake_type, version |-> U16(1),
   cipher_suites |-> <<>>, key_exchange_groups |-> <<>>,
   signature_algorithms |-> <<>>, signature_algorithms_cert |-> None,
   key_share_group |-> None, sni |-> None, resumption |-> None, ja4 |-> None,
   alert |-> None, certificate |-> None, truncated |-> None]

OrNone(s) == IF s = <<>> THEN None ELSE s

(* Resumption: offered, early data, selected, ticket. *)
ClientResumption(h) ==
  IF \/ h.psk_offered \/ h.early_data_offered
     \/ h.psk_key_exchange_modes_offered \/ h.session_ticket_offered
  THEN <<h.psk_offered, h.early_data_offered, FALSE, h.session_ticket_offered>>
  ELSE None

build_client_analysis ==
  LET h == ParsedClientHello
  IN  [build_fallback_analysis EXCEPT
         !.version = effective_version,
         !.cipher_suites = h.cipher_suites,
         !.key_exchange_groups = h.supported_groups,
         !.signature_algorithms = h.signature_algorithms,
         !.signature_algorithms_cert = OrNone(h.signature_algorithms_cert),
         !.key_share_group = First(h.key_share_groups),
         !.sni = h.sni,
         !.resumption = ClientResumption(h),
         !.ja4 = ja4(h)]

(* Whatever is not a ClientHello was parsed as a ServerHello. *)
build_server_analysis ==
  LET h == ParsedServerHello
  IN  [build_fallback_analysis EXCEPT
         !.version = effective_version,
         !.cipher_suites = h.cipher_suites,
         !.key_exchange_groups =
           IF h.key_share_group = None THEN <<>> ELSE <<h.key_share_group>>,
         !.key_share_group = h.key_share_group,
         !.resumption =
           IF h.psk_selected THEN <<FALSE, FALSE, TRUE, FALSE>> ELSE None]

(* The level and the description of an alert, behind the record header. *)
parse_alert ==
  IF Len(payload) >= 7 /\ payload[1] = 21 THEN <<payload[6], payload[7]>> ELSE None

(***************************************************************************)
(* Certificates                                                            *)
(***************************************************************************)

(* x509_parser: the certificate the bytes start with, if they do. *)
parse_x509_certificate(der) ==
  IF \E c \in Certificates : IsPrefix(c, der)
  THEN CHOOSE c \in Certificates : IsPrefix(c, der)
  ELSE None

(* The first certificate of the list, if it is all there. *)
parse_certificate(body) ==
  IF Len(body) < 6 THEN None
  ELSE IF U24(body, 1) < 3 \/ Len(body) < 6 + U24(body, 4) THEN None
  ELSE parse_x509_certificate(SubSeq(body, 7, 6 + U24(body, 4)))

(* The worker skips four bytes, of a record's body and of a whole payload  *)
(* alike.                                                                  *)
LeafAfter4(bytes) ==
  IF Len(bytes) > 4 THEN parse_certificate(SubSeq(bytes, 5, Len(bytes))) ELSE None

(***************************************************************************)
(* Steps                                                                   *)
(***************************************************************************)

BuildAlertEvent ==
  /\ pc = "alert"
  /\ event' = [build_fallback_analysis EXCEPT !.alert = parse_alert]
  /\ pc' = "done"
  /\ UNCHANGED <<capture, offset, ext_start, ext_end, hello, reach,
                 walked, count, synth>>

IsCertificate == capture.handshake_type = 11

WithCertificate(e) ==
  IF IsCertificate THEN [e EXCEPT !.certificate = LeafAfter4(payload)] ELSE e

BuildFallback ==
  /\ pc = "err"
  /\ event' = WithCertificate(build_fallback_analysis)
  /\ pc' = "done"
  /\ UNCHANGED <<capture, offset, ext_start, ext_end, hello, reach,
                 walked, count, synth>>

(* The event; the records behind a ServerHello of TLS 1.2 or earlier come  *)
(* next.                                                                   *)
BuildAnalysis ==
  /\ pc = "parsed"
  /\ event' = WithCertificate(
       IF is_client THEN build_client_analysis ELSE build_server_analysis)
  /\ IF capture.handshake_type = 2 /\ effective_version <= 771
     THEN pc' = "walk" /\ offset' = 5 + U16(3)
     ELSE pc' = "done" /\ UNCHANGED offset
  /\ UNCHANGED <<capture, ext_start, ext_end, hello, reach, walked, count, synth>>

MaxRecordsToWalk == 4

(* Mutant: the cap is on the records kept. *)
WalkRecord_CountsKept ==
  LET start == offset + 5
      end   == start + U16(offset + 3)
      cut   == end > Len(payload)
      body  == SubSeq(payload, start + 1, Smaller(end, Len(payload)))
  IN  /\ pc = "walk"
      /\ offset + 5 <= Len(payload) /\ Len(walked) < MaxRecordsToWalk
      /\ walked' = IF Byte(offset) = 22 /\ First(body) \in {11, 13}
                   THEN Append(walked, [version |-> U16(offset + 1), body |-> body,
                                        truncated |-> cut])
                   ELSE walked
      /\ IF Byte(offset) # 22 \/ cut
         THEN pc' = "synthesize" /\ UNCHANGED <<offset, count>>
         ELSE offset' = end /\ count' = count + 1 /\ UNCHANGED pc
      /\ reach' = Larger(reach, Larger(start, Smaller(end, Len(payload))))
      /\ UNCHANGED <<capture, ext_start, ext_end, hello, event, synth>>

(* One iteration of walk_records: a Certificate or a CertificateRequest is *)
(* kept, also when it is cut; another content type, or the cut, ends the   *)
(* walk.                                                                   *)
WalkRecord ==
  LET start == offset + 5
      end   == start + U16(offset + 3)
      cut   == end > Len(payload)
      body  == SubSeq(payload, start + 1, Smaller(end, Len(payload)))
  IN  /\ pc = "walk"
      /\ offset + 5 <= Len(payload) /\ count < MaxRecordsToWalk
      /\ walked' = IF Byte(offset) = 22 /\ First(body) \in {11, 13}
                   THEN Append(walked, [version |-> U16(offset + 1), body |-> body,
                                        truncated |-> cut])
                   ELSE walked
      /\ IF Byte(offset) # 22 \/ cut
         THEN pc' = "synthesize" /\ UNCHANGED <<offset, count>>
         ELSE offset' = end /\ count' = count + 1 /\ UNCHANGED pc
      /\ reach' = Larger(reach, Larger(start, Smaller(end, Len(payload))))
      /\ UNCHANGED <<capture, ext_start, ext_end, hello, event, synth>>

EndOfWalk ==
  /\ pc = "walk"
  /\ offset + 5 > Len(payload) \/ count >= MaxRecordsToWalk
  /\ pc' = "synthesize"
  /\ UNCHANGED <<capture, offset, ext_start, ext_end, hello, reach, eventVars>>

(* synthesize_event_from_walked_record, and the certificate of a           *)
(* Certificate.                                                            *)
Synthesized(r) ==
  [build_fallback_analysis EXCEPT
     !.handshake_type = First(r.body),
     !.version = r.version,
     !.truncated = r.truncated,
     !.certificate = IF First(r.body) = 11 THEN LeafAfter4(r.body) ELSE None]

SynthesizeEvents ==
  /\ pc = "synthesize"
  /\ synth' = [i \in DOMAIN walked |-> Synthesized(walked[i])]
  /\ pc' = "done"
  /\ UNCHANGED <<capture, offset, ext_start, ext_end, hello, reach, event,
                 walked, count>>

Next ==
  \/ ParserNext /\ UNCHANGED eventVars
  \/ BuildAlertEvent \/ BuildFallback \/ BuildAnalysis
  \/ WalkRecord \/ EndOfWalk \/ SynthesizeEvents

Spec == Init /\ [][Next]_vars

(***************************************************************************)
(* Properties                                                              *)
(***************************************************************************)

(* The same hello without GREASE, its lists in ascending order. *)
Plain(h) ==
  [h EXCEPT !.cipher_suites = Sorted(NotGrease(@)),
            !.extension_ids = Sorted(NotGrease(@)),
            !.supported_versions = NotGrease(@)]

IsWhole(sent) == WholeExtensions(sent) = DOMAIN sent.extensions

(* ja4.rs: the fingerprint is "invariant to GREASE values in ciphers,      *)
(* extensions, and versions", and to the order of ciphers and extensions:  *)
(* a whole ClientHello has the fingerprint of the hello without either.    *)
Ja4Stable ==
  (event # None /\ is_client /\ event.ja4 # None /\ capture.sent # None) =>
    (IsWhole(capture.sent) => event.ja4 = ja4(Plain(ClientSaid(capture.sent))))

(* The records whose events are due: the Certificates and                  *)
(* CertificateRequests among the first four, up to the first record of     *)
(* another content type, of which the payload has at least one byte.       *)
DueRecords(sent) ==
  {k \in DOMAIN sent.flight :
     /\ k <= MaxRecordsToWalk
     /\ \A i \in 1 .. k : sent.flight[i].content_type = 22
     /\ First(sent.flight[k].body) \in {11, 13}
     /\ sent.starts[k] + 5 < Len(payload)}

(* What the event of record k is to say: that it is cut, when it is, and   *)
(* its leaf certificate, when that is all there.                           *)
Due(sent, k) ==
  LET r    == sent.flight[k]
      room == Len(payload) - sent.starts[k] - 5
  IN  <<First(r.body), room < Len(r.body),
        IF r.leaf # None /\ 10 + Len(r.leaf) <= room THEN r.leaf ELSE None>>

(* The flight of a TLS 1.2 server in one packet, cut anywhere: there is    *)
(* one event for each Certificate and CertificateRequest that is due, in   *)
(* order, with the leaf certificate or none, never one that was not sent.  *)
FlightWalked ==
  (pc = "done" /\ capture.sent # None /\ capture.handshake_type = 2
     /\ event.cipher_suites # <<>> /\ event.version <= 771) =>
    \E due \in [DOMAIN synth -> DueRecords(capture.sent)] :
      /\ \A i, j \in DOMAIN synth : i < j => due[i] < due[j]
      /\ \A k \in DueRecords(capture.sent) : \E i \in DOMAIN synth : due[i] = k
      /\ \A i \in DOMAIN synth :
           <<synth[i].handshake_type, synth[i].truncated, synth[i].certificate>>
             = Due(capture.sent, due[i])

(***************************************************************************)
(* What the documentation says and the code does not keep.                 *)
(***************************************************************************)

(* README: "TLS 1.2 server certificate | `Certificate` | `certificate`":   *)
(* the event of a Certificate that was captured whole, in a packet of its  *)
(* own, has the leaf certificate.                                          *)
LeafReported ==
  (pc = "done" /\ IsCertificate /\ Len(payload) = 5 + U16(3)) =>
    event.certificate = capture.leaf

(* README: "`ja4` on every ClientHello". *)
Ja4OnEveryHello == (pc = "done" /\ is_client) => event.ja4 # None

=============================================================================
