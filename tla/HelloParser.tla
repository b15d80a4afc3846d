----------------------------- MODULE HelloParser -----------------------------
(***************************************************************************)
(* The hello parser (crates/tls-probe-parser): parse_tls_payload,          *)
(* parse_client_hello, parse_server_hello and the extension extractors,    *)
(* over the bytes of a capture's payload.  The payload starts with the     *)
(* record header; it may end anywhere, and every length in it is whatever  *)
(* the peer wrote.                                                         *)
(*                                                                         *)
(* A step is what the parser does between two of its bounds checks, or one *)
(* iteration of a loop.  Reading past the end of the payload is a panic,   *)
(* which ends the worker task: Byte answers there all the same, and reach  *)
(* remembers how far the parser has read.                                  *)
(***************************************************************************)
EXTENDS Integers, Sequences, FiniteSetsExt

CONSTANTS
  Packets,    (* what there is to capture: bytes, in payload, and what the   *)
              (* peer meant by them                                          *)
  Meaning(_), (* what an extension says, to the peer that sent it            *)
  RandomLen,  (* TLS_RANDOM_LEN (32)                                         *)
  None

HelloStart == 5 + 4  (* TLS_RECORD_HDR_LEN + TLS_HANDSHAKE_HDR_LEN *)

At16(data, i) == 256 * data[i + 1] + data[i + 2]

IsSequence(s) == s \in Seq({s[i] : i \in DOMAIN s})

(* The payload of packet c starts with the hello that its sender meant:    *)
(* the fixed part ends, and the extensions start, where sent says.         *)
CarriesHello(c, sent) ==
  LET id     == HelloStart + 2 + RandomLen + 1
      suites == id + c.payload[id]
      n      == Len(sent.cipher_suites)
      end    == Len(sent.extensions) + 1
  IN  /\ IsSequence(sent.cipher_suites) /\ IsSequence(sent.extensions)
      /\ sent.fixed \in id .. Len(c.payload)
      /\ sent.legacy_version = At16(c.payload, HelloStart)
      /\ IF c.handshake_type = 1
         THEN LET methods == suites + 2 + 2 * n
              IN  /\ At16(c.payload, suites) = 2 * n
                  /\ \A i \in 1 .. n : sent.cipher_suites[i] =
                                      At16(c.payload, suites + 2 * i)
                  /\ methods < sent.fixed
                  /\ sent.fixed = methods + 1 + c.payload[methods + 1]
         ELSE /\ sent.cipher_suites = <<At16(c.payload, suites)>>
              /\ sent.fixed = suites + 3
      /\ sent.ext_starts \in [1 .. end -> Nat]
      /\ sent.ext_starts[1] = sent.fixed + 2
      /\ sent.ext_starts[end] <= Len(c.payload)
      /\ sent.ext_starts[end] = sent.fixed + 2 + At16(c.payload, sent.fixed)
      /\ \A j, k \in 1 .. end : j < k => sent.ext_starts[j] + 4 <= sent.ext_starts[k]
      /\ \A k \in DOMAIN sent.extensions :
           LET at   == sent.ext_starts[k]
               next == sent.ext_starts[k + 1]
           IN  /\ sent.extensions[k] = [ext_type |-> At16(c.payload, at),
                                        data |-> SubSeq(c.payload, at + 5, next)]
               /\ at + 4 + At16(c.payload, at + 2) = next

ASSUME ParserAssumption ==
  /\ RandomLen \in Nat
  /\ \A c \in Packets :
       /\ c.payload \in Seq(0 .. 255)
       /\ c.sent # None => CarriesHello(c, c.sent)

VARIABLES
  capture,   (* the capture being analyzed                                   *)
  pc,        (* what the parser does next                                    *)
  offset,    (* its position in the payload, from 0                          *)
  ext_start, (* the extension block, as much of it as the payload has        *)
  ext_end,
  hello,     (* what it has parsed so far                                    *)
  reach      (* one more than the last offset it has read                    *)

parserVars == <<capture, pc, offset, ext_start, ext_end, hello, reach>>

payload == capture.payload
is_client == capture.handshake_type = 1

Larger(m, n) == IF m < n THEN n ELSE m
Smaller(m, n) == IF m < n THEN m ELSE n

(* The bytes of the payload, from offset 0. *)
Byte(i) == IF i < Len(payload) THEN payload[i + 1] ELSE 0
U16(i) == 256 * Byte(i) + Byte(i + 1)

(* The kernel captures six bytes at least, and no more than it has room    *)
(* for; a reassembled record may end anywhere, too.                        *)
MinPayload == 6

ParserInit ==
  /\ \E c \in Packets : \E n \in MinPayload .. Len(c.payload) :
       capture = [c EXCEPT !.payload = SubSeq(@, 1, n)]
  /\ offset = 0 /\ ext_start = 0 /\ ext_end = 0 /\ reach = 0
  /\ hello = [legacy_version |-> 0, cipher_suites |-> <<>>,
              extension_ids |-> <<>>, extensions |-> <<>>]

(* The parser goes on with step next at offset n, having read up to there. *)
GoTo(next, n) ==
  /\ pc' = next
  /\ offset' = n
  /\ reach' = Larger(reach, n)

(* Err(ParseError). *)
Fail == pc' = "err" /\ UNCHANGED <<offset, ext_start, ext_end, hello, reach>>

(***************************************************************************)
(* The fixed part of a hello                                               *)
(***************************************************************************)

ParseTlsPayload ==
  /\ pc = "record"
  /\ IF Len(payload) < HelloStart
     THEN Fail
     ELSE GoTo("header", HelloStart) /\ UNCHANGED <<ext_start, ext_end, hello>>
  /\ UNCHANGED capture

(* The legacy version, the random and the session id. *)
Header(next) ==
  LET id == HelloStart + 2 + RandomLen + 1
  IN  /\ pc = "header"
      /\ IF Len(payload) < id \/ Len(payload) < id + Byte(id - 1)
         THEN Fail
         ELSE /\ hello' = [hello EXCEPT !.legacy_version = U16(offset)]
              /\ GoTo(next, id + Byte(id - 1))
              /\ UNCHANGED <<ext_start, ext_end>>
      /\ UNCHANGED capture

ClientHeader == is_client /\ Header("cipher_suites")
ServerHeader == ~is_client /\ Header("cipher_suite")

(* Mutant: the length of the list is taken on trust. *)
ClientCipherSuites_Unchecked ==
  LET list == offset + 2
      len  == U16(offset)
  IN  /\ pc = "cipher_suites"
      /\ IF Len(payload) < list
         THEN Fail
         ELSE /\ hello' = [hello EXCEPT !.cipher_suites =
                             [k \in 1 .. len \div 2 |-> U16(list + 2 * (k - 1))]]
              /\ GoTo("compression", list + len)
              /\ UNCHANGED <<ext_start, ext_end>>
      /\ UNCHANGED capture

(* The cipher suites, two bytes each; an odd byte at the end is skipped. *)
ClientCipherSuites ==
  LET list == offset + 2
      len  == U16(offset)
  IN  /\ pc = "cipher_suites"
      /\ IF Len(payload) < list \/ Len(payload) < list + len
         THEN Fail
         ELSE /\ hello' = [hello EXCEPT !.cipher_suites =
                             [k \in 1 .. len \div 2 |-> U16(list + 2 * (k - 1))]]
              /\ GoTo("compression", list + len)
              /\ UNCHANGED <<ext_start, ext_end>>
      /\ UNCHANGED capture

ClientCompression ==
  /\ pc = "compression"
  /\ IF Len(payload) <= offset \/ Len(payload) < offset + 1 + Byte(offset)
     THEN Fail
     ELSE /\ GoTo("extensions", offset + 1 + Byte(offset))
          /\ UNCHANGED <<ext_start, ext_end, hello>>
  /\ UNCHANGED capture

(* The cipher suite the server chose and the compression method. *)
ServerCipherSuite ==
  /\ pc = "cipher_suite"
  /\ IF Len(payload) < offset + 3
     THEN Fail
     ELSE /\ hello' = [hello EXCEPT !.cipher_suites = <<U16(offset)>>]
          /\ GoTo("extensions", offset + 3)
          /\ UNCHANGED <<ext_start, ext_end>>
  /\ UNCHANGED capture

(***************************************************************************)
(* The extension block                                                     *)
(***************************************************************************)

(* A hello that ends before its extension block has no extensions; of a    *)
(* block that is cut, what is there is parsed.                             *)
ExtensionBlock(next) ==
  LET block     == offset + 2
      parse_len == Smaller(Len(payload) - block, U16(offset))
  IN  /\ pc = "extensions"
      /\ IF Len(payload) < block
         THEN pc' = "parsed" /\ UNCHANGED <<offset, ext_start, ext_end, reach>>
         ELSE /\ GoTo(IF parse_len > 0 THEN next ELSE "parsed", block)
              /\ ext_start' = block
              /\ ext_end' = block + parse_len
      /\ UNCHANGED <<capture, hello>>

ClientExtensions == is_client /\ ExtensionBlock("extension_ids")
ServerExtensions == ~is_client /\ ExtensionBlock("parse_extensions")

(* The loop over the raw extension ids of a ClientHello: of the last       *)
(* extension, only the header need be there.                               *)
ExtensionId ==
  /\ pc = "extension_ids"
  /\ IF offset + 4 <= ext_end
     THEN /\ hello' = [hello EXCEPT !.extension_ids = Append(@, U16(offset))]
          /\ offset' = offset + 4 + U16(offset + 2)
          /\ reach' = Larger(reach, offset + 4)
          /\ UNCHANGED pc
     ELSE /\ pc' = "parse_extensions"
          /\ offset' = ext_start
          /\ UNCHANGED <<hello, reach>>
  /\ UNCHANGED <<capture, ext_start, ext_end>>

Extension(type, from, to) ==
  [ext_type |-> type, data |-> SubSeq(payload, from + 1, to)]

(* Mutant: of an extension that is cut, what is there is kept. *)
ParseExtension_KeepsCut ==
  /\ pc = "parse_extensions"
  /\ IF offset + 4 <= ext_end
     THEN LET end == offset + 4 + U16(offset + 2)
          IN  /\ hello' = [hello EXCEPT !.extensions = Append(@,
                             Extension(U16(offset), offset + 4, Smaller(end, ext_end)))]
              /\ GoTo(pc, Smaller(end, ext_end))
     ELSE pc' = "parsed" /\ UNCHANGED <<hello, offset, reach>>
  /\ UNCHANGED <<capture, ext_start, ext_end>>

(* The loop of parse_extensions: it ends at the first extension whose data *)
(* is not all there.                                                       *)
ParseExtension ==
  LET end == offset + 4 + U16(offset + 2)
  IN  /\ pc = "parse_extensions"
      /\ IF offset + 4 <= ext_end /\ end <= ext_end
         THEN /\ hello' = [hello EXCEPT !.extensions =
                             Append(@, Extension(U16(offset), offset + 4, end))]
              /\ GoTo(pc, end)
         ELSE pc' = "parsed" /\ UNCHANGED <<hello, offset, reach>>
      /\ UNCHANGED <<capture, ext_start, ext_end>>

ParserNext ==
  \/ ParseTlsPayload
  \/ ClientHeader \/ ClientCipherSuites \/ ClientCompression \/ ClientExtensions
  \/ ServerHeader \/ ServerCipherSuite \/ ServerExtensions
  \/ ExtensionId
  \/ ParseExtension

(***************************************************************************)
(* The contents of an extension                                            *)
(***************************************************************************)

(* ExtensionType *)
ServerName == 0
SupportedGroups == 10
SignatureAlgorithms == 13
Alpn == 16
SessionTicket == 35
PreSharedKey == 41
EarlyData == 42
SupportedVersions == 43
PskKeyExchangeModes == 45
SignatureAlgorithmsCert == 50
KeyShare == 51

(* The two-byte values from offset hdr that start within the list's length *)
(* and end within the data.                                                *)
U16List(data, hdr, list_len) ==
  LET n == Cardinality({k \in 0 .. Len(data) :
                          hdr + 2 * k + 2 <= Len(data) /\ 2 * k < list_len})
  IN  [k \in 1 .. n |-> At16(data, hdr + 2 * (k - 1))]

FirstU16(data) == IF Len(data) < 2 THEN <<>> ELSE <<At16(data, 0)>>

extract_supported_versions(data, client) ==
  CASE ~client -> FirstU16(data)
    [] client /\ data = <<>> -> <<>>
    [] OTHER -> U16List(data, 1, data[1])

extract_supported_groups(data) ==
  IF Len(data) < 2 THEN <<>> ELSE U16List(data, 2, At16(data, 0))

extract_signature_algorithms(data) ==
  IF Len(data) < 2 THEN <<>> ELSE U16List(data, 2, At16(data, 0))

extract_signature_algorithms_cert(data) ==
  IF Len(data) < 2 THEN <<>> ELSE U16List(data, 2, At16(data, 0))

(* The group of each key share; its key is skipped. *)
extract_key_share_groups(data, client) ==
  LET shares[at \in Nat] ==
        IF at + 4 <= Len(data) /\ at < 2 + At16(data, 0)
        THEN <<At16(data, at)>> \o shares[at + 4 + At16(data, at + 2)]
        ELSE <<>>
  IN  CASE ~client -> FirstU16(data)
        [] client /\ Len(data) < 2 -> <<>>
        [] OTHER -> shares[2]

(* A host name; String::from_utf8 takes ASCII, the only text sent here. *)
extract_sni(data) ==
  IF /\ Len(data) >= 5 /\ data[3] = 0 /\ Len(data) >= 5 + At16(data, 3)
     /\ \A i \in 6 .. 5 + At16(data, 3) : data[i] < 128
  THEN SubSeq(data, 6, 5 + At16(data, 3))
  ELSE None

(* The protocol names, up to one that is cut. *)
extract_alpn(data) ==
  LET names[at \in Nat] ==
        IF /\ at < Len(data) /\ at < 2 + At16(data, 0)
           /\ at + 1 + data[at + 1] <= Len(data)
        THEN <<SubSeq(data, at + 2, at + 1 + data[at + 1])>>
               \o names[at + 1 + data[at + 1]]
        ELSE <<>>
  IN  IF Len(data) < 2 THEN <<>> ELSE names[2]

(* What the last extension of a type says, of the extensions exts. *)
Extract(exts, type, Op(_), default) ==
  LET found == {i \in DOMAIN exts : exts[i].ext_type = type}
  IN  IF found = {} THEN default ELSE Op(exts[Max(found)].data)

Present(exts, type) == \E i \in DOMAIN exts : exts[i].ext_type = type

First(s) == IF s = <<>> THEN None ELSE s[1]

ParsedClientHello ==
  LET e == hello.extensions
  IN  [legacy_version |-> hello.legacy_version,
       cipher_suites |-> hello.cipher_suites,
       extension_ids |-> hello.extension_ids,
       supported_versions |-> Extract(e, SupportedVersions,
           LAMBDA d : extract_supported_versions(d, TRUE), <<>>),
       supported_groups |-> Extract(e, SupportedGroups, extract_supported_groups, <<>>),
       signature_algorithms |->
         Extract(e, SignatureAlgorithms, extract_signature_algorithms, <<>>),
       signature_algorithms_cert |->
         Extract(e, SignatureAlgorithmsCert, extract_signature_algorithms_cert, <<>>),
       key_share_groups |-> Extract(e, KeyShare,
           LAMBDA d : extract_key_share_groups(d, TRUE), <<>>),
       sni |-> Extract(e, ServerName, extract_sni, None),
       alpn |-> Extract(e, Alpn, extract_alpn, <<>>),
       psk_offered |-> Present(e, PreSharedKey),
       early_data_offered |-> Present(e, EarlyData),
       psk_key_exchange_modes_offered |-> Present(e, PskKeyExchangeModes),
       session_ticket_offered |-> Present(e, SessionTicket)]

ParsedServerHello ==
  LET e == hello.extensions
  IN  [legacy_version |-> hello.legacy_version,
       cipher_suites |-> hello.cipher_suites,
       negotiated_version |-> Extract(e, SupportedVersions,
           LAMBDA d : First(extract_supported_versions(d, FALSE)), None),
       key_share_group |-> Extract(e, KeyShare,
           LAMBDA d : First(extract_key_share_groups(d, FALSE)), None),
       psk_selected |-> Extract(e, PreSharedKey, LAMBDA d : d # <<>>, FALSE)]

(* TlsAnalysis::effective_version: the first version of the extension,     *)
(* whatever it is.                                                         *)
effective_version ==
  LET v == IF is_client THEN First(ParsedClientHello.supported_versions)
           ELSE ParsedServerHello.negotiated_version
  IN  IF v = None THEN hello.legacy_version ELSE v

(***************************************************************************)
(* Properties                                                              *)
(***************************************************************************)

(* The parser reads no byte past the end of the payload, wherever that     *)
(* ends and whatever lengths are in it: a panic would end the worker task, *)
(* and with it the capture.                                                *)
InBounds == reach <= Len(payload) /\ ext_end <= Len(payload)

(* The extensions that were sent and end within the payload. *)
WholeExtensions(sent) ==
  {k \in DOMAIN sent.extensions : sent.ext_starts[k + 1] <= Len(payload)}

(* What those extensions say. *)
Said(sent, type, default) ==
  LET found == {i \in WholeExtensions(sent) : sent.extensions[i].ext_type = type}
  IN  IF found = {} THEN default ELSE Meaning(sent.extensions[Max(found)])

ClientSaid(sent) ==
  [legacy_version |-> sent.legacy_version, cipher_suites |-> sent.cipher_suites,
   extension_ids |-> [i \in DOMAIN sent.extensions |-> sent.extensions[i].ext_type],
   supported_versions |-> Said(sent, SupportedVersions, <<>>),
   supported_groups |-> Said(sent, SupportedGroups, <<>>),
   signature_algorithms |-> Said(sent, SignatureAlgorithms, <<>>),
   signature_algorithms_cert |-> Said(sent, SignatureAlgorithmsCert, <<>>),
   key_share_groups |-> Said(sent, KeyShare, <<>>),
   sni |-> Said(sent, ServerName, None),
   alpn |-> Said(sent, Alpn, <<>>),
   psk_offered |-> Said(sent, PreSharedKey, FALSE),
   early_data_offered |-> Said(sent, EarlyData, FALSE),
   psk_key_exchange_modes_offered |-> Said(sent, PskKeyExchangeModes, FALSE),
   session_ticket_offered |-> Said(sent, SessionTicket, FALSE)]

ServerSaid(sent) ==
  [legacy_version |-> sent.legacy_version, cipher_suites |-> sent.cipher_suites,
   negotiated_version |-> Said(sent, SupportedVersions, None),
   key_share_group |-> Said(sent, KeyShare, None),
   psk_selected |-> Said(sent, PreSharedKey, FALSE)]

(* A hello that is cut short is parsed exactly when its fixed part is      *)
(* there, and then every field is what the peer sent, whole, or, when its  *)
(* extension is not all there, absent: never part of a list or a value     *)
(* from somewhere else.  Only the raw ids, which JA4 is made of, may name  *)
(* one extension more than was parsed.                                     *)
CutHelloHonest ==
  (capture.sent # None /\ pc \in {"parsed", "err"}) =>
    LET sent == capture.sent
        ids  == hello.extension_ids
    IN  /\ pc = "parsed" <=> Len(payload) >= sent.fixed
        /\ (pc = "parsed" /\ is_client) =>
             LET said == ClientSaid(sent)
             IN  /\ ParsedClientHello = [said EXCEPT !.extension_ids = ids]
                 /\ ids = SubSeq(said.extension_ids, 1, Len(ids))
                 /\ Len(ids) - Len(hello.extensions) \in {0, 1}
        /\ (pc = "parsed" /\ ~is_client) => ParsedServerHello = ServerSaid(sent)

=============================================================================
