------------------------------ MODULE MCEvents ------------------------------
(* Packets for the model checker: what TLS peers send, and the same with   *)
(* any byte replaced.                                                      *)
EXTENDS Events

Bytes16(n) == <<n \div 256, n % 256>>
Bytes24(n) == <<0>> \o Bytes16(n)
Flat16(s) == FlattenSeq([i \in DOMAIN s |-> Bytes16(s[i])])

Record(type, version, body) == <<type>> \o Bytes16(version) \o Bytes16(Len(body)) \o body
Handshake(type, body) == <<type>> \o Bytes24(Len(body)) \o body

(* An extension and what it says. *)
Ext(type, data, value) == <<[ext_type |-> type, data |-> data], value>>

ClientVocabulary == <<
  Ext(SupportedVersions, <<6, 10, 10, 3, 4, 3, 3>>, <<2570, 772, 771>>),
  Ext(6682, <<>>, <<>>),
  Ext(ServerName, <<0, 5, 0, 0, 2, 104, 105>>, <<104, 105>>),
  Ext(Alpn, <<0, 7, 2, 104, 50, 3, 102, 111, 111>>, <<<<104, 50>>, <<102, 111, 111>>>>),
  Ext(SupportedGroups, <<0, 4, 10, 10, 0, 29>>, <<2570, 29>>),
  Ext(KeyShare, <<0, 12, 10, 10, 0, 1, 9, 0, 29, 0, 3, 7, 7, 7>>, <<2570, 29>>),
  Ext(SignatureAlgorithms, <<0, 4, 4, 3, 8, 4>>, <<1027, 2052>>),
  Ext(SignatureAlgorithmsCert, <<0, 2, 9, 5>>, <<2309>>),
  Ext(SessionTicket, <<>>, TRUE),
  Ext(EarlyData, <<>>, TRUE),
  Ext(PskKeyExchangeModes, <<1, 1>>, TRUE),
  Ext(PreSharedKey, <<0, 0>>, TRUE)>>

ServerVocabulary == <<
  Ext(SupportedVersions, <<3, 4>>, 772),
  Ext(KeyShare, <<0, 29, 0, 1, 9>>, 29),
  Ext(PreSharedKey, <<0, 0>>, TRUE)>>

Vocabulary == ClientVocabulary \o ServerVocabulary
WireMeaning(e) == LET i == CHOOSE i \in DOMAIN Vocabulary : Vocabulary[i][1] = e
                  IN  Vocabulary[i][2]

ClientMenu == [i \in DOMAIN ClientVocabulary |-> ClientVocabulary[i][1]]
ServerMenu == [i \in DOMAIN ServerVocabulary |-> ServerVocabulary[i][1]]

(* Sequences of at most two extensions, and all of them both ways round. *)
ExtensionLists(menu) ==
  {<<>>, menu, Reverse(menu)}
    \cup {<<menu[i]>> : i \in DOMAIN menu}
    \cup {<<menu[i], menu[j]>> : i \in DOMAIN menu, j \in DOMAIN menu}
Distinct(exts) == \A i, j \in DOMAIN exts : i # j => exts[i] # exts[j]

ExtensionBytes(exts) ==
  LET all == FlattenSeq([i \in DOMAIN exts |->
               Bytes16(exts[i].ext_type) \o Bytes16(Len(exts[i].data)) \o exts[i].data])
  IN  Bytes16(Len(all)) \o all

(* A hello: the legacy version, one byte of random, a session id, then     *)
(* what tells the two kinds apart.                                         *)
HelloRecord(type, version, id, middle, exts) ==
  Record(22, 771, Handshake(type, Bytes16(version) \o <<5>> \o <<Len(id)>> \o id
                                    \o middle \o ExtensionBytes(exts)))

(* Where the parts of these lengths start, the first at from, and end. *)
Starts(from, lengths) ==
  [k \in 1 .. Len(lengths) + 1 |-> from + MapThenSumSet(LAMBDA i : lengths[i], 1 .. k - 1)]

Sent(ciphers, id, middle, exts, bytes, flight) ==
  LET fixed == 13 + Len(id) + Len(middle)
  IN  [legacy_version |-> 771, cipher_suites |-> ciphers, extensions |-> exts,
       fixed |-> fixed, flight |-> flight,
       ext_starts |-> Starts(fixed + 2, [i \in DOMAIN exts |-> 4 + Len(exts[i].data)]),
       starts |-> Starts(Len(bytes), [i \in DOMAIN flight |-> 5 + Len(flight[i].body)])]

Capture(type, bytes, sent, leaf) ==
  [content_type |-> 22, handshake_type |-> type, payload |-> bytes,
   sent |-> sent, leaf |-> leaf]

Damaged(c) ==
  {[c EXCEPT !.payload[i] = b, !.sent = None] : i \in DOMAIN c.payload, b \in {0, 255}}

ClientCapture(ciphers, id, exts) ==
  LET middle == Bytes16(2 * Len(ciphers)) \o Flat16(ciphers) \o <<1, 0>>
      bytes  == HelloRecord(1, 771, id, middle, exts)
  IN  Capture(1, bytes, Sent(ciphers, id, middle, exts, bytes, <<>>), None)

ServerCapture(exts, flight) ==
  LET middle == Bytes16(49199) \o <<0>>
      bytes  == HelloRecord(2, 771, <<>>, middle, exts)
      rest   == FlattenSeq([i \in DOMAIN flight |->
                  Record(flight[i].content_type, 771, flight[i].body)])
  IN  Capture(2, bytes \o rest,
              Sent(<<49199>>, <<>>, middle, exts, bytes, flight), None)

(* A leaf certificate and its issuer's. *)
Leaf == <<48, 1, 7>>
Issuer == <<48, 1, 8>>
DerCertificates == {Leaf, Issuer}

CertificateBody ==
  LET list == FlattenSeq(<<Bytes24(3), Leaf, Bytes24(3), Issuer>>)
  IN  Handshake(11, Bytes24(Len(list)) \o list)

FlightRecord(type, body, leaf) == [content_type |-> type, body |-> body, leaf |-> leaf]
Cert == FlightRecord(22, CertificateBody, Leaf)
CertRequest == FlightRecord(22, Handshake(13, <<1, 1>>), None)
KeyExchange == FlightRecord(22, Handshake(12, <<4, 4>>), None)
HelloDone == FlightRecord(22, Handshake(14, <<>>), None)
Empty == FlightRecord(22, <<>>, None)
Other == FlightRecord(21, <<2, 40>>, None)

Flights ==
  {<<Cert, KeyExchange, CertRequest, HelloDone>>,
   <<Empty, KeyExchange, Cert, HelloDone, CertRequest>>,
   <<KeyExchange, HelloDone, KeyExchange, HelloDone, Cert, CertRequest>>,
   <<CertRequest, Other, Cert>>,
   <<Cert, Cert, CertRequest, Cert, CertRequest>>}

ClientHellos ==
  {ClientCapture(ciphers, id, exts) :
     ciphers \in {<<4865>>, <<2570, 4866, 4865>>}, id \in {<<>>, <<6>>},
     exts \in {e \in ExtensionLists(ClientMenu) : Distinct(e)}}
ServerHellos ==
  {ServerCapture(exts, <<>>) : exts \in {e \in ExtensionLists(ServerMenu) : Distinct(e)}}
ServerFlights == {ServerCapture(<<>>, flight) : flight \in Flights}

CertificatePackets == {Capture(11, Record(22, 771, CertificateBody), None, Leaf)}

Alert == [content_type |-> 21, handshake_type |-> 0,
          payload |-> Record(21, 771, <<2, 70>>), sent |-> None, leaf |-> None]

AllPackets ==
  UNION {ClientHellos, ServerHellos, ServerFlights, CertificatePackets, {Alert},
         Damaged(ServerCapture(ServerMenu, <<CertRequest, Cert>>)),
         Damaged(ClientCapture(<<2570, 4865>>, <<6>>, SubSeq(ClientMenu, 1, 3)))}

=============================================================================
