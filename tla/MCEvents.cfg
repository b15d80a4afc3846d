SPECIFICATION Spec
CONSTANTS
  Packets <- AllPackets
  Certificates <- DerCertificates
  Meaning <- WireMeaning
  RandomLen = 1
  None = None
CHECK_DEADLOCK FALSE
INVARIANTS InBounds CutHelloHonest Ja4Stable FlightWalked
