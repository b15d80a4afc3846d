SPECIFICATION Spec
CONSTANTS
  Packets <- CertificatePackets
  Certificates <- DerCertificates
  Meaning <- WireMeaning
  RandomLen = 1
  None = None
CHECK_DEADLOCK FALSE
INVARIANTS LeafReported
