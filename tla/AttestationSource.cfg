\* A Witness of one source from a document of another endpoint.
CONSTANTS
  k1 = k1
  k2 = k2
  c1 = c1
  d1 = d1
  d2 = d2
  Bytes <- MCBytes
  Images <- MCImages
  Pinnable <- MCPinnable
  Evidence <- MCAppleEvidence
  AnyFields <- MCAnyFields
  MAX_OUTCOME_AGE_MS = 2
  MAX_CLOCK_SKEW_MS = 1
  U64Max = 5
  Drift = 2
  MaxDocs = 2
  MaxWitnesses = 2
SPECIFICATION Spec
INVARIANT NotTransferable
