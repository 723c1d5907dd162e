\* Attestation and DeviceBinding together: provenance of a credential.
CONSTANTS
  apple = apple
  android = android
  c1 = c1
  d1 = d1
  Bytes <- MCBytes
  Images <- MCImages
  Pinnable <- MCPinnable
  Evidence <- MCEvidence
  AnyFields <- MCAnyFields
  MAX_OUTCOME_AGE_MS = 1
  MAX_CLOCK_SKEW_MS = 1
  U64Max = 2
  Drift = 1
  MaxDocs = 1
  MaxWitnesses = 2
  Keys <- MCKeys
  KeyScheme <- MCKeyScheme
  KeyForm <- MCKeyForm
  Accounts = {alice}
  Domains <- MCDomains
  ActionHashes <- MCActionHashes
  Expiries <- MCExpiries
  IdBytes <- MCIdBytes
  MaxBindings = 2
  MaxApprovals = 1
SPECIFICATION Spec
INVARIANT BindingProvenance
PROPERTY ImplementsCredential
CHECK_DEADLOCK FALSE
