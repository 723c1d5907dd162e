\* A receipt for one binding presented for an action on another.
CONSTANTS
  apple = apple
  android = android
  Attestations <- MCAttestations
  Keys <- MCKeys
  KeyScheme <- MCKeyScheme
  KeyForm <- MCKeyForm
  Accounts = {alice, bob}
  Domains <- MCDomains
  ActionHashes <- MCActionHashes
  Expiries <- MCExpiries
  IdBytes <- MCIdBytes
  U64Max = 1
  MaxWitnesses = 2
  MaxBindings = 2
  MaxApprovals = 2
SPECIFICATION Spec
INVARIANT ReceiptsStayWithBinding
CHECK_DEADLOCK FALSE
