\* All chains over eleven certificates and all policies, at every clock; every
\* document of the instance, cut at every length; attestations and assertions of
\* two devices, judged for any caller.
SPECIFICATION VerifiersSpec
CONSTANTS
  Roots <- MCRoots
  Inputs <- MCInputs
  TagModulus <- MCTagModulus
  TagNumbers <- MCTagNumbers
  Words <- MCWords
  StatusDocs <- MCStatusDocs
  Lists <- MCLists
  Descriptions <- MCDescriptions
  ApplicationIds <- MCApplicationIds
  Chains <- MCChains
  AuthDatas <- MCAuthDatas
  Objects <- MCObjects
  AssertionMaps <- MCAssertionMaps
  k1 = k1
  k2 = k2
  x = x
  app1 = app1
  app2 = app2
  c1 = c1
  c2 = c2
  DeviceKeys <- MCDeviceKeys
  AppOf <- MCAppOf
  AaguidOf <- MCAaguidOf
  OtherKeys <- MCOtherKeys
  Apps <- MCApps
  Challenges <- MCChallenges
  Root <- MCRoot
  CaCerts <- MCCaCerts
  IssuerKey <- MCIssuerKey
  LeafValidity <- MCLeafValidity
  MaxClock = 1
  MaxSignCount = 1
  MaxLeaves = 2
  MaxSigned = 2
  MaxCalls = 2
INVARIANTS
  AcceptedIsCertified
  AcceptedMeetsPolicy
  StatusListWhole
  AuthorizationListWhole
  KeyDescriptionWhole
  ApplicationIdWhole
  ChainCommitted
  AuthDataWhole
  LastEntryDecides
  ClientAgrees
  AttestationGenuine
  AssertionFollowsAttestation
PROPERTY GenuineChainTrusted
CHECK_DEADLOCK FALSE
