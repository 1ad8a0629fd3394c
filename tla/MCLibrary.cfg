SPECIFICATION Spec
CONSTANTS
  Wild = Wild
  Thrown = Thrown
  NullData = NullData
  Bytes <- MCBytes
  Found <- MCFound
INVARIANTS MapIsInclusion IdsIdentify ReceivedAsSent ReductionIsOfAll ElementsAreInPlace AcceptsWhatSchemaSays ConfigurationIsSelected DocsAreTheirs
