SPECIFICATION Spec
CONSTANTS
  Cities <- MCCities
  XmlName <- MCXmlName
  MaxDepth = 2
  MaxXlinkDepth = 2
  ContentOfClass <- MCContentOfClass
INVARIANTS
  RoundTrips
  RefersWithin
  WrittenOnce
  HeldForReason
CHECK_DEADLOCK FALSE
