CONSTANTS
  Empty = ""
  Words <- MCWords
  HttpUrls <- MCHttpUrls
  CameraIds <- MCCameraIds
  IntegerOf <- MCIntegerOf
  Characters <- MCCharacters
  AuthorityOf <- MCAuthorityOf
  Environments <- MCEnvironments
  CommandLines <- MCCommandLines
SPECIFICATION Spec
INVARIANTS
  TypeOK
  ParsedAsDocumented
  ExitTellsWhy
  EndpointIsConfigured
CHECK_DEADLOCK FALSE
