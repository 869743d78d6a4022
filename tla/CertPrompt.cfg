SPECIFICATION PromptSpec
CONSTANTS
  d1 = d1
  d2 = d2
  None = None
  Unknown = Unknown
  Digests <- BothDigests
  Scripts <- MCScripts
  LastRun = 1
  Worlds <- MCWorlds
  Requests <- MCRequests
  MaxChanges = 1
INVARIANTS
  TypeOK
  PromptIsFounded
  
  SessionTypeOK
  
  OnlySeatIsPrompted
  DialogReadsRequest
  AskedOnceAndHeard
  DialogIsFounded
PROPERTIES
  PromptReturns
CHECK_DEADLOCK FALSE
