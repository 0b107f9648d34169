SPECIFICATION FairSpec
CONSTANTS
  HostSets = {{}, {2}}
  KeepTail = 2
  MaxInputs = 2
  MaxReplies = 2
  MaxCalls = 2
  MaxRetries = 1
  MaxDue = 1
  MaxIncidents = 2
INVARIANTS
  TypeOK
  RequestsAreFaithful
  TranscriptIsKept
  InputsAreKept
PROPERTIES
  AbortEnds
CHECK_DEADLOCK FALSE
