SPECIFICATION PipelineSpec
CONSTANTS
  Requests = {r1}
  Calls = {r1}
  NoInput = NoInput
  MaxPayload = 2
  MaxChunk = 2
  LogSecrets = {"password", "token"}
  ResponseSecrets = {"password", "token", "pin"}
  MaxSanitizeDepth = 4
  MaxContextDepth = 3
  Inputs <- MCInputs
  Deployments <- MCDeployments
  Failures <- MCFailures
  Notes <- MCNotes
  Renamed <- MCRenamed
  Harmful <- MCHarmful
INVARIANTS
  AnsweredAsDone
  LogTellsOutcome
  DataIsClean
  RetriesAreJustified
  SuccessIsWhole
PROPERTY
  RequestsEnd
\* An answered request is the end of it.
CHECK_DEADLOCK FALSE
