SPECIFICATION Spec
CONSTANTS
  k1 = k1
  k2 = k2
  upf = upf
  HttpDocument <- MCHttp
  NgapRecord <- MCNgap
  PfcpRecord <- MCPfcp
  Registered <- MCRegistered
  NrfApis = {}
  UdrApis = {"nudr-dr"}
  DependencyApis = {"nnrf-nfm", "nnrf-disc", "nudr-dr"}
  Configs <- MCConfigs
  MaxRecords = 2
  None = None
  Words <- MCWords
  Triggers = {"REGISTRATION_REQUEST"}
  Terminals = {"REGISTRATION_ACCEPT", "REGISTRATION_REJECT"}
  Stage <- MCStage
  Reasons = {"success_terminal", "response_timeout"}
  Sights <- MCSights
  MaxForeign = 1
  SuccessCauses = {"normal"}
  PfcpSuccess = {"accepted"}
  PfcpFailure = {"rejected"}
  Limits = {2, 9}
  ModeCap = 3
  MaxRuns = 1
  RerunRecords = 2
INVARIANTS
  NgapFailuresReported
CHECK_DEADLOCK FALSE
