SPECIFICATION FairSpec
CONSTANTS
  i1 = i1
  i2 = i2
  full = full
  indexed = indexed
  http2 = http2
  ngap = ngap
  doc = doc
  index = index
  raw = raw
  messages = messages
  packets = packets
  Invocation = {i1, i2}
  Option = {full, indexed}
  Protocol = {http2, ngap}
  StreamProtocol = {http2}
  Artifact = {doc, index, messages, packets}
  Owner <- MCOwner
  Document = {doc}
  StreamIndex = {index}
  Raw = {packets}
  Requested <- MCRequested
  IndexOption = {indexed}
  Faults = {"panic", "raw_sink", "publish", "truncate", "crash", "slow_exit"}
  NoFile = NoFile
  NoManifest = NoManifest
INVARIANTS
  TypeOK
  ManifestBacked
  AbortLeavesNothing
  StatusHonest
PROPERTIES
  GenerationImmutable
  ImplementsGeneration
  WrapperReturns
CHECK_DEADLOCK FALSE
