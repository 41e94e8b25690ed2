SPECIFICATION Spec
CONSTANTS
  i1 = i1
  i2 = i2
  full = full
  indexed = indexed
  http2 = http2
  ngap = ngap
  doc = doc
  index = index
  raw = raw
  messages = messages
  packets = packets
  Invocation = {i1, i2}
  Option = {full}
  Protocol = {http2, ngap}
  StreamProtocol = {http2}
  Artifact = {doc, index, raw, messages}
  Owner <- MCOwner
  Document = {doc}
  StreamIndex = {index}
  Raw = {raw}
  Requested <- MCRequested
  IndexOption = {}
  Faults = {"wrapper_death"}
  NoFile = NoFile
  NoManifest = NoManifest
INVARIANTS
  ManifestBacked
CHECK_DEADLOCK FALSE
