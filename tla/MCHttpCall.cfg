\* Two calls, two services that exchange addresses; handlers return.
SPECIFICATION FairHandlersSpec
CONSTANTS
  None = None
  c1 = c1
  c2 = c2
  upload = upload
  download = download
  files = files
  media = media
  f1 = f1
  m1 = m1
  a1 = a1
  a2 = a2
  Calls = {c1, c2}
  Methods = {upload, download}
  ServiceOf <- MCServiceOf
  RequestStreams = {upload}
  ResponseStreams = {download}
  Replicas = {f1, m1}
  RunsService <- MCRunsService
  Addresses = {a1}
  MayReturn <- PlainReturns
INVARIANT
  RightService
PROPERTY
  PromiseSpec
