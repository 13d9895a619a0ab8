\* A start_writing that fails once.
CONSTANTS
  Paths <- OnePath
  OtherKeys = {}
  MetaNames = {}
  Mimes <- Html
  MimeCap = 3
  Sizes = {1}
  Target = 2
  Threshold = 2
  ChunkSizes = {}
  MaxBody = 0
SPECIFICATION Spec
INVARIANTS
  StartKeepsWork
