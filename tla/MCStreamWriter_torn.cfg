\* One streamed item: a chunk of it is torn and fed again.
CONSTANTS
  Paths <- OnePath
  OtherKeys = {}
  MetaNames = {}
  Mimes <- Html
  MimeCap = 3
  Sizes = {2}
  Target = 2
  Threshold = 2
  ChunkSizes = {2}
  MaxBody = 3
SPECIFICATION Spec
INVARIANTS
  SizesExact
