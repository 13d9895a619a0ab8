\* Three items of any mix: packed in two kinds of bucket, chunked, streamed.
\* The bodies have room for a torn chunk and its retry.
CONSTANTS
  p1 = p1
  p2 = p2
  p3 = p3
  Paths = {p1, p2, p3}
  OtherKeys = {}
  MetaNames = {}
  Mimes <- HtmlAndText
  MimeCap = 3
  Sizes = {0, 1, 3}
  Target = 2
  Threshold = 2
  ChunkSizes = {1, 2}
  MaxBody = 4
CONSTRAINT Started
SYMMETRY PathSymmetry
SPECIFICATION Spec
INVARIANTS
  ReadBack
  ClustersExact
  ScratchFilesOwned
  BodiesExact
  CounterExact
