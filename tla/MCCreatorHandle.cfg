\* More types than the MIME list holds.
CONSTANTS
  Paths <- OnePath
  OtherKeys <- Reserved
  MetaNames <- Title
  Mimes <- ThreeMimes
  MimeCap = 2
  Sizes = {2}
  Target = 2
  Threshold = 2
  ChunkSizes = {1}
  MaxBody = 1
SPECIFICATION HandleSpec
INVARIANTS
  ToldExact
  DuplicatesRefusedEarly
  AbortsForetold
