\* Every directory of four entries, and chains of up to three redirects.
CONSTANTS
  N = 4
  MaxRedirects = 2
CONSTRAINT PageLast
SPECIFICATION ArchiveSpec
INVARIANTS
  WalkExact
  ListingExact
  SoundExact
  FollowExact
  Agreement
PROPERTY
  Answered
