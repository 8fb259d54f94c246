\* Every text of up to six characters, and of up to five with two different tokens or
\* with broken characters, cut in every way.
SPECIFICATION FairSpec
CONSTANTS
  Texts <- MCTexts
  MaxLength = 6
  MaxShort = 5
CHECK_DEADLOCK FALSE
INVARIANTS
  YieldsInOrder
  ChunksDoNotMatter
PROPERTIES
  ParseEnds
