SPECIFICATION FairSpec
CONSTANTS
  Datagrams <- MCDatagrams
  Unit = 2
  MaxDatagrams = 3
  NONE = NONE
  ASTRAY = ASTRAY
  Header = 3
  JUNK = JUNK
INVARIANTS
  ChainSound
  SentIsWritten
  Replies
PROPERTY
  QueryAnswered
