SPECIFICATION FairSpec
CONSTANTS
  Procs = {p1, p2}
  Chars = {"x", "nl", "eof"}
  INPUT_BUF = 3
  UMod = 6
  Sizes = {0, 2}
INVARIANT ReaderNotMissed
PROPERTIES ImplementsLineBuffer 
