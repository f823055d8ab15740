SPECIFICATION Spec
CONSTANTS
  Ninodes = 3
  NDIRECT = 1
  BSIZE = 2
  IPB = 4
  Size = 10
  BPB = 11
  Files = {f1, f2}
  Programs <- MCPrograms
  Sources <- MCSources
  Counts = {2, 7}
INVARIANTS BitmapExact ReadsBack  SavedWhenUnlocked
SYMMETRY Symmetry
