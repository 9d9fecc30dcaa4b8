\* Three slots, up to four rows at once, two readers that also take rows away.
CONSTANTS
  Size = 3
  a = a
  b = b
  Readers <- TwoReaders
  Counts = {2, 4}
  Reads <- AllCalls
  Callbacks <- Latest
  MaxRows = 4
SYMMETRY ReaderSymmetry
SPECIFICATION Spec
INVARIANTS CallbacksReadExactly OnlyUnwrittenAreStale EveryRowIsWritten
PROPERTIES ImplementsFifo
