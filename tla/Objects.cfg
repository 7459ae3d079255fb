\* A program of any objects, and one that fills a bucket and a builder.
CONSTANTS
  Programs <- WithinCapacity
  PageWords = 47
SPECIFICATION Spec
INVARIANT TypeOK
INVARIANT FreshWordsAreZero
PROPERTY ImplementsObjectStore
PROPERTY OperationsTakeEffect
PROPERTY DictsRemember
CHECK_DEADLOCK FALSE
