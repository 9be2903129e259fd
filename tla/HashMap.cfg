SPECIFICATION MapSpec

\* Three rows, of which the keys use one; see MCHashMap for the keys.
CONSTANTS
  Keys <- PlainKeys
  Values = {1, 2}
  MaxValues = 2
  Rows = 3
  HashSize = 16777216
  IntSize = 1048576

INVARIANT MapTypeOK
PROPERTY ImplementsTable
PROPERTY SmallKeysAreRemoved
