CONSTANTS
  Jars = {pinned, other1, other2}
  Pinned = pinned
SPECIFICATION Spec
INVARIANTS IInv BuildIsPatched OldCopiesAreFound
