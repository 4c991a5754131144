SPECIFICATION Spec
CONSTANTS
  Item = {a, b}
  Zero = zero
  Putter = {raft, main, tick}
  Popper = {main, raft}
  MaxRaces = 3
INVARIANTS
  TypeOK
  DriftBounded
