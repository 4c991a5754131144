SPECIFICATION Spec
CONSTANTS
  Capacity = 4
  Item = {a, b, c, d}
  Zero = zero
PROPERTY
  RemoveKeepsOthers
