CONSTANTS
  Handlers = {h1}
  MaxId = 4
SPECIFICATION Spec
PROPERTIES DuplicateBlockIsNoOp
