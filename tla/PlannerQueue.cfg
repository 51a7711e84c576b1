CONSTANTS
  Size = 4
  Cleared = Cleared
  nullptr = nullptr
  Blocks = {b1, b2}
SPECIFICATION Spec
INVARIANTS TailUntouched
PROPERTY IsFifo
