CONSTANTS
  Handler = {h1, h2, h3}
  None = None
  MaxAsked = 3
  MaxFaults = 0
SPECIFICATION Spec
SYMMETRY HandlerSymmetry
INVARIANTS FencedByInteraction
CHECK_DEADLOCK FALSE
