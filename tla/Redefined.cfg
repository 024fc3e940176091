CONSTANTS
  Programs <- MCRedefined
SPECIFICATION Spec
INVARIANTS IndicesAreRight
