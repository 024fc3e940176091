CONSTANTS
  Programs <- MCSyntaxError
SPECIFICATION Spec
INVARIANTS ErrorsAreReported
