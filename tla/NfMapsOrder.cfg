CONSTANTS
  Decls <- Structs
  Givens <- Tomls
  Cloneable <- CloneTypes
  Seeds <- Known
  MapKeys <- TwoKeys
  MapVals <- TwoVals
SPECIFICATION NfSpec
INVARIANTS WellDeclaredBuilds
CHECK_DEADLOCK FALSE
