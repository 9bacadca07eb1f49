CONSTANTS
  Decls <- Structs
  Givens <- Tomls
  Cloneable <- CloneTypes
  Seeds <- Known
  MapKeys <- TwoKeys
  MapVals <- TwoVals
SPECIFICATION NfSpec
INVARIANTS NfTypeOK LayoutsMatch Coherent RefusedForOrder
CHECK_DEADLOCK FALSE
