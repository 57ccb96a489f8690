CONSTANTS
  LLONG_MIN <- MCMin
  LLONG_MAX <- MCMax
  MaxRules = 3
  MaxHeight = 12
  Atom <- MCAtom
  Hand <- MCHand
  Rules <- MCRules
SPECIFICATION Spec
INVARIANT TypeOK
PROPERTIES
  NoLiteralInside
  ImplementsAlgebra
