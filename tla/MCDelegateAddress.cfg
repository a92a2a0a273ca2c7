SPECIFICATION Spec
CONSTANTS
  Call = {c1, c2, c3}
  NoAddress = NoAddress
  HD = TRUE
  MaxWallets = 2
  MaxKeys = 3
SYMMETRY Symmetry
INVARIANTS TypeOK OneAddressPerRun AnchoredOverStarts
