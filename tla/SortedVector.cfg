\* Vectors of up to five elements: every path of the binary search.
SPECIFICATION VectorSpec
CONSTANTS
  Elems = {e1, e2, e3, e4, e5}
  MaxKey = 3
SYMMETRY ElemSymmetry
INVARIANTS StaysSorted TouchedIsLastOfItsKey
PROPERTIES OthersKeepTheirOrder
CHECK_DEADLOCK FALSE
