\* Up to six pending requests (which keys they are does not matter) for
\* up to eight slices, and the degenerate numbers of slices.
CONSTANTS
    k1 = k1  k2 = k2  k3 = k3  k4 = k4  k5 = k5  k6 = k6
    Key = {k1, k2, k3, k4, k5, k6}
    Desired <- SmallDesired
SPECIFICATION Spec
SYMMETRY KeySymmetry
INVARIANTS IndexInBounds ResultIsSplit
CHECK_DEADLOCK FALSE
