CONSTANTS a1 = a1  a2 = a2  a3 = a3  a4 = a4  a5 = a5
CONSTANT Addr <- MCAddr
CONSTANT Bits <- MCBits
SYMMETRY MCSymmetry
SPECIFICATION Spec
INVARIANT RefsLive
