CONSTANT NoKey = NoKey
CONSTANT Keys <- MCKeys
CONSTANT Sizes <- MCBigSizes
CONSTANT JintMax <- MCJintMax
CONSTANT MayFail = FALSE
SPECIFICATION Spec
INVARIANT LensCurrent
