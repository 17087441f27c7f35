CONSTANT NoKey = NoKey
CONSTANT Keys <- MCKeys
CONSTANT Sizes <- MCSmallSizes
CONSTANT JintMax <- MCJintMax
CONSTANT MayFail = TRUE
SPECIFICATION Spec
PROPERTY NoStepOnInvalid
