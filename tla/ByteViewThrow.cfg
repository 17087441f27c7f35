CONSTANT ElideMoves <- MCElided
SPECIFICATION Spec
PROPERTY NoThrowInCritical
