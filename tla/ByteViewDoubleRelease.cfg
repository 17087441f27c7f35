CONSTANT ElideMoves <- MCNotElided
SPECIFICATION Spec
INVARIANT ViewsReleasedOnce
