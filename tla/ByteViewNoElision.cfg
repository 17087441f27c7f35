CONSTANT ElideMoves <- MCNotElided
SPECIFICATION Spec
INVARIANT ViewsLiveAtCall
