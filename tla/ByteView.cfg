CONSTANT ElideMoves <- MCElided
SPECIFICATION Spec
INVARIANT TypeOK
INVARIANT ViewsLiveAtCall
INVARIANT ViewsReleasedOnce
PROPERTY NoLookupInCritical
