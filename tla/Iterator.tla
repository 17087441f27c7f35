------------------------------ MODULE Iterator ------------------------------
(***************************************************************************)
(* One iterator handle of the JNI bridge, from iteratorNew on: the         *)
(* positioning entry points (iteratorSeekToFirst, iteratorSeekToLast,      *)
(* iteratorSeekA/B, iteratorNext, iteratorPrev), each followed by          *)
(* CHECK_STATUS on it->status() and putLens, and the accessors iteratorKey *)
(* and iteratorValue guarded by CHECK_IT_VALID.                            *)
(*                                                                         *)
(* The iterator reads the snapshot it was created on: data, a map from the *)
(* keys present to the byte sizes of the key and of the value, fixed for   *)
(* its lifetime.  An engine error is sticky (LevelDB's iterators keep the  *)
(* first error status) and may leave the cursor anywhere: the two-level    *)
(* iterator skips a block it cannot read.                                  *)
(*                                                                         *)
(* The caller is the one spec section 4.6 describes: it reads the          *)
(* validity of the cursor from the lens array the last positioning call    *)
(* filled in, steps with next/prev only when that says Valid, and may      *)
(* catch a LevelDBException and go on using the iterator.                  *)
(***************************************************************************)
EXTENDS Integers, FiniteSets

CONSTANTS
    Keys,      \* the keys that may be present, ordered as integers
    Sizes,     \* the byte sizes keys and values may have (size_t)
    JintMax,   \* the largest jint, 2^31 - 1
    MayFail,   \* whether the engine may report an iterator error
    NoKey      \* the position of an Invalid cursor

ASSUME KeysAssumption == IsFiniteSet(Keys) /\ Keys \subseteq Int
ASSUME SizesAssumption == Sizes \subseteq Nat
ASSUME JintMaxAssumption == JintMax \in Nat
ASSUME MayFailAssumption == MayFail \in BOOLEAN
ASSUME NoKeyAssumption == NoKey \notin Keys

VARIABLES
    data,   \* the snapshot the iterator reads: key |-> <<key size, value size>>
    cur,    \* the entry the cursor is at, or NoKey when it is not Valid()
    st,     \* it->status(): "ok" or "error"
    lens,   \* the jint[2] lens array the caller passes to positioning calls
    exc,    \* the exception the last call threw: "none", "engine", "cursor"
    called  \* the entry point of the last call

vars == <<data, cur, st, lens, exc, called>>

Positions == DOMAIN data \cup {NoKey}

(* The conversion (int) of a size_t to a jint: modulo 2 * (JintMax + 1),  *)
(* the upper half wrapping to negative values.                             *)
ToJint(n) == LET m == n % (2 * (JintMax + 1))
             IN IF m <= JintMax THEN m ELSE m - 2 * (JintMax + 1)

Jints == -(JintMax + 1) .. JintMax

(* Variant of LensOf writing the key size into both slots.                *)
LensOfKeyKey(c) ==
    IF c = NoKey THEN <<-1, -1>>
    ELSE <<ToJint(data[c][1]), ToJint(data[c][1])>>

(* putLens: Valid() is read once, then the key and value sizes, cast to   *)
(* int, or -1 and -1, are written into the critical region of lens.       *)
LensOf(c) ==
    IF c = NoKey THEN <<-1, -1>>
    ELSE <<ToJint(data[c][1]), ToJint(data[c][2])>>

(* The entries the engine positions at, when it does not fail: the least *)
(* or greatest entry of a set of keys, or Invalid when there is none.      *)
Least(S) == IF S = {} THEN {NoKey} ELSE {x \in S : \A y \in S : x <= y}
Greatest(S) == IF S = {} THEN {NoKey} ELSE {x \in S : \A y \in S : x >= y}

First == Least(DOMAIN data)
Last == Greatest(DOMAIN data)
AtLeast(k) == Least({x \in DOMAIN data : x >= k})
After(k) == Least({x \in DOMAIN data : x > k})
Before(k) == Greatest({x \in DOMAIN data : x < k})

Statuses == IF MayFail THEN {"ok", "error"} ELSE {"ok"}

-----------------------------------------------------------------------------

(* The caller's lens array before the first positioning call reads as      *)
(* Invalid.                                                                *)
Init ==
    /\ data \in UNION {[K -> Sizes \X Sizes] : K \in SUBSET Keys}
    /\ cur = NoKey
    /\ st = "ok"
    /\ lens = <<-1, -1>>
    /\ exc = "none"
    /\ called = "none"

(* Variant of Position calling putLens before moving the cursor.          *)
PositionLensFirst(call, targets) ==
    /\ \E s \in Statuses : st' = IF st = "error" THEN "error" ELSE s
    /\ cur' \in IF st' = "ok" THEN targets ELSE Positions
    /\ lens' = IF st' = "ok" THEN LensOf(cur) ELSE lens
    /\ exc' = IF st' = "ok" THEN "none" ELSE "engine"
    /\ called' = call
    /\ UNCHANGED data

(* A positioning entry point: the engine moves the cursor to one of the   *)
(* targets, unless its status is (or becomes) an error; then CHECK_STATUS  *)
(* throws and returns before putLens, otherwise putLens fills in lens.     *)
Position(call, targets) ==
    /\ \E s \in Statuses : st' = IF st = "error" THEN "error" ELSE s
    /\ cur' \in IF st' = "ok" THEN targets ELSE Positions
    /\ lens' = IF st' = "ok" THEN LensOf(cur') ELSE lens
    /\ exc' = IF st' = "ok" THEN "none" ELSE "engine"
    /\ called' = call
    /\ UNCHANGED data

SeekToFirst == Position("seekToFirst", First)
SeekToLast == Position("seekToLast", Last)
Seek(k) == Position("seek", AtLeast(k))

(* iteratorNext/iteratorPrev call it->Next()/it->Prev() unchecked; the     *)
(* caller steps when the lens says Valid.  On an Invalid cursor LevelDB's  *)
(* precondition is broken and the outcome is any position.                 *)
Step(call, targets) ==
    /\ lens[1] >= 0
    /\ Position(call, IF cur = NoKey THEN Positions ELSE targets)

IteratorNext == Step("next", After(cur))
IteratorPrev == Step("prev", Before(cur))

(* iteratorKey/iteratorValue: CHECK_IT_VALID throws "Cursor is not valid"  *)
(* on an Invalid cursor, otherwise a direct buffer on the entry is made.   *)
(* The status is not checked.                                              *)
Accessor(call) ==
    /\ exc' = IF cur = NoKey THEN "cursor" ELSE "none"
    /\ called' = call
    /\ UNCHANGED <<data, cur, st, lens>>

Next ==
    \/ SeekToFirst
    \/ SeekToLast
    \/ \E k \in Keys : Seek(k)
    \/ IteratorNext
    \/ IteratorPrev
    \/ Accessor("key")
    \/ Accessor("value")

Spec == Init /\ [][Next]_vars

-----------------------------------------------------------------------------

TypeOK ==
    /\ \E K \in SUBSET Keys : data \in [K -> Sizes \X Sizes]
    /\ cur \in Positions
    /\ st \in {"ok", "error"}
    /\ lens \in Jints \X Jints
    /\ exc \in {"none", "engine", "cursor"}

(* The sizes the entry at c really has, or -1 and -1 for Invalid.          *)
TrueLens(c) == IF c = NoKey THEN <<-1, -1>> ELSE data[c]

(* Spec 4.6: the lens array reports the byte lengths of the current key    *)
(* and value, or -1/-1 when the cursor is Invalid; the caller sizes its    *)
(* transfers from it.  putLens's (int) cast and CHECK_STATUS's early       *)
(* return are what could make it lie.                                      *)
LensCurrent == lens = TrueLens(cur)

(* The lens is stale only once the iterator has failed: CHECK_STATUS's     *)
(* early return skips putLens exactly when it->status() is an error, and   *)
(* the status stays an error, so while the engine reports ok every         *)
(* seek/next/prev, after any sequence of calls, has left the lens array    *)
(* describing the cursor.  A putLens run on the wrong position, or         *)
(* skipped on a successful call, breaks it.                                *)
LensCurrentWhileOk == st = "ok" => LensCurrent

(* Spec 4.6: Next and Prev are only valid from Valid.  iteratorNext/Prev   *)
(* do not check it->Valid(); the caller's only guide is the lens array.    *)
StepTaken == called' \in {"next", "prev"}
NoStepOnInvalid == [][StepTaken => cur # NoKey]_vars

=============================================================================
