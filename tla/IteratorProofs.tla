--------------------------- MODULE IteratorProofs ---------------------------
(***************************************************************************)
(* Proofs about Iterator, for every snapshot and every width of jint,    *)
(* with engine errors allowed, when every key and value size fits in a    *)
(* jint: while it->status() is ok the lens array describes the cursor.    *)
(* The run iterator_size_cast shows that the size hypothesis cannot be    *)
(* dropped; iterator_stale_lens shows what the caller meets after an      *)
(* error, when the lens is no longer current.                             *)
(***************************************************************************)
EXTENDS Iterator, TLAPS

(* Every size of a key or a value is a jint.                               *)
Fits == \A n \in Sizes : n <= JintMax

(* data is a snapshot: a map from some of the keys to two sizes.          *)
DataOK == \E K \in SUBSET Keys : data \in [K -> Sizes \X Sizes]

(* The inductive invariant behind LensCurrentWhileOk: the status is one   *)
(* of the two the engine reports, and the cursor a position of the         *)
(* snapshot, so that a later successful call writes a lens of its sizes.   *)
IInv ==
    /\ DataOK
    /\ cur \in Positions
    /\ st \in {"ok", "error"}
    /\ LensCurrentWhileOk

-----------------------------------------------------------------------------

(* The (int) cast keeps a size that fits.                                  *)
LEMMA JintKeeps ==
    ASSUME NEW n \in Nat, n <= JintMax
    PROVE  ToJint(n) = n
<1>1. n % (2 * (JintMax + 1)) = n
    BY JintMaxAssumption
<1>2. QED
    BY <1>1 DEF ToJint

(* putLens writes the true sizes of any position, when the sizes fit.      *)
LEMMA LensOfTrue ==
    ASSUME Fits, DataOK, NEW c \in Positions
    PROVE  LensOf(c) = TrueLens(c)
<1>1. CASE c = NoKey
    BY <1>1 DEF LensOf, TrueLens
<1>2. CASE c # NoKey
    <2>1. data[c] \in Sizes \X Sizes
        BY <1>2 DEF DataOK, Positions
    <2>2. data[c][1] \in Nat /\ data[c][1] <= JintMax
          /\ data[c][2] \in Nat /\ data[c][2] <= JintMax
        BY <2>1, SizesAssumption DEF Fits
    <2>3. ToJint(data[c][1]) = data[c][1] /\ ToJint(data[c][2]) = data[c][2]
        BY <2>2, JintKeeps
    <2>4. data[c] = <<data[c][1], data[c][2]>>
        BY <2>1
    <2>5. QED
        BY <1>2, <2>3, <2>4 DEF LensOf, TrueLens
<1>3. QED
    BY <1>1, <1>2

(* Every target the engine positions at is a position of the snapshot.     *)
LEMMA TargetsArePositions ==
    ASSUME NEW k
    PROVE  /\ First \subseteq Positions
           /\ Last \subseteq Positions
           /\ AtLeast(k) \subseteq Positions
           /\ After(k) \subseteq Positions
           /\ Before(k) \subseteq Positions
BY DEF First, Last, AtLeast, After, Before, Least, Greatest, Positions

(* A positioning call keeps the invariant: on success it writes the lens  *)
(* of the new position; on an error the invariant no longer speaks of it.  *)
LEMMA PositionKeeps ==
    ASSUME Fits, IInv, NEW call, NEW T \in SUBSET Positions,
           Position(call, T)
    PROVE  IInv'
<1>1. st' \in {"ok", "error"} /\ data' = data
    BY MayFailAssumption DEF Position, Statuses, IInv
<1>2. DataOK' /\ Positions' = Positions
    BY <1>1 DEF DataOK, Positions, IInv
<1>3. cur' \in Positions
    BY <1>1, <1>2 DEF Position
<1>4. CASE st' = "ok"
    <2>1. cur' \in T /\ lens' = LensOf(cur')
        BY <1>4 DEF Position
    <2>2. LensOf(cur') = TrueLens(cur')
        BY <1>3, LensOfTrue DEF IInv
    <2>3. TrueLens(cur)' = TrueLens(cur')
        BY <1>1 DEF TrueLens
    <2>4. QED
        BY <1>1, <1>2, <1>3, <2>1, <2>2, <2>3
           DEF IInv, LensCurrentWhileOk, LensCurrent
<1>5. CASE st' = "error"
    BY <1>1, <1>2, <1>3, <1>5 DEF IInv, LensCurrentWhileOk
<1>6. QED
    BY <1>1, <1>4, <1>5

LEMMA InitIInv == Init => IInv
<1> SUFFICES ASSUME Init PROVE IInv
    OBVIOUS
<1>1. DataOK
    BY DEF Init, DataOK
<1>2. QED
    BY <1>1 DEF Init, IInv, Positions, LensCurrentWhileOk, LensCurrent,
                TrueLens

LEMMA NextIInv ==
    ASSUME Fits
    PROVE  IInv /\ [Next]_vars => IInv'
<1> SUFFICES ASSUME IInv, [Next]_vars PROVE IInv'
    OBVIOUS
<1>1. Positions \in SUBSET Positions
    OBVIOUS
<1>2. CASE SeekToFirst
    BY <1>2, TargetsArePositions, PositionKeeps DEF SeekToFirst
<1>3. CASE SeekToLast
    BY <1>3, TargetsArePositions, PositionKeeps DEF SeekToLast
<1>4. CASE \E k \in Keys : Seek(k)
    BY <1>4, TargetsArePositions, PositionKeeps DEF Seek
<1>5. CASE IteratorNext
    <2>1. (IF cur = NoKey THEN Positions ELSE After(cur)) \in SUBSET Positions
        BY <1>1, TargetsArePositions
    <2>2. QED
        BY <1>5, <2>1, PositionKeeps DEF IteratorNext, Step
<1>6. CASE IteratorPrev
    <2>1. (IF cur = NoKey THEN Positions ELSE Before(cur)) \in SUBSET Positions
        BY <1>1, TargetsArePositions
    <2>2. QED
        BY <1>6, <2>1, PositionKeeps DEF IteratorPrev, Step
<1>7. CASE Accessor("key") \/ Accessor("value")
    BY <1>7 DEF Accessor, IInv, DataOK, Positions, LensCurrentWhileOk,
                LensCurrent, TrueLens
<1>8. CASE UNCHANGED vars
    BY <1>8 DEF vars, IInv, DataOK, Positions, LensCurrentWhileOk,
                LensCurrent, TrueLens
<1>9. QED
    BY <1>2, <1>3, <1>4, <1>5, <1>6, <1>7, <1>8 DEF Next

LEMMA SpecIInv ==
    ASSUME Fits
    PROVE  Spec => []IInv
BY InitIInv, NextIInv, PTL DEF Spec

(* LensCurrentWhileOk for every snapshot and jint width, with engine      *)
(* errors allowed: as long as it->status() is ok, every seek/next/prev has *)
(* left the lens array describing the cursor, -1/-1 exactly when it is     *)
(* Invalid.  The lens goes stale only through CHECK_STATUS's early return  *)
(* on an error (run iterator_stale_lens), or through the (int) cast of a   *)
(* size that does not fit (run iterator_size_cast).                        *)
THEOREM LensCurrentUntilError ==
    ASSUME Fits
    PROVE  Spec => []LensCurrentWhileOk
BY SpecIInv, PTL DEF IInv

=============================================================================
