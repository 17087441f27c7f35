------------------------------- MODULE KVSpec -------------------------------
(***************************************************************************)
(* What the store behind the bridge promises (spec sections 4.4, 4.5 and   *)
(* 4.7): put and delete change one key; a write batch is the net effect    *)
(* it will have on each key, applied by write all at once; append merges   *)
(* another batch's effect over this one's and leaves the other unchanged;  *)
(* a snapshot is the state of the database when it was taken, and a read  *)
(* at a snapshot sees that state.  Any engine call may fail with an error, *)
(* which changes nothing.                                                  *)
(***************************************************************************)
EXTENDS Naturals, TLC

CONSTANTS
    Keys,     \* the keys
    Vals,     \* the values
    Batches,  \* the write batch handles
    Snaps,    \* the snapshot handles
    Absent,   \* a key with no value (get returns the sentinel 0)
    NoOp      \* a batch leaves the key alone

(* Absent and NoOp are neither values nor each other; Store, which         *)
(* instantiates this module, assumes it as SentinelAssumption.             *)

VARIABLES
    db,       \* key |-> value or Absent
    pending,  \* batch |-> (key |-> value, Absent or NoOp): its net effect
    snaps,    \* live snapshot handle |-> the database it fixed
    got,      \* the result of the last get
    exc,      \* the last call threw a LevelDBException
    last      \* the last call with its arguments

vars == <<db, pending, snaps, got, exc, last>>

DbStates == [Keys -> Vals \cup {Absent}]
Effects == [Keys -> Vals \cup {Absent, NoOp}]
Empty == [k \in Keys |-> NoOp]

(* e2 laid over e1: a key e2 leaves alone keeps e1's effect.               *)
Over(e1, e2) == [k \in Keys |-> IF e2[k] = NoOp THEN e1[k] ELSE e2[k]]

Init ==
    /\ db = [k \in Keys |-> Absent]
    /\ pending = [b \in Batches |-> Empty]
    /\ snaps = <<>>
    /\ got = Absent
    /\ exc = FALSE
    /\ last = <<>>

(* A failed engine call: nothing changes, an exception is thrown.         *)
Fails == exc' = TRUE /\ UNCHANGED <<db, pending, snaps, got>>

(* A call that succeeds, or fails when it reaches the engine.             *)
Succeeds == exc' = FALSE

Put(k, v) ==
    /\ last' = <<"put", k, v>>
    /\ \/ Succeeds /\ db' = [db EXCEPT ![k] = v] /\ UNCHANGED <<pending, snaps, got>>
       \/ Fails

Delete(k) ==
    /\ last' = <<"delete", k>>
    /\ \/ Succeeds /\ db' = [db EXCEPT ![k] = Absent] /\ UNCHANGED <<pending, snaps, got>>
       \/ Fails

(* The batch's net effect is applied as a whole, or nothing of it.         *)
Write(b) ==
    /\ last' = <<"write", b>>
    /\ \/ Succeeds /\ db' = Over(db, pending[b]) /\ UNCHANGED <<pending, snaps, got>>
       \/ Fails

BatchSet(b, k, x) ==
    /\ last' = <<"batchSet", b, k, x>>
    /\ Succeeds
    /\ pending' = [pending EXCEPT ![b][k] = x]
    /\ UNCHANGED <<db, snaps, got>>

Clear(b) ==
    /\ last' = <<"clear", b>>
    /\ Succeeds
    /\ pending' = [pending EXCEPT ![b] = Empty]
    /\ UNCHANGED <<db, snaps, got>>

(* The source's effect laid over the batch's; the source is unchanged.     *)
Append(b, s) ==
    /\ last' = <<"append", b, s>>
    /\ Succeeds
    /\ pending' = [pending EXCEPT ![b] = Over(pending[b], pending[s])]
    /\ UNCHANGED <<db, snaps, got>>

(* A read at snapshot s, 0 for the latest state.                           *)
Get(k, s) ==
    /\ s = 0 \/ s \in DOMAIN snaps
    /\ last' = <<"get", k, s>>
    /\ \/ Succeeds /\ got' = (IF s = 0 THEN db ELSE snaps[s])[k]
          /\ UNCHANGED <<db, pending, snaps>>
       \/ Fails

SnapshotNew(s) ==
    /\ s \notin DOMAIN snaps
    /\ last' = <<"snapshotNew", s>>
    /\ Succeeds
    /\ snaps' = (s :> db) @@ snaps
    /\ UNCHANGED <<db, pending, got>>

SnapshotRelease(s) ==
    /\ s \in DOMAIN snaps
    /\ last' = <<"snapshotRelease", s>>
    /\ Succeeds
    /\ snaps' = [x \in DOMAIN snaps \ {s} |-> snaps[x]]
    /\ UNCHANGED <<db, pending, got>>

Next ==
    \/ \E k \in Keys, v \in Vals : Put(k, v)
    \/ \E k \in Keys : Delete(k)
    \/ \E b \in Batches : Write(b) \/ Clear(b)
    \/ \E b \in Batches, k \in Keys, x \in Vals \cup {Absent} : BatchSet(b, k, x)
    \/ \E b, s \in Batches : Append(b, s)
    \/ \E k \in Keys, s \in Snaps \cup {0} : Get(k, s)
    \/ \E s \in Snaps : SnapshotNew(s) \/ SnapshotRelease(s)

Spec == Init /\ [][Next]_vars

=============================================================================
