------------------------------- MODULE Store -------------------------------
(***************************************************************************)
(* The write and read paths of the bridge over one open database: put,     *)
(* delete and write (J_LevelDBJNI_Put, J_LevelDBJNI_Delete, write), the    *)
(* write batch entry points (writeBatchPut*, writeBatchDelete*,            *)
(* writeBatchClear, writeBatchAppend), get at the latest state or at a     *)
(* snapshot (LevelDBJNI_Get with _readOptions), snapshotNew and            *)
(* snapshotRelease.                                                        *)
(*                                                                         *)
(* A leveldb::WriteBatch is the ordered sequence of its records; the       *)
(* engine's Write inserts them in order with increasing sequence numbers,  *)
(* so the last record of a key wins, and a failed Write inserts none.  A   *)
(* snapshot fixes the sequence number, i.e. the database at that moment.   *)
(* The byte views of keys and values are ByteView's business; here a key   *)
(* and a value are model values.                                           *)
(***************************************************************************)
EXTENDS Naturals, Sequences, TLC

CONSTANTS
    Keys,     \* the keys
    Vals,     \* the values
    Batches,  \* the write batch handles
    Snaps,    \* the snapshot handles
    Absent,   \* a key with no value; the record of a delete
    NoOp,     \* used by the abstract specification only
    MaxOps    \* the most records a batch is allowed to grow to

ASSUME SentinelAssumption == Absent \notin Vals /\ NoOp \notin Vals \cup {Absent}
ASSUME MaxOpsAssumption == MaxOps \in Nat

VARIABLES
    db,       \* key |-> value or Absent
    ops,      \* batch |-> its records <<[key, val]>>, val Absent for a delete
    snaps,    \* live snapshot handle |-> the database at its sequence number
    got,      \* the value the last get returned (Absent for the sentinel 0)
    exc,      \* the last call threw a LevelDBException
    last      \* the last call with its arguments

vars == <<db, ops, snaps, got, exc, last>>

Records == [key : Keys, val : Vals \cup {Absent}]

(* The batch has a record of key k.                                        *)
Writes(o, k) == \E i \in 1 .. Len(o) : o[i].key = k

(* The position of the last record of key k in the batch.                 *)
LastRec(o, k) ==
    CHOOSE i \in 1 .. Len(o) : o[i].key = k /\ \A j \in i + 1 .. Len(o) : o[j].key # k

(* Variant of Apply in which the first record of a key wins.               *)
ApplyFirstWins(d, o) ==
    [k \in Keys |-> IF Writes(o, k)
                    THEN o[CHOOSE i \in 1 .. Len(o) :
                              o[i].key = k /\ \A j \in 1 .. i - 1 : o[j].key # k].val
                    ELSE d[k]]

(* WriteBatch::Iterate with MemTableInserter: the records are inserted in  *)
(* order under increasing sequence numbers, and a read sees a key's entry  *)
(* of the highest one; what the write leaves is the database with each     *)
(* key the batch names set to the value of its last record.               *)
Apply(d, o) ==
    [k \in Keys |-> IF Writes(o, k) THEN o[LastRec(o, k)].val ELSE d[k]]

Init ==
    /\ db = [k \in Keys |-> Absent]
    /\ ops = [b \in Batches |-> <<>>]
    /\ snaps = <<>>
    /\ got = Absent
    /\ exc = FALSE
    /\ last = <<>>

(* CHECK_STATUS on a failed engine call: nothing changed, an exception.    *)
Fails == exc' = TRUE /\ UNCHANGED <<db, ops, snaps, got>>

Succeeds == exc' = FALSE

(* put*: DB::Put, a batch of one record. *)
Put(k, v) ==
    /\ last' = <<"put", k, v>>
    /\ \/ Succeeds /\ db' = [db EXCEPT ![k] = v] /\ UNCHANGED <<ops, snaps, got>>
       \/ Fails

(* delete*: DB::Delete. *)
Delete(k) ==
    /\ last' = <<"delete", k>>
    /\ \/ Succeeds /\ db' = [db EXCEPT ![k] = Absent] /\ UNCHANGED <<ops, snaps, got>>
       \/ Fails

(* write: DB::Write of the batch, applied as a whole or not at all. *)
Write(b) ==
    /\ last' = <<"write", b>>
    /\ \/ Succeeds /\ db' = Apply(db, ops[b]) /\ UNCHANGED <<ops, snaps, got>>
       \/ Fails

(* writeBatchPut* and writeBatchDelete*: batch->Put / batch->Delete add a  *)
(* record; they cannot fail.                                               *)
WbRecord(b, k, x) ==
    /\ Len(ops[b]) < MaxOps
    /\ last' = <<"batchSet", b, k, x>>
    /\ Succeeds
    /\ ops' = [ops EXCEPT ![b] = Append(@, [key |-> k, val |-> x])]
    /\ UNCHANGED <<db, snaps, got>>

(* writeBatchClear: batch->Clear(). *)
WbClear(b) ==
    /\ last' = <<"clear", b>>
    /\ Succeeds
    /\ ops' = [ops EXCEPT ![b] = <<>>]
    /\ UNCHANGED <<db, snaps, got>>

(* writeBatchAppend: batch->Append( *source) copies source's records after *)
(* batch's.  source may be batch itself: the count is doubled and the      *)
(* records copied after themselves.                                        *)
WbAppend(b, s) ==
    /\ Len(ops[b]) + Len(ops[s]) <= MaxOps
    /\ last' = <<"append", b, s>>
    /\ Succeeds
    /\ ops' = [ops EXCEPT ![b] = ops[b] \o ops[s]]
    /\ UNCHANGED <<db, snaps, got>>

(* getA/getB: DB::Get with the snapshot of _readOptions (0: latest);       *)
(* not-found returns 0, an error throws.  The caller passes 0 or a live    *)
(* snapshot of this database.                                              *)
Get(k, s) ==
    /\ s = 0 \/ s \in DOMAIN snaps
    /\ last' = <<"get", k, s>>
    /\ \/ Succeeds /\ got' = (IF s = 0 THEN db ELSE snaps[s])[k]
          /\ UNCHANGED <<db, ops, snaps>>
       \/ Fails

(* snapshotNew: DB::GetSnapshot. *)
SnapshotNew(s) ==
    /\ s \notin DOMAIN snaps
    /\ last' = <<"snapshotNew", s>>
    /\ Succeeds
    /\ snaps' = (s :> db) @@ snaps
    /\ UNCHANGED <<db, ops, got>>

(* snapshotRelease: DB::ReleaseSnapshot. *)
SnapshotRelease(s) ==
    /\ s \in DOMAIN snaps
    /\ last' = <<"snapshotRelease", s>>
    /\ Succeeds
    /\ snaps' = [x \in DOMAIN snaps \ {s} |-> snaps[x]]
    /\ UNCHANGED <<db, ops, got>>

Next ==
    \/ \E k \in Keys, v \in Vals : Put(k, v)
    \/ \E k \in Keys : Delete(k)
    \/ \E b \in Batches : Write(b) \/ WbClear(b)
    \/ \E b \in Batches, k \in Keys, x \in Vals \cup {Absent} : WbRecord(b, k, x)
    \/ \E b, s \in Batches : WbAppend(b, s)
    \/ \E k \in Keys, s \in Snaps \cup {0} : Get(k, s)
    \/ \E s \in Snaps : SnapshotNew(s) \/ SnapshotRelease(s)

Spec == Init /\ [][Next]_vars

-----------------------------------------------------------------------------

(* The net effect of a batch's records on each key: the last record of it. *)
Effect(o) ==
    [k \in Keys |-> IF Writes(o, k) THEN o[LastRec(o, k)].val ELSE NoOp]

KV == INSTANCE KVSpec WITH pending <- [b \in Batches |-> Effect(ops[b])]

(* Spec 4.5 and 4.7: applying the ordered records of a batch is the        *)
(* atomic application of its net effect (put k v1; delete k; put k v2      *)
(* leaves v2); append merges the source's effect over the batch's and      *)
(* leaves the source unchanged, also when it is the batch itself; a        *)
(* snapshot read sees the state the snapshot fixed.                        *)
Refinement == KV!Spec

=============================================================================
