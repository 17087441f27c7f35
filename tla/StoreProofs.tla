----------------------------- MODULE StoreProofs -----------------------------
(***************************************************************************)
(* Proofs about Store for every set of keys, values, batches and          *)
(* snapshots: the database and the batches keep their types, and the       *)
(* record-sequence model implements the abstract store KVSpec under the    *)
(* mapping of each batch to its net effect (Refinement).                   *)
(*                                                                         *)
(* The argument rests on three facts about a batch's records: a key the    *)
(* batch writes has a last record, found as the least element of           *)
(* {Len(o) - i} by the well-foundedness of < on Nat; appending a record    *)
(* sets that key's effect; concatenating two batches lays the second's     *)
(* effect over the first's.                                                *)
(***************************************************************************)
EXTENDS Store, WellFoundedInduction, SequenceTheorems, TLAPS

DbStates == [Keys -> Vals \cup {Absent}]

TypeOK ==
    /\ db \in DbStates
    /\ ops \in [Batches -> Seq(Records)]

(* The abstract batches: each batch's net effect.                          *)
Pending == [b \in Batches |-> Effect(ops[b])]

-----------------------------------------------------------------------------
(* Lemmas about the last record of a key.                                  *)

(* A key the batch writes has a last record, and LastRec finds it.         *)
LEMMA LastRecFacts ==
    ASSUME NEW o \in Seq(Records), NEW k, Writes(o, k)
    PROVE  /\ LastRec(o, k) \in 1 .. Len(o)
           /\ o[LastRec(o, k)].key = k
           /\ \A j \in LastRec(o, k) + 1 .. Len(o) : o[j].key # k
<1> DEFINE T == {Len(o) - i : i \in {i \in 1 .. Len(o) : o[i].key = k}}
           Lt == OpToRel(<, Nat)
<1>1. T \subseteq Nat /\ T # {}
    BY DEF Writes
<1>2. \E m \in T : \A y \in T : ~(<<y, m>> \in Lt)
    BY <1>1, NatLessThanWellFounded, WFMin
<1>3. PICK m \in T : \A y \in T : ~(<<y, m>> \in Lt)
    BY <1>2
<1>4. PICK i \in 1 .. Len(o) : o[i].key = k /\ m = Len(o) - i
    BY <1>3
<1>5. \A j \in i + 1 .. Len(o) : o[j].key # k
    <2> SUFFICES ASSUME NEW j \in i + 1 .. Len(o), o[j].key = k
                 PROVE  FALSE
        OBVIOUS
    <2>1. Len(o) - j \in T
        BY <1>4
    <2>2. <<Len(o) - j, m>> \in Lt
        BY <1>4 DEF OpToRel
    <2>3. QED
        BY <1>3, <2>1, <2>2
<1>6. QED
    BY <1>4, <1>5 DEF LastRec

(* Only the last record of a key has no later record of it.                *)
LEMMA LastRecUnique ==
    ASSUME NEW o \in Seq(Records), NEW k, NEW i \in 1 .. Len(o), o[i].key = k,
           \A j \in i + 1 .. Len(o) : o[j].key # k
    PROVE  Writes(o, k) /\ LastRec(o, k) = i
<1>1. Writes(o, k)
    BY DEF Writes
<1>2. /\ LastRec(o, k) \in 1 .. Len(o)
      /\ o[LastRec(o, k)].key = k
      /\ \A j \in LastRec(o, k) + 1 .. Len(o) : o[j].key # k
    BY <1>1, LastRecFacts
<1>3. QED
    BY <1>1, <1>2

(* The value of a record of the batch is a value or Absent, never NoOp.    *)
LEMMA EffectNoOp ==
    ASSUME NEW o \in Seq(Records), NEW k \in Keys
    PROVE  /\ Effect(o)[k] \in Vals \cup {Absent, NoOp}
           /\ Effect(o)[k] = NoOp <=> ~Writes(o, k)
<1>1. CASE Writes(o, k)
    <2>1. o[LastRec(o, k)] \in Records
        BY <1>1, LastRecFacts
    <2>2. QED
        BY <1>1, <2>1, SentinelAssumption DEF Effect, Records
<1>2. CASE ~Writes(o, k)
    BY <1>2 DEF Effect
<1>3. QED
    BY <1>1, <1>2

-----------------------------------------------------------------------------
(* Lemmas about the net effect of a batch.                                 *)

(* An empty batch leaves every key alone.                                  *)
LEMMA EffectEmpty == Effect(<<>>) = KV!Empty
BY DEF Effect, Writes, KV!Empty

(* Write applies the batch's net effect to the database.                   *)
LEMMA ApplyEffect ==
    ASSUME NEW d \in DbStates, NEW o \in Seq(Records)
    PROVE  Apply(d, o) = KV!Over(d, Effect(o))
<1> SUFFICES ASSUME NEW k \in Keys
             PROVE  Apply(d, o)[k] = KV!Over(d, Effect(o))[k]
    BY DEF Apply, KV!Over
<1>1. Effect(o)[k] = NoOp <=> ~Writes(o, k)
    BY EffectNoOp
<1>2. QED
    BY <1>1 DEF Apply, KV!Over, Effect

(* Adding a record sets the effect on its key to its value.                *)
LEMMA EffectAppend ==
    ASSUME NEW o \in Seq(Records), NEW r \in Records
    PROVE  Effect(Append(o, r)) = [Effect(o) EXCEPT ![r.key] = r.val]
<1> DEFINE o2 == Append(o, r)
           n == Len(o) + 1
<1>1. /\ o2 \in Seq(Records)
      /\ Len(o2) = n
      /\ o2[n] = r
      /\ \A i \in 1 .. Len(o) : o2[i] = o[i]
    BY AppendProperties
<1>2. r.key \in Keys
    BY DEF Records
<1>3. Writes(o2, r.key) /\ LastRec(o2, r.key) = n
    <2>1. /\ n \in 1 .. Len(o2)
          /\ o2[n].key = r.key
          /\ \A j \in n + 1 .. Len(o2) : o2[j].key # r.key
        BY <1>1, LenProperties
    <2>2. QED
        BY <1>1, <2>1, LastRecUnique
<1>4. ASSUME NEW k \in Keys, k # r.key
      PROVE  Effect(o2)[k] = Effect(o)[k]
    <2>1. Writes(o2, k) <=> Writes(o, k)
        BY <1>1, <1>4 DEF Writes
    <2>2. CASE Writes(o, k)
        <3> DEFINE l == LastRec(o, k)
        <3>1. l \in 1 .. Len(o) /\ o[l].key = k
              /\ \A j \in l + 1 .. Len(o) : o[j].key # k
            BY <2>2, LastRecFacts
        <3>2. l \in 1 .. Len(o2) /\ o2[l].key = k
              /\ \A j \in l + 1 .. Len(o2) : o2[j].key # k
            BY <1>1, <1>4, <3>1
        <3>3. LastRec(o2, k) = l
            BY <1>1, <3>2, LastRecUnique
        <3>4. QED
            BY <1>1, <2>1, <2>2, <3>1, <3>3 DEF Effect
    <2>3. CASE ~Writes(o, k)
        BY <2>1, <2>3 DEF Effect
    <2>4. QED
        BY <2>2, <2>3
<1>5. \A k \in Keys : Effect(o2)[k] = [Effect(o) EXCEPT ![r.key] = r.val][k]
    <2> SUFFICES ASSUME NEW k \in Keys
                 PROVE  Effect(o2)[k] = [Effect(o) EXCEPT ![r.key] = r.val][k]
        OBVIOUS
    <2>1. CASE k = r.key
        BY <1>1, <1>3, <2>1 DEF Effect
    <2>2. CASE k # r.key
        BY <1>4, <2>2 DEF Effect
    <2>3. QED
        BY <2>1, <2>2
<1>6. QED
    BY <1>5 DEF Effect

(* Appending a batch lays its effect over the effect of the first.         *)
LEMMA EffectConcat ==
    ASSUME NEW o1 \in Seq(Records), NEW o2 \in Seq(Records)
    PROVE  Effect(o1 \o o2) = KV!Over(Effect(o1), Effect(o2))
<1> DEFINE c == o1 \o o2
           n1 == Len(o1)
<1>1. /\ c \in Seq(Records)
      /\ Len(c) = n1 + Len(o2)
      /\ \A i \in 1 .. n1 : c[i] = o1[i]
      /\ \A i \in 1 .. Len(o2) : c[n1 + i] = o2[i]
      /\ n1 \in Nat /\ Len(o2) \in Nat
    BY ConcatProperties, LenProperties
<1> SUFFICES ASSUME NEW k \in Keys
             PROVE  Effect(c)[k] = KV!Over(Effect(o1), Effect(o2))[k]
    BY DEF Effect, KV!Over
<1>2. Effect(o2)[k] = NoOp <=> ~Writes(o2, k)
    BY EffectNoOp
<1>3. CASE Writes(o2, k)
    <2> DEFINE l == LastRec(o2, k)
    <2>1. l \in 1 .. Len(o2) /\ o2[l].key = k
          /\ \A j \in l + 1 .. Len(o2) : o2[j].key # k
        BY <1>3, LastRecFacts
    <2>2. /\ n1 + l \in 1 .. Len(c)
          /\ c[n1 + l] = o2[l]
          /\ \A j \in n1 + l + 1 .. Len(c) : c[j].key # k
        <3>1. \A j \in n1 + l + 1 .. Len(c) : j - n1 \in l + 1 .. Len(o2) /\ j = n1 + (j - n1)
            BY <1>1, <2>1
        <3>2. QED
            BY <1>1, <2>1, <3>1
    <2>3. Writes(c, k) /\ LastRec(c, k) = n1 + l
        BY <1>1, <2>1, <2>2, LastRecUnique
    <2>4. QED
        BY <1>2, <1>3, <2>2, <2>3 DEF Effect, KV!Over
<1>4. CASE ~Writes(o2, k) /\ Writes(o1, k)
    <2> DEFINE l == LastRec(o1, k)
    <2>1. l \in 1 .. n1 /\ o1[l].key = k
          /\ \A j \in l + 1 .. n1 : o1[j].key # k
        BY <1>4, LastRecFacts
    <2>2. \A j \in n1 + 1 .. Len(c) : c[j].key # k
        <3> SUFFICES ASSUME NEW j \in n1 + 1 .. Len(c) PROVE c[j].key # k
            OBVIOUS
        <3>1. j - n1 \in 1 .. Len(o2) /\ c[j] = o2[j - n1]
            BY <1>1
        <3>2. QED
            BY <1>4, <3>1 DEF Writes
    <2>3. /\ l \in 1 .. Len(c)
          /\ c[l] = o1[l]
          /\ \A j \in l + 1 .. Len(c) : c[j].key # k
        BY <1>1, <2>1, <2>2
    <2>4. Writes(c, k) /\ LastRec(c, k) = l
        BY <1>1, <2>1, <2>3, LastRecUnique
    <2>5. QED
        BY <1>2, <1>4, <2>3, <2>4 DEF Effect, KV!Over
<1>5. CASE ~Writes(o2, k) /\ ~Writes(o1, k)
    <2>1. ~Writes(c, k)
        <3> SUFFICES ASSUME NEW i \in 1 .. Len(c), c[i].key = k PROVE FALSE
            BY DEF Writes
        <3>1. CASE i <= n1
            BY <1>1, <1>5, <3>1 DEF Writes
        <3>2. CASE i > n1
            <4>1. i - n1 \in 1 .. Len(o2) /\ c[i] = o2[i - n1]
                BY <1>1, <3>2
            <4>2. QED
                BY <1>5, <4>1 DEF Writes
        <3>3. QED
            BY <3>1, <3>2, <1>1
    <2>2. QED
        BY <1>2, <1>5, <2>1 DEF Effect, KV!Over
<1>6. QED
    BY <1>3, <1>4, <1>5

-----------------------------------------------------------------------------
(* Types.                                                                  *)

LEMMA InitTypeOK == Init => TypeOK
BY DEF Init, TypeOK, DbStates

LEMMA NextTypeOK == TypeOK /\ [Next]_vars => TypeOK'
<1> SUFFICES ASSUME TypeOK, [Next]_vars PROVE TypeOK'
    OBVIOUS
<1>1. ASSUME NEW k \in Keys, NEW v \in Vals, Put(k, v) PROVE TypeOK'
    BY <1>1 DEF Put, Fails, TypeOK, DbStates
<1>2. ASSUME NEW k \in Keys, Delete(k) PROVE TypeOK'
    BY <1>2 DEF Delete, Fails, TypeOK, DbStates
<1>3. ASSUME NEW b \in Batches, Write(b) PROVE TypeOK'
    <2>1. Apply(db, ops[b]) \in DbStates
        <3>1. \A k \in Keys : Effect(ops[b])[k] \in Vals \cup {Absent, NoOp}
            BY EffectNoOp DEF TypeOK
        <3>2. QED
            BY <3>1, ApplyEffect DEF TypeOK, KV!Over, DbStates
    <2>2. QED
        BY <1>3, <2>1 DEF Write, Fails, TypeOK
<1>4. ASSUME NEW b \in Batches, WbClear(b) PROVE TypeOK'
    BY <1>4 DEF WbClear, TypeOK
<1>5. ASSUME NEW b \in Batches, NEW k \in Keys, NEW x \in Vals \cup {Absent},
             WbRecord(b, k, x)
      PROVE  TypeOK'
    <2>1. Append(ops[b], [key |-> k, val |-> x]) \in Seq(Records)
        BY AppendProperties DEF TypeOK, Records
    <2>2. QED
        BY <1>5, <2>1 DEF WbRecord, TypeOK
<1>6. ASSUME NEW b \in Batches, NEW s \in Batches, WbAppend(b, s) PROVE TypeOK'
    <2>1. ops[b] \o ops[s] \in Seq(Records)
        BY ConcatProperties DEF TypeOK
    <2>2. QED
        BY <1>6, <2>1 DEF WbAppend, TypeOK
<1>7. ASSUME NEW k \in Keys, NEW s \in Snaps \cup {0}, Get(k, s) PROVE TypeOK'
    BY <1>7 DEF Get, Fails, TypeOK
<1>8. ASSUME NEW s \in Snaps, SnapshotNew(s) \/ SnapshotRelease(s) PROVE TypeOK'
    BY <1>8 DEF SnapshotNew, SnapshotRelease, TypeOK
<1>9. CASE UNCHANGED vars
    BY <1>9 DEF vars, TypeOK
<1>10. QED
    BY <1>1, <1>2, <1>3, <1>4, <1>5, <1>6, <1>7, <1>8, <1>9 DEF Next

(* The bridge keeps the database a map from keys to values or Absent, and  *)
(* each write batch a sequence of key/value records, whatever the calls.   *)
THEOREM TypeCorrect == Spec => []TypeOK
BY InitTypeOK, NextTypeOK, PTL DEF Spec

-----------------------------------------------------------------------------
(* Refinement of KVSpec, with each batch mapped to its net effect.         *)

LEMMA InitRefines == Init => KV!Init
BY EffectEmpty DEF Init, KV!Init

(* A step that leaves the batches alone leaves their effects alone.        *)
LEMMA PendingKept == ops' = ops => Pending' = Pending
BY DEF Pending

LEMMA NextRefines == TypeOK /\ [Next]_vars => [KV!Next]_KV!vars
<1> SUFFICES ASSUME TypeOK, [Next]_vars PROVE [KV!Next]_KV!vars
    OBVIOUS
<1> USE DEF Succeeds, KV!Succeeds
<1>1. ASSUME NEW k \in Keys, NEW v \in Vals, Put(k, v) PROVE KV!Put(k, v)
    <2>1. Pending' = Pending
        BY <1>1, PendingKept DEF Put, Fails
    <2>2. QED
        BY <1>1, <2>1 DEF Put, Fails, KV!Put, KV!Fails, Pending
<1>2. ASSUME NEW k \in Keys, Delete(k) PROVE KV!Delete(k)
    <2>1. Pending' = Pending
        BY <1>2, PendingKept DEF Delete, Fails
    <2>2. QED
        BY <1>2, <2>1 DEF Delete, Fails, KV!Delete, KV!Fails, Pending
<1>3. ASSUME NEW b \in Batches, Write(b) PROVE KV!Write(b)
    <2>1. Pending' = Pending
        BY <1>3, PendingKept DEF Write, Fails
    <2>2. Apply(db, ops[b]) = KV!Over(db, Pending[b])
        BY ApplyEffect DEF TypeOK, Pending
    <2>3. QED
        BY <1>3, <2>1, <2>2 DEF Write, Fails, KV!Write, KV!Fails, Pending
<1>4. ASSUME NEW b \in Batches, WbClear(b) PROVE KV!Clear(b)
    <2>1. Pending' = [Pending EXCEPT ![b] = KV!Empty]
        BY <1>4, EffectEmpty DEF WbClear, Pending, TypeOK
    <2>2. QED
        BY <1>4, <2>1 DEF WbClear, KV!Clear, Pending
<1>5. ASSUME NEW b \in Batches, NEW k \in Keys, NEW x \in Vals \cup {Absent},
             WbRecord(b, k, x)
      PROVE  KV!BatchSet(b, k, x)
    <2> DEFINE r == [key |-> k, val |-> x]
    <2>1. r \in Records /\ ops[b] \in Seq(Records)
        BY DEF Records, TypeOK
    <2>2. ops' = [ops EXCEPT ![b] = Append(ops[b], r)]
        BY <1>5 DEF WbRecord
    <2>3. Effect(Append(ops[b], r)) = [Effect(ops[b]) EXCEPT ![k] = x]
        BY <2>1, EffectAppend
    <2>4. Pending' = [Pending EXCEPT ![b][k] = x]
        BY <2>2, <2>3 DEF Pending, TypeOK
    <2>5. QED
        BY <1>5, <2>4 DEF WbRecord, KV!BatchSet, Pending
<1>6. ASSUME NEW b \in Batches, NEW s \in Batches, WbAppend(b, s)
      PROVE  KV!Append(b, s)
    <2>1. ops' = [ops EXCEPT ![b] = ops[b] \o ops[s]]
        BY <1>6 DEF WbAppend
    <2>2. Effect(ops[b] \o ops[s]) = KV!Over(Effect(ops[b]), Effect(ops[s]))
        BY EffectConcat DEF TypeOK
    <2>3. Pending' = [Pending EXCEPT ![b] = KV!Over(Pending[b], Pending[s])]
        BY <2>1, <2>2 DEF Pending, TypeOK
    <2>4. QED
        BY <1>6, <2>3 DEF WbAppend, KV!Append, Pending
<1>7. ASSUME NEW k \in Keys, NEW s \in Snaps \cup {0}, Get(k, s) PROVE KV!Get(k, s)
    <2>1. Pending' = Pending
        BY <1>7, PendingKept DEF Get, Fails
    <2>2. QED
        BY <1>7, <2>1 DEF Get, Fails, KV!Get, KV!Fails, Pending
<1>8. ASSUME NEW s \in Snaps, SnapshotNew(s) PROVE KV!SnapshotNew(s)
    BY <1>8, PendingKept DEF SnapshotNew, KV!SnapshotNew, Pending
<1>9. ASSUME NEW s \in Snaps, SnapshotRelease(s) PROVE KV!SnapshotRelease(s)
    BY <1>9, PendingKept DEF SnapshotRelease, KV!SnapshotRelease, Pending
<1>10. CASE UNCHANGED vars
    BY <1>10, PendingKept DEF vars, KV!vars, Pending
<1>11. QED
    BY <1>1, <1>2, <1>3, <1>4, <1>5, <1>6, <1>7, <1>8, <1>9, <1>10
       DEF Next, KV!Next

(* Store implements KVSpec: every behaviour of the bridge's record-level   *)
(* batches, write, get and snapshots is a behaviour of the abstract store  *)
(* in which a batch is its net effect per key, write applies that effect   *)
(* at once, append lays the source's effect over the batch's (also when    *)
(* the source is the batch itself) and a snapshot read sees the state the  *)
(* snapshot fixed.                                                         *)
THEOREM Implements == Spec => Refinement
<1>1. Spec => []TypeOK
    BY TypeCorrect
<1>2. TypeOK /\ [Next]_vars => [KV!Next]_KV!vars
    BY NextRefines
<1>3. QED
    BY <1>1, <1>2, InitRefines, PTL DEF Spec, Refinement, KV!Spec

====
