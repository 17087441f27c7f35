------------------------------ MODULE Handles ------------------------------
(***************************************************************************)
(* The lifetime of the native objects the JNI bridge hands out as jlong    *)
(* handles: options (owning an LRU cache and an optional Bloom filter),    *)
(* databases, snapshots, iterators, write batches and the std::string      *)
(* buffers returned by get.  Every entry point that creates or deletes one *)
(* of them is an action; each runs to completion as one step (the engine   *)
(* serialises its own work, the bridge keeps no state between calls).      *)
(*                                                                         *)
(* The heap is a map from the addresses in Addr to the kind of object that *)
(* lives there, or "free"; a freed address can be handed out again.        *)
(* refs[a] is the set of objects that object a points to inside the        *)
(* engine: an Options owns its cache and filter, a DB keeps using them, a  *)
(* snapshot and an iterator belong to their DB.  held is the set of        *)
(* handles the managed side holds.                                         *)
(*                                                                         *)
(* The managed side is the caller the spec describes: it releases each     *)
(* handle once, passes only handles it holds, passes a snapshot only with  *)
(* its own database, and releases a database only once its snapshots and  *)
(* iterators are released (spec sections 3, 4.7 and 5).                    *)
(***************************************************************************)
EXTENDS FiniteSets, Integers

CONSTANTS
    Addr,   \* the native addresses objects can be allocated at (none is 0)
    Bits    \* the bloomFilterBitsPerKey values optionsNew is called with

ASSUME AddrAssumption == IsFiniteSet(Addr) /\ Addr # {} /\ 0 \notin Addr
ASSUME BitsAssumption == Bits \subseteq Int

VARIABLES
    kind,    \* kind[a]: the kind of object at address a, or "free"
    refs,    \* refs[a]: the objects the object at a points to
    held,    \* the handles the managed side holds
    raised   \* the last call threw a LevelDBException

vars == <<kind, refs, held, raised>>

Kinds == {"options", "cache", "filter", "db", "snapshot", "iterator",
          "batch", "buffer"}

OpenStatus   == {"ok", "corruption", "error"}
RepairStatus == {"ok", "error"}
GetStatus    == {"ok", "notfound", "error"}

Free == {a \in Addr : kind[a] = "free"}
Live == Addr \ Free

(* The handles of a kind the managed side holds. *)
Held(k) == {h \in held : kind[h] = k}

(* Frees the objects S: delete on each of them. *)
FreeAll(S) ==
    /\ kind' = [a \in Addr |-> IF a \in S THEN "free" ELSE kind[a]]
    /\ refs' = [a \in Addr |-> IF a \in S THEN {} ELSE refs[a]]

(* Allocates one object of kind k pointing to r at the free address a.     *)
New(a, k, r) ==
    /\ kind' = [kind EXCEPT ![a] = k]
    /\ refs' = [refs EXCEPT ![a] = r]

(* The status dbOpen ends with: a corruption is repaired, and the open     *)
(* retried once, when repairOnCorruption is set.                           *)
DbOpenStatus(repair, first, repaired, second) ==
    IF repair /\ first = "corruption"
    THEN IF repaired = "ok" THEN second ELSE repaired
    ELSE first

-----------------------------------------------------------------------------

Init ==
    /\ kind = [a \in Addr |-> "free"]
    /\ refs = [a \in Addr |-> {}]
    /\ held = {}
    /\ raised = FALSE

(* optionsNew: new Options, a new LRU cache, and a Bloom filter policy     *)
(* unless bloomFilterBitsPerKey <= 0.                                      *)
OptionsNew(bits) ==
    \E o, c \in Free, F \in IF bits <= 0 THEN {{}} ELSE {{f} : f \in Free} :
        /\ o # c
        /\ F \cap {o, c} = {}
        /\ kind' = [a \in Addr |-> IF a = o THEN "options"
                                   ELSE IF a = c THEN "cache"
                                   ELSE IF a \in F THEN "filter"
                                   ELSE kind[a]]
        /\ refs' = [refs EXCEPT ![o] = {c} \cup F]
        /\ held' = held \cup {o}
        /\ raised' = FALSE

(* optionsRelease: deletes info_log (null), the cache, the filter policy   *)
(* (possibly null) and the Options.                                        *)
OptionsRelease(o) ==
    /\ o \in Held("options")
    /\ FreeAll({o} \cup refs[o])
    /\ held' = held \ {o}
    /\ raised' = FALSE

(* dbOpen: DB::Open, RepairDB and a second DB::Open on corruption; a new   *)
(* DB, which keeps using the options' cache and filter, on success, a      *)
(* LevelDBException otherwise.                                             *)
DbOpen(o, repair, first, repaired, second) ==
    LET st == DbOpenStatus(repair, first, repaired, second) IN
    /\ o \in Held("options")
    /\ IF st = "ok"
       THEN \E d \in Free : /\ New(d, "db", refs[o])
                            /\ held' = held \cup {d}
       ELSE UNCHANGED <<kind, refs, held>>
    /\ raised' = (st # "ok")

(* Variant of DbRelease that also deletes the cache and filter the DB was  *)
(* opened with, as if the DB owned the Options' block_cache.               *)
DbReleaseFreesCache(d) ==
    /\ d \in Held("db")
    /\ \A x \in Held("snapshot") \cup Held("iterator") : d \notin refs[x]
    /\ FreeAll({d} \cup refs[d])
    /\ held' = held \ {d}
    /\ raised' = FALSE

(* dbRelease: delete ldb.  The caller has released its snapshots and       *)
(* iterators first.                                                        *)
DbRelease(d) ==
    /\ d \in Held("db")
    /\ \A x \in Held("snapshot") \cup Held("iterator") : d \notin refs[x]
    /\ FreeAll({d})
    /\ held' = held \ {d}
    /\ raised' = FALSE

(* The snapshot arguments a read on database d may pass: 0 or one of d's.  *)
SnapshotArgs(d) == {0} \cup {s \in Held("snapshot") : refs[s] = {d}}

(* Variant of Get that returns the string it deleted on not-found.         *)
GetReturnDeleted(d, s, st) ==
    /\ d \in Held("db")
    /\ s \in SnapshotArgs(d)
    /\ \E b \in Free :
        /\ IF st = "ok" THEN New(b, "buffer", {}) ELSE UNCHANGED <<kind, refs>>
        /\ held' = IF st = "error" THEN held ELSE held \cup {b}
    /\ raised' = (st = "error")

(* Variant of Get that does not delete the string on not-found.            *)
GetLeakNotFound(d, s, st) ==
    /\ d \in Held("db")
    /\ s \in SnapshotArgs(d)
    /\ \E b \in Free :
        /\ IF st = "error" THEN UNCHANGED <<kind, refs>>
           ELSE New(b, "buffer", {})
        /\ held' = IF st = "ok" THEN held \cup {b} ELSE held
    /\ raised' = (st = "error")

(* Variant of Get that throws on an engine error without deleting the     *)
(* std::string it allocated.                                               *)
GetLeakError(d, s, st) ==
    /\ d \in Held("db")
    /\ s \in SnapshotArgs(d)
    /\ \E b \in Free :
        /\ IF st = "notfound" THEN UNCHANGED <<kind, refs>>
           ELSE New(b, "buffer", {})
        /\ held' = IF st = "ok" THEN held \cup {b} ELSE held
    /\ raised' = (st = "error")

(* getA/getB and LevelDBJNI_Get: a new std::string is filled by DB::Get;   *)
(* it is deleted on not-found (0 is returned) and on an error (which is    *)
(* thrown), and returned as the buffer handle otherwise.                   *)
Get(d, s, st) ==
    /\ d \in Held("db")
    /\ s \in SnapshotArgs(d)
    /\ \E b \in Free :
        /\ IF st = "ok" THEN New(b, "buffer", {}) ELSE UNCHANGED <<kind, refs>>
        /\ held' = IF st = "ok" THEN held \cup {b} ELSE held
    /\ raised' = (st = "error")

(* bufferRelease: delete value. *)
BufferRelease(b) ==
    /\ b \in Held("buffer")
    /\ FreeAll({b})
    /\ held' = held \ {b}
    /\ raised' = FALSE

(* iteratorNew: DB::NewIterator.  The iterator reads the snapshot's        *)
(* sequence number once, and keeps pointing into its DB.                   *)
IteratorNew(d, s) ==
    /\ d \in Held("db")
    /\ s \in SnapshotArgs(d)
    /\ \E it \in Free : /\ New(it, "iterator", {d})
                        /\ held' = held \cup {it}
    /\ raised' = FALSE

(* iteratorRelease: delete it. *)
IteratorRelease(it) ==
    /\ it \in Held("iterator")
    /\ FreeAll({it})
    /\ held' = held \ {it}
    /\ raised' = FALSE

(* snapshotNew: DB::GetSnapshot, a snapshot in the DB's list. *)
SnapshotNew(d) ==
    /\ d \in Held("db")
    /\ \E s \in Free : /\ New(s, "snapshot", {d})
                       /\ held' = held \cup {s}
    /\ raised' = FALSE

(* snapshotRelease: DB::ReleaseSnapshot, with the snapshot's own DB. *)
SnapshotRelease(d, s) ==
    /\ d \in Held("db")
    /\ s \in Held("snapshot")
    /\ refs[s] = {d}
    /\ FreeAll({s})
    /\ held' = held \ {s}
    /\ raised' = FALSE

(* writeBatchNew: new WriteBatch. *)
WriteBatchNew ==
    /\ \E b \in Free : /\ New(b, "batch", {})
                       /\ held' = held \cup {b}
    /\ raised' = FALSE

(* writeBatchRelease: delete batch. *)
WriteBatchRelease(b) ==
    /\ b \in Held("batch")
    /\ FreeAll({b})
    /\ held' = held \ {b}
    /\ raised' = FALSE

Next ==
    \/ \E bits \in Bits : OptionsNew(bits)
    \/ \E o \in Addr : OptionsRelease(o)
    \/ \E o \in Addr, repair \in BOOLEAN, first, second \in OpenStatus,
          repaired \in RepairStatus :
          DbOpen(o, repair, first, repaired, second)
    \/ \E d \in Addr : DbRelease(d) \/ SnapshotNew(d)
    \/ \E d \in Addr, s \in Addr \cup {0} :
          IteratorNew(d, s) \/ \E st \in GetStatus : Get(d, s, st)
    \/ \E d, s \in Addr : SnapshotRelease(d, s)
    \/ \E x \in Addr : BufferRelease(x) \/ IteratorRelease(x)
                         \/ WriteBatchRelease(x)
    \/ WriteBatchNew

Spec == Init /\ [][Next]_vars

-----------------------------------------------------------------------------

TypeOK ==
    /\ kind \in [Addr -> Kinds \cup {"free"}]
    /\ refs \in [Addr -> SUBSET Addr]
    /\ held \subseteq Addr
    /\ raised \in BOOLEAN

(* The objects an Options handle owns: its cache and filter policy. *)
Owned == UNION {refs[o] : o \in Held("options")}

(* Spec 5 "never leaks": every live native object is reachable from the    *)
(* managed side, as a handle it holds or as the cache or filter of an      *)
(* Options it holds; get's not-found and error paths, and optionsRelease,  *)
(* leave nothing behind.                                                   *)
NoLeak == \A a \in Live : a \in held \/ a \in Owned

(* Spec 3 "sentinel zero" and 4.4: every handle the bridge gave out and    *)
(* the managed side still holds names a live object, never one the bridge  *)
(* deleted before returning it.                                            *)
HandlesLive == \A h \in held : kind[h] # "free"

(* Spec 5 "never aliases freed memory": no live object points into freed   *)
(* memory: a DB's cache and filter, an iterator's or a snapshot's DB are   *)
(* live as long as it is.                                                  *)
RefsLive == \A a \in Live : \A r \in refs[a] : kind[r] # "free"

(* Spec 5 "never frees what the caller still uses": a call deletes only    *)
(* the handles the managed side released in it, and the cache and filter   *)
(* of an Options it released; dbRelease, iteratorRelease, snapshotRelease  *)
(* and get leave every other object, an Options' cache included, alive.    *)
FreesOnlyReleased ==
    \A a \in Live :
        kind'[a] = "free" =>
            \/ a \in held \ held'
            \/ \E o \in Held("options") \ held' : a \in refs[o]

FreeOnRelease == [][FreesOnlyReleased]_vars

(* Spec 5, errors as LevelDBException: the managed side discards the value *)
(* of a call that throws, so such a call must leave the native heap and    *)
(* the handles as they were.  dbOpen's repair-and-retry path and get's     *)
(* error path (which must delete its std::string before throwing) are the  *)
(* calls that can throw.                                                   *)
ThrowChangesNothing == [][raised' => UNCHANGED <<kind, refs, held>>]_vars

=============================================================================
