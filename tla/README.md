# TLA+ models of the Kodein-DB LevelDB JNI bridge

This directory holds a verification development for
`src/ldb/jni/c/src/main/cpp/leveldb-jni.cc`. That file is the C++ layer between
Kodein-DB's managed `Native` class and the LevelDB engine. It contains TLA+
modules, TLC configurations, TLAPS proofs, and `PROJECT.json`. `PROJECT.json`
lists the components, the runs, the mutants, the map from each definition to
the source lines it models, the findings, the hazards and the theorems.

## The system and its parts

The bridge keeps no state of its own apart from one global reference, which
`JNI_OnLoad` and `JNI_OnUnload` set up and tear down. Everything else passes
through the entry points:

| Part | Code | What changes state |
|------|------|--------------------|
| Byte views | `class Bytes`, the macros `BytesA/BytesB` and their `_S`/`_A` variants (lines 76-116) | Each key or value argument becomes a `leveldb::Slice`. A direct buffer is read with `GetDirectBufferAddress`. A byte array is pinned with `GetByteArrayElements` (sync mode) or `GetPrimitiveArrayCritical` (critical mode), and `~Bytes` releases it with `JNI_ABORT`. |
| Error translation | `CHECK_STATUS`, `throwLevelDBExceptionFrom*` (58-64, 123-127) | A failed status is turned into a `LevelDBException` and the call returns early. |
| Options | `optionsNew`, `optionsRelease` (198-243) | These allocate and free the Options, its LRU cache and its optional Bloom filter. |
| Database session | `dbOpen` (with repair and one retry), `dbRelease`, `dbDestroy` (248-287) | These create and delete the `leveldb::DB`. |
| Reads and writes | `put*`, `delete*`, `write`, `get*` and `LevelDBJNI_Get` (289-368) | These change engine state. `get` allocates a `std::string` that is handed out as a buffer handle. |
| Buffers | `bufferNew`, `bufferRelease` (183-193) | A direct view on a returned string, and deletion of the string. |
| Iterators | `iteratorNew/Release/SeekToFirst/SeekToLast/Seek*/Next/Prev/Key/Value`, `putLens` (373-477) | The cursor, and the `lens` array of key and value lengths (-1/-1 when the cursor is invalid). |
| Snapshots | `snapshotNew/Release` (482-493) | |
| Write batches | `writeBatchNew/Release/Put*/Delete*/Clear/Append` (498-560) | |

The parts interact through the native objects the managed side holds as
`jlong` handles. An Options owns a cache and a filter, and a DB opened with the
Options keeps using them. Snapshots and iterators belong to a DB. Buffers and
batches stand alone. Every entry point that takes bytes goes through `Bytes`.

## Modules

* `ByteView`: one call of a byte-argument entry point, as a sequence of
  steps. Of these, only `Start` and the `Acquire` steps are separate JNI
  events; `Call` and `Exit` run in order after them. The modelled entry points
  are put, delete, get, seek, batch put and batch delete, in every B/A
  variant.
  * State: `pc`, the entry point `call`, its `syncFlag`, the Bytes objects
    still `todo` in construction order, and the counts `acq`/`rel` of JNI get
    and release calls per argument. `status` is the engine status and `exc`
    says whether an exception is pending.
  * Actions:
    * `Start`: the entry point is entered. Its construction order comes from
      `Orders`: for putAB/putBA and their batch forms, the direct buffer comes
      first ("Order matters!"). For the two-argument calls, C++ leaves the
      evaluation order unspecified, so both orders are allowed.
    * `Acquire`: one Bytes constructor (`getAddr`). For the locals of
      putAB/putBA and their batch forms (`auto key = BytesA(key)`,
      `LocalTemp`), a move that is not elided is followed by the
      temporary's destructor at the end of the declaration
      (`TempReleased`): the array is released before the call.
    * `Call`: the engine operation and `CHECK_STATUS`.
    * `Exit`: the destructors. For the helpers that take `Bytes` by value
      (delete, get, seek, batch delete: `ParamTemp`), a move that is not
      elided leaves two objects holding the array, the parameter and the
      caller's temporary; both are destroyed after the call
      (`ExitReleases` = 2).
  * The constant `ElideMoves` selects a build. With TRUE, the build
    guarantees copy elision (C++17). With FALSE, the move constructor at line
    107 runs.
  * The access mode is `Mode(c, s)`. It is translated from the macros: put and
    delete pass their *durability* flag `sync` as the mode, get and seek use
    sync mode, and write batches use critical mode.
* `Handles`: the lifetime of every native object handed out as a handle.
  * State: `kind[a]` is the object living at address `a` (or `"free"`).
    `refs[a]` is the set of objects it points to inside the engine. `held` is
    the set of handles the managed side holds. `raised` says whether the last
    call threw.
  * There is one action per allocating or deleting entry point. `DbOpen`
    covers the whole repair-and-retry path: its status is `DbOpenStatus`.
    `Get` is the net effect of `LevelDBJNI_Get` in one step: a buffer
    handle on success, and nothing on not-found or on error (the string
    allocated before DB::Get is deleted on both paths, so no intermediate
    state is observable to the managed side).
  * The caller is the one the spec describes. It releases each handle once,
    passes only handles it holds, passes a snapshot with its own DB, and
    releases a DB after its snapshots and iterators.
* `Iterator`: one iterator handle from `iteratorNew` on.
  * State: `data`, the snapshot the iterator reads (a map from the keys
    present to the byte sizes of key and value, fixed for its lifetime);
    `cur`, the entry under the cursor or `NoKey` when it is not `Valid()`;
    `st`, `it->status()`; `lens`, the caller's `jint[2]`; `exc`, the
    exception the last call threw; `called`, the last entry point.
  * Actions: `SeekToFirst`, `SeekToLast`, `Seek(k)`, `IteratorNext`,
    `IteratorPrev`, each a `Position`: the engine moves the cursor, then
    `CHECK_STATUS` throws and returns, or `putLens` writes `LensOf(cur')`,
    the sizes cast by `ToJint` (modulo `2 * (JintMax + 1)`, the `(int)`
    cast). An engine error is sticky and may leave the cursor anywhere.
    `Accessor("key")`/`Accessor("value")` are `CHECK_IT_VALID`.
  * The caller is spec section 4.6's: it steps only when `lens[1] >= 0`
    and may catch an exception and go on. `Next` on an Invalid cursor is
    undefined in LevelDB and is modelled as any position.
* `Store`: put, delete, write, the write batch calls, get at the latest
  state or at a snapshot, and snapshotNew/Release over one open database.
  * State: `db` (key to value or `Absent`), `ops` (each batch as its ordered
    records), `snaps` (live snapshot to the database it fixed), `got`, `exc`,
    and `last`, the last call with its arguments.
  * `Write` applies the batch or, when the engine fails, nothing. `Apply`
    models what `WriteBatch::Iterate` into the memtable leaves. The records
    go in under increasing sequence numbers and a read sees the highest
    one, so each key the batch names takes the value of its last record
    (`LastRec`), and every other key keeps its value. This is a definition
    over indices, not a fold over the records: the provers cannot do
    induction here, and the last-record form is what the sequence numbers
    make the engine return. `WbAppend` is
    `ops[b] \o ops[s]`, `s = b` included. `WbRecord` stands for the six
    `writeBatchPut*`/`Delete*` entry points.
* `KVSpec`: the abstract store the bridge promises (spec 4.4, 4.5, 4.7). A
  batch is its net effect per key (a value, `Absent` or `NoOp`), `Write`
  lays it over the database in one step, and `Append` lays the source's
  effect over the batch's.
* `ByteViewProofs`, `IteratorProofs`, `HandlesProofs`, `StoreProofs`: the
  TLAPS proofs.
* `MCByteView`, `MCHandles`, `MCIterator`, `MCStore`: the TLC instances. `MCHandles` has five model
  values as addresses, `Bits = {0, 10}` (no filter, and a filter), and
  symmetry over the addresses. The symmetry is sound because no definition
  tells two addresses apart.

## Runs

| Run | Checks | Result |
|-----|--------|--------|
| `byteview` (ByteView.cfg, C++17 build) | `TypeOK`, `ViewsLiveAtCall`, `ViewsReleasedOnce`, `NoLookupInCritical` | passes (149 states) |
| `byteview_throw` | `NoThrowInCritical` | **violated**: deleteA with sync=false fails in the engine, and ThrowNew runs with the key array held critical |
| `byteview_no_elision` (ElideMoves = FALSE) | `ViewsLiveAtCall` | **violated**: putAB's local `key` is move-constructed from `BytesA(key)`; the temporary's destructor releases the array before DB::Put reads the slice |
| `byteview_double_release` (ElideMoves = FALSE) | `ViewsReleasedOnce` | **violated**: deleteA's by-value parameter and the temporary it was moved from are both destroyed after DB::Delete, releasing the array twice |
| `handles` | `NoLeak`, `HandlesLive`, `FreeOnRelease`, `ThrowChangesNothing` | passes (8,802 states) |
| `handles_dangling` | `RefsLive` | **violated**: optionsNew, dbOpen, optionsRelease frees the cache the open DB uses |
| `iterator` (MayFail = TRUE, sizes 1..2, JintMax = 7) | `LensCurrentWhileOk` | passes (10,351 states) |
| `iterator_stale_lens` (MayFail = TRUE) | `NoStepOnInvalid` | **violated**: seekToFirst succeeds, a second seekToFirst fails and leaves the cursor Invalid with the old lens, the caller calls next |
| `iterator_size_cast` (sizes {1, 9}, JintMax = 7) | `LensCurrent` | **violated**: a value of size 9 is reported as -7 |
| `store` (2 keys, 1 value, 2 batches, 1 snapshot, MaxOps = 2) | `Refinement` | passes (306,793 states) |

### Properties

* `ViewsLiveAtCall`: when the engine runs, each argument has been obtained
  once and not released.
* `ViewsReleasedOnce`: when the call has returned, each pinned array has been
  released exactly once, and no direct buffer has been released. This holds
  on the error path too.
* `NoLookupInCritical`: an action property. No step that makes a JNI call
  other than `GetPrimitiveArrayCritical` happens while an array is held in
  critical mode.
* `NoThrowInCritical`: the same for `ThrowNew`.
* `NoLeak`: every live object is held, or is the cache or filter of an
  Options that is held.
* `HandlesLive`: no held handle names freed memory.
* `RefsLive`: no live object points to freed memory.
* `ThrowChangesNothing`: an action property. A call that throws a
  LevelDBException (`raised`) leaves the heap and the held handles as they
  were. The managed side discards the return value of such a call, so
  anything it allocated would be lost; dbOpen's repair path and get's error
  path are the calls that can throw.
* `FreeOnRelease`: an action property. A call frees only the handles it
  releases, and the cache and filter of an Options it releases. `dbRelease`
  in particular leaves the Options' cache and filter alive: the DB only uses
  them. None of the state invariants notices a `dbRelease` that also deletes
  them, because the cache is neither held nor live afterwards.
* `LensCurrent`: the lens array holds the current entry's key and value
  sizes, or -1/-1 exactly when the cursor is Invalid.
* `LensCurrentWhileOk`: as long as `it->status()` is ok, the lens is
  current. With errors allowed the lens does go stale, but only through
  `CHECK_STATUS`'s early return, and the status stays an error afterwards.
* `NoStepOnInvalid`: an action property. `iteratorNext`/`iteratorPrev` are
  only called, by a caller following the lens, on a Valid cursor.
* `Refinement`: `Store` implements `KVSpec` under the mapping
  `pending <- [b \in Batches |-> Effect(ops[b])]`, where `Effect` takes the
  last record of each key. It holds because `Apply` of the ordered records
  equals laying their net effect over the database, and the effect of
  `o1 \o o2` is that of `o2` laid over that of `o1`. `last` records each
  call with its arguments in both specifications, so that a step is matched
  to the abstract step of the same call and not to any step with the same
  effect.

Each property of a passing run is killed by a mutant of the code it is
about. The mutants are listed in `PROJECT.json`:

* a copy-paste `BytesA(key)` twice in putAA;
* the array pinned first in putAB/putBA;
* a pessimizing `auto key = std::move(BytesA(key))` in putAB/putBA, which
  runs the move constructor even in a C++17 build;
* a release placed after `CHECK_STATUS`'s early return;
* get leaking the string on not-found;
* get returning the string it deleted;
* get throwing on an engine error without deleting the string;
* `putLens` writing the key size into both slots (killing
  `LensCurrentWhileOk`);
* `putLens` run before the cursor moves (killing `LensCurrentWhileOk`);
* `Write` letting the first record of a key win instead of the last;
* `dbRelease` also deleting the cache and filter the DB was opened with.

### Bounds

`ByteView` has no data to bound. Each run enumerates every entry point, both
sync flags, both evaluation orders and every engine outcome, so the model is
exhaustive for one call.

Calls are independent: the bridge keeps nothing between them, and the
counters are reset at `Start`. So one call at a time covers every case. The
other thread that matters is the GC, which could only be kept out of a
critical region. It is not modelled.

`Handles` uses five addresses. That is enough for one Options with a cache
and a filter, plus a DB and a snapshot, iterator or buffer. With the caller's
release order, this covers every kind of object pointing at another. An
address can be freed and reused, so the runs also reach use of a reused
address.

`Iterator` uses three keys, so a cursor has a first, a middle and a last
entry and both Next and Prev can fall off an end; every subset of them is a
snapshot. A 4-bit jint (`JintMax = 7`) stands for the 32-bit one: `ToJint`
is written for any width, and size 9 wraps exactly as 2^31 + 1 does. The
`iterator` run lets every positioning call fail (`MayFail = TRUE`), so an
error can come at any point of a sequence of calls, and a cursor the
failed call left anywhere is then stepped and read.

`Store` uses two keys (so a batch can touch one key twice or two keys), one
value (the result of a write is told apart by `Absent`, so a second value
only multiplies states; two values ran for more than ten minutes), two
batches (append of another batch and of itself), one snapshot, and batches
of at most two records, the least that makes the order of records matter.

No liveness property is checked, and no fairness is assumed. Every entry
point runs to completion synchronously, so nothing in the bridge waits.

## What is proved (TLAPS)

### `ByteViewProofs`

The proofs hold for both values of `ElideMoves` except where stated.

* `TypeCorrect`: `Spec => []TypeOK`.
* `OrderMatters`: `Spec => NoLookupInCritical`.
* `ReleasedOnce`: `ElideMoves => (Spec => []ViewsReleasedOnce)`.

`TypeOK` alone is not inductive: `Acquire` increments `acq[Head(todo)]`,
which stays within 0..1 only if that argument was not obtained before. The
inductive invariant `IInv` therefore adds:

* `TodoFresh`: the Bytes objects still to construct are distinct and not yet
  obtained.
* `RelBounded`: no argument is released more often than it was obtained.
* `ParamsUnreleased`: in a call whose helper takes `Bytes` by value, nothing
  is released before `Exit`, so `Exit`'s two releases in a build without
  elision stay within 0..2.
* `ArraysLast`: in the remaining construction order, no direct buffer comes
  after an array.
* `DirectFirst`: while a direct buffer is still to construct, no array is
  pinned.

`ArraysLast` and `DirectFirst` are what make the "Order matters!" comment
true. The lemma `LookupIsAcquire` shows that a lookup step is an `Acquire`
of a direct buffer or of a sync-mode array. `DirectFirst` then says that no
critical array is pinned at that point. The lemma `OrdersFacts` checks, one
entry point at a time, that every order `Orders` allows is a sequence of
distinct arguments with the arrays last.

`ReleasedOnce` rests on `IInv` and on `RelZero`: with elided moves, no
argument is released inside a call, and `Exit` releases each pinned array
once. The lemma `ReleasedKept` proves the
two together.

* `LiveAtCall`: `ElideMoves => (Spec => []ViewsLiveAtCall)`.

This adds a second invariant, checked by TLC on the `byteview` run before
it was proved:

* `Acquired`: inside a call, an argument has been obtained (once) exactly
  when it is no longer in `todo`.
* `CallReady`: `todo` is empty at `Call` and `Exit`, and not empty at
  `Acquire`.

`OrdersCover` shows that every construction order names every argument of
its entry point. At `Call`, then, every argument has been obtained, and
`RelZero` says none has been released. The run `byteview_no_elision` shows
that the hypothesis `ElideMoves` is needed for `LiveAtCall`, and
`byteview_double_release` that it is needed for `ReleasedOnce`.

### `HandlesProofs`

For every finite set of addresses and every set of Bloom filter settings:

* `TypeCorrect`: `Spec => []TypeOK`;
* `HandlesAlwaysLive`: `Spec => []HandlesLive`;
* `NeverLeaks`: `Spec => []NoLeak`;
* `ThrowsChangeNothing`: `Spec => ThrowChangesNothing`. It needs no
  invariant: every action but a failed dbOpen or get sets `raised` to
  FALSE, and those two leave the heap unchanged.

Neither property is inductive alone: `optionsRelease` frees the objects in
`refs[o]`, and that is harmless only if none of them is held and none
belongs to another Options. The inductive invariant adds `HeldKinds` (a
held handle is never a cache or a filter) and `OptionsRefs` (a live
Options points only to caches and filters, and two Options never share
one). Two lemmas carry the steps: `FreeKeeps`, for a release that frees a
handle and what it alone owns, and `NewKeeps`, for an allocation at a free
address; `OptionsNewKeeps` handles the three allocations of `optionsNew`.

* `FreedOnlyOnRelease`: `Spec => FreeOnRelease`.

It needs only `TypeOK`. The lemma `FreeOnlyReleased` covers a release that
frees a handle, or an Options with its cache and filter. `NewNoneFreed`
covers an allocation at a free address, which leaves every live object
alive.

### `StoreProofs`

For every set of keys, values, batches and snapshots, with `Absent` and
`NoOp` distinct from the values and from each other (`SentinelAssumption`):

* `TypeCorrect`: `Spec => []TypeOK`. The database maps keys to values or
  `Absent`, and every batch is a sequence of records.
* `Implements`: `Spec => Refinement`, i.e. `Store` implements `KVSpec`.

The proof follows the usual pattern. The initial state maps to
`KVSpec`'s initial state (`InitRefines`). Every step maps to the abstract
step of the same call, or to a stutter (`NextRefines`). The only invariant
needed is `TypeOK`. The lemmas are about a batch's records:

* `LastRecFacts`: a key the batch writes has a last record. That record is
  the least element of `{Len(o) - i}`; it exists by the well-foundedness of
  `<` on `Nat` (`WFMin`, `NatLessThanWellFounded`), so no induction is
  needed.
* `LastRecUnique`: only the last record of a key has no later record of
  that key.
* `EffectEmpty`: an empty batch has no effect.
* `ApplyEffect`: writing a batch applies its net effect.
* `EffectAppend`: `writeBatchPut`/`Delete` sets the effect on its key.
* `EffectConcat`: `writeBatchAppend` lays the source's effect over the
  batch's. For self-append this is the effect of `o \o o`, which is that
  of `o`.

With the first-record-wins mutant of `Apply`, `ApplyEffect` no longer
proves.

### `IteratorProofs`

For every snapshot and every jint width, with engine errors allowed
(`MayFail` either way), under the hypothesis `Fits` (every size is at most
`JintMax`):

* `LensCurrentUntilError`: `Spec => []LensCurrentWhileOk`.

The inductive invariant says that `data` is a snapshot, the cursor is one of
its positions, the status is ok or an error, and `LensCurrentWhileOk`. The
cursor must be a position even after an error, because a later call is
checked against the snapshot's sizes. `LensOfTrue` shows that `putLens`
writes the true sizes when they fit (`JintKeeps`), and
`TargetsArePositions` shows that the engine positions inside the snapshot.
`PositionKeeps` does one positioning call: on success the lens is the new
position's; on an error the status is an error and the invariant asks
nothing of the lens. The run `iterator_size_cast` shows that `Fits` is
needed. After an error the lens is not current; `iterator_stale_lens`
shows what a caller that trusts it then does.

### Only model-checked

* the violated properties (each run's counterexample is the result);
* `LensCurrent` once an error has been reported, and `NoStepOnInvalid`:
  both are false, and the violation runs show how;
* liveness: none is stated, since no entry point waits.

Every property of a passing run is proved for all values of the constants:
TLC checks the small instance, and TLAPS proves the same property for every
instance.

## What is not modelled

* `dbDestroy` and the on-disk state: the call ignores `DestroyDB`'s status
  (line 283), so it neither throws nor changes state another entry point
  reads.
* `bufferNew` views and the direct buffers `iteratorKey`/`iteratorValue`
  return: they are managed objects whose later use the bridge never sees,
  so their lifetime is a caller contract that no entry point can check.
* A careless caller (dbRelease with live snapshots, snapshotRelease with
  another DB's snapshot): both are undefined inside the engine, whose
  snapshot list is not modelled; `Handles` states them as preconditions.
* Threads: the bridge adds no locking, and each entry point is one atomic
  step; a race on one WriteBatch or Iterator is inside the engine.
* `JNI_OnLoad`/`JNI_OnUnload`, which are one-time VM hooks.
* `copyUTFString`, a pure conversion whose only hazard, a NULL from
  `GetStringUTFChars`, is out-of-memory.
* The slice bounds (offset and length unchecked, line 94), because data is
  abstracted to views.
* The GC's view of critical regions.
