--------------------------- MODULE HandlesProofs ---------------------------
(***************************************************************************)
(* Proofs about Handles for every set of addresses: the type invariant,    *)
(* that every handle the managed side holds names a live object, and that  *)
(* no native object is leaked.                                             *)
(***************************************************************************)
EXTENDS Handles, TLAPS

(* The kinds of object handed out as handles: a cache or a filter policy   *)
(* is never handed out, only owned by an Options.                          *)
HandleKinds == {"options", "db", "snapshot", "iterator", "batch", "buffer"}
OwnedKinds == {"cache", "filter"}

(* Every held handle is a live object of a handle kind.                    *)
HeldKinds == \A h \in held : kind[h] \in HandleKinds

(* A live Options points to caches and filters only, and no two Options    *)
(* share one: optionsRelease frees exactly its own.                        *)
OptionsRefs ==
    /\ \A o \in Addr : kind[o] = "options" =>
           \A r \in refs[o] : kind[r] \in OwnedKinds
    /\ \A o1, o2 \in Addr :
           kind[o1] = "options" /\ kind[o2] = "options" /\ o1 # o2
           => refs[o1] \cap refs[o2] = {}

(* The inductive invariant behind HandlesLive and NoLeak.                  *)
IInv == TypeOK /\ HeldKinds /\ OptionsRefs /\ NoLeak

-----------------------------------------------------------------------------

LEMMA InitIInv == Init => IInv
BY DEF Init, IInv, TypeOK, HeldKinds, OptionsRefs, NoLeak, Live, Free, Owned,
       Held

(* A step that frees the objects S, all of them live and none of them      *)
(* held but x, drops x from held and leaves nothing else changed keeps     *)
(* the invariant when what it frees is x and what x alone owns.            *)
LEMMA FreeKeeps ==
    ASSUME IInv, NEW x \in held, NEW S \in SUBSET Addr,
           x \in S,
           \A a \in S \ {x} : kind[a] \in OwnedKinds,
           \A a \in S \ {x} : \A o \in Addr \ {x} :
               kind[o] = "options" => a \notin refs[o],
           kind[x] # "options" => S = {x},
           kind[x] = "options" => S = {x} \cup refs[x],
           FreeAll(S), held' = held \ {x}, raised' \in BOOLEAN
    PROVE  IInv'
<1>1. TypeOK'
    BY DEF IInv, TypeOK, FreeAll
<1>0. \A a \in Addr \ S : kind'[a] = kind[a] /\ refs'[a] = refs[a]
    BY DEF FreeAll
<1>2. HeldKinds'
    <2> SUFFICES ASSUME NEW h \in held' PROVE kind'[h] \in HandleKinds
        BY DEF HeldKinds
    <2>1. h \in held /\ h # x /\ h \in Addr /\ kind[h] \in HandleKinds
        BY DEF IInv, HeldKinds, TypeOK
    <2>2. h \notin S
        BY <2>1 DEF HandleKinds, OwnedKinds
    <2>3. QED
        BY <1>0, <2>1, <2>2
<1>3. OptionsRefs'
    <2>1. ASSUME NEW o \in Addr, kind'[o] = "options"
          PROVE  o \notin S /\ kind[o] = "options"
        <3>1. o \notin S
            BY <2>1 DEF FreeAll
        <3>2. QED
            BY <1>0, <2>1, <3>1
    <2>2. ASSUME NEW o \in Addr, kind[o] = "options", o \notin S,
                 NEW r \in refs[o]
          PROVE  r \notin S
        <3>1. o # x /\ r \in Addr /\ kind[r] \in OwnedKinds
            BY <2>2 DEF IInv, TypeOK, OptionsRefs
        <3>2. r # x
            BY <3>1 DEF IInv, HeldKinds, HandleKinds, OwnedKinds
        <3>3. QED
            BY <2>2, <3>1, <3>2
    <2>3. QED
        BY <1>0, <2>1, <2>2 DEF IInv, OptionsRefs, TypeOK
<1>4. NoLeak'
    <2> SUFFICES ASSUME NEW a \in Live' PROVE a \in held' \/ a \in Owned'
        BY DEF NoLeak
    <2>1. a \notin S /\ a \in Live
        BY DEF FreeAll, Live, Free
    <2>2. CASE a \in held
        BY <2>1, <2>2
    <2>3. CASE a \notin held
        <3>1. PICK o \in Held("options") : a \in refs[o]
            BY <2>1, <2>3 DEF IInv, NoLeak, Owned
        <3>2. o # x
            BY <2>1, <3>1 DEF Held
        <3>3. o \in Held("options")' /\ refs'[o] = refs[o]
            <4>1. o \notin S
                BY <3>1, <3>2 DEF IInv, TypeOK, Held, OwnedKinds
            <4>2. QED
                BY <3>1, <3>2, <4>1 DEF FreeAll, Held, IInv, TypeOK
        <3>4. QED
            BY <3>1, <3>3 DEF Owned
    <2>4. QED
        BY <2>2, <2>3
<1>5. QED
    BY <1>1, <1>2, <1>3, <1>4 DEF IInv

(* A step that allocates one object of a handle kind at a free address     *)
(* and hands it out keeps the invariant.                                   *)
LEMMA NewKeeps ==
    ASSUME IInv, NEW a \in Free, NEW k \in HandleKinds \ {"options"},
           NEW r \in SUBSET Addr,
           New(a, k, r), held' = held \cup {a}, raised' \in BOOLEAN
    PROVE  IInv'
<1>1. a \notin held /\ \A o \in Addr : kind[o] = "options" => a \notin refs[o]
    BY DEF IInv, HeldKinds, Free, HandleKinds, OptionsRefs, OwnedKinds
<1>2. TypeOK'
    BY DEF IInv, TypeOK, New, Free, HandleKinds, Kinds
<1>3. HeldKinds'
    BY DEF IInv, HeldKinds, New, TypeOK, Free
<1>4. OptionsRefs'
    BY <1>1 DEF IInv, OptionsRefs, New, TypeOK, Free, OwnedKinds
<1>5. NoLeak'
    <2> SUFFICES ASSUME NEW x \in Live' PROVE x \in held' \/ x \in Owned'
        BY DEF NoLeak
    <2>1. CASE x = a
        BY <2>1
    <2>2. CASE x # a
        <3>1. x \in Live
            BY <2>2 DEF Live, Free, New, IInv, TypeOK
        <3>2. CASE x \in held
            BY <3>2
        <3>3. CASE x \notin held
            <4>1. PICK o \in Held("options") : x \in refs[o]
                BY <3>1, <3>3 DEF IInv, NoLeak, Owned
            <4>2. o # a
                BY <4>1 DEF Held, Free
            <4>3. o \in Held("options")' /\ refs'[o] = refs[o]
                BY <4>1, <4>2 DEF Held, New, IInv, TypeOK
            <4>4. QED
                BY <4>1, <4>3 DEF Owned
        <3>4. QED
            BY <3>2, <3>3
    <2>3. QED
        BY <2>1, <2>2
<1>6. QED
    BY <1>2, <1>3, <1>4, <1>5 DEF IInv

(* optionsNew allocates the Options, its cache and its filter at three     *)
(* distinct free addresses and hands out the Options only.                 *)
LEMMA OptionsNewKeeps ==
    ASSUME IInv, NEW bits \in Bits, OptionsNew(bits)
    PROVE  IInv'
<1> PICK o \in Free, c \in Free,
         F \in IF bits <= 0 THEN {{}} ELSE {{f} : f \in Free} :
        /\ o # c
        /\ F \cap {o, c} = {}
        /\ kind' = [a \in Addr |-> IF a = o THEN "options"
                                   ELSE IF a = c THEN "cache"
                                   ELSE IF a \in F THEN "filter"
                                   ELSE kind[a]]
        /\ refs' = [refs EXCEPT ![o] = {c} \cup F]
        /\ held' = held \cup {o}
        /\ raised' = FALSE
    BY DEF OptionsNew
<1>1. F \subseteq Free
    BY BitsAssumption
<1> DEFINE N == {o, c} \cup F
<1>2. N \subseteq Addr /\ \A a \in N : kind[a] = "free"
    BY <1>1 DEF Free
<1>3. \A a \in Addr \ N : kind'[a] = kind[a] /\ refs'[a] = refs[a]
    BY DEF IInv, TypeOK
<1>4. \A a \in N : a \notin held /\ \A p \in Addr : kind[p] = "options" => a \notin refs[p]
    BY <1>2 DEF IInv, HeldKinds, HandleKinds, OptionsRefs, OwnedKinds
<1>5. kind'[o] = "options" /\ kind'[c] = "cache" /\ refs'[o] = {c} \cup F
      /\ \A f \in F : kind'[f] = "filter"
    BY <1>2 DEF IInv, TypeOK
<1>6. \A a \in N \ {o} : kind'[a] \in OwnedKinds
    BY <1>2, <1>5 DEF OwnedKinds
<1>7. TypeOK'
    BY <1>2 DEF IInv, TypeOK, Kinds
<1>8. HeldKinds'
    BY <1>3, <1>4, <1>5 DEF IInv, HeldKinds, HandleKinds, TypeOK
<1>9. OptionsRefs'
    <2>1. ASSUME NEW p \in Addr, kind'[p] = "options"
          PROVE  p = o \/ (p \notin N /\ kind[p] = "options" /\ refs'[p] = refs[p])
        BY <1>3, <1>5, <1>6, <2>1 DEF OwnedKinds
    <2>2. \A p \in Addr : kind'[p] = "options" =>
              \A r \in refs'[p] : kind'[r] \in OwnedKinds
        <3> SUFFICES ASSUME NEW p \in Addr, kind'[p] = "options",
                            NEW r \in refs'[p]
                     PROVE  kind'[r] \in OwnedKinds
            OBVIOUS
        <3>1. CASE p = o
            BY <3>1, <1>5, <1>6
        <3>2. CASE p # o
            <4>1. p \notin N /\ kind[p] = "options" /\ refs'[p] = refs[p]
                BY <2>1, <3>2
            <4>2. r \notin N /\ r \in Addr /\ kind[r] \in OwnedKinds
                BY <4>1, <1>4 DEF IInv, OptionsRefs, TypeOK
            <4>3. QED
                BY <4>2, <1>3
        <3>3. QED
            BY <3>1, <3>2
    <2>3. \A p1, p2 \in Addr :
              kind'[p1] = "options" /\ kind'[p2] = "options" /\ p1 # p2
              => refs'[p1] \cap refs'[p2] = {}
        <3> SUFFICES ASSUME NEW p1 \in Addr, NEW p2 \in Addr,
                            kind'[p1] = "options", kind'[p2] = "options", p1 # p2
                     PROVE  refs'[p1] \cap refs'[p2] = {}
            OBVIOUS
        <3>1. CASE p1 = o
            BY <3>1, <2>1, <1>4, <1>5
        <3>2. CASE p2 = o
            BY <3>2, <2>1, <1>4, <1>5
        <3>3. CASE p1 # o /\ p2 # o
            BY <3>3, <2>1 DEF IInv, OptionsRefs
        <3>4. QED
            BY <3>1, <3>2, <3>3
    <2>4. QED
        BY <2>2, <2>3 DEF OptionsRefs
<1>10. NoLeak'
    <2> SUFFICES ASSUME NEW x \in Live' PROVE x \in held' \/ x \in Owned'
        BY DEF NoLeak
    <2>1. o \in Held("options")'
        BY <1>5 DEF Held
    <2>2. CASE x \in N
        <3>1. x = o \/ x \in refs'[o]
            BY <2>2, <1>5
        <3>2. QED
            BY <3>1, <2>1 DEF Owned
    <2>3. CASE x \notin N
        <3>1. x \in Live
            BY <2>3, <1>3 DEF Live, Free
        <3>2. CASE x \in held
            BY <3>2
        <3>3. CASE x \notin held
            <4>1. PICK p \in Held("options") : x \in refs[p]
                BY <3>1, <3>3 DEF IInv, NoLeak, Owned
            <4>2. p \notin N /\ p \in Addr
                BY <4>1, <1>2 DEF Held, IInv, TypeOK
            <4>3. p \in Held("options")' /\ refs'[p] = refs[p]
                BY <4>1, <4>2, <1>3 DEF Held
            <4>4. QED
                BY <4>1, <4>3 DEF Owned
        <3>4. QED
            BY <3>2, <3>3
    <2>4. QED
        BY <2>2, <2>3
<1>11. QED
    BY <1>7, <1>8, <1>9, <1>10 DEF IInv

(* A release of a handle of a kind other than Options.                     *)
LEMMA ReleaseKeeps ==
    ASSUME IInv, NEW x \in held, kind[x] # "options", FreeAll({x}),
           held' = held \ {x}, raised' \in BOOLEAN
    PROVE  IInv'
<1>1. {x} \in SUBSET Addr /\ x \in {x}
    BY DEF IInv, TypeOK
<1>2. /\ \A a \in {x} \ {x} : kind[a] \in OwnedKinds
      /\ \A a \in {x} \ {x} : \A o \in Addr \ {x} :
            kind[o] = "options" => a \notin refs[o]
      /\ kind[x] # "options" => {x} = {x}
      /\ kind[x] = "options" => {x} = {x} \cup refs[x]
    OBVIOUS
<1>3. QED
    BY <1>1, <1>2, FreeKeeps

LEMMA NextIInv == IInv /\ [Next]_vars => IInv'
<1> SUFFICES ASSUME IInv, [Next]_vars PROVE IInv'
    OBVIOUS
<1>1. CASE \E bits \in Bits : OptionsNew(bits)
    BY <1>1, OptionsNewKeeps
<1>2. ASSUME NEW o \in Addr, OptionsRelease(o) PROVE IInv'
    <2>1. o \in held /\ kind[o] = "options"
        BY <1>2 DEF OptionsRelease, Held
    <2>2. \A a \in refs[o] : kind[a] \in OwnedKinds /\ a # o
        BY <2>1 DEF IInv, OptionsRefs, OwnedKinds
    <2>3. \A a \in refs[o] : \A p \in Addr \ {o} :
              kind[p] = "options" => a \notin refs[p]
        BY <2>1 DEF IInv, OptionsRefs
    <2>4. refs[o] \subseteq Addr
        BY DEF IInv, TypeOK
    <2>5. QED
        BY <1>2, <2>1, <2>2, <2>3, <2>4, FreeKeeps DEF OptionsRelease
<1>3. ASSUME NEW o \in Addr, NEW repair \in BOOLEAN,
             NEW first \in OpenStatus, NEW second \in OpenStatus,
             NEW repaired \in RepairStatus,
             DbOpen(o, repair, first, repaired, second)
      PROVE  IInv'
    <2> DEFINE st == DbOpenStatus(repair, first, repaired, second)
    <2>1. CASE st = "ok"
        <3>1. PICK d \in Free : New(d, "db", refs[o]) /\ held' = held \cup {d}
            BY <1>3, <2>1 DEF DbOpen
        <3>2. refs[o] \in SUBSET Addr /\ raised' \in BOOLEAN
            BY <1>3 DEF IInv, TypeOK, DbOpen
        <3>3. QED
            BY <3>1, <3>2, NewKeeps DEF HandleKinds
    <2>2. CASE st # "ok"
        <3>1. UNCHANGED <<kind, refs, held>> /\ raised' \in BOOLEAN
            BY <1>3, <2>2 DEF DbOpen
        <3>2. QED
            BY <3>1 DEF IInv, TypeOK, HeldKinds, OptionsRefs, NoLeak, Live,
                        Free, Owned, Held
    <2>3. QED
        BY <2>1, <2>2
<1>4. ASSUME NEW d \in Addr, NEW s \in Addr \cup {0}, NEW st \in GetStatus,
             Get(d, s, st)
      PROVE  IInv'
    <2>1. PICK b \in Free :
            /\ IF st = "ok" THEN New(b, "buffer", {}) ELSE UNCHANGED <<kind, refs>>
            /\ held' = IF st = "ok" THEN held \cup {b} ELSE held
        BY <1>4 DEF Get
    <2>2. raised' \in BOOLEAN
        BY <1>4 DEF Get
    <2>3. CASE st = "ok"
        BY <2>1, <2>2, <2>3, NewKeeps DEF HandleKinds
    <2>4. CASE st # "ok"
        BY <2>1, <2>2, <2>4 DEF IInv, TypeOK, HeldKinds, OptionsRefs, NoLeak,
                                Live, Free, Owned, Held
    <2>5. QED
        BY <2>3, <2>4
<1>5. ASSUME NEW d \in Addr, NEW s \in Addr \cup {0},
             IteratorNew(d, s) \/ SnapshotNew(d) \/ WriteBatchNew
      PROVE  IInv'
    <2>1. CASE IteratorNew(d, s)
        <3>1. PICK it \in Free : New(it, "iterator", {d}) /\ held' = held \cup {it}
                                 /\ raised' = FALSE
            BY <2>1 DEF IteratorNew
        <3>2. QED
            BY <3>1, NewKeeps DEF HandleKinds
    <2>2. CASE SnapshotNew(d)
        <3>1. PICK sn \in Free : New(sn, "snapshot", {d}) /\ held' = held \cup {sn}
                                 /\ raised' = FALSE
            BY <2>2 DEF SnapshotNew
        <3>2. QED
            BY <3>1, NewKeeps DEF HandleKinds
    <2>3. CASE WriteBatchNew
        <3>1. PICK b \in Free : New(b, "batch", {}) /\ held' = held \cup {b}
                                /\ raised' = FALSE
            BY <2>3 DEF WriteBatchNew
        <3>2. {} \in SUBSET Addr /\ "batch" \in HandleKinds \ {"options"}
              /\ raised' \in BOOLEAN
            BY <3>1 DEF HandleKinds
        <3>3. QED
            BY <3>1, <3>2, NewKeeps
    <2>4. QED
        BY <1>5, <2>1, <2>2, <2>3
<1>6. ASSUME NEW x \in Addr, NEW d \in Addr,
             DbRelease(x) \/ BufferRelease(x) \/ IteratorRelease(x)
             \/ WriteBatchRelease(x) \/ SnapshotRelease(d, x)
      PROVE  IInv'
    <2>1. CASE DbRelease(x)
        BY <2>1, ReleaseKeeps DEF DbRelease, Held
    <2>2. CASE BufferRelease(x)
        BY <2>2, ReleaseKeeps DEF BufferRelease, Held
    <2>3. CASE IteratorRelease(x)
        BY <2>3, ReleaseKeeps DEF IteratorRelease, Held
    <2>4. CASE WriteBatchRelease(x)
        BY <2>4, ReleaseKeeps DEF WriteBatchRelease, Held
    <2>5. CASE SnapshotRelease(d, x)
        BY <2>5, ReleaseKeeps DEF SnapshotRelease, Held
    <2>6. QED
        BY <1>6, <2>1, <2>2, <2>3, <2>4, <2>5
<1>7. CASE UNCHANGED vars
    BY <1>7 DEF vars, IInv, TypeOK, HeldKinds, OptionsRefs, NoLeak, Live, Free,
                Owned, Held
<1>8. QED
    BY <1>1, <1>2, <1>3, <1>4, <1>5, <1>6, <1>7, AddrAssumption DEF Next

LEMMA SpecIInv == Spec => []IInv
BY InitIInv, NextIInv, PTL DEF Spec

(* Type correctness of the heap model for every set of addresses.         *)
THEOREM TypeCorrect == Spec => []TypeOK
BY SpecIInv, PTL DEF IInv

(* HandlesLive for every set of addresses: no entry point hands out, or    *)
(* leaves the managed side holding, a handle whose object it deleted;      *)
(* optionsRelease deletes only the Options and its own cache and filter.   *)
THEOREM HandlesAlwaysLive == Spec => []HandlesLive
<1>1. IInv => HandlesLive
    BY DEF IInv, HeldKinds, HandleKinds, HandlesLive, TypeOK
<1>2. QED
    BY <1>1, SpecIInv, PTL

(* NoLeak for every set of addresses: get deletes its string on not-found  *)
(* and on an error, optionsRelease deletes the cache and the filter it     *)
(* owns, so every live native object stays reachable from the managed side.*)
THEOREM NeverLeaks == Spec => []NoLeak
BY SpecIInv, PTL DEF IInv

-----------------------------------------------------------------------------

(* A call that deletes the objects S of the released handle x, S being x   *)
(* or an Options with what it owns, frees nothing else.                    *)
LEMMA FreeOnlyReleased ==
    ASSUME TypeOK, NEW x \in held, NEW S \in SUBSET Addr,
           \/ S = {x}
           \/ x \in Held("options") /\ S = {x} \cup refs[x],
           FreeAll(S), held' = held \ {x}
    PROVE  FreesOnlyReleased
<1> SUFFICES ASSUME NEW a \in Live, kind'[a] = "free"
             PROVE  \/ a \in held \ held'
                    \/ \E o \in Held("options") \ held' : a \in refs[o]
    BY DEF FreesOnlyReleased
<1>1. a \in S
    BY DEF FreeAll, Live, Free
<1>2. x \in held \ held'
    OBVIOUS
<1>3. QED
    BY <1>1, <1>2 DEF Held

(* A call that only allocates at free addresses frees nothing.             *)
LEMMA NoneFreed ==
    ASSUME \A a \in Live : kind'[a] # "free"
    PROVE  FreesOnlyReleased
BY DEF FreesOnlyReleased

(* Allocating one object at a free address keeps every live one alive.     *)
LEMMA NewNoneFreed ==
    ASSUME TypeOK, NEW b \in Free, NEW k \in Kinds, NEW r, New(b, k, r)
    PROVE  \A a \in Live : kind'[a] # "free"
BY DEF New, TypeOK, Live, Free, Kinds

(* FreeOnRelease for every set of addresses: no entry point deletes an     *)
(* object the managed side still holds or still owns through an Options;   *)
(* dbRelease leaves the Options' cache and filter, which the DB only uses, *)
(* alive.                                                                  *)
THEOREM FreedOnlyOnRelease == Spec => FreeOnRelease
<1>1. TypeOK /\ [Next]_vars => [FreesOnlyReleased]_vars
    <2> SUFFICES ASSUME TypeOK, [Next]_vars PROVE FreesOnlyReleased
        OBVIOUS
    <2>1. CASE \E bits \in Bits : OptionsNew(bits)
        <3>1. \A a \in Live : kind'[a] # "free"
            BY <2>1 DEF OptionsNew, Live, Free, TypeOK
        <3>2. QED
            BY <3>1, NoneFreed
    <2>2. ASSUME NEW o \in Addr, OptionsRelease(o) PROVE FreesOnlyReleased
        <3>1. o \in held /\ o \in Held("options") /\ {o} \cup refs[o] \in SUBSET Addr
            BY <2>2 DEF OptionsRelease, Held, TypeOK
        <3>2. QED
            BY <2>2, <3>1, FreeOnlyReleased DEF OptionsRelease
    <2>3. ASSUME NEW o \in Addr, NEW repair \in BOOLEAN,
                 NEW first \in OpenStatus, NEW second \in OpenStatus,
                 NEW repaired \in RepairStatus,
                 DbOpen(o, repair, first, repaired, second)
          PROVE  FreesOnlyReleased
        <3> DEFINE st == DbOpenStatus(repair, first, repaired, second)
        <3>1. CASE st = "ok"
            <4>1. PICK d \in Free : New(d, "db", refs[o])
                BY <2>3, <3>1 DEF DbOpen
            <4>2. QED
                BY <4>1, NewNoneFreed, NoneFreed DEF Kinds
        <3>2. CASE st # "ok"
            BY <2>3, <3>2, NoneFreed DEF DbOpen, Live, Free
        <3>3. QED
            BY <3>1, <3>2
    <2>4. ASSUME NEW d \in Addr, NEW s \in Addr \cup {0}, NEW st \in GetStatus,
                 Get(d, s, st)
          PROVE  FreesOnlyReleased
        <3>1. PICK b \in Free :
                IF st = "ok" THEN New(b, "buffer", {}) ELSE UNCHANGED <<kind, refs>>
            BY <2>4 DEF Get
        <3>2. CASE st = "ok"
            BY <3>1, <3>2, NewNoneFreed, NoneFreed DEF Kinds
        <3>3. CASE st # "ok"
            BY <3>1, <3>3, NoneFreed DEF Live, Free
        <3>4. QED
            BY <3>2, <3>3
    <2>5. ASSUME NEW d \in Addr, NEW s \in Addr \cup {0},
                 IteratorNew(d, s) \/ SnapshotNew(d) \/ WriteBatchNew
          PROVE  FreesOnlyReleased
        <3>1. CASE IteratorNew(d, s)
            <4>1. PICK it \in Free : New(it, "iterator", {d})
                BY <3>1 DEF IteratorNew
            <4>2. QED
                BY <4>1, NewNoneFreed, NoneFreed DEF Kinds
        <3>2. CASE SnapshotNew(d)
            <4>1. PICK sn \in Free : New(sn, "snapshot", {d})
                BY <3>2 DEF SnapshotNew
            <4>2. QED
                BY <4>1, NewNoneFreed, NoneFreed DEF Kinds
        <3>3. CASE WriteBatchNew
            <4>1. PICK b \in Free : New(b, "batch", {})
                BY <3>3 DEF WriteBatchNew
            <4>2. QED
                BY <4>1, NewNoneFreed, NoneFreed DEF Kinds
        <3>4. QED
            BY <2>5, <3>1, <3>2, <3>3
    <2>6. ASSUME NEW x \in Addr, NEW d \in Addr,
                 DbRelease(x) \/ BufferRelease(x) \/ IteratorRelease(x)
                 \/ WriteBatchRelease(x) \/ SnapshotRelease(d, x)
          PROVE  FreesOnlyReleased
        <3>1. {x} \in SUBSET Addr
            OBVIOUS
        <3>2. CASE DbRelease(x)
            BY <3>1, <3>2, FreeOnlyReleased DEF DbRelease, Held
        <3>3. CASE BufferRelease(x)
            BY <3>1, <3>3, FreeOnlyReleased DEF BufferRelease, Held
        <3>4. CASE IteratorRelease(x)
            BY <3>1, <3>4, FreeOnlyReleased DEF IteratorRelease, Held
        <3>5. CASE WriteBatchRelease(x)
            BY <3>1, <3>5, FreeOnlyReleased DEF WriteBatchRelease, Held
        <3>6. CASE SnapshotRelease(d, x)
            BY <3>1, <3>6, FreeOnlyReleased DEF SnapshotRelease, Held
        <3>7. QED
            BY <2>6, <3>2, <3>3, <3>4, <3>5, <3>6
    <2>7. CASE UNCHANGED vars
        BY <2>7, NoneFreed DEF vars, Live, Free
    <2>8. QED
        BY <2>1, <2>2, <2>3, <2>4, <2>5, <2>6, <2>7, AddrAssumption DEF Next
<1>2. QED
    BY <1>1, TypeCorrect, PTL DEF Spec, FreeOnRelease

(* ThrowChangesNothing for every set of addresses: dbOpen throws only     *)
(* after every DB::Open and RepairDB attempt failed, with no DB handed     *)
(* out, and get deletes its std::string before it throws; every other      *)
(* entry point returns normally.                                           *)
THEOREM ThrowsChangeNothing == Spec => ThrowChangesNothing
<1> DEFINE Kept == raised' => UNCHANGED <<kind, refs, held>>
<1>1. [Next]_vars => [Kept]_vars
    <2> SUFFICES ASSUME Next, raised' PROVE UNCHANGED <<kind, refs, held>>
        OBVIOUS
    <2>1. CASE \E o \in Addr, repair \in BOOLEAN, first, second \in OpenStatus,
                  repaired \in RepairStatus :
                  DbOpen(o, repair, first, repaired, second)
        BY <2>1 DEF DbOpen
    <2>2. CASE \E d \in Addr, s \in Addr \cup {0}, st \in GetStatus : Get(d, s, st)
        BY <2>2 DEF Get
    <2>3. CASE ~(\/ \E o \in Addr, repair \in BOOLEAN, first, second \in OpenStatus,
                     repaired \in RepairStatus :
                     DbOpen(o, repair, first, repaired, second)
                \/ \E d \in Addr, s \in Addr \cup {0}, st \in GetStatus : Get(d, s, st))
        <3>1. ~raised'
            BY <2>3 DEF Next, OptionsNew, OptionsRelease, DbRelease, SnapshotNew,
                       IteratorNew, SnapshotRelease, BufferRelease,
                       IteratorRelease, WriteBatchRelease, WriteBatchNew
        <3>2. QED
            BY <3>1
    <2>4. QED
        BY <2>1, <2>2, <2>3
<1>2. QED
    BY <1>1, PTL DEF Spec, ThrowChangesNothing

====
