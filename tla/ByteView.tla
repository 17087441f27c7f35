------------------------------ MODULE ByteView ------------------------------
(***************************************************************************)
(* The byte views of the JNI bridge (class Bytes of leveldb-jni.cc) around *)
(* one native call that takes byte arguments.                              *)
(*                                                                         *)
(* A key or value argument is either a direct buffer (its address is read  *)
(* with GetDirectBufferAddress, nothing is released) or a slice of a Java  *)
(* byte array, pinned with GetByteArrayElements ("sync" mode) or           *)
(* GetPrimitiveArrayCritical ("crit" mode) and released by ~Bytes with     *)
(* JNI_ABORT.  Between GetPrimitiveArrayCritical and its release the JNI   *)
(* contract forbids every other JNI call on that thread.                   *)
(*                                                                         *)
(* A call goes through: Start (the entry point is entered), one Acquire    *)
(* per Bytes object in construction order, Call (the engine operation and  *)
(* CHECK_STATUS, which may throw), Exit (the destructors run).  The        *)
(* counters acq and rel count the JNI get and release calls made for each  *)
(* argument's memory.                                                      *)
(*                                                                         *)
(* ElideMoves says whether the build elides the move of a Bytes temporary  *)
(* into a local or a by-value parameter (guaranteed from C++17 on).  When  *)
(* it does not, the move constructor of Bytes runs; it leaves the source   *)
(* owning the array, whose destructor releases it at the end of the full   *)
(* expression: for a local, at the end of its declaration, before the      *)
(* engine is called; for a parameter, after the called helper returned.    *)
(***************************************************************************)
EXTENDS Naturals, Sequences, FiniteSets

CONSTANT ElideMoves

ASSUME ElideMovesAssumption == ElideMoves \in BOOLEAN

VARIABLES
    pc,        \* "idle", "acquire", "call" or "exit"
    call,      \* the JNI entry point being run, "none" before the first one
    syncFlag,  \* the jboolean sync argument of put and delete
    todo,      \* the Bytes objects still to construct, in construction order
    acq,       \* acq[a]: JNI calls that obtained argument a's memory
    rel,       \* rel[a]: JNI calls that released argument a's memory
    status,    \* the engine status of the call
    exc        \* a Java exception is pending on the thread

vars == <<pc, call, syncFlag, todo, acq, rel, status, exc>>

Args == {"key", "value"}

(* The entry points that take byte arguments: B is a direct buffer, A a    *)
(* region of a byte array.                                                 *)
PutCalls   == {"putBB", "putAB", "putBA", "putAA"}
DelCalls   == {"deleteB", "deleteA"}
GetCalls   == {"getB", "getA"}
SeekCalls  == {"seekB", "seekA"}
WbPutCalls == {"wbPutBB", "wbPutAB", "wbPutBA", "wbPutAA"}
WbDelCalls == {"wbDeleteB", "wbDeleteA"}
Calls == PutCalls \cup DelCalls \cup GetCalls \cup SeekCalls
           \cup WbPutCalls \cup WbDelCalls

Status == {"ok", "notfound", "error"}

(* The arguments of an entry point. *)
ArgsOf(c) == IF c \in PutCalls \cup WbPutCalls THEN Args
             ELSE IF c = "none" THEN {} ELSE {"key"}

(* The arguments that are byte arrays (the A in the entry point's name).  *)
ArrayArgs(c) ==
    IF c \in {"putAA", "wbPutAA"} THEN Args
    ELSE IF c \in {"putAB", "wbPutAB", "deleteA", "getA", "seekA", "wbDeleteA"}
         THEN {"key"}
    ELSE IF c \in {"putBA", "wbPutBA"} THEN {"value"}
    ELSE {}

(* The macros BytesA/BytesB pass put's and delete's durability flag as the *)
(* access mode, the _S variants (get, seek) ask for GetByteArrayElements   *)
(* and the _A variants (write batch) for GetPrimitiveArrayCritical.        *)
Mode(c, s) ==
    IF c \in PutCalls \cup DelCalls THEN IF s THEN "sync" ELSE "crit"
    ELSE IF c \in GetCalls \cup SeekCalls THEN "sync"
    ELSE "crit"

(* The sync flags an entry point can be called with.                       *)
SyncFlags(c) == IF c \in PutCalls \cup DelCalls THEN BOOLEAN ELSE {FALSE}

(* Variant of Orders with the array of a mixed put pinned first, the      *)
(* order the "Order matters!" comments warn against.                       *)
OrdersArrayFirst(c) ==
    IF c \in {"putAB", "wbPutAB"} THEN {<<"key", "value">>}
    ELSE IF c \in {"putBA", "wbPutBA"} THEN {<<"value", "key">>}
    ELSE IF c \in {"putBB", "putAA", "wbPutBB", "wbPutAA"}
         THEN {<<"key", "value">>, <<"value", "key">>}
    ELSE {<<"key">>}

(* Variant of Orders with a copy-paste slip in putAA: BytesA(key) twice.   *)
OrdersKeyTwice(c) ==
    IF c \in {"putAB", "wbPutAB"} THEN {<<"value", "key">>}
    ELSE IF c \in {"putBA", "wbPutBA"} THEN {<<"key", "value">>}
    ELSE IF c = "putAA" THEN {<<"key", "key">>}
    ELSE IF c \in {"putBB", "wbPutBB", "wbPutAA"}
         THEN {<<"key", "value">>, <<"value", "key">>}
    ELSE {<<"key">>}

(* The construction orders of the Bytes objects.  The mixed entry points   *)
(* construct them as locals, the direct buffer first ("Order matters!");   *)
(* the others construct both as arguments of one call, whose evaluation    *)
(* order C++ leaves unspecified.                                           *)
Orders(c) ==
    IF c \in {"putAB", "wbPutAB"} THEN {<<"value", "key">>}
    ELSE IF c \in {"putBA", "wbPutBA"} THEN {<<"key", "value">>}
    ELSE IF c \in {"putBB", "putAA", "wbPutBB", "wbPutAA"}
         THEN {<<"key", "value">>, <<"value", "key">>}
    ELSE {<<"key">>}

(* The Bytes objects are locals initialised from a temporary              *)
(* (auto x = Bytes..) and passed on with std::move to a Bytes&&.          *)
LocalTemp(c) == c \in {"putAB", "putBA", "wbPutAB", "wbPutBA"}

(* The Bytes object is a temporary moved into a by-value parameter (the    *)
(* helpers of delete, get, seek and batch delete).  Put and batch put of   *)
(* two arrays or two buffers bind the temporaries to a Bytes&&: no move.   *)
ParamTemp(c) == c \in DelCalls \cup GetCalls \cup SeekCalls \cup WbDelCalls

(* The engine statuses a call can end with: a write batch append cannot   *)
(* fail, only Get reports not-found.                                       *)
Outcomes(c) ==
    IF c \in WbPutCalls \cup WbDelCalls THEN {"ok"}
    ELSE IF c \in GetCalls THEN Status
    ELSE {"ok", "error"}

(* CHECK_STATUS, and LevelDBJNI_Get which lets not-found through, throw a  *)
(* LevelDBException exactly on an error status.                            *)
Raises(st) == st = "error"

-----------------------------------------------------------------------------

Init ==
    /\ pc = "idle"
    /\ call = "none"
    /\ syncFlag = FALSE
    /\ todo = <<>>
    /\ acq = [a \in Args |-> 0]
    /\ rel = [a \in Args |-> 0]
    /\ status = "ok"
    /\ exc = FALSE

(* The managed side calls entry point c with durability flag s.            *)
Start(c, s) ==
    /\ pc = "idle"
    /\ pc' = "acquire"
    /\ call' = c
    /\ syncFlag' = s
    /\ todo' \in Orders(c)
    /\ acq' = [a \in Args |-> 0]
    /\ rel' = [a \in Args |-> 0]
    /\ status' = "ok"
    /\ exc' = FALSE

(* Variant of TempReleased for locals written auto key =                   *)
(* std::move(BytesA(key)): the move of the materialised temporary is never *)
(* elided, whatever the standard.                                          *)
TempReleasedPessimized(c, a) == LocalTemp(c) /\ a \in ArrayArgs(c)

(* A local's temporary that was not elided is destroyed at the end of the  *)
(* declaration and releases the array the local still points into.         *)
TempReleased(c, a) == LocalTemp(c) /\ ~ElideMoves /\ a \in ArrayArgs(c)

(* The releases ~Bytes makes for a pinned array when the entry point       *)
(* returns: the parameter's and, when its move was not elided, the         *)
(* temporary's at the end of the calling full expression.                  *)
ExitReleases(c, a) == IF ParamTemp(c) /\ ~ElideMoves THEN 2 ELSE 1

(* A Bytes object is constructed: the array is pinned (or the buffer's     *)
(* address read); a local's non-elided temporary is then destroyed, which  *)
(* releases the array the local still points into.                         *)
Acquire ==
    LET a == Head(todo) IN
    /\ pc = "acquire"
    /\ todo # <<>>
    /\ acq' = [acq EXCEPT ![a] = @ + 1]
    /\ rel' = [rel EXCEPT ![a] = @ + (IF TempReleased(call, a) THEN 1 ELSE 0)]
    /\ todo' = Tail(todo)
    /\ pc' = IF Tail(todo) = <<>> THEN "call" ELSE "acquire"
    /\ UNCHANGED <<call, syncFlag, status, exc>>

(* The engine operation on the slices, then CHECK_STATUS.                  *)
Call ==
    /\ pc = "call"
    /\ status' \in Outcomes(call)
    /\ exc' = Raises(status')
    /\ pc' = "exit"
    /\ UNCHANGED <<call, syncFlag, todo, acq, rel>>

(* Variant of Exit that releases the arrays only on the success path, as a *)
(* manual release placed after CHECK_STATUS's early return would.          *)
ExitOnSuccess ==
    /\ pc = "exit"
    /\ rel' = [a \in Args |-> IF a \in ArrayArgs(call) /\ acq[a] > 0 /\ ~exc
                              THEN rel[a] + ExitReleases(call, a) ELSE rel[a]]
    /\ pc' = "idle"
    /\ UNCHANGED <<call, syncFlag, todo, acq, status, exc>>

(* The entry point returns: ~Bytes runs for every object and releases the  *)
(* arrays it pinned (a direct buffer has env == nullptr and is skipped).   *)
Exit ==
    /\ pc = "exit"
    /\ rel' = [a \in Args |-> IF a \in ArrayArgs(call) /\ acq[a] > 0
                              THEN rel[a] + ExitReleases(call, a) ELSE rel[a]]
    /\ pc' = "idle"
    /\ UNCHANGED <<call, syncFlag, todo, acq, status, exc>>

Next ==
    \/ \E c \in Calls, s \in BOOLEAN : s \in SyncFlags(c) /\ Start(c, s)
    \/ Acquire
    \/ Call
    \/ Exit

Spec == Init /\ [][Next]_vars

-----------------------------------------------------------------------------

TypeOK ==
    /\ pc \in {"idle", "acquire", "call", "exit"}
    /\ call \in Calls \cup {"none"}
    /\ syncFlag \in BOOLEAN
    /\ todo \in Seq(Args)
    /\ acq \in [Args -> 0..1]
    /\ rel \in [Args -> 0..2]
    /\ status \in Status
    /\ exc \in BOOLEAN

(* The arguments of the current call pinned in critical mode and not yet   *)
(* released.                                                               *)
Critical ==
    {a \in ArrayArgs(call) : Mode(call, syncFlag) = "crit" /\ acq[a] > rel[a]}

(* A step that makes a JNI call other than GetPrimitiveArrayCritical to    *)
(* obtain an argument: GetDirectBufferAddress or GetByteArrayElements.     *)
LookupStep ==
    \E a \in Args :
        /\ acq'[a] > acq[a]
        /\ a \notin ArrayArgs(call) \/ Mode(call, syncFlag) = "sync"

(* A step that throws a Java exception (JNIEnv::ThrowNew).                 *)
ThrowStep == ~exc /\ exc'

(* The "Order matters!" rule of the mixed put entry points: no argument is *)
(* obtained by a JNI call other than GetPrimitiveArrayCritical while the   *)
(* thread is inside a critical region.                                     *)
NoLookupInCritical == [][LookupStep => Critical = {}]_vars

(* Spec 4.1: critical mode is only used where the call cannot raise; no    *)
(* exception is thrown while a critical region is open.                    *)
NoThrowInCritical == [][ThrowStep => Critical = {}]_vars

(* Spec 3 "Byte View": when the engine is called, every argument's memory  *)
(* is still held by its Bytes object: none was released before the call.   *)
ViewsLiveAtCall ==
    pc = "call" => \A a \in ArgsOf(call) : acq[a] = 1 /\ rel[a] = 0

(* Spec 5 "Resource discipline": once the entry point has returned, every  *)
(* pinned array was released exactly once, on the error path too, and no  *)
(* direct buffer was released.                                             *)
ViewsReleasedOnce ==
    pc = "idle" =>
        \A a \in Args : rel[a] = IF a \in ArrayArgs(call) THEN acq[a] ELSE 0

=============================================================================
