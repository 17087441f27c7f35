--------------------------- MODULE ByteViewProofs ---------------------------
(***************************************************************************)
(* Proofs about ByteView for every build (ElideMoves TRUE or FALSE): the   *)
(* type invariant, the "Order matters!" property of the mixed put entry    *)
(* points, and, for a build that elides moves, that every pinned array is  *)
(* released exactly once.                                                  *)
(***************************************************************************)
EXTENDS ByteView, TLAPS

(* The arguments still to construct were not obtained yet, and appear once *)
TodoFresh ==
    /\ \A i \in 1..Len(todo) : acq[todo[i]] = 0
    /\ \A i, j \in 1..Len(todo) : i # j => todo[i] # todo[j]

(* Inside a call no argument was released more often than obtained.        *)
RelBounded == pc # "idle" => \A a \in Args : rel[a] <= acq[a]

(* The remaining construction order puts no direct buffer after an array.  *)
ArraysLast ==
    \A i, j \in 1..Len(todo) :
        i < j /\ todo[i] \in ArrayArgs(call) => todo[j] \in ArrayArgs(call)

(* While a direct buffer is still to construct, no array is pinned.        *)
DirectFirst ==
    \A i \in 1..Len(todo) :
        todo[i] \notin ArrayArgs(call) => \A a \in ArrayArgs(call) : acq[a] = 0

(* A Bytes parameter is released only when the entry point returns.       *)
ParamsUnreleased == pc # "idle" /\ ParamTemp(call) => \A a \in Args : rel[a] = 0

(* The inductive invariant behind TypeOK and NoLookupInCritical.           *)
IInv == TypeOK /\ TodoFresh /\ RelBounded /\ ParamsUnreleased /\ ArraysLast
        /\ DirectFirst

-----------------------------------------------------------------------------

(* The orders of two distinct arguments are sequences of distinct ones.   *)
LEMMA PairFacts ==
    ASSUME NEW x \in Args, NEW y \in Args, x # y
    PROVE  /\ <<x, y>> \in Seq(Args)
           /\ \A i, j \in 1..Len(<<x, y>>) : i # j => <<x, y>>[i] # <<x, y>>[j]
OBVIOUS

(* Every construction order lists distinct arguments, the arrays last.     *)
LEMMA OrdersFacts ==
    ASSUME NEW c \in Calls, NEW o \in Orders(c)
    PROVE  /\ o \in Seq(Args)
           /\ \A i, j \in 1..Len(o) : i # j => o[i] # o[j]
           /\ \A i, j \in 1..Len(o) :
                 i < j /\ o[i] \in ArrayArgs(c) => o[j] \in ArrayArgs(c)
<1>1. "key" \in Args /\ "value" \in Args /\ "key" # "value"
    BY DEF Args
<1>2. CASE c \in {"putAB", "wbPutAB"}
    <2>1. o = <<"value", "key">> /\ ArrayArgs(c) = {"key"}
        BY <1>2 DEF Orders, ArrayArgs
    <2>2. QED
        BY <1>1, <2>1, PairFacts
<1>3. CASE c \in {"putBA", "wbPutBA"}
    <2>1. o = <<"key", "value">> /\ ArrayArgs(c) = {"value"}
        BY <1>3 DEF Orders, ArrayArgs
    <2>2. QED
        BY <1>1, <2>1, PairFacts
<1>4. CASE c \in {"putBB", "wbPutBB"}
    <2>1. o \in {<<"key", "value">>, <<"value", "key">>} /\ ArrayArgs(c) = {}
        BY <1>4 DEF Orders, ArrayArgs
    <2>2. CASE o = <<"key", "value">>
        BY <1>1, <2>1, <2>2, PairFacts
    <2>3. CASE o = <<"value", "key">>
        BY <1>1, <2>1, <2>3, PairFacts
    <2>4. QED
        BY <2>1, <2>2, <2>3
<1>5. CASE c \in {"putAA", "wbPutAA"}
    <2>1. o \in {<<"key", "value">>, <<"value", "key">>} /\ ArrayArgs(c) = Args
        BY <1>5 DEF Orders, ArrayArgs
    <2>2. CASE o = <<"key", "value">>
        BY <1>1, <2>1, <2>2, PairFacts
    <2>3. CASE o = <<"value", "key">>
        BY <1>1, <2>1, <2>3, PairFacts
    <2>4. QED
        BY <2>1, <2>2, <2>3
<1>6. CASE c \notin {"putAB", "wbPutAB", "putBA", "wbPutBA", "putBB", "wbPutBB",
                     "putAA", "wbPutAA"}
    <2>1. o = <<"key">>
        BY <1>6 DEF Orders
    <2>2. QED
        BY <1>1, <2>1
<1>7. QED
    BY <1>2, <1>3, <1>4, <1>5, <1>6

(* The array arguments of an entry point are arguments.                   *)
LEMMA ArrayArgsType == \A c : ArrayArgs(c) \subseteq Args
BY DEF ArrayArgs, Args

(* The statuses a call can end with are statuses.                          *)
LEMMA OutcomesType == \A c : Outcomes(c) \subseteq Status
BY DEF Outcomes, Status

LEMMA InitIInv == Init => IInv
<1> SUFFICES ASSUME Init PROVE IInv
    OBVIOUS
<1>1. TypeOK
    <2>1. <<>> \in Seq(Args)
        OBVIOUS
    <2>2. /\ [a \in Args |-> 0] \in [Args -> 0..1]
          /\ [a \in Args |-> 0] \in [Args -> 0..2]
        OBVIOUS
    <2>3. "ok" \in Status
        BY DEF Status
    <2>4. QED
        BY <2>1, <2>2, <2>3 DEF Init, TypeOK
<1>2. TodoFresh /\ RelBounded /\ ParamsUnreleased /\ ArraysLast /\ DirectFirst
    BY DEF Init, TodoFresh, RelBounded, ParamsUnreleased, ArraysLast, DirectFirst
<1>3. QED
    BY <1>1, <1>2 DEF IInv

LEMMA NextIInv == IInv /\ [Next]_vars => IInv'
<1> SUFFICES ASSUME IInv, [Next]_vars PROVE IInv'
    OBVIOUS
<1> USE DEF IInv
<1>1. ASSUME NEW c \in Calls, NEW s \in BOOLEAN, Start(c, s) PROVE IInv'
    <2>1. todo' \in Orders(c)
        BY <1>1 DEF Start
    <2>2. /\ todo' \in Seq(Args)
          /\ \A i, j \in 1..Len(todo') : i # j => todo'[i] # todo'[j]
          /\ \A i, j \in 1..Len(todo') :
               i < j /\ todo'[i] \in ArrayArgs(c) => todo'[j] \in ArrayArgs(c)
        BY <2>1, OrdersFacts
    <2>3. /\ acq' = [a \in Args |-> 0] /\ rel' = [a \in Args |-> 0]
          /\ call' = c /\ syncFlag' = s /\ status' = "ok" /\ exc' = FALSE
          /\ pc' = "acquire"
        BY <1>1 DEF Start
    <2>4. TypeOK'
        <3>1. /\ pc' \in {"idle", "acquire", "call", "exit"}
              /\ call' \in Calls \cup {"none"}
              /\ syncFlag' \in BOOLEAN /\ exc' \in BOOLEAN
              /\ status' \in Status
            BY <2>3 DEF Status
        <3>2. acq' \in [Args -> 0..1] /\ rel' \in [Args -> 0..2]
            BY <2>3
        <3>3. QED
            BY <3>1, <3>2, <2>2 DEF TypeOK
    <2>5. TodoFresh' /\ RelBounded' /\ ParamsUnreleased'
        BY <2>2, <2>3 DEF TodoFresh, RelBounded, ParamsUnreleased
    <2>6. ArraysLast'
        BY <2>2, <2>3 DEF ArraysLast
    <2>7. DirectFirst'
        BY <2>3, ArrayArgsType DEF DirectFirst
    <2>8. QED
        BY <2>4, <2>5, <2>6, <2>7
<1>2. CASE Acquire
    <2> DEFINE h == Head(todo)
    <2>1. /\ pc = "acquire" /\ todo # <<>> /\ todo \in Seq(Args)
          /\ todo' = Tail(todo) /\ UNCHANGED <<call, syncFlag, status, exc>>
          /\ acq' = [acq EXCEPT ![h] = @ + 1]
          /\ rel' = [rel EXCEPT ![h] = @ + (IF TempReleased(call, h) THEN 1 ELSE 0)]
          /\ pc' \in {"acquire", "call"}
        BY <1>2 DEF Acquire, TypeOK
    <2>2. /\ h \in Args /\ h = todo[1] /\ acq[h] = 0 /\ rel[h] = 0
          /\ Len(todo') = Len(todo) - 1
          /\ \A i \in 1..Len(todo') : todo'[i] = todo[i + 1] /\ todo'[i] # h
        BY <2>1 DEF TodoFresh, RelBounded, TypeOK
    <2>3. TypeOK'
        BY <2>1, <2>2 DEF TypeOK
    <2>4. TodoFresh'
        BY <2>1, <2>2 DEF TodoFresh, TypeOK
    <2>5. RelBounded'
        BY <2>1, <2>2 DEF RelBounded, TypeOK
    <2>9. ParamsUnreleased'
        <3>1. ParamTemp(call) => ~TempReleased(call, h)
            BY DEF ParamTemp, TempReleased, LocalTemp, DelCalls, GetCalls,
                   SeekCalls, WbDelCalls
        <3>2. QED
            BY <2>1, <2>2, <3>1 DEF ParamsUnreleased, TypeOK
    <2>6. ArraysLast'
        BY <2>1, <2>2 DEF ArraysLast
    <2>7. DirectFirst'
        <3> SUFFICES ASSUME NEW i \in 1..Len(todo'), todo'[i] \notin ArrayArgs(call),
                            NEW a \in ArrayArgs(call)
                     PROVE  acq'[a] = 0
            BY <2>1 DEF DirectFirst
        <3>1. todo[i + 1] \notin ArrayArgs(call) /\ i + 1 \in 1..Len(todo)
            BY <2>2
        <3>2. h \notin ArrayArgs(call)
            BY <3>1, <2>2 DEF ArraysLast
        <3>3. acq[a] = 0
            BY <3>1 DEF DirectFirst
        <3>4. QED
            BY <3>2, <3>3, <2>1, <2>2 DEF TypeOK
    <2>8. QED
        BY <2>3, <2>4, <2>5, <2>6, <2>7, <2>9
<1>3. CASE Call
    BY <1>3, OutcomesType
    DEF Call, Raises, TypeOK, TodoFresh, RelBounded, ParamsUnreleased,
        ArraysLast, DirectFirst
<1>4. CASE Exit
    <2>1. pc = "exit" /\ pc' = "idle" /\ UNCHANGED <<call, todo, acq>>
        BY <1>4 DEF Exit
    <2>2. \A a \in Args : rel[a] + ExitReleases(call, a) \in 0..2
        BY <2>1 DEF RelBounded, ParamsUnreleased, ExitReleases, TypeOK
    <2>3. TypeOK'
        BY <1>4, <2>2 DEF Exit, TypeOK
    <2>4. QED
        BY <2>1, <2>3 DEF TodoFresh, RelBounded, ParamsUnreleased, ArraysLast,
                          DirectFirst
<1>5. CASE UNCHANGED vars
    BY <1>5 DEF vars, TypeOK, TodoFresh, RelBounded, ParamsUnreleased,
                ArraysLast, DirectFirst
<1>6. QED
    BY <1>1, <1>2, <1>3, <1>4, <1>5 DEF Next

LEMMA SpecIInv == Spec => []IInv
BY InitIInv, NextIInv, PTL DEF Spec

(* ByteView's type invariant holds in every reachable state.              *)
THEOREM TypeCorrect == Spec => []TypeOK
BY SpecIInv, PTL DEF IInv

(* A step that obtains an argument by a JNI call other than               *)
(* GetPrimitiveArrayCritical is one of the Bytes constructors of the call: *)
(* it obtains the head of the construction order.                         *)
LEMMA LookupIsAcquire ==
    ASSUME IInv, [Next]_vars, LookupStep
    PROVE  /\ Acquire
           /\ \/ Head(todo) \notin ArrayArgs(call)
              \/ Mode(call, syncFlag) = "sync"
<1>1. PICK a \in Args :
        /\ acq'[a] > acq[a]
        /\ a \notin ArrayArgs(call) \/ Mode(call, syncFlag) = "sync"
    BY DEF LookupStep
<1>2. acq[a] \in 0..1
    BY DEF IInv, TypeOK
<1>3. ~ UNCHANGED vars /\ ~ Call /\ ~ Exit
    <2>1. ~ UNCHANGED vars
        BY <1>1, <1>2 DEF vars
    <2>2. ~ Call
        BY <1>1, <1>2 DEF Call
    <2>3. ~ Exit
        BY <1>1, <1>2 DEF Exit
    <2>4. QED
        BY <2>1, <2>2, <2>3
<1>4. ASSUME NEW c \in Calls, NEW s \in BOOLEAN, Start(c, s) PROVE FALSE
    BY <1>1, <1>2, <1>4 DEF Start
<1>5. Acquire
    BY <1>3, <1>4 DEF Next
<1>6. a = Head(todo)
    <2>1. SUFFICES ASSUME a # Head(todo) PROVE FALSE
        OBVIOUS
    <2>2. acq'[a] = acq[a]
        BY <1>5, <2>1 DEF Acquire
    <2>3. QED
        BY <1>1, <1>2, <2>2
<1>7. QED
    BY <1>1, <1>5, <1>6

(* NoLookupInCritical for every build: the "Order matters!" construction   *)
(* order of putAB/putBA and writeBatchPutAB/BA reads a direct buffer's     *)
(* address before the array is pinned, so no JNI call is made inside the   *)
(* critical region.                                                        *)
THEOREM OrderMatters == Spec => NoLookupInCritical
<1>1. IInv /\ [Next]_vars => [LookupStep => Critical = {}]_vars
    <2> SUFFICES ASSUME IInv, [Next]_vars, LookupStep PROVE Critical = {}
        OBVIOUS
    <2>1. /\ Acquire
          /\ Head(todo) \notin ArrayArgs(call) \/ Mode(call, syncFlag) = "sync"
        BY LookupIsAcquire
    <2>2. CASE Mode(call, syncFlag) = "sync"
        BY <2>2 DEF Critical
    <2>3. CASE Head(todo) \notin ArrayArgs(call)
        <3>1. todo # <<>> /\ todo \in Seq(Args)
            BY <2>1 DEF Acquire, IInv, TypeOK
        <3>2. \A a \in ArrayArgs(call) : acq[a] = 0
            BY <2>3, <3>1 DEF IInv, DirectFirst
        <3>3. \A a \in ArrayArgs(call) : rel[a] \in Nat
            BY ArrayArgsType DEF IInv, TypeOK
        <3>4. QED
            BY <3>2, <3>3 DEF Critical
    <2>8. QED
        BY <2>1, <2>2, <2>3
<1>2. QED
    BY <1>1, SpecIInv, PTL DEF Spec, NoLookupInCritical

(* In a build that elides moves, no argument is released inside a call.   *)
RelZero == pc # "idle" => \A a \in Args : rel[a] = 0

(* In a build that elides moves, RelZero and ViewsReleasedOnce hold        *)
(* together in every reachable state.                                     *)
LEMMA ReleasedKept ==
    ASSUME ElideMoves
    PROVE  Spec => [](RelZero /\ ViewsReleasedOnce)
<1> DEFINE RInv == RelZero /\ ViewsReleasedOnce
<1>1. Init => RInv
    BY DEF Init, RelZero, ViewsReleasedOnce, ArrayArgs
<1>2. IInv /\ RInv /\ [Next]_vars => RInv'
    <2> SUFFICES ASSUME IInv, RInv, [Next]_vars PROVE RInv'
        OBVIOUS
    <2>1. ASSUME NEW c \in Calls, NEW s \in BOOLEAN, Start(c, s) PROVE RInv'
        BY <2>1 DEF Start, RelZero, ViewsReleasedOnce
    <2>2. CASE Acquire
        <3>1. ~TempReleased(call, Head(todo))
            BY DEF TempReleased
        <3>2. pc' # "idle" /\ pc # "idle" /\ rel' = rel
            BY <2>2, <3>1 DEF Acquire, IInv, TypeOK
        <3>3. QED
            BY <3>2 DEF RelZero, ViewsReleasedOnce
    <2>3. CASE Call
        BY <2>3 DEF Call, RelZero, ViewsReleasedOnce
    <2>4. CASE Exit
        <3>1. pc = "exit" /\ pc' = "idle" /\ call' = call /\ acq' = acq
            BY <2>4 DEF Exit
        <3>2. \A a \in Args : rel[a] = 0 /\ acq[a] \in 0..1
            BY <3>1 DEF RelZero, IInv, TypeOK
        <3>3. \A a \in Args :
                 rel'[a] = IF a \in ArrayArgs(call) /\ acq[a] > 0 THEN 1 ELSE 0
            BY <2>4, <3>2 DEF Exit, ExitReleases
        <3>4. QED
            BY <3>1, <3>2, <3>3 DEF RelZero, ViewsReleasedOnce
    <2>5. CASE UNCHANGED vars
        BY <2>5 DEF vars, RelZero, ViewsReleasedOnce
    <2>6. QED
        BY <2>1, <2>2, <2>3, <2>4, <2>5 DEF Next
<1>3. QED
    BY <1>1, <1>2, InitIInv, NextIInv, PTL DEF Spec

(* ViewsReleasedOnce for a build that elides the moves of Bytes           *)
(* temporaries: when an entry point returns, ~Bytes has released each     *)
(* pinned array exactly once, on the error path as well, and no direct    *)
(* buffer.                                                                 *)
THEOREM ReleasedOnce ==
    ASSUME ElideMoves
    PROVE  Spec => []ViewsReleasedOnce
BY ReleasedKept, PTL

-----------------------------------------------------------------------------

(* An argument is still to be constructed.                                 *)
InTodo(a) == \E i \in 1..Len(todo) : todo[i] = a

(* Inside a call, an argument has been obtained exactly when its Bytes     *)
(* object is no longer to be constructed.                                  *)
Acquired ==
    pc # "idle" => \A a \in ArgsOf(call) : acq[a] = IF InTodo(a) THEN 0 ELSE 1

(* The engine is called once the construction order is exhausted.          *)
CallReady ==
    /\ pc = "acquire" => todo # <<>>
    /\ pc \in {"call", "exit"} => todo = <<>>

(* A construction order lists every argument of its entry point.           *)
LEMMA OrdersCover ==
    ASSUME NEW c \in Calls, NEW o \in Orders(c)
    PROVE  /\ o # <<>>
           /\ \A a \in ArgsOf(c) : \E i \in 1..Len(o) : o[i] = a
<1>1. CASE c \in PutCalls \cup WbPutCalls
    <2>1. o \in {<<"key", "value">>, <<"value", "key">>} /\ ArgsOf(c) = Args
        BY <1>1 DEF Orders, ArgsOf, PutCalls, WbPutCalls
    <2>2. QED
        BY <2>1 DEF Args
<1>2. CASE c \notin PutCalls \cup WbPutCalls
    <2>1. o = <<"key">>
        BY <1>2 DEF Orders, PutCalls, WbPutCalls
    <2>2. c # "none"
        BY DEF Calls, PutCalls, DelCalls, GetCalls, SeekCalls, WbPutCalls,
               WbDelCalls
    <2>3. ArgsOf(c) = {"key"}
        BY <1>2, <2>2 DEF ArgsOf
    <2>4. QED
        BY <2>1, <2>3
<1>3. QED
    BY <1>1, <1>2

LEMMA AcquiredKept == Spec => [](Acquired /\ CallReady)
<1> DEFINE AInv == Acquired /\ CallReady
<1>1. Init => AInv
    BY DEF Init, Acquired, CallReady
<1>2. IInv /\ AInv /\ [Next]_vars => AInv'
    <2> SUFFICES ASSUME IInv, AInv, [Next]_vars PROVE AInv'
        OBVIOUS
    <2>1. ASSUME NEW c \in Calls, NEW s \in BOOLEAN, Start(c, s) PROVE AInv'
        <3>1. todo' \in Orders(c) /\ call' = c /\ pc' = "acquire"
              /\ acq' = [a \in Args |-> 0]
            BY <2>1 DEF Start
        <3>2. /\ todo' # <<>>
              /\ \A a \in ArgsOf(c) : \E i \in 1..Len(todo') : todo'[i] = a
            BY <3>1, OrdersCover
        <3>3. ArgsOf(c) \subseteq Args
            BY DEF ArgsOf, Args
        <3>4. QED
            BY <3>1, <3>2, <3>3 DEF Acquired, CallReady, InTodo
    <2>2. CASE Acquire
        <3> DEFINE h == Head(todo)
        <3>1. /\ pc = "acquire" /\ todo # <<>> /\ todo \in Seq(Args)
              /\ todo' = Tail(todo) /\ call' = call
              /\ acq' = [acq EXCEPT ![h] = @ + 1]
              /\ pc' = IF Tail(todo) = <<>> THEN "call" ELSE "acquire"
            BY <2>2 DEF Acquire, IInv, TypeOK
        <3>2. /\ h \in Args /\ h = todo[1] /\ acq[h] = 0
              /\ \A i \in 1..Len(todo') : todo'[i] = todo[i + 1] /\ todo'[i] # h
              /\ Len(todo') = Len(todo) - 1
            BY <3>1 DEF IInv, TodoFresh, TypeOK
        <3>3. \A a \in Args : a # h => (InTodo(a)' <=> InTodo(a))
            <4> SUFFICES ASSUME NEW a \in Args, a # h
                         PROVE  InTodo(a)' <=> InTodo(a)
                OBVIOUS
            <4>1. InTodo(a) => InTodo(a)'
                <5> SUFFICES ASSUME NEW i \in 1..Len(todo), todo[i] = a
                             PROVE  InTodo(a)'
                    BY DEF InTodo
                <5>1. i # 1
                    BY <3>2
                <5>2. i - 1 \in 1..Len(todo') /\ todo'[i - 1] = todo[i]
                    BY <5>1, <3>2
                <5>3. QED
                    BY <5>2 DEF InTodo
            <4>2. InTodo(a)' => InTodo(a)
                BY <3>2 DEF InTodo
            <4>3. QED
                BY <4>1, <4>2
        <3>4. /\ ~\E i \in 1..Len(todo') : todo'[i] = h
              /\ acq'[h] = 1
            BY <3>1, <3>2 DEF IInv, TypeOK
        <3>5. \A a \in Args : a # h => acq'[a] = acq[a]
            BY <3>1 DEF IInv, TypeOK
        <3>6. Acquired'
            <4> SUFFICES ASSUME NEW a \in ArgsOf(call)
                         PROVE  acq'[a] = IF InTodo(a)' THEN 0 ELSE 1
                BY <3>1 DEF Acquired
            <4>1. a \in Args
                BY DEF ArgsOf, Args
            <4>2. CASE a = h
                BY <4>2, <3>4 DEF InTodo
            <4>3. CASE a # h
                BY <4>1, <4>3, <3>1, <3>3, <3>5 DEF Acquired
            <4>4. QED
                BY <4>2, <4>3
        <3>7. CallReady'
            BY <3>1 DEF CallReady
        <3>8. QED
            BY <3>6, <3>7
    <2>3. CASE Call
        BY <2>3 DEF Call, Acquired, CallReady, InTodo
    <2>4. CASE Exit
        BY <2>4 DEF Exit, Acquired, CallReady
    <2>5. CASE UNCHANGED vars
        BY <2>5 DEF vars, Acquired, CallReady, InTodo
    <2>6. QED
        BY <2>1, <2>2, <2>3, <2>4, <2>5 DEF Next
<1>3. QED
    BY <1>1, <1>2, InitIInv, NextIInv, PTL DEF Spec

(* ViewsLiveAtCall for a build that elides the moves of Bytes temporaries: *)
(* when the engine reads the slices, each argument's memory was obtained   *)
(* once and not yet released.  The run byteview_no_elision shows that a    *)
(* build without elision breaks it.                                       *)
THEOREM LiveAtCall ==
    ASSUME ElideMoves
    PROVE  Spec => []ViewsLiveAtCall
<1>1. Acquired /\ CallReady /\ RelZero => ViewsLiveAtCall
    <2> SUFFICES ASSUME Acquired, CallReady, RelZero, pc = "call",
                        NEW a \in ArgsOf(call)
                 PROVE  acq[a] = 1 /\ rel[a] = 0
        BY DEF ViewsLiveAtCall
    <2>1. todo = <<>> /\ a \in Args
        BY DEF CallReady, ArgsOf, Args
    <2>2. ~InTodo(a)
        BY <2>1 DEF InTodo
    <2>3. QED
        BY <2>1, <2>2 DEF Acquired, RelZero
<1>2. QED
    BY <1>1, AcquiredKept, ReleasedKept, PTL

====
