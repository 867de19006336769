---------------------------- MODULE EngineProofs ----------------------------
(***************************************************************************)
(* Proofs about the two engines, for every MaxYields and for both kinds of *)
(* caller: about NativeEngine first, and then about SpiderMonkeyEngine,    *)
(* whose handoff is the same.                                              *)
(*                                                                         *)
(* The inductive invariant IInv of NativeEngine is a conjunction of facts  *)
(* about one pair of things each: the mutex and the script's thread, the   *)
(* promise and the thread, the two threads' positions, and, for a driver   *)
(* that stops after a timeout, the output the caller saw and the input it  *)
(* sent.                                                                   *)
(***************************************************************************)
EXTENDS SpiderMonkeyEngine, TLAPS

Holding == {"init", "publish", "park", "run", "die", "mark", "end"}
Waiting == {"parked", "woken"}

\* The script's thread holds the mutex exactly while it executes; only a
\* cancelled thread takes it along.
MutexInv ==
  /\ jsPc \in Holding => locked
  /\ locked => jsPc \in Holding \cup {"exit"}
  /\ jsPc = "exit" /\ ~shouldKill => deadResult /\ isDead /\ ~locked
  /\ cancelled => shouldKill

\* Where the caller is, what it is doing to the object.
HostInv ==
  /\ hostPc \in InNext => handle /\ ~shouldKill
  /\ hostPc = "lock" => call # {}
  /\ hostPc \in InDestroy => handle /\ shouldKill
  /\ hostPc = "idle" /\ handle => ~shouldKill
  /\ hostPc = "free" => jsPc = "exit"
  /\ handle => jsPc # "none"
  /\ ~handle => jsPc \in {"none", "exit"}

\* What the script's thread has done by the time it is at jsPc.
ThreadInv ==
  /\ jsPc \in {"new", "init"} => yieldNo = 0 /\ answer = {}
  /\ jsPc = "run" => answer # {}
  /\ jsPc = "run" \/ (jsPc \in {"publish", "park"} /\ yieldNo > 0)
       => nextInput = answer
  /\ jsPc \in {"mark", "end"} => deadResult
  /\ jsPc = "end" => isDead
  /\ deadResult => jsPc \in {"mark", "end", "exit"}

HasInput == jsPc \in Waiting /\ nextInput # {}

\* The script has its turn.
Busy == \/ jsPc = "run" \/ (jsPc = "die" /\ answer # {})
        \/ (jsPc = "publish" /\ yieldNo > 0) \/ HasInput

\* Until the script has answered, there is an empty promise for its answer, of a
\* next() if it is the script's turn; then the promise is set, and gone once
\* the script waits.
PromiseInv ==
  /\ jsPc \in {"new", "init", "publish", "die"} \/ Busy
       => outputPromise # "none" /\ ~promiseSet
  /\ Busy => outputPromise \in {"call", "dropped"}
  /\ jsPc \in {"park", "mark", "end"} => promiseSet
  /\ jsPc = "exit" /\ ~shouldKill => promiseSet
  /\ jsPc \in Waiting /\ nextInput = {} => outputPromise = "none"

TurnInv == Busy => hostPc \in {"notify", "wait"} \/ gaveUp \/ shouldKill

\* The value in a caller's future is the script's last output.
ReplyInv ==
  hostPc \in {"notify", "wait"} /\ reply # NoOutput =>
    \/ reply = DeadOutput /\ jsPc \in {"mark", "end", "exit"}
    \/ reply = yieldNo /\ (jsPc = "park" \/ (jsPc \in Waiting /\ nextInput = {}))

Matches(output) == output = yieldNo \/ (yieldNo = 0 /\ output = NoOutput)

\* With a caller that stops after a timeout: it is in step with the script
\* whenever it may send an input, and so is the input it sent.
DriverInv ==
  /\ hostPc \in InNext => ~gaveUp
  /\ hostPc = "lock" => \A input \in call : input.to = seen
  /\ jsPc \in {"new", "init"} \/ (jsPc = "publish" /\ yieldNo = 0)
       => seen = NoOutput
  /\ hostPc \in {"idle", "lock"} /\ ~gaveUp /\ jsPc \in {"park", "parked", "woken"}
       => Matches(seen)
  /\ jsPc \in Waiting => \A input \in nextInput : Matches(input.to)
  /\ jsPc = "run" => \A input \in answer : Matches(input.to)

\* What holds whatever the caller does.
AnyCallerInv ==
  MutexInv /\ HostInv /\ ThreadInv /\ PromiseInv /\ TurnInv /\ ReplyInv

\* What does not depend on the life of the heap.
HandoffInv == AnyCallerInv /\ (~CallerRetries => DriverInv)

HeapInv == jsPc \notin {"none", "new", "init", "exit"} => context

IInv == HandoffInv /\ HeapInv

-----------------------------------------------------------------------------
USE EngineBounds, RetriesAssumption

\* A std::optional is empty or holds one value of its type.
LEMMA OptionalEmpty == ASSUME NEW S PROVE {} \in Optional(S)
BY DEF Optional

LEMMA OptionalOne == ASSUME NEW S, NEW x \in S PROVE {x} \in Optional(S)
BY DEF Optional

\* Every action keeps the fields and the program counters in their types: the
\* numbering of outputs stays within MaxYields, and an optional never holds
\* two values.
LEMMA TypeStep == TypeOK /\ [Next]_vars => TypeOK'
<1> SUFFICES ASSUME TypeOK, [Next]_vars PROVE TypeOK'
  OBVIOUS
<1> USE OptionalEmpty, OptionalOne
    DEF TypeOK, Outputs, NoOutput, DeadOutput, JsPcs, HostPcs, InNext,
        InDestroy, engineVars, jsVars, hostVars
<1>1. CASE NativeStart
  <2>1. 
            /\ locked' \in BOOLEAN
            /\ promiseSet' \in BOOLEAN
            /\ deadResult' \in BOOLEAN
            /\ isDead' \in BOOLEAN
            /\ shouldKill' \in BOOLEAN
            /\ context' \in BOOLEAN
            /\ cancelled' \in BOOLEAN
            /\ started' \in BOOLEAN
            /\ gaveUp' \in BOOLEAN
    BY <1>1, Zenon DEF NativeStart
  <2> QED
    BY <1>1, <2>1 DEF NativeStart
<1>2. CASE NativeNext
  <2> DEFINE input == [what |-> IF started THEN "answer" ELSE "source", to |-> seen]
  <2>1. input \in Inputs
    BY DEF Inputs
  <2>2. call' \in Optional(Inputs)
    BY <1>2, <2>1, Zenon DEF NativeNext
  <2> QED
    BY <1>2, <2>2 DEF NativeNext
<1>3. CASE NextDead
  BY <1>3 DEF NextDead
<1>4. CASE NextStore
  <2>1. promiseSet' \in BOOLEAN
    BY <1>4, Zenon DEF NextStore
  <2> QED
    BY <1>4, <2>1 DEF NextStore
<1>5. CASE NextNotify
  BY <1>5 DEF NextNotify
<1>6. CASE NextReturn
  <2>1. gaveUp' \in BOOLEAN
    BY <1>6, Zenon DEF NextReturn
  <2> QED
    BY <1>6, <2>1 DEF NextReturn
<1>7. CASE NextTimeout
  BY <1>7 DEF NextTimeout
<1>8. CASE DestroyBegin
  BY <1>8 DEF DestroyBegin
<1>9. CASE DestroyCheck
  BY <1>9 DEF DestroyCheck
<1>10. CASE DestroyCancel
  BY <1>10 DEF DestroyCancel
<1>11. CASE DestroyJoin
  BY <1>11 DEF DestroyJoin
<1>12. CASE DestroyFree
  <2>1. context' \in BOOLEAN /\ handle' \in BOOLEAN
    BY <1>12, Zenon DEF DestroyFree
  <2> QED
    BY <1>12, <2>1 DEF DestroyFree
<1>13. CASE JsLock
  BY <1>13 DEF JsLock, Handshake
<1>14. CASE JsInit
  BY <1>14 DEF JsInit, Handshake
<1>15. CASE JsPublish
  BY <1>15 DEF JsPublish, SetPromise
<1>16. CASE JsPark
  <2>1. promiseSet' \in BOOLEAN /\ locked' \in BOOLEAN
    BY <1>16, Zenon DEF JsPark
  <2> QED
    BY <1>16, <2>1 DEF JsPark, Handshake
<1>17. CASE SpuriousWake
  BY <1>17 DEF SpuriousWake
<1>18. CASE JsSleepAgain
  BY <1>18 DEF JsSleepAgain, Handshake
<1>19. CASE JsResume
  BY <1>19 DEF JsResume, Handshake
<1>20. CASE JsBadSource
  BY <1>20 DEF JsBadSource, Handshake
<1>21. CASE JsYield
  BY <1>21 DEF JsYield, Handshake
<1>22. CASE JsEnd
  BY <1>22 DEF JsEnd, Handshake
<1>23. CASE JsKilled
  BY <1>23 DEF JsKilled, Handshake
<1>24. CASE JsDie
  <2>1. promiseSet' \in BOOLEAN
    BY <1>24, Zenon DEF JsDie, SetPromise
  <2>2. reply' \in Outputs \cup {NoOutput}
    BY <1>24 DEF JsDie, SetPromise
  <2> QED
    BY <1>24, <2>1, <2>2 DEF JsDie
<1>25. CASE JsMark
  BY <1>25 DEF JsMark, Handshake
<1>26. CASE JsExit
  <2>1. locked' \in BOOLEAN
    BY <1>26, Zenon DEF JsExit
  <2> QED
    BY <1>26, <2>1 DEF JsExit, Handshake
<1>27. CASE JsCancelled
  BY <1>27 DEF JsCancelled, Handshake
<1>28. CASE JsInitFatal
  BY <1>28 DEF JsInitFatal, Handshake
<1>29. CASE UNCHANGED vars
  BY <1>29 DEF vars
<1> QED
  BY <1>1, <1>2, <1>3, <1>4, <1>5, <1>6, <1>7, <1>8, <1>9, <1>10, <1>11, <1>12, <1>13,
     <1>14, <1>15, <1>16, <1>17, <1>18, <1>19, <1>20, <1>21, <1>22, <1>23, <1>24, <1>25,
     <1>26, <1>27, <1>28, <1>29
  DEF Next, HostCallStep, DestroyStep, ThreadStep, ScriptStep

\* Every action keeps what holds with any caller.
LEMMA AnyCallerStep ==
  ASSUME TypeOK, AnyCallerInv, [Next]_vars
  PROVE  AnyCallerInv'
<1> USE DEF TypeOK, AnyCallerInv, MutexInv, HostInv, ThreadInv, PromiseInv, TurnInv,
            ReplyInv, Holding, Waiting, HasInput, Busy, InNext, InDestroy, Outputs,
            NoOutput, DeadOutput, engineVars, jsVars, hostVars
<1>1. CASE NativeStart
  BY <1>1 DEF NativeStart
<1>2. CASE NativeNext
  BY <1>2 DEF NativeNext
<1>3. CASE NextDead
  BY <1>3 DEF NextDead
<1>4. CASE NextStore
  <2>1. jsPc \in {"new", "parked", "woken"}
    BY <1>4 DEF NextStore, JsPcs
  <2>2. PromiseInv' /\ TurnInv' /\ ReplyInv'
    BY <1>4, <2>1 DEF NextStore
  <2>3. MutexInv' /\ HostInv' /\ ThreadInv'
    BY <1>4, <2>1 DEF NextStore
  <2> QED
    BY <2>2, <2>3
<1>5. CASE NextNotify
  BY <1>5 DEF NextNotify
<1>6. CASE NextReturn
  BY <1>6 DEF NextReturn
<1>7. CASE NextTimeout
  BY <1>7 DEF NextTimeout
<1>8. CASE DestroyBegin
  BY <1>8 DEF DestroyBegin
<1>9. CASE DestroyCheck
  BY <1>9 DEF DestroyCheck
<1>10. CASE DestroyCancel
  BY <1>10 DEF DestroyCancel
<1>11. CASE DestroyJoin
  BY <1>11 DEF DestroyJoin
<1>12. CASE DestroyFree
  BY <1>12 DEF DestroyFree
<1>13. CASE JsLock
  BY <1>13 DEF JsLock, Handshake
<1>14. CASE JsInit
  BY <1>14 DEF JsInit, Handshake
<1>15. CASE JsPublish
  BY <1>15 DEF JsPublish, SetPromise
<1>16. CASE JsPark
  BY <1>16 DEF JsPark, Handshake
<1>17. CASE SpuriousWake
  BY <1>17 DEF SpuriousWake
<1>18. CASE JsSleepAgain
  BY <1>18 DEF JsSleepAgain, Handshake
<1>19. CASE JsResume
  BY <1>19 DEF JsResume, Handshake
<1>20. CASE JsBadSource
  BY <1>20 DEF JsBadSource, Handshake
<1>21. CASE JsYield
  BY <1>21 DEF JsYield, Handshake
<1>22. CASE JsEnd
  BY <1>22 DEF JsEnd, Handshake
<1>23. CASE JsKilled
  BY <1>23 DEF JsKilled, Handshake
<1>24. CASE JsDie
  BY <1>24 DEF JsDie, SetPromise, Handshake
<1>25. CASE JsMark
  BY <1>25 DEF JsMark, Handshake
<1>26. CASE JsExit
  BY <1>26 DEF JsExit, Handshake
<1>27. CASE JsCancelled
  BY <1>27 DEF JsCancelled, Handshake
<1>28. CASE JsInitFatal
  BY <1>28 DEF JsInitFatal, Handshake
<1>29. CASE UNCHANGED vars
  BY <1>29 DEF vars
<1> QED
  BY <1>1, <1>2, <1>3, <1>4, <1>5, <1>6, <1>7, <1>8, <1>9, <1>10, <1>11, <1>12, <1>13,
     <1>14, <1>15, <1>16, <1>17, <1>18, <1>19, <1>20, <1>21, <1>22, <1>23, <1>24, <1>25,
     <1>26, <1>27, <1>28, <1>29
  DEF Next, HostCallStep, DestroyStep, ThreadStep, ScriptStep

\* A caller that makes no call after a failure stays in step with the script.
LEMMA DriverStep ==
  ASSUME TypeOK, AnyCallerInv, DriverInv, [Next]_vars, NativeNext => ~gaveUp
  PROVE  DriverInv'
<1> USE DEF TypeOK, AnyCallerInv, MutexInv, HostInv, ThreadInv, TurnInv, ReplyInv,
            DriverInv, Holding, Waiting, HasInput, Busy, Matches, InNext, InDestroy,
            Outputs, NoOutput, DeadOutput, JsPcs, engineVars, jsVars, hostVars,
            Handshake
<1>1. CASE NativeStart
  BY <1>1 DEF NativeStart
<1>2. CASE NativeNext
  BY <1>2 DEF NativeNext
<1>3. CASE NextDead
  BY <1>3 DEF NextDead
<1>4. CASE NextStore
  BY <1>4 DEF NextStore
<1>5. CASE NextNotify
  BY <1>5 DEF NextNotify
<1>6. CASE NextReturn
  BY <1>6 DEF NextReturn
<1>7. CASE NextTimeout
  BY <1>7 DEF NextTimeout
<1>8. CASE DestroyBegin
  BY <1>8 DEF DestroyBegin
<1>9. CASE DestroyCheck
  BY <1>9 DEF DestroyCheck
<1>10. CASE DestroyCancel
  BY <1>10 DEF DestroyCancel
<1>11. CASE DestroyJoin
  BY <1>11 DEF DestroyJoin
<1>12. CASE DestroyFree
  BY <1>12 DEF DestroyFree
<1>13. CASE JsLock
  BY <1>13 DEF JsLock
<1>14. CASE JsInit
  BY <1>14 DEF JsInit
<1>15. CASE JsPublish
  BY <1>15 DEF JsPublish, SetPromise
<1>16. CASE JsPark
  BY <1>16 DEF JsPark
<1>17. CASE SpuriousWake
  BY <1>17 DEF SpuriousWake
<1>18. CASE JsSleepAgain
  BY <1>18 DEF JsSleepAgain
<1>19. CASE JsResume
  BY <1>19 DEF JsResume
<1>20. CASE JsBadSource
  BY <1>20 DEF JsBadSource
<1>21. CASE JsYield
  BY <1>21 DEF JsYield
<1>22. CASE JsEnd
  BY <1>22 DEF JsEnd
<1>23. CASE JsKilled
  BY <1>23 DEF JsKilled
<1>24. CASE JsDie
  BY <1>24 DEF JsDie, SetPromise
<1>25. CASE JsMark
  BY <1>25 DEF JsMark
<1>26. CASE JsExit
  BY <1>26 DEF JsExit
<1>27. CASE JsCancelled
  BY <1>27 DEF JsCancelled
<1>28. CASE JsInitFatal
  BY <1>28 DEF JsInitFatal
<1>29. CASE UNCHANGED vars
  BY <1>29 DEF vars
<1> QED
  BY <1>1, <1>2, <1>3, <1>4, <1>5, <1>6, <1>7, <1>8, <1>9, <1>10, <1>11, <1>12, <1>13,
     <1>14, <1>15, <1>16, <1>17, <1>18, <1>19, <1>20, <1>21, <1>22, <1>23, <1>24, <1>25,
     <1>26, <1>27, <1>28, <1>29
  DEF Next, HostCallStep, DestroyStep, ThreadStep, ScriptStep

\* Every action keeps the facts about the handoff.
LEMMA HandoffStep == TypeOK /\ HandoffInv /\ [Next]_vars => HandoffInv'
<1> SUFFICES ASSUME TypeOK, HandoffInv, [Next]_vars PROVE HandoffInv'
  OBVIOUS
<1>1. ASSUME ~CallerRetries PROVE NativeNext => ~gaveUp
  BY <1>1 DEF NativeNext, MayCallNext
<1> QED
  BY <1>1, AnyCallerStep, DriverStep DEF HandoffInv

\* The heap is there from the thread's initialisation until the join.
LEMMA InductiveStep == TypeOK /\ IInv /\ [Next]_vars => IInv'
<1> SUFFICES ASSUME TypeOK, IInv, [Next]_vars PROVE IInv'
  OBVIOUS
<1>1. HandoffInv'
  BY HandoffStep DEF IInv
<1>2. HeapInv'
  BY DEF IInv, HandoffInv, AnyCallerInv, HostInv, HeapInv, Next, HostCallStep, DestroyStep,
     ThreadStep,
         ScriptStep, NativeStart, NativeNext, DestroyBegin, NextDead, NextStore, NextNotify,
         NextReturn, NextTimeout, DestroyCheck, DestroyCancel, DestroyJoin, DestroyFree,
         JsLock, JsInit, JsInitFatal, JsPublish, JsPark, JsSleepAgain, JsResume, JsBadSource, JsKilled,
         JsDie, JsMark, JsExit, JsCancelled, JsYield, JsEnd, SpuriousWake, engineVars,
         jsVars, hostVars, Handshake, vars
<1> QED
  BY <1>1, <1>2 DEF IInv

-----------------------------------------------------------------------------
\* The fields and program counters of NativeEngine always have their types.
THEOREM TypeCorrect == Spec => []TypeOK
<1>1. Init => TypeOK
  <2> SUFFICES ASSUME Init PROVE TypeOK
    OBVIOUS
  <2>1. /\ locked \in BOOLEAN /\ promiseSet \in BOOLEAN /\ deadResult \in BOOLEAN
        /\ isDead \in BOOLEAN /\ shouldKill \in BOOLEAN /\ context \in BOOLEAN
        /\ cancelled \in BOOLEAN /\ handle \in BOOLEAN /\ started \in BOOLEAN
        /\ gaveUp \in BOOLEAN
    BY Zenon DEF Init
  <2> QED
    BY <2>1, EngineBounds, OptionalEmpty
    DEF Init, TypeOK, Outputs, NoOutput, DeadOutput, JsPcs, HostPcs
<1> QED
  BY <1>1, TypeStep, PTL DEF Spec

\* The inductive invariant holds throughout.
THEOREM Invariant == Spec => []IInv
<1>1. Init => IInv
  BY DEF Init, IInv, HandoffInv, AnyCallerInv, HeapInv, MutexInv, HostInv, ThreadInv,
     PromiseInv, TurnInv, ReplyInv,
         DriverInv, Holding, Waiting, HasInput, Busy, Matches, InNext, InDestroy,
         NoOutput
<1> QED
  BY <1>1, TypeCorrect, InductiveStep, PTL DEF Spec

\* set_value is always called on a promise that is there and empty, in yield()
\* and when the script ends, whatever the caller does.
THEOREM PromisesAreFresh == Spec => []PromiseFresh
<1>1. IInv => PromiseFresh
  BY DEF IInv, HandoffInv, AnyCallerInv, PromiseInv, Busy, PromiseFresh
<1> QED
  BY <1>1, Invariant, PTL

\* The script executes only in its turn, whatever the caller does.
THEOREM TurnsAreTaken == Spec => []TakesTurns
<1>1. IInv => TakesTurns
  BY DEF IInv, HandoffInv, AnyCallerInv, TurnInv, Busy, TakesTurns
<1> QED
  BY <1>1, Invariant, PTL

\* With the driver of this repository, what yield() returns answers what it
\* published.
THEOREM AnswersAlwaysMatch == ~CallerRetries => (Spec => []AnswersMatch)
<1> SUFFICES ASSUME ~CallerRetries PROVE Spec => []AnswersMatch
  OBVIOUS
<1>1. IInv => AnswersMatch
  BY DEF IInv, HandoffInv, AnyCallerInv, DriverInv, Matches, AnswersMatch
<1> QED
  BY <1>1, Invariant, PTL

\* A script that ended by itself leaves its result and a free mutex.
THEOREM DeadEnginesAnswer == Spec => []DeadEngineAnswers
<1>1. IInv => DeadEngineAnswers
  BY DEF IInv, HandoffInv, AnyCallerInv, MutexInv, DeadEngineAnswers
<1> QED
  BY <1>1, Invariant, PTL

\* The script's thread runs only while its heap and its object exist.
THEOREM ThreadsStayWithinObject == Spec => []ThreadWithinObject
<1>1. IInv => ThreadWithinObject
  BY DEF IInv, HandoffInv, AnyCallerInv, HeapInv, HostInv, ThreadWithinObject
<1> QED
  BY <1>1, Invariant, PTL

\* With the driver of this repository, no input is lost after __bios__.
THEOREM InputsAreNotLost == ~CallerRetries => (Spec => InputsReachScript)
<1> DEFINE Kept == handle /\ yieldNo > 0 /\ nextInput # {} /\ nextInput' # nextInput
                     => nextInput = answer
<1> SUFFICES ASSUME ~CallerRetries PROVE Spec => InputsReachScript
  OBVIOUS
<1>1. TypeOK /\ IInv /\ [Next]_vars => [Kept]_vars
  <2> SUFFICES ASSUME TypeOK, IInv, [Next]_vars PROVE Kept
    OBVIOUS
  <2>1. CASE NextStore
    BY <2>1 DEF NextStore, IInv, HandoffInv, AnyCallerInv, TurnInv, Busy, HasInput, Waiting,
       HostInv,
       MutexInv, ThreadInv, DriverInv, InNext, Holding, TypeOK, JsPcs
  <2>2. CASE JsPark
    BY <2>2 DEF JsPark, IInv, HandoffInv, AnyCallerInv, ThreadInv
  <2>3. CASE NativeStart
    BY <2>3 DEF NativeStart
  <2>4. CASE nextInput' = nextInput
    BY <2>4
  <2> QED
    BY <2>1, <2>2, <2>3, <2>4
    DEF Next, HostCallStep, DestroyStep, ThreadStep, ScriptStep, NativeNext,
        DestroyBegin, NextDead, NextNotify, NextReturn, NextTimeout, DestroyCheck,
        DestroyCancel, DestroyJoin, DestroyFree, JsLock, JsInit, JsInitFatal, JsPublish,
        JsSleepAgain, JsResume, JsBadSource, JsKilled, JsDie, JsMark, JsExit,
        JsCancelled, JsYield, JsEnd, SpuriousWake, engineVars, jsVars, hostVars,
        Handshake, vars
<1> QED
  BY <1>1, TypeCorrect, Invariant, PTL DEF Spec, InputsReachScript
-----------------------------------------------------------------------------
\* Every step of the engine is a step of the coroutine or none.
LEMMA ProtocolStep ==
  TypeOK /\ HandoffInv /\ [Next]_vars => [Protocol!Next]_(Protocol!vars)
<1> SUFFICES ASSUME TypeOK, HandoffInv, [Next]_vars
             PROVE  [Protocol!Next]_(Protocol!vars)
  OBVIOUS
<1> USE EngineBounds
    DEF TypeOK, HandoffInv, AnyCallerInv, MutexInv, HostInv, ThreadInv, PromiseInv,
       ReplyInv, Busy,
        HasInput, Holding, Waiting, InNext, InDestroy, Outputs, NoOutput,
        DeadOutput, engineVars, jsVars, hostVars, Serving, Turn, Produced, Heard,
        Protocol!vars, Protocol!NoOutput, Protocol!DeadOutput
<1>1. CASE NativeStart
  BY <1>1 DEF NativeStart, Protocol!Next, Protocol!Start
<1>2. CASE NativeNext
  BY <1>2 DEF NativeNext
<1>3. CASE NextDead
  BY <1>3 DEF NextDead
<1>4. CASE NextStore
  BY <1>4 DEF NextStore, Protocol!Next, Protocol!Resume
<1>5. CASE NextNotify
  BY <1>5 DEF NextNotify
<1>6. CASE NextReturn
  BY <1>6 DEF NextReturn, Protocol!Next, Protocol!Hear
<1>7. CASE NextTimeout
  BY <1>7 DEF NextTimeout
<1>8. CASE DestroyBegin
  BY <1>8 DEF DestroyBegin, Protocol!Next, Protocol!Stop
<1>9. CASE DestroyCheck
  BY <1>9 DEF DestroyCheck
<1>10. CASE DestroyCancel
  BY <1>10 DEF DestroyCancel
<1>11. CASE DestroyJoin
  BY <1>11 DEF DestroyJoin
<1>12. CASE DestroyFree
  BY <1>12 DEF DestroyFree
<1>13. CASE JsLock
  BY <1>13 DEF JsLock, Handshake
<1>14. CASE JsInit
  BY <1>14 DEF JsInit, Handshake
<1>15. CASE JsPublish
  BY <1>15 DEF JsPublish, Handshake, SetPromise, Protocol!Next, Protocol!Produce
<1>16. CASE JsPark
  BY <1>16 DEF JsPark, Handshake
<1>17. CASE SpuriousWake
  BY <1>17 DEF SpuriousWake
<1>18. CASE JsSleepAgain
  BY <1>18 DEF JsSleepAgain, Handshake
<1>19. CASE JsResume
  BY <1>19 DEF JsResume, Handshake
<1>20. CASE JsBadSource
  BY <1>20 DEF JsBadSource, Handshake
<1>21. CASE JsYield
  BY <1>21 DEF JsYield, Handshake
<1>22. CASE JsEnd
  BY <1>22 DEF JsEnd, Handshake
<1>23. CASE JsKilled
  BY <1>23 DEF JsKilled, Handshake
<1>24. CASE JsDie
  BY <1>24 DEF JsDie, Handshake, SetPromise, Protocol!Next, Protocol!Finish
<1>25. CASE JsMark
  BY <1>25 DEF JsMark, Handshake
<1>26. CASE JsExit
  BY <1>26 DEF JsExit, Handshake
<1>27. CASE JsCancelled
  BY <1>27 DEF JsCancelled, Handshake
<1>28. CASE JsInitFatal
  BY <1>28 DEF JsInitFatal, Handshake
<1>29. CASE UNCHANGED vars
  BY <1>29 DEF vars
<1> QED
  BY <1>1, <1>2, <1>3, <1>4, <1>5, <1>6, <1>7, <1>8, <1>9, <1>10, <1>11, <1>12, <1>13,
     <1>14, <1>15, <1>16, <1>17, <1>18, <1>19, <1>20, <1>21, <1>22, <1>23, <1>24, <1>25,
     <1>26, <1>27, <1>28, <1>29
  DEF Next, HostCallStep, DestroyStep, ThreadStep, ScriptStep

\* Under any caller, the handoff of the two threads implements the coroutine.
THEOREM Refinement == Spec => ImplementsProtocol
<1>1. Init => Protocol!Init
  BY DEF Init, Protocol!Init, Serving, Turn, Produced, Heard, NoOutput,
         Protocol!NoOutput
<1>2. IInv => HandoffInv
  BY DEF IInv
<1> QED
  BY <1>1, <1>2, ProtocolStep, TypeCorrect, Invariant, PTL
  DEF Spec, ImplementsProtocol, Protocol!Spec

-----------------------------------------------------------------------------
(* SpiderMonkeyEngine.                                                     *)
(*                                                                         *)
(* Until the engine is destroyed, each step of it is one of NativeEngine   *)
(* or touches nothing but the context, so what is shown of the handoff     *)
(* above holds here; during the destruction, when the destructor's own     *)
(* next() meets the script, it need not.  The life of the context is       *)
(* followed throughout.                                                    *)

\* What is true of the two threads at any time.
LifeInv ==
  /\ hostPc # "idle" => handle
  /\ handle => jsPc # "none"
  /\ hostPc = "free" => jsPc = "exit"
  /\ jsPc \in {"end", "exit"} => isDead
  /\ freed => jsPc = "end" /\ context
  /\ ContextWhileRunning

\* Outside of the destruction the handoff is Duktape's.
ServingInv == ~shouldKill => HandoffInv

SmInv == SmTypeOK /\ LifeInv /\ CrashesOnlyAtEnds /\ ServingInv

\* The steps that are not steps of NativeEngine.
OwnStep ==
  \/ Interrupt \/ InterruptAgain \/ SmNewContext \/ SmInitRealm
  \/ SmDestroyContext \/ SmClearContext

LEMMA EveryStep ==
  ASSUME [SmNextState]_smVars
  PROVE  [Next]_vars \/ OwnStep
<1> USE DEF Next, HostCallStep, DestroyStep, ThreadStep, ScriptStep
<1>1. CASE SmStart \/ SmNativeNext \/ SmDestroyBegin
  BY <1>1 DEF SmStart, SmNativeNext, SmDestroyBegin
<1>2. CASE SmCallStep
  BY <1>2 DEF SmCallStep, SmNext, SmReturn
<1>3. CASE SmDestroyStep
  BY <1>3 DEF SmDestroyStep, OwnStep, SmDestroyCheck, InterruptNothing, SmDestroyJoin,
              SmDestroyFree
<1>4. CASE SmThreadStep
  BY <1>4 DEF SmThreadStep, OwnStep, SmLock, SmYield, SmBadSource, SmInterrupted, SmDie,
              SmExit
<1>5. CASE SmScript \/ SmSpuriousWake
  BY <1>5 DEF SmScript, SmSpuriousWake
<1>6. CASE UNCHANGED smVars
  BY <1>6 DEF smVars
<1> QED BY <1>1, <1>2, <1>3, <1>4, <1>5, <1>6 DEF SmNextState

LEMMA SmTypeStep ==
  ASSUME SmTypeOK, [SmNextState]_smVars
  PROVE  SmTypeOK'
<1>1. TypeOK'
  <2>1. CASE [Next]_vars
    BY <2>1, TypeStep DEF SmTypeOK
  <2> USE OptionalEmpty, OptionalOne
      DEF SmTypeOK, TypeOK, Outputs, NoOutput, DeadOutput, JsPcs, HostPcs, InNext, InDestroy,
          engineVars, jsVars, hostVars, Handshake
  <2>2. CASE Interrupt
    <3> DEFINE input == [what |-> "answer", to |-> seen]
    <3>1. input \in Inputs
      BY DEF Inputs
    <3>2. call' \in Optional(Inputs)
      BY <2>2, <3>1, Zenon DEF Interrupt
    <3> QED BY <2>2, <3>2 DEF Interrupt
  <2>3. CASE InterruptAgain
    BY <2>3 DEF InterruptAgain
  <2>4. CASE SmNewContext \/ SmDestroyContext \/ SmClearContext
    <3>1. context' \in BOOLEAN
      BY <2>4, Zenon DEF SmNewContext, SmDestroyContext, SmClearContext, SmTypeOK, TypeOK, vars,
         engineVars
    <3> QED BY <2>4, <3>1 DEF SmNewContext, SmDestroyContext, SmClearContext, vars
  <2>5. CASE SmInitRealm
    BY <2>5 DEF SmInitRealm
  <2> QED BY EveryStep, <2>1, <2>2, <2>3, <2>4, <2>5 DEF OwnStep
<1>2. interrupt' \in BOOLEAN /\ freed' \in BOOLEAN /\ crashed' \in BOOLEAN
  <2>1. /\ interrupt' \in {interrupt, TRUE, FALSE} /\ freed' \in {freed, TRUE, FALSE}
        /\ crashed' \in {crashed, TRUE}
    BY Zenon DEF SmNextState, SmCallStep, SmDestroyStep, SmThreadStep, SmStart, SmNativeNext,
       SmNext, SmReturn, SmDestroyBegin, SmDestroyCheck, Interrupt, InterruptAgain,
       InterruptNothing, SmDestroyJoin, SmDestroyFree, SmLock, SmNewContext, SmInitRealm,
       SmYield, SmSpuriousWake, SmBadSource, SmScript, SmInterrupted, SmDie,
       SmDestroyContext, SmClearContext, SmExit, Same, smVars
  <2> QED BY <2>1, Zenon DEF SmTypeOK
<1> QED BY <1>1, <1>2 DEF SmTypeOK

-----------------------------------------------------------------------------
\* A step of Duktape's engine keeps what is true of the threads, if it does not
\* cancel the thread and does not free the object of one that has not ended.
LEMMA LifeStep ==
  ASSUME SmTypeOK, LifeInv, [SmNextState]_smVars
  PROVE  LifeInv'
<1> USE DEF LifeInv, ContextWhileRunning, SmTypeOK, TypeOK, JsPcs, HostPcs, InNext,
            InDestroy, engineVars, jsVars, hostVars, Handshake, Same, vars
<1>1. CASE SmStart
  BY <1>1 DEF SmStart, NativeStart
<1>2. CASE SmNativeNext \/ SmDestroyBegin
  BY <1>2 DEF SmNativeNext, NativeNext, SmDestroyBegin, DestroyBegin
<1>3. CASE SmNext
  BY <1>3 DEF SmNext, NextDead, NextStore, NextNotify
<1>4. CASE SmReturn
  BY <1>4 DEF SmReturn, NextReturn, NextTimeout
<1>5. CASE SmDestroyCheck \/ Interrupt \/ InterruptAgain
  BY <1>5 DEF SmDestroyCheck, DestroyCheck, Interrupt, InterruptAgain
<1>6. CASE SmDestroyJoin \/ SmDestroyFree
  BY <1>6 DEF SmDestroyJoin, DestroyJoin, SmDestroyFree, DestroyFree
<1>7. CASE SmLock \/ SmNewContext \/ SmInitRealm
  <2>1. CASE SmLock
    BY <2>1 DEF SmLock, JsLock
  <2>2. CASE SmNewContext
    BY <2>2 DEF SmNewContext
  <2>3. CASE SmInitRealm
    BY <2>3 DEF SmInitRealm
  <2> QED BY <1>7, <2>1, <2>2, <2>3
<1>8. CASE SmYield \/ SmSpuriousWake
  BY <1>8 DEF SmYield, JsPublish, SetPromise, JsPark, JsSleepAgain, JsResume,
              SmSpuriousWake, SpuriousWake
<1>9. CASE SmBadSource \/ SmScript \/ SmInterrupted
  BY <1>9 DEF SmBadSource, JsBadSource, SmScript, JsYield, JsEnd, SmInterrupted, JsKilled
<1>10. CASE SmDie \/ SmDestroyContext \/ SmClearContext \/ SmExit
  <2>1. CASE SmDie
    BY <2>1 DEF SmDie, JsDie, SetPromise, JsMark
  <2>2. CASE SmDestroyContext
    BY <2>2 DEF SmDestroyContext
  <2>3. CASE SmClearContext
    BY <2>3 DEF SmClearContext
  <2>4. CASE SmExit
    BY <2>4 DEF SmExit, JsExit
  <2> QED BY <1>10, <2>1, <2>2, <2>3, <2>4
<1>11. CASE InterruptNothing \/ UNCHANGED smVars
  BY <1>11 DEF InterruptNothing, smVars
<1> QED BY <1>1, <1>2, <1>3, <1>4, <1>5, <1>6, <1>7, <1>8, <1>9, <1>10, <1>11
        DEF SmNextState, SmCallStep, SmDestroyStep, SmThreadStep

\* A process that crashed takes no step, and the step that crashes it changes
\* nothing else.
LEMMA CrashStep ==
  ASSUME SmTypeOK, LifeInv, CrashesOnlyAtEnds, [SmNextState]_smVars
  PROVE  CrashesOnlyAtEnds'
<1>1. CASE InterruptNothing
  <2>1. (~context \/ freed) /\ hostPc # "idle" /\ UNCHANGED <<jsPc, isDead>>
    BY <1>1 DEF InterruptNothing, InBlock, vars, engineVars, jsVars
  <2> QED BY <2>1 DEF LifeInv, ContextWhileRunning, CrashesOnlyAtEnds
<1>2. CASE UNCHANGED smVars
  BY <1>2 DEF smVars, vars, engineVars, jsVars, CrashesOnlyAtEnds
<1>3. CASE SmNextState /\ ~InterruptNothing
  <2>1. crashed' = crashed /\ ~crashed
    BY <1>3, Zenon DEF SmNextState, SmCallStep, SmDestroyStep, SmThreadStep, SmStart,
       SmNativeNext, SmNext, SmReturn, SmDestroyBegin, SmDestroyCheck, Interrupt,
       InterruptAgain, SmDestroyJoin, SmDestroyFree, SmLock, SmNewContext, SmInitRealm,
       SmYield, SmSpuriousWake, SmBadSource, SmScript, SmInterrupted, SmDie,
       SmDestroyContext, SmClearContext, SmExit, Same
  <2> QED BY <2>1 DEF CrashesOnlyAtEnds
<1> QED BY <1>1, <1>2, <1>3

\* While the engine serves its caller, the handoff is that of NativeEngine: of
\* the steps that are not, the interrupts come later, and a context comes and
\* goes without anything else.
LEMMA ServingStep ==
  ASSUME SmTypeOK, LifeInv, ServingInv, [SmNextState]_smVars
  PROVE  ServingInv'
<1> SUFFICES ASSUME ~shouldKill' PROVE HandoffInv'
  BY DEF ServingInv
<1>1. CASE SmStart
  BY <1>1 DEF SmStart, NativeStart, HandoffInv, AnyCallerInv, MutexInv, HostInv, ThreadInv,
     PromiseInv,
     TurnInv, ReplyInv, DriverInv, Holding, Waiting, HasInput, Busy, Matches, InNext,
     InDestroy, NoOutput
<1>2. CASE shouldKill /\ ~SmStart
  BY <1>2 DEF SmNextState, SmCallStep, SmDestroyStep, SmThreadStep, SmNativeNext, NativeNext,
     SmDestroyBegin, DestroyBegin, SmNext, NextDead, NextStore, NextNotify, SmReturn,
     SmDestroyCheck, DestroyCheck, Interrupt, InterruptAgain, InterruptNothing,
     SmDestroyJoin, DestroyJoin, SmDestroyFree, DestroyFree, SmLock, JsLock, SmNewContext,
     SmInitRealm, SmYield, JsPublish, JsPark, JsSleepAgain, JsResume, SmSpuriousWake,
     SpuriousWake, SmBadSource, JsBadSource, SmScript, JsYield, JsEnd, SmInterrupted,
     JsKilled, SmDie, JsDie, JsMark, SmDestroyContext, SmClearContext, SmExit, JsExit, smVars, vars,
     engineVars, Handshake
<1>3. CASE ~shouldKill /\ ~SmStart
  <2>1. HandoffInv /\ TypeOK
    BY <1>3 DEF ServingInv, SmTypeOK
  <2>2. CASE [Next]_vars
    BY <2>1, <2>2, HandoffStep
  <2>3. CASE Interrupt \/ InterruptAgain
    BY <1>3, <2>1, <2>3 DEF Interrupt, InterruptAgain, HandoffInv, AnyCallerInv, HostInv,
       InDestroy
  <2>4. CASE SmInitRealm
    <3>1. JsInit
      BY <2>4, <2>1 DEF SmInitRealm, JsInit, engineVars, Handshake, TypeOK
    <3> QED BY <2>1, <3>1, HandoffStep DEF Next, ThreadStep
  <2>5. CASE SmNewContext \/ SmDestroyContext \/ SmClearContext
    <3>1. UNCHANGED <<locked, nextInput, outputPromise, promiseSet, deadResult, isDead,
                      shouldKill, jsVars, hostVars>>
      BY <2>5 DEF SmNewContext, SmDestroyContext, SmClearContext, Handshake, vars, engineVars,
           jsVars, hostVars
    <3> QED BY <2>1, <3>1 DEF HandoffInv, AnyCallerInv, MutexInv, HostInv, ThreadInv,
       PromiseInv, TurnInv,
            ReplyInv, DriverInv, Holding, Waiting, HasInput, Busy, Matches, jsVars, hostVars
  <2> QED BY <2>2, <2>3, <2>4, <2>5, EveryStep DEF OwnStep
<1> QED BY <1>1, <1>2, <1>3

-----------------------------------------------------------------------------
LEMMA SmInitInv == SmInit => SmInv
<1> SUFFICES ASSUME SmInit PROVE SmInv
  OBVIOUS
<1>1. SmTypeOK
  <2>1. /\ locked \in BOOLEAN /\ promiseSet \in BOOLEAN /\ deadResult \in BOOLEAN
        /\ isDead \in BOOLEAN /\ shouldKill \in BOOLEAN /\ context \in BOOLEAN
        /\ cancelled \in BOOLEAN /\ handle \in BOOLEAN /\ started \in BOOLEAN
        /\ gaveUp \in BOOLEAN /\ interrupt \in BOOLEAN /\ freed \in BOOLEAN /\ crashed \in BOOLEAN
    BY Zenon DEF SmInit, Init
  <2> QED BY <2>1, OptionalEmpty
          DEF SmInit, Init, SmTypeOK, TypeOK, Outputs, NoOutput, DeadOutput, JsPcs, HostPcs
<1>2. LifeInv /\ CrashesOnlyAtEnds
  BY DEF SmInit, Init, LifeInv, ContextWhileRunning, CrashesOnlyAtEnds
<1>3. ServingInv
  BY DEF SmInit, Init, ServingInv, HandoffInv, AnyCallerInv, MutexInv, HostInv, ThreadInv,
     PromiseInv,
     TurnInv, ReplyInv, DriverInv, Holding, Waiting, HasInput, Busy, Matches, InNext,
     InDestroy, NoOutput
<1> QED BY <1>1, <1>2, <1>3 DEF SmInv

LEMMA AlwaysSmInv == SmSpec => []SmInv
<1>1. SmInv /\ [SmNextState]_smVars => SmInv'
  BY SmTypeStep, LifeStep, CrashStep, ServingStep DEF SmInv
<1> QED BY SmInitInv, <1>1, PTL DEF SmSpec

\* The fields and program counters of the SpiderMonkey engine have their types.
THEOREM SmTypeCorrect == SmSpec => []SmTypeOK
<1>1. SmInv => SmTypeOK
  BY DEF SmInv
<1> QED BY <1>1, AlwaysSmInv, PTL

\* The script's thread always has its context and its object, although it
\* destroys the context itself.
THEOREM ContextsOutliveScripts == SmSpec => []ContextWhileRunning
<1>1. SmInv => ContextWhileRunning
  BY DEF SmInv, LifeInv
<1> QED BY <1>1, AlwaysSmInv, PTL

\* The destructor crashes the process at the ends of the thread's life only.
THEOREM CrashesAreAtEnds == SmSpec => []CrashesOnlyAtEnds
<1>1. SmInv => CrashesOnlyAtEnds
  BY DEF SmInv
<1> QED BY <1>1, AlwaysSmInv, PTL

-----------------------------------------------------------------------------
\* Under any caller, the SpiderMonkey engine implements the same coroutine as
\* the Duktape engine.
THEOREM SmRefinement == SmSpec => ImplementsProtocol
<1>1. SmInit => Protocol!Init
  BY DEF SmInit, Init, Protocol!Init, Serving, Turn, Produced, Heard, NoOutput,
         Protocol!NoOutput
<1>2. ASSUME SmInv, [SmNextState]_smVars
      PROVE  [Protocol!Next]_(Protocol!vars)
  <2> USE <1>2 DEF SmInv
  <2>1. CASE ~Serving /\ ~Serving'
    BY <2>1 DEF Serving, Turn, Produced, Heard, Protocol!vars
  <2>2. CASE ~Serving /\ Serving'
    <3>1. SmStart
      BY <2>2 DEF Serving, SmNextState, SmCallStep, SmDestroyStep, SmThreadStep,
         SmNativeNext, NativeNext, SmDestroyBegin, DestroyBegin, SmNext, NextDead,
         NextStore, NextNotify, SmReturn, NextReturn, NextTimeout, SmDestroyCheck,
         DestroyCheck, Interrupt, InterruptAgain, InterruptNothing, SmDestroyJoin,
         DestroyJoin, SmDestroyFree, DestroyFree, SmLock, JsLock, SmNewContext,
         SmInitRealm, SmYield, JsPublish, JsPark, JsSleepAgain, JsResume, SmSpuriousWake,
         SpuriousWake, SmBadSource, JsBadSource, SmScript, JsYield, JsEnd, SmInterrupted,
         JsKilled, SmDie, JsDie, JsMark, SmDestroyContext, SmClearContext, SmExit, JsExit, smVars, vars,
         engineVars, hostVars, Handshake
    <3> QED BY <2>2, <3>1 DEF SmStart, NativeStart, Serving, Turn, Produced, Heard,
            NoOutput, Protocol!vars, Protocol!Next, Protocol!Start, Protocol!NoOutput
  <2>3. CASE Serving
    <3>1. HandoffInv /\ TypeOK /\ handle /\ ~shouldKill
      BY <2>3 DEF ServingInv, Serving, SmTypeOK
    <3>2. CASE [Next]_vars
      BY <3>1, <3>2, ProtocolStep
    <3>3. CASE Interrupt \/ InterruptAgain
      BY <3>1, <3>3 DEF Interrupt, InterruptAgain, HandoffInv, AnyCallerInv, HostInv, InDestroy
    <3>4. CASE SmInitRealm
      <4>1. JsInit
        BY <3>1, <3>4 DEF SmInitRealm, JsInit, engineVars, Handshake, TypeOK
      <4> QED BY <3>1, <4>1, ProtocolStep DEF Next, ThreadStep
    <3>5. CASE SmNewContext \/ SmDestroyContext \/ SmClearContext
      <4>1. UNCHANGED <<outputPromise, promiseSet, deadResult, shouldKill, jsVars, hostVars>>
        BY <3>5 DEF SmNewContext, SmDestroyContext, SmClearContext, Handshake, vars, engineVars,
           jsVars, hostVars
      <4> QED BY <4>1 DEF Serving, Turn, Produced, Heard, Protocol!vars, jsVars, hostVars
    <3> QED BY <3>2, <3>3, <3>4, <3>5, EveryStep DEF OwnStep
  <2> QED BY <2>1, <2>2, <2>3
<1> QED BY <1>1, <1>2, AlwaysSmInv, PTL DEF SmSpec, ImplementsProtocol, Protocol!Spec
=============================================================================
