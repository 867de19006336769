------------------------- MODULE ArchitectureProofs -------------------------
(***************************************************************************)
(* Proofs about Architecture, for any number of calls and signals.  The    *)
(* inductive invariant says, for each state of the machine and each point  *)
(* of runThreaded, what the script waits on and what the invoker holds.    *)
(***************************************************************************)
EXTENDS Architecture, TLAPS

\* The engine, the machine's state and the run go together.
EngineInv ==
  /\ engine = "none" <=> awaits = Idle("none")
  /\ engine = "none" <=> machine = "stopped"
  /\ initialized <=> engine # "none"
  /\ engine = "started" => connected
  /\ engine = "new" => awaits = Idle("fresh") /\ machine # "running"
  /\ pc = "idle" <=> machine # "running"
  /\ stopAsked => machine = "running"
  /\ pc # "push" => input = {}
  /\ pc # "execute" => signal = {}

\* A signal or nothing, which is what may end a sleep.
Wakes(i) == i.kind \in {"signal", "null"}

\* The call id was answered by v, as a component or the missing method did.
Answers(v, id) ==
  \/ v = {Result(id)} /\ performed[id] = 1
  \/ v = {Empty(id)} /\ performed[id] = 0

\* Between two runs.
BetweenRunsInv ==
  /\ machine = "yielded" =>
       \/ awaits = Idle("fresh") /\ engine = "new"
       \/ awaits \in {Idle("bios"), Idle("sleep")} /\ engine = "started" /\ callResult = {}
  /\ machine = "syncCall" =>
       /\ engine = "started" /\ callResult = {}
       /\ \E id \in CallIds : /\ callToSync = {id} /\ awaits = Invoke(id)
                             /\ performed[id] = 0
  /\ machine = "syncReturn" =>
       /\ engine = "started"
       /\ \E id \in CallIds : /\ awaits = Invoke(id) /\ performed[id] = 1
                             /\ callResult = {Result(id)}

\* Within a run.
RunInv ==
  /\ pc = "execute" =>
       \/ awaits = Idle("fresh") /\ callResult = {Source}
       \/ awaits \in {Idle("bios"), Idle("sleep")} /\ callResult = {}
       \/ /\ signal = {}
          /\ \E id \in CallIds : awaits = Invoke(id) /\ Answers(callResult, id)
  /\ pc = "execute" => \A i \in signal : Wakes(i)
  /\ pc \in {"push", "script", "yielded"} => callResult = {}
  /\ pc = "push" =>
       \/ awaits = Idle("fresh") /\ input = {Source}
       \/ awaits \in {Idle("bios"), Idle("sleep")} /\ \A i \in input : Wakes(i)
       \/ awaits = Idle("callback") /\ input = {Callback}
       \/ \E id \in CallIds : awaits = Invoke(id) /\ Answers(input, id)
  /\ pc = "script" <=> awaits = Idle("running")
  /\ pc = "yielded" =>
       \/ awaits \in {Idle("bios"), Idle("sleep"), Idle("callback"), Idle("failed")}
       \/ \E id \in CallIds : awaits = Invoke(id) /\ performed[id] = 0

\* Calls are numbered in the order they are requested.
CallInv ==
  /\ \A id \in CallIds : awaits = Invoke(id) => id = calls
  /\ \A id \in CallIds : id > calls => performed[id] = 0

IInv == EngineInv /\ BetweenRunsInv /\ RunInv /\ CallInv

-----------------------------------------------------------------------------
\* A nullable field is null or holds one value of its type.
LEMMA OptionalEmpty == ASSUME NEW S PROVE {} \in Optional(S)
BY DEF Optional

LEMMA OptionalOne == ASSUME NEW S, NEW x \in S PROVE {x} \in Optional(S)
BY DEF Optional

\* The answers that the actions build are inputs.
LEMMA InputsBuilt ==
  /\ Source \in Inputs /\ Callback \in Inputs /\ Null \in Inputs
  /\ \A id \in CallIds : Result(id) \in Inputs /\ Empty(id) \in Inputs
  /\ \A id \in SignalIds : Signal(id) \in Inputs
BY DEF Inputs

\* The requests that the actions build are requests.
LEMMA RequestsBuilt ==
  /\ \A kind \in IdleKinds : Idle(kind) \in Requests
  /\ \A id \in CallIds : Invoke(id) \in Requests
BY DEF Requests

\* Only the answer to a call that found no method changes the number of calls, and
\* it is the last call.
LEMMA CallsLeftCases ==
  ASSUME TypeOK, RunInv, CallInv, pc \in {"push", "script"}, pc # "push" => input = {}
  PROVE  \/ CallsLeft = calls /\ \A id \in CallIds : input # {Empty(id)}
         \/ /\ calls \in CallIds /\ awaits = Invoke(calls)
            /\ input = {Empty(calls)} /\ performed[calls] = 0
            /\ CallsLeft = calls - 1
<1>1. CASE \A id \in CallIds : input # {Empty(id)}
  BY <1>1 DEF CallsLeft
<1>2. ASSUME NEW id \in CallIds, input = {Empty(id)}
      PROVE  /\ calls \in CallIds /\ awaits = Invoke(calls)
             /\ input = {Empty(calls)} /\ performed[calls] = 0
             /\ CallsLeft = calls - 1
  <2>1. pc = "push"
    BY <1>2
  <2>2. PICK other \in CallIds : awaits = Invoke(other) /\ Answers(input, other)
    <3>1. Empty(id) \in input /\ ~Wakes(Empty(id))
      BY <1>2 DEF Wakes, Empty
    <3>2. Source # Empty(id) /\ Callback # Empty(id)
      BY DEF Source, Callback, Empty
    <3>3. \/ input = {Source} \/ input = {Callback} \/ \A i \in input : Wakes(i)
          \/ \E other \in CallIds : awaits = Invoke(other) /\ Answers(input, other)
      BY <2>1, SMT DEF RunInv
    <3> QED
      <4>1. input # {Source} /\ input # {Callback}
        BY <3>1, <3>2
      <4> QED
        BY <3>1, <3>3, <4>1
  <2>3. other = id /\ performed[id] = 0
    <3>1. Result(other) # Empty(id)
      BY DEF Result, Empty
    <3>2. Empty(other) = Empty(id) /\ performed[other] = 0
      BY <1>2, <2>2, <3>1, Zenon DEF Answers
    <3>3. Empty(other).id = Empty(id).id
      BY <3>2
    <3> QED
      BY <3>2, <3>3 DEF Empty
  <2>4. id = calls
    BY <2>2, <2>3 DEF CallInv
  <2>5. CallsLeft = calls - 1
    BY <1>2 DEF CallsLeft
  <2> QED
    BY <1>2, <2>2, <2>3, <2>4, <2>5
<1> QED
  BY <1>1, <1>2

\* Every action keeps the fields in their types.
LEMMA TypeStep == TypeOK /\ IInv /\ [Next]_vars => TypeOK'
<1> DEFINE Goal == TypeOK'
<1> SUFFICES ASSUME TypeOK, IInv, [Next]_vars PROVE Goal
  OBVIOUS
<1>0. pc \in {"push", "script"} => CallsLeft \in 0 .. MaxCalls
  BY CallsLeftCases, ArchitectureBounds DEF IInv, EngineInv, TypeOK, CallIds
<1> USE ArchitectureBounds, OptionalEmpty, OptionalOne, InputsBuilt, RequestsBuilt
    DEF TypeOK, MachineStates, IdleKinds, CallIds, SignalIds, archVars, invokerVars,
        machineVars, runVars, scriptVars
<1>1. CASE OnConnect
  BY <1>1 DEF OnConnect
<1>2. CASE Initialize
  <2>1. connected' \in BOOLEAN /\ initialized' \in BOOLEAN
    BY <1>2, Zenon DEF Initialize
  <2>2. signals' \in Seq(SignalIds)
    BY <1>2 DEF Initialize
  <2> QED
    BY <1>2, <2>1, <2>2 DEF Initialize
<1>3. CASE AddSignal
  BY <1>3 DEF AddSignal
<1>4. CASE Stop
  BY <1>4 DEF Stop
<1>5. CASE Close
  BY <1>5 DEF Close
<1>6. CASE RunUnconnected
  BY <1>6 DEF RunUnconnected
<1>7. CASE RunThreaded
  <2>1. signal' \in Optional(Inputs) /\ signals' \in Seq(SignalIds)
    <3>1. CASE machine = "yielded" /\ signals # <<>>
      <4>1. Head(signals) \in SignalIds /\ Tail(signals) \in Seq(SignalIds)
        BY <3>1
      <4>2. Signal(Head(signals)) \in Inputs
        BY <4>1
      <4>3. {Signal(Head(signals))} \in Optional(Inputs)
        BY <4>2
      <4>4. signal' = {Signal(Head(signals))} /\ signals' = Tail(signals)
        BY <1>7, <3>1 DEF RunThreaded, PopSignal
      <4> QED
        BY <4>1, <4>3, <4>4
    <3>2. CASE ~(machine = "yielded" /\ signals # <<>>)
      BY <1>7, <3>2 DEF RunThreaded, PopSignal
    <3> QED
      BY <3>1, <3>2
  <2>2. callResult' \in Optional(Inputs) /\ engine' \in {"none", "new", "started"}
    BY <1>7 DEF RunThreaded, StartEngine
  <2> QED
    BY <1>7, <2>1, <2>2 DEF RunThreaded
<1>8. CASE BothPending
  BY <1>8 DEF BothPending, Return
<1>9. CASE ExecuteThreaded
  BY <1>9 DEF ExecuteThreaded
<1>10. CASE TakeSource
  BY <1>10 DEF TakeSource, ScriptOnly
<1>11. CASE DropSource
  BY <1>11 DEF DropSource, ScriptOnly
<1>12. CASE PushFails
  BY <1>12, <1>0 DEF PushFails, ScriptOnly
<1>13. CASE Resume
  BY <1>13, <1>0 DEF Resume, ScriptOnly
<1>14. CASE ScriptYields
  BY <1>14 DEF ScriptYields, ScriptOnly
<1>15. CASE ScriptInvokes
  BY <1>15 DEF ScriptInvokes, ScriptOnly
<1>16. CASE HandleSleep
  BY <1>16 DEF HandleSleep, Return
<1>17. CASE HandleCallback
  BY <1>17 DEF HandleCallback
<1>18. CASE HandleFailure
  BY <1>18 DEF HandleFailure, Return
<1>19. ASSUME NEW id \in CallIds, InvokeFails(id) PROVE Goal
  <2>1. [performed EXCEPT ![id] = @ + 1] \in [CallIds -> Nat]
    OBVIOUS
  <2>2. performed' \in [CallIds -> Nat]
    BY <1>19, <2>1 DEF InvokeFails
  <2> QED
    BY <1>19, <2>2 DEF InvokeFails, Invoked, Return
<1>20. ASSUME NEW id \in CallIds, InvokeMissing(id) PROVE Goal
  BY <1>20 DEF InvokeMissing, Invoked
<1>21. ASSUME NEW id \in CallIds, InvokeDirect(id) PROVE Goal
  BY <1>21 DEF InvokeDirect, Invoked
<1>22. ASSUME NEW id \in CallIds, InvokeDeferred(id) PROVE Goal
  BY <1>22 DEF InvokeDeferred, Invoked, Return
<1>23. CASE RunSynchronized
  <2>1. CASE callToSync = {}
    BY <1>23, <2>1 DEF RunSynchronized
  <2>2. CASE callToSync # {}
    <3>1. PICK id \in callToSync :
            /\ performed' = [performed EXCEPT ![id] = @ + 1]
            /\ callResult' = {Result(id)}
            /\ callToSync' = {}
      BY <1>23, <2>2 DEF RunSynchronized
    <3>2. id \in CallIds
      BY DEF Optional
    <3> QED
      BY <1>23, <3>1, <3>2 DEF RunSynchronized
  <2> QED
    BY <2>1, <2>2
<1>24. CASE RunSynchronizedFails
  <2>1. PICK id \in callToSync :
          performed' \in {performed, [performed EXCEPT ![id] = @ + 1]}
    BY <1>24 DEF RunSynchronizedFails
  <2>2. id \in CallIds
    BY DEF Optional
  <2>3. [performed EXCEPT ![id] = @ + 1] \in [CallIds -> Nat]
    BY <2>2
  <2>4. performed' \in [CallIds -> Nat]
    BY <2>1, <2>3
  <2> QED
    BY <1>24, <2>4 DEF RunSynchronizedFails
<1>25. CASE UNCHANGED vars
  BY <1>25 DEF vars
<1>26. CASE InitializeFails
  <2>1. connected' \in BOOLEAN
    BY <1>26, Zenon DEF InitializeFails
  <2> QED
    BY <1>26, <2>1 DEF InitializeFails
<1>27. CASE RunThreadedFails
  <2>1. callResult' \in Optional(Inputs) /\ engine' \in {"none", "new", "started"}
    BY <1>27 DEF RunThreadedFails, StartEngine
  <2>2. signals' \in Seq(SignalIds)
    <3>1. signals # <<>> => Tail(signals) \in Seq(SignalIds)
      OBVIOUS
    <3> QED
      BY <1>27, <3>1 DEF RunThreadedFails
  <2> QED
    BY <1>27, <2>1, <2>2 DEF RunThreadedFails
<1>28. CASE PushCrashes
  BY <1>28, <1>0 DEF PushCrashes, ScriptOnly
<1> QED
  BY <1>1, <1>2, <1>3, <1>4, <1>5, <1>6, <1>7, <1>8, <1>9, <1>10, <1>11, <1>12, <1>13,
     <1>14, <1>15, <1>16, <1>17, <1>18, <1>19, <1>20, <1>21, <1>22, <1>23, <1>24, <1>25,
     <1>26, <1>27, <1>28
  DEF Next, RunStep, SyncStep, ScriptTurn, HandleInvoke

\* Every action keeps the inductive invariant.
LEMMA InductiveStep == TypeOK /\ IInv /\ [Next]_vars => IInv'
<1> DEFINE Goal == IInv'
<1> SUFFICES ASSUME TypeOK, IInv, [Next]_vars PROVE Goal
  OBVIOUS
<1>0. pc \in {"push", "script"} =>
        \/ CallsLeft = calls
        \/ /\ calls \in CallIds /\ performed[calls] = 0
           /\ CallsLeft = calls - 1
  BY CallsLeftCases DEF IInv, EngineInv
<1> USE ArchitectureBounds
    DEF TypeOK, IInv, EngineInv, BetweenRunsInv, RunInv, CallInv, Wakes, Answers,
        Idle, Invoke, Source, Result, Empty, Signal, Callback, Null, MachineStates,
        CallIds, archVars, invokerVars, machineVars, runVars, scriptVars
<1>1. CASE OnConnect
  BY <1>1 DEF OnConnect
<1>2. CASE Initialize
  BY <1>2 DEF Initialize
<1>3. CASE AddSignal
  BY <1>3 DEF AddSignal
<1>4. CASE Stop
  BY <1>4 DEF Stop
<1>5. CASE Close
  BY <1>5 DEF Close
<1>6. CASE RunUnconnected
  BY <1>6 DEF RunUnconnected
<1>7. CASE RunThreaded
  BY <1>7 DEF RunThreaded, StartEngine, PopSignal
<1>8. CASE BothPending
  BY <1>8 DEF BothPending, Return
<1>9. CASE ExecuteThreaded
  <2>1. CASE awaits = Idle("fresh") /\ callResult = {Source}
    BY <1>9, <2>1 DEF ExecuteThreaded
  <2>2. CASE awaits \in {Idle("bios"), Idle("sleep")} /\ callResult = {}
    BY <1>9, <2>2 DEF ExecuteThreaded
  <2>3. ASSUME NEW id \in CallIds, signal = {}, awaits = Invoke(id),
               Answers(callResult, id)
        PROVE  Goal
    BY <1>9, <2>3 DEF ExecuteThreaded
  <2> QED
    BY <1>9, <2>1, <2>2, <2>3 DEF ExecuteThreaded
<1>10. CASE TakeSource
  BY <1>10 DEF TakeSource, ScriptOnly
<1>11. CASE DropSource
  BY <1>11 DEF DropSource, ScriptOnly
<1>12. CASE PushFails
  BY <1>12, <1>0 DEF PushFails, ScriptOnly
<1>13. CASE Resume
  BY <1>13, <1>0 DEF Resume, ScriptOnly
<1>14. CASE ScriptYields
  BY <1>14 DEF ScriptYields, ScriptOnly
<1>15. CASE ScriptInvokes
  BY <1>15 DEF ScriptInvokes, ScriptOnly
<1>16. CASE HandleSleep
  BY <1>16 DEF HandleSleep, Return
<1>17. CASE HandleCallback
  BY <1>17 DEF HandleCallback
<1>18. CASE HandleFailure
  BY <1>18 DEF HandleFailure, Return
<1>19. ASSUME NEW id \in CallIds, InvokeFails(id) PROVE Goal
  BY <1>19 DEF InvokeFails, Invoked, Return
<1>20. ASSUME NEW id \in CallIds, InvokeMissing(id) PROVE Goal
  BY <1>20 DEF InvokeMissing, Invoked
<1>21. ASSUME NEW id \in CallIds, InvokeDirect(id) PROVE Goal
  <2>1. awaits = Invoke(id) /\ id = calls /\ performed[id] = 0
    BY <1>21 DEF InvokeDirect, Invoked
  <2>2. /\ performed'[id] = 1
        /\ \A other \in CallIds : other # id => performed'[other] = performed[other]
    BY <1>21, <2>1 DEF InvokeDirect
  <2>3. EngineInv' /\ BetweenRunsInv'
    BY <1>21, <2>1 DEF InvokeDirect, Invoked
  <2>4. CallInv'
    BY <1>21, <2>1, <2>2 DEF InvokeDirect, Invoked
  <2>5. RunInv'
    BY <1>21, <2>1, <2>2 DEF InvokeDirect, Invoked
  <2> QED
    BY <2>3, <2>4, <2>5
<1>22. ASSUME NEW id \in CallIds, InvokeDeferred(id) PROVE Goal
  BY <1>22 DEF InvokeDeferred, Invoked, Return
<1>23. CASE RunSynchronized
  <2>1. PICK id \in CallIds : /\ callToSync = {id} /\ awaits = Invoke(id)
                             /\ performed[id] = 0
    BY <1>23 DEF RunSynchronized
  <2>2. /\ performed' = [performed EXCEPT ![id] = @ + 1]
        /\ callResult' = {Result(id)}
    BY <1>23, <2>1 DEF RunSynchronized
  <2>3. /\ performed'[id] = 1
        /\ \A other \in CallIds : other # id => performed'[other] = performed[other]
    BY <2>1, <2>2
  <2>4. EngineInv' /\ BetweenRunsInv'
    BY <1>23, <2>1, <2>2, <2>3 DEF RunSynchronized
  <2>5. CallInv'
    BY <1>23, <2>1, <2>3 DEF RunSynchronized
  <2>6. RunInv'
    BY <1>23, <2>1 DEF RunSynchronized
  <2> QED
    BY <2>4, <2>5, <2>6
<1>24. CASE RunSynchronizedFails
  BY <1>24 DEF RunSynchronizedFails
<1>25. CASE UNCHANGED vars
  BY <1>25 DEF vars
<1>26. CASE InitializeFails
  BY <1>26 DEF InitializeFails
<1>27. CASE RunThreadedFails
  BY <1>27 DEF RunThreadedFails, StartEngine
<1>28. CASE PushCrashes
  BY <1>28, <1>0 DEF PushCrashes, ScriptOnly
<1> QED
  BY <1>1, <1>2, <1>3, <1>4, <1>5, <1>6, <1>7, <1>8, <1>9, <1>10, <1>11, <1>12, <1>13,
     <1>14, <1>15, <1>16, <1>17, <1>18, <1>19, <1>20, <1>21, <1>22, <1>23, <1>24, <1>25,
     <1>26, <1>27, <1>28
  DEF Next, RunStep, SyncStep, ScriptTurn, HandleInvoke

-----------------------------------------------------------------------------
\* The fields have their types and the inductive invariant holds, throughout.
THEOREM Invariant == Spec => [](TypeOK /\ IInv)
<1>1. Init => TypeOK
  <2> SUFFICES ASSUME Init PROVE TypeOK
    OBVIOUS
  <2>1. connected \in BOOLEAN /\ initialized \in BOOLEAN /\ stopAsked \in BOOLEAN
    BY Zenon DEF Init
  <2> QED
    BY <2>1, ArchitectureBounds, OptionalEmpty, RequestsBuilt
    DEF Init, TypeOK, MachineStates, IdleKinds
<1>2. Init => IInv
  BY DEF Init, IInv, EngineInv, BetweenRunsInv, RunInv, CallInv, Idle, Invoke
<1> QED
  BY <1>1, <1>2, TypeStep, InductiveStep, PTL DEF Spec

\* The fields of Architecture always have their types.
THEOREM TypeCorrect == Spec => []TypeOK
BY Invariant, PTL

\* Every value pushed to the script answers the request it waits on, through
\* any number of stops, crashes and restarts.
THEOREM AnswersAlwaysMatch == Spec => []AnswersMatchRequests
<1>1. IInv => AnswersMatchRequests
  <2> SUFFICES ASSUME IInv, pc = "push" PROVE AnswersMatchRequests
    BY DEF AnswersMatchRequests
  <2>1. CASE awaits \in {Idle("bios"), Idle("sleep")} /\ \A i \in input : Wakes(i)
    <3>1. ~Wakes(Source)
      BY DEF Wakes, Source
    <3>2. input # {Source}
      BY <2>1, <3>1, Zenon
    <3> QED
      BY <2>1, <3>2 DEF AnswersMatchRequests, Wakes
  <2>2. ASSUME NEW id \in CallIds, awaits = Invoke(id), Answers(input, id)
        PROVE  AnswersMatchRequests
    BY <2>2, Zenon DEF Answers, AnswersMatchRequests
  <2> QED
    BY <2>1, <2>2, Zenon DEF IInv, RunInv, AnswersMatchRequests
<1> QED
  BY <1>1, Invariant, PTL

\* runSynchronized never performs a call left over from an earlier life.
THEOREM SyncCallsAreCurrent == Spec => []SyncCallIsCurrent
<1>1. IInv => SyncCallIsCurrent
  BY DEF IInv, BetweenRunsInv, SyncCallIsCurrent
<1> QED
  BY <1>1, Invariant, PTL

\* After the first run of an engine, a signal and a call result never meet.
THEOREM BothAreRare == Spec => []BothOnlyAtBoot
<1>1. IInv => BothOnlyAtBoot
  BY DEF IInv, RunInv, BothOnlyAtBoot
<1> QED
  BY <1>1, Invariant, PTL

-----------------------------------------------------------------------------
\* Every step of the architecture is a step of the call it carries, or none.
LEMMA CallStep == TypeOK /\ IInv /\ [Next]_vars => [Call!Next]_(Call!vars)
<1> DEFINE Goal == [Call!Next]_(Call!vars)
<1> SUFFICES ASSUME TypeOK, IInv, [Next]_vars PROVE Goal
  OBVIOUS
<1>0. pc \in {"push", "script"} =>
        \/ CallsLeft = calls /\ \A id \in CallIds : input # {Empty(id)}
        \/ /\ calls \in CallIds /\ awaits = Invoke(calls)
           /\ input = {Empty(calls)} /\ performed[calls] = 0
           /\ CallsLeft = calls - 1
  BY CallsLeftCases DEF IInv, EngineInv
<1> USE ArchitectureBounds
    DEF TypeOK, IInv, EngineInv, BetweenRunsInv, RunInv, CallInv, Wakes, Answers,
        Idle, Invoke, Source, Result, Empty, Signal, Callback, Null, MachineStates,
        CallIds, archVars, invokerVars, machineVars, runVars, scriptVars, Phase,
        Settled, Call!vars
<1>1. CASE OnConnect
  BY <1>1 DEF OnConnect
<1>2. CASE Initialize
  BY <1>2 DEF Initialize, Call!Next, Call!TurnOn
<1>3. CASE AddSignal
  BY <1>3 DEF AddSignal
<1>4. CASE Stop
  BY <1>4 DEF Stop
<1>5. CASE Close
  BY <1>5 DEF Close, Call!Next, Call!TurnOff
<1>6. CASE RunUnconnected
  BY <1>6 DEF RunUnconnected
<1>7. CASE RunThreaded
  BY <1>7 DEF RunThreaded, StartEngine, PopSignal
<1>8. CASE BothPending
  BY <1>8 DEF BothPending, Return
<1>9. CASE ExecuteThreaded
  BY <1>9 DEF ExecuteThreaded
<1>10. CASE TakeSource
  BY <1>10 DEF TakeSource, ScriptOnly
<1>11. CASE DropSource
  BY <1>11 DEF DropSource, ScriptOnly
<1>12. CASE PushFails
  <2>1. CASE CallsLeft = calls - 1 /\ calls \in CallIds /\ awaits = Invoke(calls)
             /\ input = {Empty(calls)} /\ performed[calls] = 0
    <3>1. Phase = "settled"
      BY <1>12, <2>1 DEF PushFails
    <3>2. Phase' = "none" /\ calls' = calls - 1 /\ performed' = performed
      BY <1>12, <2>1 DEF PushFails, ScriptOnly
    <3> QED
      BY <2>1, <3>1, <3>2 DEF Call!Next, Call!Answer
  <2>2. CASE CallsLeft = calls /\ \A id \in CallIds : input # {Empty(id)}
    <3>1. calls' = calls /\ performed' = performed /\ Phase' = "none"
      BY <1>12, <2>2 DEF PushFails, ScriptOnly
    <3>2. CASE Phase = "none"
      BY <3>1, <3>2
    <3>3. CASE Phase # "none"
      <4>1. PICK id \in CallIds : awaits = Invoke(id)
        BY <1>12, <3>3 DEF PushFails
      <4>2. performed[id] = 1 /\ id = calls
        BY <1>12, <2>2, <4>1 DEF PushFails
      <4>3. Phase = "settled"
        BY <3>3, <4>1, <4>2
      <4> QED
        BY <3>1, <4>2, <4>3 DEF Call!Next, Call!Answer
    <3> QED
      BY <3>2, <3>3
  <2> QED
    BY <1>12, <1>0, <2>1, <2>2 DEF PushFails
<1>13. CASE Resume
  <2>1. CASE CallsLeft = calls - 1 /\ calls \in CallIds /\ awaits = Invoke(calls)
             /\ input = {Empty(calls)} /\ performed[calls] = 0
    <3>1. Phase = "settled"
      BY <1>13, <2>1 DEF Resume
    <3>2. Phase' = "none" /\ calls' = calls - 1 /\ performed' = performed
      BY <1>13, <2>1 DEF Resume, ScriptOnly
    <3> QED
      BY <2>1, <3>1, <3>2 DEF Call!Next, Call!Answer
  <2>2. CASE CallsLeft = calls /\ \A id \in CallIds : input # {Empty(id)}
    <3>1. calls' = calls /\ performed' = performed /\ Phase' = "none"
      BY <1>13, <2>2 DEF Resume, ScriptOnly
    <3>2. CASE Phase = "none"
      BY <3>1, <3>2
    <3>3. CASE Phase # "none"
      <4>1. PICK id \in CallIds : awaits = Invoke(id)
        BY <1>13, <3>3 DEF Resume
      <4>2. performed[id] = 1 /\ id = calls
        BY <1>13, <2>2, <4>1 DEF Resume
      <4>3. Phase = "settled"
        BY <3>3, <4>1, <4>2
      <4> QED
        BY <3>1, <4>2, <4>3 DEF Call!Next, Call!Answer
    <3> QED
      BY <3>2, <3>3
  <2> QED
    BY <1>13, <1>0, <2>1, <2>2 DEF Resume
<1>14. CASE ScriptYields
  BY <1>14 DEF ScriptYields, ScriptOnly
<1>15. CASE ScriptInvokes
  <2>1. calls' \in CallIds /\ awaits' = Invoke(calls') /\ performed'[calls'] = 0
    BY <1>15 DEF ScriptInvokes, ScriptOnly
  <2>2. Phase = "none"
    BY <1>15 DEF ScriptInvokes
  <2>3. Phase' = "asked"
    <3>1. awaits'.id = calls'
      BY <2>1
    <3>2. callResult' = {} /\ input' = {} /\ engine' # "none"
      BY <1>15 DEF ScriptInvokes, ScriptOnly
    <3>3. awaits'.kind = "invoke"
      BY <2>1
    <3>4. ~(performed'[calls'] > 0)
      BY <2>1
    <3> QED
      BY <3>1, <3>2, <3>3, <3>4
  <2> QED
    BY <1>15, <2>2, <2>3 DEF ScriptInvokes, ScriptOnly, Call!Next, Call!Ask
<1>16. CASE HandleSleep
  BY <1>16 DEF HandleSleep, Return
<1>17. CASE HandleCallback
  BY <1>17 DEF HandleCallback
<1>18. CASE HandleFailure
  BY <1>18 DEF HandleFailure, Return
<1>19. ASSUME NEW id \in CallIds, InvokeFails(id) PROVE Goal
  <2>1. awaits = Invoke(id) /\ id = calls /\ performed[id] = 0
    BY <1>19 DEF InvokeFails, Invoked
  <2>2. CASE performed' = performed
    BY <1>19, <2>2 DEF InvokeFails, Invoked, Return
  <2>3. CASE performed' = [performed EXCEPT ![id] = @ + 1]
    <3>1. performed' = [performed EXCEPT ![calls] = 1]
      BY <2>1, <2>3
    <3>2. Phase = "asked"
      <4>1. callResult = {} /\ input = {} /\ engine # "none"
        BY <1>19 DEF InvokeFails, Invoked
      <4>2. awaits.kind = "invoke" /\ awaits.id = id /\ ~(performed[id] > 0)
        BY <2>1
      <4> QED
        BY <4>1, <4>2
    <3>3. Phase' = "settled"
      BY <1>19, <2>1, <3>1 DEF InvokeFails, Invoked, Return
    <3> QED
      BY <1>19, <3>1, <3>2, <3>3 DEF InvokeFails, Call!Next, Call!Perform
  <2> QED
    BY <1>19, <2>2, <2>3 DEF InvokeFails
<1>20. ASSUME NEW id \in CallIds, InvokeMissing(id) PROVE Goal
  BY <1>20 DEF InvokeMissing, Invoked, Call!Next, Call!NoSuchMethod
<1>21. ASSUME NEW id \in CallIds, InvokeDirect(id) PROVE Goal
  <2>1. awaits = Invoke(id) /\ id = calls /\ performed[id] = 0
    BY <1>21 DEF InvokeDirect, Invoked
  <2>2. performed' = [performed EXCEPT ![calls] = 1]
    BY <1>21, <2>1 DEF InvokeDirect
  <2>3. Phase = "asked"
    <3>1. callResult = {} /\ input = {} /\ engine # "none"
      BY <1>21 DEF InvokeDirect, Invoked
    <3>2. awaits.kind = "invoke" /\ awaits.id = id /\ ~(performed[id] > 0)
      BY <2>1
    <3> QED
      BY <3>1, <3>2
  <2>4. Phase' = "settled"
    BY <1>21, <2>1, <2>2 DEF InvokeDirect, Invoked
  <2> QED
    BY <1>21, <2>2, <2>3, <2>4 DEF InvokeDirect, Call!Next, Call!Perform
<1>22. ASSUME NEW id \in CallIds, InvokeDeferred(id) PROVE Goal
  BY <1>22 DEF InvokeDeferred, Invoked, Return
<1>23. CASE RunSynchronized
  <2>1. PICK id \in CallIds : /\ callToSync = {id} /\ awaits = Invoke(id)
                             /\ performed[id] = 0
    BY <1>23 DEF RunSynchronized
  <2>2. /\ performed' = [performed EXCEPT ![id] = @ + 1]
        /\ callResult' = {Result(id)}
    BY <1>23, <2>1 DEF RunSynchronized
  <2>3. id = calls /\ performed' = [performed EXCEPT ![calls] = 1]
    <3>1. id = calls
      BY <2>1
    <3>2. performed[id] + 1 = 1
      BY <2>1
    <3> QED
      BY <2>2, <3>1, <3>2
  <2>4. Phase = "asked"
    <3>1. callResult = {} /\ input = {} /\ engine # "none"
      BY <1>23 DEF RunSynchronized
    <3>2. awaits.kind = "invoke" /\ awaits.id = id /\ ~(performed[id] > 0)
      BY <2>1
    <3> QED
      BY <3>1, <3>2
  <2>5. Phase' = "settled"
    BY <1>23, <2>1, <2>3 DEF RunSynchronized
  <2> QED
    BY <1>23, <2>3, <2>4, <2>5 DEF RunSynchronized, Call!Next, Call!Perform
<1>24. CASE RunSynchronizedFails
  <2>1. PICK id \in CallIds : /\ callToSync = {id} /\ awaits = Invoke(id)
                             /\ performed[id] = 0 /\ id = calls
    BY <1>24 DEF RunSynchronizedFails
  <2>2. CASE performed' = performed
    BY <1>24, <2>2 DEF RunSynchronizedFails
  <2>3. CASE performed' = [performed EXCEPT ![id] = @ + 1]
    <3>1. performed' = [performed EXCEPT ![calls] = 1]
      BY <2>1, <2>3
    <3>2. Phase = "asked"
      <4>1. callResult = {} /\ input = {} /\ engine # "none"
        BY <1>24 DEF RunSynchronizedFails
      <4>2. awaits.kind = "invoke" /\ awaits.id = id /\ ~(performed[id] > 0)
        BY <2>1
      <4> QED
        BY <4>1, <4>2
    <3>3. Phase' = "settled"
      BY <1>24, <2>1, <3>1 DEF RunSynchronizedFails
    <3> QED
      BY <1>24, <3>1, <3>2, <3>3 DEF RunSynchronizedFails, Call!Next, Call!Perform
  <2> QED
    BY <1>24, <2>1, <2>2, <2>3, Zenon DEF RunSynchronizedFails
<1>25. CASE UNCHANGED vars
  BY <1>25 DEF vars
<1>26. CASE InitializeFails
  BY <1>26 DEF InitializeFails
<1>27. CASE RunThreadedFails
  BY <1>27 DEF RunThreadedFails, StartEngine
<1>28. CASE PushCrashes
  <2>1. CASE CallsLeft = calls - 1 /\ calls \in CallIds /\ awaits = Invoke(calls)
             /\ input = {Empty(calls)} /\ performed[calls] = 0
    <3>1. Phase = "settled"
      BY <1>28, <2>1 DEF PushCrashes
    <3>2. Phase' = "none" /\ calls' = calls - 1 /\ performed' = performed
      BY <1>28, <2>1 DEF PushCrashes, ScriptOnly
    <3> QED
      BY <2>1, <3>1, <3>2 DEF Call!Next, Call!Answer
  <2>2. CASE CallsLeft = calls /\ \A id \in CallIds : input # {Empty(id)}
    <3>1. calls' = calls /\ performed' = performed /\ Phase' = "none"
      BY <1>28, <2>2 DEF PushCrashes, ScriptOnly
    <3>2. CASE Phase = "none"
      BY <3>1, <3>2
    <3>3. CASE Phase # "none"
      <4>1. PICK id \in CallIds : awaits = Invoke(id)
        BY <1>28, <3>3 DEF PushCrashes
      <4>2. performed[id] = 1 /\ id = calls
        BY <1>28, <2>2, <4>1 DEF PushCrashes
      <4>3. Phase = "settled"
        BY <3>3, <4>1, <4>2
      <4> QED
        BY <3>1, <4>2, <4>3 DEF Call!Next, Call!Answer
    <3> QED
      BY <3>2, <3>3
  <2> QED
    BY <1>28, <1>0, <2>1, <2>2 DEF PushCrashes
<1> QED
  BY <1>1, <1>2, <1>3, <1>4, <1>5, <1>6, <1>7, <1>8, <1>9, <1>10, <1>11, <1>12, <1>13,
     <1>14, <1>15, <1>16, <1>17, <1>18, <1>19, <1>20, <1>21, <1>22, <1>23, <1>24, <1>25,
     <1>26, <1>27, <1>28
  DEF Next, RunStep, SyncStep, ScriptTurn, HandleInvoke

\* Calls are performed at most once, while they are waited for, and answered
\* once settled.
THEOREM Refinement == Spec => ImplementsRemoteCall
<1>1. Init => Call!Init
  BY DEF Init, Call!Init, Phase, CallIds
<1> QED
  BY <1>1, CallStep, Invariant, PTL
  DEF Spec, ImplementsRemoteCall, Call!Spec
=============================================================================
