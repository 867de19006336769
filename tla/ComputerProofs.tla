--------------------------- MODULE ComputerProofs ---------------------------
(***************************************************************************)
(* Proofs about Computer, for any number of calls, signals and yields: the *)
(* real engine under runThreaded is the coroutine of Architecture.         *)
(*                                                                         *)
(* The inductive invariant CInv has three parts.  EngineFacts is that of   *)
(* NativeEngine with a caller that stops after a failure, and RunFacts     *)
(* that of Architecture, seen through the refinement mapping.  JoinInv     *)
(* relates the two: the positions of the two threads, what runThreaded has *)
(* heard and the number of the output it heard it with, and the values in  *)
(* flight and the request they answer.  Each part is kept with the help of *)
(* the others: Architecture's says that a late engine is never pushed to,  *)
(* NativeEngine's that a value reaches the script it was meant for, and    *)
(* JoinInv that the joint steps are steps of both.                         *)
(***************************************************************************)
EXTENDS Computer, EngineProofs

\* The mapping of Computer, with the theorems about Architecture.
Arch == INSTANCE ArchitectureProofs WITH
  pc <- IF Pending THEN "push" ELSE pc,
  input <- IF Pending THEN {given.value} ELSE input,
  awaits <- IF pc = "script" /\ ~Pending THEN M!Idle("running") ELSE awaits

\* The value answers the request.
Fits(value, asked) ==
  CASE asked.kind = "sleep" -> value.kind \in {"signal", "null"}
    [] asked.kind = "callback" -> value = M!Callback
    [] asked.kind = "invoke" -> value \in {M!Result(asked.id), M!Empty(asked.id)}
    [] OTHER -> FALSE

\* What ScriptAsks may ask for.
Asked == {M!Idle("sleep"), M!Idle("callback"), M!Idle("failed")}
           \cup {M!Invoke(id) : id \in M!CallIds}

\* runThreaded is in the script while the caller is in native_next, and the
\* engine is there except at the end of close().
PlaceInv ==
  /\ pc = "script" <=> hostPc \in InNext
  /\ machine \notin {"stopped", "stopping"} => handle
  /\ machine = "stopped" => ~handle
  /\ hostPc \in InDestroy => machine = "stopping"
  /\ hostPc \in InNext => started
  /\ pc = "script" => input = {}

\* The request that goes with the number of the output; a component call that
\* has not been heard of is the next one.
RequestInv ==
  /\ yieldNo = 0 => request = M!Idle("bios")
  /\ yieldNo > 0 => request \in Asked
  /\ seen \notin {yieldNo, DeadOutput} /\ request.kind = "invoke"
       => request = M!Invoke(calls + 1)

\* What runThreaded has heard is what native_next returned last.
HeardInv ==
  /\ seen = DeadOutput \/ seen =< yieldNo
  /\ gaveUp \/ (seen = DeadOutput /\ final = "failed")
       => awaits \in {M!Idle("failed"), M!Idle("none")}
  /\ seen = DeadOutput => jsPc \in {"mark", "end", "exit"}
  /\ handle /\ ~gaveUp =>
       /\ seen = NoOutput => awaits = M!Idle("fresh")
       /\ pc # "script" /\ seen \notin {NoOutput, DeadOutput}
            => awaits = request /\ seen = yieldNo
  /\ awaits = M!Idle("fresh") => seen = NoOutput /\ (pc # "script" => ~started)
  /\ awaits = M!Idle("bios") => seen = 0 /\ yieldNo = 0 /\ started
  /\ pc = "script" => awaits \in {M!Idle("fresh"), M!Idle("bios"), M!Idle("running")}
  /\ awaits = M!Idle("running") => pc = "script" /\ seen > 0

\* The value on its way to the script is that of the last native_next, and it
\* answers the request.
GivenInv ==
  /\ pc = "script" => given.to = seen
  /\ jsPc = "run" => answer # {} /\ \A i \in answer : i.to = given.to
  /\ HasInput => \A i \in nextInput : i.to = given.to
  /\ hostPc = "lock" => \A i \in call : i.to = given.to
  /\ (hostPc = "lock" /\ seen \notin {NoOutput, 0, DeadOutput}) \/ ((jsPc = "run" \/ HasInput) /\ yieldNo > 0)
       => Fits(given.value, request)

\* The first value of an engine is its source, and the script begins with it or
\* never.
SourceInv ==
  /\ awaits = M!Idle("fresh") =>
       /\ pc = "script" => given.value = M!Source
       /\ \A i \in call \cup nextInput \cup answer : i.what = "source"
  /\ awaits = M!Idle("bios") =>
       /\ \A i \in call \cup answer : i.what = "answer"
       /\ jsPc \in Waiting => \A i \in nextInput : i.what = "answer"
  /\ Booting /\ hostPc \notin {"notify", "wait"} => answer = {}
  /\ yieldNo > 0 => answer # {}
  /\ yieldNo = 0 /\ answer # {} => jsPc \in {"run", "die", "mark", "end", "exit"}

\* An engine that was in time when it was destroyed does not execute any more.
QuietInv == shouldKill /\ ~gaveUp => ~Busy

\* What is in the caller's future is news.
NewsInv ==
  hostPc \in {"notify", "wait"} /\ seen = yieldNo =>
     /\ HasInput \/ jsPc \in {"run", "die", "mark", "end", "exit"}
     /\ reply \in {NoOutput, DeadOutput}

\* Only a script that has had its source ends by itself.
FinalInv ==
  /\ final \in {"sleep", "callback", "invoke", "failed"}
  /\ final # "failed" =>
       answer # {} /\ HasSource /\ jsPc \in {"die", "mark", "end", "exit"}

JoinInv ==
  /\ PlaceInv /\ RequestInv /\ HeardInv /\ GivenInv /\ SourceInv
  /\ QuietInv /\ NewsInv /\ FinalInv

EngineFacts == TypeOK /\ IInv /\ DriverInv
RunFacts == Arch!TypeOK /\ Arch!IInv

CInv == EngineFacts /\ RunFacts /\ JoinInv

-----------------------------------------------------------------------------
USE EngineBounds, RetriesAssumption, ComputerBounds

\* What the invariant of Architecture says where the values are the machine's.
PushInv ==
  pc = "push" =>
    \/ awaits = M!Idle("fresh") /\ input = {M!Source}
    \/ awaits \in {M!Idle("bios"), M!Idle("sleep")}
       /\ \A i \in input : i.kind \in {"signal", "null"}
    \/ awaits = M!Idle("callback") /\ input = {M!Callback}
    \/ \E id \in M!CallIds : /\ awaits = M!Invoke(id)
                             /\ input \in {{M!Result(id)}, {M!Empty(id)}}

RunView ==
  /\ pc # "script" => \A v \in input : input = {v}
  /\ pc \in {"idle", "execute", "push", "script", "yielded", "crashed"}
  /\ machine \in M!MachineStates
  /\ calls \in 0 .. MaxCalls
  /\ pc = "idle" <=> machine # "running"
  /\ engine = "none" <=> machine = "stopped"
  /\ engine = "none" => pc # "script" /\ awaits = M!Idle("none")
  /\ pc # "script" /\ awaits = M!Idle("none") => engine = "none"
  /\ initialized <=> engine # "none"
  /\ PushInv
  /\ pc = "yielded" =>
       \/ awaits \in {M!Idle("bios"), M!Idle("sleep"), M!Idle("callback"), M!Idle("failed")}
       \/ \E id \in M!CallIds : awaits = M!Invoke(id) /\ id = calls

\* RunView is Architecture's invariant without the mapping.
LEMMA ViewRun ==
  ASSUME RunFacts
  PROVE  RunView
<1> USE DEF RunFacts, Arch!TypeOK, Arch!IInv, Arch!EngineInv, Arch!RunInv, Arch!Idle, M!Idle,
        Arch!MachineStates, M!MachineStates
<1>1. /\ pc \in {"idle", "execute", "push", "script", "yielded", "crashed"}
      /\ machine \in M!MachineStates
      /\ calls \in 0 .. MaxCalls
      /\ initialized <=> engine # "none"
      /\ engine = "none" <=> machine = "stopped"
      /\ pc = "idle" <=> machine # "running"
  BY DEF Pending
<1>2. /\ engine = "none" => pc # "script" /\ awaits = M!Idle("none")
      /\ pc # "script" /\ awaits = M!Idle("none") => engine = "none"
  BY DEF Pending
<1>3. PushInv
  BY DEF Pending, PushInv, Arch!Wakes, Arch!Answers, Arch!Source, M!Source, Arch!Callback,
         M!Callback, Arch!CallIds, M!CallIds, Arch!Invoke, M!Invoke, Arch!Result, M!Result,
         Arch!Empty, M!Empty
<1>4. pc # "script" => \A v \in input : input = {v}
  BY DEF Pending, Arch!Optional
<1>5. ASSUME pc = "yielded"
      PROVE  \/ awaits \in {M!Idle("bios"), M!Idle("sleep"), M!Idle("callback"), M!Idle("failed")}
             \/ \E id \in M!CallIds : awaits = M!Invoke(id) /\ id = calls
  BY <1>5 DEF Pending, Arch!CallInv, Arch!CallIds, M!CallIds, Arch!Invoke, M!Invoke
<1> QED BY <1>1, <1>2, <1>3, <1>4, <1>5, Zenon DEF RunView

-----------------------------------------------------------------------------
(* JoinInv is kept: by the machine's steps first.                          *)

\* A step of the machine that leaves the script alone.
LEMMA MachineJoin ==
  ASSUME CInv, EngineWaits, UNCHANGED <<awaits, calls>>, pc # "script", pc' # "script",
         machine' \in {"stopped", "stopping"} \/ machine \notin {"stopped", "stopping"},
         machine' = "stopped" => machine = "stopped",
         machine = "stopping" => machine' = "stopping"
  PROVE  JoinInv'
BY DEF CInv, EngineWaits, vars, engineVars, jsVars, hostVars, betweenVars, JoinInv, PlaceInv,
       RequestInv, HeardInv, GivenInv, SourceInv, QuietInv, NewsInv, FinalInv, HasSource, HasInput, Busy, Booting

\* A step of the world.
LEMMA WorldJoin ==
  ASSUME CInv, World
  PROVE  JoinInv'
<1>1. CASE M!OnConnect
  BY <1>1 DEF CInv, World, M!OnConnect, M!invokerVars, M!machineVars, M!runVars, M!scriptVars,
     EngineWaits, vars, engineVars, jsVars, hostVars, betweenVars, JoinInv, PlaceInv,
     RequestInv, HeardInv, GivenInv, SourceInv, QuietInv, NewsInv, FinalInv, HasSource, HasInput, Busy, Booting
<1>2. CASE M!AddSignal
  BY <1>2 DEF CInv, World, M!AddSignal, M!archVars, M!invokerVars, M!runVars, M!scriptVars,
     EngineWaits, vars, engineVars, jsVars, hostVars, betweenVars, JoinInv, PlaceInv,
     RequestInv, HeardInv, GivenInv, SourceInv, QuietInv, NewsInv, FinalInv, HasSource, HasInput, Busy, Booting
<1>3. CASE M!Stop
  BY <1>3 DEF CInv, World, M!Stop, M!archVars, M!invokerVars, M!runVars, M!scriptVars,
     EngineWaits, vars, engineVars, jsVars, hostVars, betweenVars, JoinInv, PlaceInv,
     RequestInv, HeardInv, GivenInv, SourceInv, QuietInv, NewsInv, FinalInv, HasSource, HasInput, Busy, Booting
<1>4. CASE M!RunUnconnected
  BY <1>4 DEF CInv, World, M!RunUnconnected, M!archVars, M!invokerVars, M!runVars,
     M!scriptVars,
     EngineWaits, vars, engineVars, jsVars, hostVars, betweenVars, JoinInv, PlaceInv,
     RequestInv, HeardInv, GivenInv, SourceInv, QuietInv, NewsInv, FinalInv, HasSource, HasInput, Busy, Booting
<1>5. RunView /\ EngineWaits
  BY ViewRun DEF CInv, World
<1>6. CASE M!InitializeFails
  BY <1>5, <1>6, MachineJoin DEF RunView, M!InitializeFails, M!runVars, M!scriptVars
<1>7. CASE M!RunThreadedFails
  BY <1>5, <1>7, MachineJoin DEF RunView, M!RunThreadedFails, M!runVars, M!scriptVars
<1> QED BY <1>1, <1>2, <1>3, <1>4, <1>6, <1>7 DEF World

\* A step of runThreaded outside native_next, or of runSynchronized.
LEMMA MachineStepJoin ==
  ASSUME CInv, MachineRuns \/ MachineStep
  PROVE  JoinInv'
<1>1. RunView
  BY ViewRun DEF CInv
<1>2. EngineWaits
  BY DEF MachineRuns, MachineStep
<1> USE <1>1, <1>2, MachineJoin DEF RunView, M!MachineStates, M!archVars, M!invokerVars,
        M!machineVars, M!runVars, M!scriptVars
<1>3. CASE M!RunThreaded
  BY <1>3 DEF M!RunThreaded
<1>4. CASE M!BothPending
  BY <1>4 DEF M!BothPending, M!Return
<1>5. CASE M!ExecuteThreaded
  BY <1>5 DEF M!ExecuteThreaded
<1>6. CASE M!HandleSleep
  BY <1>6 DEF M!HandleSleep, M!Return
<1>7. CASE M!HandleCallback
  BY <1>7 DEF M!HandleCallback
<1>8. CASE M!HandleFailure
  BY <1>8 DEF M!HandleFailure, M!Return
<1>9. ASSUME NEW id \in M!CallIds, M!HandleInvoke(id) PROVE JoinInv'
  BY <1>9 DEF M!HandleInvoke, M!InvokeFails, M!InvokeMissing, M!InvokeDirect,
     M!InvokeDeferred, M!Invoked, M!Return
<1>10. CASE M!RunSynchronized
  BY <1>10 DEF M!RunSynchronized
<1>11. CASE M!RunSynchronizedFails
  BY <1>11 DEF M!RunSynchronizedFails
<1> QED BY <1>3, <1>4, <1>5, <1>6, <1>7, <1>8, <1>9, <1>10, <1>11
        DEF MachineRuns, MachineStep, RunOutside, M!SyncStep

\* initialize() makes a new engine, of which nothing has been heard.
LEMMA InitializeJoin ==
  ASSUME CInv, Initialize
  PROVE  JoinInv'
<1>1. RunView
  BY ViewRun DEF CInv
<1> QED BY <1>1 DEF CInv, RunView, Initialize, M!Initialize, M!invokerVars, M!runVars,
        NativeStart, NothingGiven, JoinInv, PlaceInv, RequestInv, HeardInv, GivenInv,
        SourceInv, QuietInv, NewsInv, FinalInv, HasSource, HasInput, Busy, Waiting, Booting, InNext, InDestroy,
        M!Idle,
        NoOutput, DeadOutput

\* JoinInv is kept by the steps of the engine on its own.
LEMMA ThreadJoin ==
  ASSUME CInv, EngineThread \/ Chance
  PROVE  JoinInv'
<1>1. RunView
  BY ViewRun DEF CInv
<1>2. MachineWaits
  BY DEF EngineThread, Chance
<1> USE <1>1, <1>2 DEF CInv, RunView, MachineWaits, runVars, betweenVars, EngineFacts,
   TypeOK, IInv,
        HandoffInv, AnyCallerInv, MutexInv, HostInv, ThreadInv, PromiseInv, TurnInv,
        ReplyInv, DriverInv, Busy, Matches, Holding, Handshake, hostVars, engineVars,
        JoinInv, PlaceInv, RequestInv, HeardInv, GivenInv, SourceInv, QuietInv, NewsInv,
        FinalInv, HasSource, HasInput,
        Waiting, Booting, InNext, InDestroy, NoOutput, DeadOutput, JsPcs, HostPcs, Outputs
<1>3. CASE JsLock
  BY <1>3 DEF JsLock
<1>4. CASE JsInit
  BY <1>4 DEF JsInit
<1>5. CASE JsPublish
  BY <1>5 DEF JsPublish, SetPromise
<1>6. CASE JsPark
  BY <1>6 DEF JsPark
<1>7. CASE JsSleepAgain
  BY <1>7 DEF JsSleepAgain
<1>8. CASE JsResume
  <2>1. jsPc = "woken" /\ nextInput # {} /\ answer' = nextInput /\ jsPc' = "run"
        /\ UNCHANGED <<nextInput, shouldKill, yieldNo, hostVars>>
    BY <1>8 DEF JsResume
  <2>2. HasInput /\ (hostPc \in {"notify", "wait"} \/ gaveUp \/ shouldKill) /\ handle
    BY <2>1
  <2>3. ~(hostPc \notin {"notify", "wait"} /\ Booting)
    BY <2>2 DEF M!Idle
  <2>4. PlaceInv' /\ RequestInv' /\ HeardInv'
    BY <2>1
  <2>5. GivenInv'
    BY <2>1, <2>2
  <2>6. SourceInv' /\ QuietInv'
    BY <2>1, <2>2, <2>3
  <2>7. NewsInv' /\ FinalInv'
    BY <2>1
  <2> QED BY <2>4, <2>5, <2>6, <2>7
<1>9. CASE JsBadSource
  BY <1>9 DEF JsBadSource
<1>10. CASE JsKilled
  BY <1>10 DEF JsKilled
<1>11. CASE JsDie
  BY <1>11 DEF JsDie, SetPromise
<1>12. CASE JsMark
  BY <1>12 DEF JsMark
<1>13. CASE JsExit
  BY <1>13 DEF JsExit
<1>14. CASE JsCancelled
  BY <1>14 DEF JsCancelled
<1>15. CASE JsInitFatal
  BY <1>15 DEF JsInitFatal
<1>16. CASE SpuriousWake
  BY <1>16 DEF SpuriousWake
<1> QED BY <1>3, <1>4, <1>5, <1>6, <1>7, <1>8, <1>9, <1>10, <1>11, <1>12, <1>13, <1>14,
   <1>15, <1>16 DEF EngineThread, Chance, ThreadStep

\* The script ends by itself.
LEMMA EndJoin ==
  ASSUME CInv, ScriptEnds
  PROVE  JoinInv'
<1>1. /\ jsPc = "run" /\ jsPc' = "die" /\ HasSource
      /\ final' \in {"sleep", "callback", "invoke", "failed"}
      /\ UNCHANGED <<engineVars, cancelled, yieldNo, answer, hostVars, runVars, request, given>>
  BY DEF ScriptEnds, JsEnd
<1>2. answer # {} /\ Busy
  BY <1>1 DEF CInv, JoinInv, GivenInv, Busy
<1> USE <1>1, <1>2 DEF CInv, JoinInv, engineVars, hostVars, runVars
<1>3. PlaceInv' /\ RequestInv' /\ HeardInv'
  BY DEF PlaceInv, RequestInv, HeardInv
<1>4. GivenInv' /\ SourceInv' /\ NewsInv'
  BY DEF GivenInv, SourceInv, NewsInv, HasInput, Waiting, Booting
<1>5. QuietInv' /\ FinalInv'
  BY DEF QuietInv, FinalInv, HasSource
<1> QED BY <1>3, <1>4, <1>5

\* The script asks.
LEMMA AskJoin ==
  ASSUME CInv, ScriptAsks
  PROVE  JoinInv'
<1>1. RunView
  BY ViewRun DEF CInv
<1>2. /\ jsPc = "run" /\ yieldNo' = yieldNo + 1 /\ jsPc' = "publish"
      /\ UNCHANGED <<engineVars, cancelled, answer, hostVars, runVars, given, final>>
  BY DEF ScriptAsks, JsYield
<1>3. request' \in Asked /\ (request'.kind = "invoke" => request' = M!Invoke(calls + 1))
  BY <1>1 DEF ScriptAsks, Asked, M!Idle, M!Invoke, M!CallIds, RunView
<1>4. yieldNo \in 0 .. MaxYields - 1
  BY DEF CInv, EngineFacts, TypeOK, ScriptAsks, JsYield
<1>5. awaits # M!Idle("bios")
  BY <1>2 DEF ScriptAsks, JsYield, HasSource, CInv, JoinInv, HeardInv, GivenInv, SourceInv
<1>6. /\ handle /\ hostPc # "lock"
      /\ hostPc \in {"notify", "wait"} \/ gaveUp
  BY <1>2 DEF CInv, EngineFacts, TypeOK, HostPcs, IInv, HandoffInv, AnyCallerInv, TurnInv,
     Busy,
     HostInv, DriverInv, InNext, JoinInv, QuietInv
<1> USE <1>1, <1>2, <1>3, <1>4, <1>5, <1>6 DEF CInv, RunView, runVars, EngineFacts, hostVars,
        engineVars, JoinInv, TypeOK, Outputs, NoOutput, DeadOutput
<1>7. PlaceInv' /\ RequestInv'
  BY DEF PlaceInv, RequestInv
<1>8. HeardInv'
  BY DEF HeardInv, PlaceInv, InNext
<1>9. GivenInv' /\ NewsInv'
  BY DEF GivenInv, NewsInv, HeardInv, HasInput, Waiting
<1>10. SourceInv' /\ QuietInv' /\ FinalInv'
  BY DEF SourceInv, GivenInv, Booting, Waiting, QuietInv, Busy, FinalInv
<1> QED BY <1>7, <1>8, <1>9, <1>10

\* JoinInv is kept where the two meet.
LEMMA PushJoin ==
  ASSUME CInv, PushNext
  PROVE  JoinInv'
<1>1. RunView
  BY ViewRun DEF CInv
<1>2. PICK v \in input : given' = [to |-> seen, value |-> v]
  BY DEF PushNext
<1>3. /\ pc = "push" /\ pc' = "script" /\ hostPc = "idle" /\ hostPc' = "lock" /\ handle
      /\ input' = {}
      /\ call' = {[what |-> IF started THEN "answer" ELSE "source", to |-> seen]}
      /\ started'
      /\ awaits' = IF Booting THEN awaits ELSE M!Idle("running")
      /\ UNCHANGED <<engineVars, jsVars, handle, reply, seen, gaveUp, machine, request, final>>
  BY DEF PushNext, NativeNext
<1>4. awaits \notin {M!Idle("failed"), M!Idle("none"), M!Idle("running")}
  BY <1>1, <1>3 DEF RunView, PushInv, M!Idle, M!Invoke
<1>5. ~gaveUp /\ (seen = DeadOutput => final # "failed")
  BY <1>4 DEF CInv, JoinInv, HeardInv
<1>6. seen \notin {NoOutput, DeadOutput} => seen \in 0 .. MaxYields /\ awaits = request /\ seen = yieldNo
  BY <1>3, <1>5 DEF CInv, EngineFacts, TypeOK, Outputs, DeadOutput, JoinInv, HeardInv
<1>7. ~shouldKill /\ jsPc # "run" /\ ~HasInput
  BY <1>3, <1>5 DEF CInv, EngineFacts, IInv, HandoffInv, AnyCallerInv, HostInv, TurnInv, Busy
<1> USE <1>2, <1>3, <1>4, <1>5, <1>6, <1>7 DEF CInv, JoinInv, engineVars, jsVars
<1>8. PlaceInv' /\ RequestInv'
  <2>1. seen = NoOutput => request.kind # "invoke"
    BY DEF HeardInv, SourceInv, RequestInv, Booting, M!Idle, EngineFacts, TypeOK, InNext
  <2> QED BY <2>1 DEF PlaceInv, RequestInv, InNext, InDestroy
<1>9. HeardInv'
  <2>1. seen = NoOutput \/ seen = DeadOutput \/ (seen \in 0 .. MaxYields /\ awaits = request)
    BY <1>6
  <2>2. MaxYields \in Nat /\ DeadOutput = MaxYields + 1
    BY DEF DeadOutput
  <2>3. ~Booting => seen > 0
    BY <2>1, <2>2 DEF HeardInv, RequestInv, Booting
  <2> QED BY <2>2, <2>3 DEF HeardInv, RequestInv, Booting, NoOutput, M!Idle, Asked, M!Invoke
<1>10. GivenInv'
  <2>1. ASSUME seen \notin {NoOutput, 0, DeadOutput} PROVE Fits(v, request)
    <3>1. request = awaits /\ request \in Asked
      BY <2>1 DEF RequestInv, NoOutput
    <3> QED BY <1>1, <3>1 DEF RunView, PushInv, Fits, Asked, M!Idle, M!Invoke
  <2> QED BY <2>1 DEF GivenInv, HasInput
<1>11. SourceInv'
  <2>1. ASSUME awaits = M!Idle("fresh") PROVE v = M!Source
    BY <1>1, <2>1 DEF RunView, PushInv, M!Idle, M!Invoke
  <2> QED BY <2>1 DEF SourceInv, HeardInv, Booting, M!Idle
<1>12. QuietInv' /\ NewsInv' /\ FinalInv'
  BY DEF QuietInv, NewsInv, FinalInv, HasSource
<1> QED BY <1>8, <1>9, <1>10, <1>11, <1>12

\* native_next goes on, unseen by runThreaded.
LEMMA CallJoin ==
  ASSUME CInv, (NextDead \/ NextStore \/ NextNotify) /\ MachineWaits
  PROVE  JoinInv'
<1>1. RunView
  BY ViewRun DEF CInv
<1> USE <1>1 DEF CInv, RunView, MachineWaits, runVars, betweenVars, EngineFacts, TypeOK, IInv,
        HandoffInv, AnyCallerInv, MutexInv, HostInv, ThreadInv, PromiseInv, TurnInv,
        ReplyInv, DriverInv, Busy, Matches, Holding, hostVars, jsVars, engineVars,
        JoinInv, PlaceInv, RequestInv, HeardInv, GivenInv, SourceInv, QuietInv, NewsInv,
        FinalInv, HasSource, HasInput,
        Waiting, Booting, InNext, InDestroy, NoOutput, DeadOutput, JsPcs, HostPcs, Outputs
<1>2. CASE NextDead
  BY <1>2 DEF NextDead
<1>3. CASE NextStore
  BY <1>3 DEF NextStore
<1>4. CASE NextNotify
  BY <1>4 DEF NextNotify
<1> QED BY <1>2, <1>3, <1>4

\* close(), which the engine's thread may keep waiting.
LEMMA CloseJoin ==
  ASSUME CInv, CloseStep
  PROVE  JoinInv'
<1>1. RunView
  BY ViewRun DEF CInv
<1> USE <1>1 DEF CInv, RunView, MachineWaits, runVars, betweenVars, EngineFacts, TypeOK, IInv,
        HandoffInv, AnyCallerInv, HostInv, TurnInv, Busy, hostVars, jsVars, engineVars,
        JoinInv, PlaceInv, RequestInv, HeardInv, GivenInv, SourceInv, QuietInv, NewsInv,
        FinalInv, HasSource, HasInput,
        Waiting, Booting, InNext, InDestroy, NoOutput, DeadOutput, JsPcs, HostPcs, Outputs
<1>2. CASE CloseBegins
  BY <1>2 DEF CloseBegins, DestroyBegin
<1>3. CASE DestroyStep /\ MachineWaits
  <2>1. /\ hostPc \in InDestroy /\ hostPc' \in InDestroy \cup {"idle"}
        /\ handle' => handle
        /\ UNCHANGED <<locked, nextInput, outputPromise, promiseSet, deadResult, isDead,
                       shouldKill, jsPc, yieldNo, answer, call, started, reply, seen, gaveUp>>
    BY <1>3 DEF DestroyStep, DestroyCheck, DestroyCancel, DestroyJoin, DestroyFree
  <2>2. hostPc' = "idle" => ~handle'
    BY <1>3 DEF DestroyStep, DestroyCheck, DestroyCancel, DestroyJoin, DestroyFree
  <2> QED BY <1>3, <2>1, <2>2
<1>4. CASE CloseEnds
  BY <1>4 DEF CloseEnds, M!Close, EngineWaits, vars, M!invokerVars, M!runVars, M!Idle
<1> QED BY <1>2, <1>3, <1>4 DEF CloseStep

\* native_next returns to runThreaded.
LEMMA HearJoin ==
  ASSUME CInv, PushReturns \/ PushTimesOut
  PROVE  JoinInv'
<1>1. RunView
  BY ViewRun DEF CInv
<1> USE <1>1 DEF CInv, RunView, Hear, betweenVars, EngineFacts, TypeOK, IInv,
        HandoffInv, AnyCallerInv, MutexInv, HostInv, ThreadInv, PromiseInv, TurnInv,
        ReplyInv, DriverInv, Busy, Matches, Holding, jsVars, engineVars,
        JoinInv, PlaceInv, RequestInv, HeardInv, GivenInv, SourceInv, QuietInv, NewsInv,
        FinalInv, HasSource, HasInput,
        Waiting, Booting, InNext, InDestroy, NoOutput, DeadOutput, JsPcs, HostPcs, Outputs,
        M!Idle
<1>2. CASE PushTimesOut
  BY <1>2 DEF PushTimesOut, NextTimeout
<1>3. CASE PushReturns /\ reply = DeadOutput
  BY <1>3 DEF PushReturns, NextReturn, FinalRequest, M!Invoke
<1>4. CASE PushReturns /\ reply # DeadOutput
  BY <1>4 DEF PushReturns, NextReturn, Asked, M!Invoke, M!CallIds
<1> QED BY <1>2, <1>3, <1>4

-----------------------------------------------------------------------------
(* Each step is one of Architecture, or none.                              *)

\* Outside the script the mapping changes nothing.
LEMMA RunsAreArchs ==
  ASSUME RunView, Alive, pc # "script", pc' # "script",
         \/ M!OnConnect \/ M!AddSignal \/ M!Stop \/ M!RunUnconnected
         \/ M!Initialize \/ M!InitializeFails \/ M!Close
         \/ M!RunThreaded \/ M!RunThreadedFails \/ RunOutside \/ M!SyncStep
  PROVE  Arch!Next
<1>1. ~Pending /\ ~Pending'
  BY DEF Pending
<1> USE <1>1 DEF M!archVars, M!invokerVars, M!machineVars, M!runVars, M!scriptVars,
   Arch!archVars, Arch!invokerVars,
        Arch!machineVars, Arch!runVars, Arch!scriptVars, M!Idle, Arch!Idle
<1>2. ASSUME M!OnConnect PROVE Arch!OnConnect
  BY <1>2 DEF M!OnConnect, Arch!OnConnect
<1>3. ASSUME M!AddSignal PROVE Arch!AddSignal
  BY <1>3 DEF M!AddSignal, Arch!AddSignal
<1>4. ASSUME M!Stop PROVE Arch!Stop
  BY <1>4 DEF M!Stop, Arch!Stop
<1>5. ASSUME M!RunUnconnected PROVE Arch!RunUnconnected
  BY <1>5 DEF M!RunUnconnected, Arch!RunUnconnected
<1>6. ASSUME M!Initialize PROVE Arch!Initialize
  BY <1>6 DEF M!Initialize, Arch!Initialize
<1>7. ASSUME M!Close PROVE Arch!Close
  BY <1>7 DEF M!Close, Arch!Close
<1>8. ASSUME M!RunThreaded PROVE Arch!RunThreaded
  BY <1>8 DEF M!RunThreaded, M!StartEngine, M!PopSignal, M!Signal, M!Source, Arch!RunThreaded,
     Arch!StartEngine, Arch!PopSignal, Arch!Signal, Arch!Source
<1>9. ASSUME M!BothPending PROVE Arch!BothPending
  BY <1>9 DEF M!BothPending, M!Return, Arch!BothPending, Arch!Return
<1>10. ASSUME M!ExecuteThreaded PROVE Arch!ExecuteThreaded
  BY <1>10 DEF M!ExecuteThreaded, M!Null, Arch!ExecuteThreaded, Arch!Null
<1>11. ASSUME M!HandleSleep PROVE Arch!HandleSleep
  BY <1>11 DEF M!HandleSleep, M!Return, Arch!HandleSleep, Arch!Return
<1>12. ASSUME M!HandleCallback PROVE Arch!HandleCallback
  BY <1>12 DEF M!HandleCallback, M!Callback, Arch!HandleCallback, Arch!Callback
<1>13. ASSUME M!HandleFailure PROVE Arch!HandleFailure
  BY <1>13 DEF M!HandleFailure, M!Return, Arch!HandleFailure, Arch!Return
<1>14. ASSUME NEW id \in M!CallIds, M!HandleInvoke(id)
       PROVE  id \in Arch!CallIds /\ Arch!HandleInvoke(id)
  BY <1>14 DEF M!CallIds, M!HandleInvoke, M!InvokeFails, M!InvokeMissing, M!InvokeDirect,
     M!InvokeDeferred, M!Invoked, M!Invoke, M!Result, M!Empty, M!Return, Arch!CallIds,
     Arch!HandleInvoke,
     Arch!InvokeFails, Arch!InvokeMissing, Arch!InvokeDirect, Arch!InvokeDeferred,
     Arch!Invoked, Arch!Invoke, Arch!Result, Arch!Empty, Arch!Return
<1>15. ASSUME M!RunSynchronized PROVE Arch!RunSynchronized
  BY <1>15 DEF M!RunSynchronized, M!Result, Arch!RunSynchronized, Arch!Result
<1>16. ASSUME M!RunSynchronizedFails PROVE Arch!RunSynchronizedFails
  BY <1>16 DEF M!RunSynchronizedFails, Arch!RunSynchronizedFails
<1>17. ASSUME M!InitializeFails PROVE Arch!InitializeFails
  BY <1>17 DEF M!InitializeFails, Arch!InitializeFails
<1>18. ASSUME M!RunThreadedFails PROVE Arch!RunThreadedFails
  BY <1>18 DEF M!RunThreadedFails, M!StartEngine, M!Source, Arch!RunThreadedFails,
     Arch!StartEngine, Arch!Source
<1>19. (IF Pending THEN "push" ELSE pc) # "crashed"
  BY DEF Alive
<1> QED BY <1>2, <1>3, <1>4, <1>5, <1>6, <1>7, <1>8, <1>9, <1>10, <1>11, <1>12, <1>13, <1>14,
        <1>15, <1>16, <1>17, <1>18, <1>19, Zenon
        DEF RunOutside, M!SyncStep, Arch!Next, Arch!RunStep, Arch!SyncStep

\* The world goes on while the script executes.
LEMMA WorldIsArch ==
  ASSUME RunView, Alive, World
  PROVE  Arch!Next
<1>1. CASE pc # "script"
  <2>1. pc' = pc
    BY DEF World, M!OnConnect, M!InitializeFails, M!AddSignal, M!Stop, M!RunUnconnected,
       M!RunThreadedFails, M!runVars
  <2> QED BY <1>1, <2>1, RunsAreArchs DEF World
<1>2. CASE pc = "script"
  <2> USE DEF World, EngineWaits, vars, engineVars, jsVars, hostVars, betweenVars, Pending,
          Booting, HasSource, M!archVars, M!invokerVars, M!machineVars, M!runVars,
          M!scriptVars, Arch!archVars, Arch!invokerVars, Arch!machineVars, Arch!runVars,
          Arch!scriptVars
  <2>1. CASE M!OnConnect
    <3>1. Arch!OnConnect
      BY <1>2, <2>1 DEF M!OnConnect, Arch!OnConnect
    <3> QED BY <1>2, <3>1 DEF Arch!Next
  <2>2. CASE M!AddSignal
    <3>1. Arch!AddSignal
      BY <1>2, <2>2 DEF M!AddSignal, Arch!AddSignal
    <3> QED BY <1>2, <3>1 DEF Arch!Next
  <2>3. CASE M!Stop
    <3>1. Arch!Stop
      BY <1>2, <2>3 DEF M!Stop, Arch!Stop
    <3> QED BY <1>2, <3>1 DEF Arch!Next
  <2>4. CASE M!RunUnconnected \/ M!InitializeFails \/ M!RunThreadedFails
    BY <1>2, <2>4 DEF M!RunUnconnected, M!InitializeFails, M!RunThreadedFails, RunView
  <2> QED BY <2>1, <2>2, <2>3, <2>4
<1> QED BY <1>1, <1>2

\* Of the engine's own steps, one is seen: where the script takes its source.
LEMMA EngineIsArch ==
  ASSUME CInv, [Next]_vars, ~NativeStart, UNCHANGED <<runVars, given>>
  PROVE  [Arch!Next]_(Arch!vars)
<1> USE DEF runVars, Pending, Booting, Arch!vars, Arch!archVars, Arch!invokerVars,
        Arch!machineVars, Arch!runVars, Arch!scriptVars
<1>1. CASE UNCHANGED <<answer, yieldNo>>
  BY <1>1 DEF HasSource
<1>2. CASE JsYield
  <2>1. HasSource /\ answer # {} /\ answer' = answer /\ yieldNo' > 0
    BY <1>2 DEF JsYield, CInv, EngineFacts, TypeOK, JoinInv, GivenInv
  <2>2. ~Pending /\ ~Pending'
    BY <2>1 DEF HasSource
  <2> QED BY <2>2 DEF HasSource
<1>3. CASE JsResume
  <2>1. nextInput # {} /\ answer' = nextInput /\ yieldNo' = yieldNo /\ HasInput
    BY <1>3 DEF JsResume, HasInput, Waiting
  <2>2. CASE pc # "script" \/ ~Booting
    BY <2>2
  <2>3. CASE pc = "script" /\ awaits = M!Idle("bios")
    <3>1. ~HasSource'
      BY <2>1, <2>3 DEF HasSource, HasInput, CInv, JoinInv, HeardInv, SourceInv
    <3>2. Pending
      <4>1. answer # {} => ~HasSource
        BY <2>3 DEF HasSource, CInv, JoinInv, HeardInv, SourceInv
      <4> QED BY <2>3, <4>1
    <3> QED BY <2>3, <3>1, <3>2
  <2>4. CASE pc = "script" /\ awaits = M!Idle("fresh")
    <3>1. given.value = M!Source /\ HasSource'
      BY <2>1, <2>4 DEF HasSource, CInv, JoinInv, SourceInv
    <3>2. CASE Pending
      <4>1. ~Pending' /\ input = {}
        BY <2>1, <2>4, <3>1 DEF CInv, JoinInv, PlaceInv
      <4>2. Arch!TakeSource
        BY <2>4, <3>1, <3>2, <4>1 DEF Arch!TakeSource, Arch!ScriptOnly, Arch!Source, M!Source,
           Arch!Idle, M!Idle
      <4> QED BY <4>2 DEF Arch!Next, Arch!RunStep
    <3>3. CASE ~Pending
      BY <2>1, <2>4, <3>1, <3>3
    <3> QED BY <3>2, <3>3
  <2> QED BY <2>2, <2>3, <2>4
<1> QED BY <1>1, <1>2, <1>3 DEF Next, HostCallStep, DestroyStep, ThreadStep, ScriptStep,
        NativeNext, DestroyBegin, NextDead, NextStore, NextNotify, NextReturn, NextTimeout,
        DestroyCheck, DestroyCancel, DestroyJoin, DestroyFree, JsLock, JsInit, JsPublish,
        JsPark, JsSleepAgain, JsBadSource, JsKilled, JsDie, JsMark, JsExit, JsCancelled,
        JsEnd, JsInitFatal, SpuriousWake, jsVars, vars

\* native_next begins: a step of Architecture unless the script has not begun.
LEMMA PushIsArch ==
  ASSUME CInv, PushNext
  PROVE  [Arch!Next]_(Arch!vars)
<1>1. RunView
  BY ViewRun DEF CInv
<1>2. PICK v \in input : given' = [to |-> seen, value |-> v]
  BY DEF PushNext
<1>3. /\ pc = "push" /\ pc' = "script" /\ hostPc = "idle" /\ input' = {}
      /\ awaits' = IF Booting THEN awaits ELSE M!Idle("running")
      /\ UNCHANGED <<engineVars, jsVars, connected, initialized, engine, callToSync, callResult,
                     machine, stopAsked, signals, accepted, signal, performed>>
      /\ calls' = M!CallsLeft
  BY DEF PushNext, NativeNext
<1>4. ~Pending
  BY <1>3 DEF Pending
<1>5. CASE Booting
  <2>1. Booting'
    BY <1>3, <1>5 DEF Booting
  <2>2. answer' = {}
    BY <1>3, <1>5 DEF CInv, JoinInv, SourceInv, jsVars
  <2>3. Pending'
    BY <1>3, <2>1, <2>2 DEF Pending
  <2>4. input = {v}
    BY <1>1, <1>2, <1>3 DEF RunView
  <2>5. calls' = calls
    BY <1>1, <1>3, <1>5 DEF M!CallsLeft, RunView, PushInv, Booting, M!Idle, M!Invoke, M!Source,
       M!Empty
  <2> QED BY <1>2, <1>3, <1>4, <1>5, <2>3, <2>4, <2>5 DEF Arch!vars, Arch!archVars,
     Arch!invokerVars, Arch!machineVars,
             Arch!runVars, Arch!scriptVars
<1>6. CASE ~Booting
  <2>1. ~Booting' /\ ~Pending'
    BY <1>3, <1>6 DEF Booting, Pending, M!Idle
  <2>2. Arch!Resume
    BY <1>1, <1>3, <1>4, <1>6, <2>1 DEF Arch!Resume, Arch!ScriptOnly, Arch!archVars,
       Arch!invokerVars, Arch!machineVars, Booting, M!Idle, Arch!Idle, M!CallsLeft,
       Arch!CallsLeft, M!CallIds, Arch!CallIds, M!Empty, Arch!Empty
  <2> QED BY <1>3, <1>4, <2>2 DEF Arch!Next, Arch!RunStep
<1> QED BY <1>5, <1>6

\* native_next returns: the first push has failed or lost the source, or the
\* script has had its turn.
LEMMA HearIsArch ==
  ASSUME CInv, PushReturns \/ PushTimesOut
  PROVE  Arch!Next
<1>1. RunView /\ TypeOK
  BY ViewRun DEF CInv, EngineFacts
<1>2. /\ pc' \in {"yielded", "crashed"} /\ hostPc = "wait"
      /\ UNCHANGED <<connected, initialized, engine, callToSync, callResult, machine,
                     stopAsked, signals, accepted, signal, input, performed>>
  BY DEF PushReturns, PushTimesOut, Hear, NextReturn, NextTimeout
<1>3. pc = "script" /\ ~Pending'
  BY <1>2 DEF CInv, JoinInv, PlaceInv, InNext, Pending
<1>4. /\ input = {} /\ awaits \in {M!Idle("fresh"), M!Idle("bios"), M!Idle("running")}
      /\ calls \in Nat
  BY <1>1, <1>3 DEF CInv, JoinInv, PlaceInv, HeardInv, RunView, M!Idle
<1> USE <1>2, <1>3, <1>4 DEF Arch!ScriptOnly, Arch!archVars, Arch!invokerVars,
   Arch!machineVars, M!Idle, Arch!Idle
<1>5. CASE awaits' = M!Idle("failed") /\ calls' = calls
  <2>1. CASE Pending \/ pc' = "crashed"
    <3>1. Arch!CallsLeft = calls
      <4>1. /\ (IF Pending THEN "push" ELSE pc) \in {"push", "script"}
            /\ (IF Pending THEN "push" ELSE pc) # "push"
                 => (IF Pending THEN {given.value} ELSE input) = {}
        OBVIOUS
      <4>2. \A id \in Arch!CallIds :
              (IF pc = "script" /\ ~Pending THEN M!Idle("running") ELSE awaits)
                # Arch!Invoke(id)
        BY DEF Arch!Invoke
      <4> QED BY <4>1, <4>2, Arch!CallsLeftCases DEF CInv, RunFacts, Arch!IInv, Arch!CallIds
    <3>2. Arch!PushFails \/ Arch!PushCrashes
      BY <1>5, <2>1, <3>1 DEF Arch!PushFails, Arch!PushCrashes
    <3> QED BY <3>2 DEF Arch!Next, Arch!RunStep
  <2>2. CASE ~Pending /\ pc' = "yielded"
    <3>1. Arch!ScriptYields
      BY <1>5, <2>2 DEF Arch!ScriptYields
    <3> QED BY <3>1 DEF Arch!Next, Arch!RunStep, Arch!ScriptTurn
  <2> QED BY <2>1, <2>2
<1>6. CASE PushReturns /\ reply # DeadOutput
  <2>1. /\ awaits' = request /\ pc' = "yielded"
        /\ calls' = calls + (IF request.kind = "invoke" THEN 1 ELSE 0)
        /\ reply = yieldNo /\ jsPc \in {"park", "parked", "woken"}
    BY <1>6 DEF PushReturns, Hear, NextReturn, CInv, EngineFacts, IInv, HandoffInv,
       AnyCallerInv,
       ReplyInv, Waiting
  <2>2. seen # yieldNo /\ seen # DeadOutput /\ seen =< yieldNo
    BY <1>6, <2>1 DEF PushReturns, NextReturn, CInv, JoinInv, NewsInv, HeardInv
  <2>3. CASE Pending
    <3>1. awaits = M!Idle("fresh") /\ request = M!Idle("bios")
      BY <1>1, <2>2, <2>3 DEF Pending, Booting, HasSource, TypeOK, CInv, JoinInv, HeardInv,
         SourceInv,
         RequestInv
    <3>2. Arch!DropSource
      BY <2>1, <2>3, <3>1 DEF Arch!DropSource
    <3> QED BY <3>2 DEF Arch!Next, Arch!RunStep
  <2>4. CASE ~Pending
    <3>1. request \in Asked
      <4>1. yieldNo > 0
        BY <1>1, <2>1, <2>4 DEF Pending, Booting, TypeOK, CInv, JoinInv, HeardInv, SourceInv
      <4> QED BY <4>1 DEF CInv, JoinInv, RequestInv
    <3>2. CASE request.kind # "invoke"
      <4>1. Arch!ScriptYields
        BY <2>1, <2>4, <3>1, <3>2 DEF Arch!ScriptYields, Asked, M!Invoke
      <4> QED BY <4>1 DEF Arch!Next, Arch!RunStep, Arch!ScriptTurn
    <3>3. CASE request.kind = "invoke"
      <4>1. request = M!Invoke(calls + 1) /\ calls + 1 \in M!CallIds
        BY <1>1, <2>2, <3>1, <3>3 DEF CInv, JoinInv, RequestInv, Asked, M!Invoke, M!CallIds,
           RunView
      <4>2. Arch!ScriptInvokes
        BY <1>1, <2>1, <2>4, <3>3, <4>1 DEF Arch!ScriptInvokes, M!CallIds, M!Invoke,
           Arch!Invoke, RunView
      <4> QED BY <4>2 DEF Arch!Next, Arch!RunStep, Arch!ScriptTurn
    <3> QED BY <3>2, <3>3
  <2> QED BY <2>3, <2>4
<1>7. CASE PushTimesOut
  <2>1. awaits' = M!Idle("failed") /\ calls' = calls + 0
    BY <1>7 DEF PushTimesOut, Hear
  <2> QED BY <1>5, <2>1
<1>8. CASE PushReturns /\ reply = DeadOutput
  <2>1. /\ awaits' = FinalRequest /\ pc' = "yielded"
        /\ calls' = calls + (IF FinalRequest.kind = "invoke" THEN 1 ELSE 0)
    <3>1. reply # yieldNo
      BY <1>1, <1>8 DEF TypeOK, DeadOutput
    <3> QED BY <1>8, <3>1 DEF PushReturns, Hear
  <2>2. CASE FinalRequest = M!Idle("failed")
    BY <1>5, <2>1, <2>2
  <2>3. CASE FinalRequest # M!Idle("failed")
    <3>1. final \in {"sleep", "callback", "invoke"} /\ ~Pending
      BY <2>3 DEF FinalRequest, Pending, CInv, JoinInv, FinalInv
    <3>2. CASE final = "invoke"
      <4>1. calls < MaxCalls /\ FinalRequest = M!Invoke(calls + 1)
        BY <2>3, <3>2 DEF FinalRequest
      <4>2. Arch!ScriptInvokes
        BY <1>1, <2>1, <3>1, <4>1 DEF Arch!ScriptInvokes, M!Invoke, Arch!Invoke, RunView
      <4> QED BY <4>2 DEF Arch!Next, Arch!RunStep, Arch!ScriptTurn
    <3>3. CASE final # "invoke"
      <4>1. Arch!ScriptYields
        BY <2>1, <3>1, <3>3 DEF FinalRequest, Arch!ScriptYields
      <4> QED BY <4>1 DEF Arch!Next, Arch!RunStep, Arch!ScriptTurn
    <3> QED BY <3>2, <3>3
  <2> QED BY <2>2, <2>3
<1> QED BY <1>6, <1>7, <1>8
-----------------------------------------------------------------------------
(* CInv is kept, and every step is one of Architecture.                    *)

\* What Init makes is as CInv has it.
LEMMA InitCInv == ComputerInit => CInv
<1> SUFFICES ASSUME ComputerInit PROVE CInv
  OBVIOUS
<1>1. TypeOK
  <2>1. /\ locked \in BOOLEAN /\ promiseSet \in BOOLEAN /\ deadResult \in BOOLEAN
        /\ isDead \in BOOLEAN /\ shouldKill \in BOOLEAN /\ context \in BOOLEAN
        /\ cancelled \in BOOLEAN /\ handle \in BOOLEAN /\ started \in BOOLEAN
        /\ gaveUp \in BOOLEAN
    BY Zenon DEF ComputerInit, Init
  <2> QED
    BY <2>1, OptionalEmpty
    DEF ComputerInit, Init, TypeOK, Outputs, NoOutput, DeadOutput, JsPcs, HostPcs
<1>2. IInv /\ DriverInv
  BY DEF ComputerInit, Init, IInv, HandoffInv, AnyCallerInv, HeapInv, MutexInv, HostInv,
     ThreadInv, PromiseInv, TurnInv, ReplyInv, DriverInv, Holding, Waiting, HasInput, Busy,
     Matches, InNext, InDestroy, NoOutput
<1>3. Arch!Init
  BY DEF ComputerInit, M!Init, Arch!Init, Pending, M!Idle, Arch!Idle, M!CallIds, Arch!CallIds
<1>4. Arch!TypeOK
  <2>1. connected \in BOOLEAN /\ initialized \in BOOLEAN /\ stopAsked \in BOOLEAN
    BY <1>3, Zenon DEF Arch!Init
  <2>2. /\ ~Pending /\ pc = "idle" /\ input = {} /\ awaits = Arch!Idle("none")
    BY DEF ComputerInit, M!Init, Pending, M!Idle, Arch!Idle
  <2>3. awaits \in Arch!Requests
    BY <2>2, Arch!RequestsBuilt DEF Arch!IdleKinds
  <2>4. performed \in [Arch!CallIds -> Nat]
    BY <1>3 DEF Arch!Init
  <2> QED
    BY <1>3, <2>1, <2>2, <2>3, <2>4, Arch!OptionalEmpty
    DEF Arch!Init, Arch!TypeOK, Arch!MachineStates
<1>5. Arch!IInv
  BY <1>3 DEF Arch!Init, Arch!IInv, Arch!EngineInv, Arch!BetweenRunsInv, Arch!RunInv,
     Arch!CallInv, Arch!Idle, Arch!Invoke
<1>6. JoinInv
  BY DEF ComputerInit, Init, M!Init, NothingGiven, JoinInv, PlaceInv, RequestInv, HeardInv,
     GivenInv, SourceInv, QuietInv, NewsInv, FinalInv, HasSource, HasInput, Busy, Waiting, Booting, InNext,
     InDestroy,
     M!Idle, NoOutput, DeadOutput
<1> QED BY <1>1, <1>2, <1>4, <1>5, <1>6 DEF CInv, EngineFacts, RunFacts

\* The engine takes its own steps only, and native_next is not called after a
\* failure.
LEMMA EngineStep ==
  ASSUME CInv, [ComputerNext]_allVars
  PROVE  [Next]_vars /\ (NativeNext => ~gaveUp)
<1>1. CASE World \/ MachineRuns \/ MachineStep \/ CloseEnds \/ UNCHANGED allVars
  <2>1. UNCHANGED vars
    BY <1>1 DEF World, MachineRuns, MachineStep, CloseEnds, EngineWaits, allVars
  <2> QED BY <2>1 DEF vars, hostVars, NativeNext
<1>2. CASE Initialize
  BY <1>2 DEF Initialize, NativeStart, Next, NativeNext
<1>3. CASE PushNext
  <2>1. RunView
    BY ViewRun DEF CInv
  <2>2. awaits \notin {M!Idle("failed"), M!Idle("none")} /\ hostPc = "idle" /\ handle
    BY <1>3, <2>1 DEF RunView, PushInv, M!Idle, M!Invoke, PushNext, NativeNext
  <2>3. ~gaveUp
    BY <2>2 DEF CInv, JoinInv, HeardInv
  <2> QED BY <1>3, <2>3 DEF PushNext, Next
<1> USE DEF Next, HostCallStep, DestroyStep, ThreadStep, ScriptStep, NativeNext, NextDead,
        NextStore, NextNotify, NextReturn, NextTimeout, DestroyBegin, DestroyCheck,
        DestroyCancel, DestroyJoin, DestroyFree, JsLock, JsInit, JsPublish, JsPark,
        JsSleepAgain, JsResume, JsBadSource, JsKilled, JsDie, JsMark, JsExit, JsCancelled,
        JsYield, JsEnd, JsInitFatal, SpuriousWake, InNext, hostVars
<1>4. CASE (NextDead \/ NextStore \/ NextNotify) /\ MachineWaits
  BY <1>4
<1>5. CASE PushReturns \/ PushTimesOut
  BY <1>5 DEF PushReturns, PushTimesOut
<1>6. CASE CloseBegins \/ (DestroyStep /\ MachineWaits)
  BY <1>6 DEF CloseBegins
<1>7. CASE EngineThread \/ Chance
  BY <1>7 DEF EngineThread, Chance
<1>8. CASE ScriptAsks \/ ScriptEnds
  BY <1>8 DEF ScriptAsks, ScriptEnds
<1> QED BY <1>1, <1>2, <1>3, <1>4, <1>5, <1>6, <1>7, <1>8
        DEF ComputerNext, HostStep, CloseStep

\* Every step of the computer is one of Architecture, or none.
LEMMA ArchStep ==
  ASSUME CInv, [ComputerNext]_allVars
  PROVE  [Arch!Next]_(Arch!vars)
<1>1. RunView
  BY ViewRun DEF CInv
<1>2. CASE Alive /\ World
  BY <1>1, <1>2, WorldIsArch
<1>3. CASE Alive /\ (Initialize \/ MachineRuns \/ MachineStep \/ CloseEnds)
  <2>1. pc # "script" /\ pc' # "script"
    BY <1>1, <1>3 DEF RunView, Initialize, M!Initialize, M!runVars, MachineRuns, MachineStep,
       CloseEnds, M!Close, M!RunThreaded, RunOutside, M!SyncStep, M!BothPending,
       M!ExecuteThreaded, M!HandleSleep, M!HandleCallback, M!HandleFailure, M!HandleInvoke,
       M!InvokeFails, M!InvokeMissing, M!InvokeDirect, M!InvokeDeferred, M!Invoked, M!Return,
       M!RunSynchronized, M!RunSynchronizedFails
  <2> QED BY <1>1, <1>3, <2>1, RunsAreArchs DEF Initialize, MachineRuns, MachineStep, CloseEnds
<1>4. CASE PushNext
  BY <1>4, PushIsArch
<1>5. CASE PushReturns \/ PushTimesOut
  BY <1>5, HearIsArch
<1>6. CASE \/ (NextDead \/ NextStore \/ NextNotify) /\ MachineWaits
           \/ CloseBegins \/ (DestroyStep /\ MachineWaits)
           \/ EngineThread \/ Chance
           \/ ScriptAsks \/ ScriptEnds \/ UNCHANGED allVars
  <2>1. UNCHANGED <<runVars, given>>
    BY <1>6 DEF MachineWaits, betweenVars, CloseBegins, EngineThread, Chance, ScriptAsks,
       ScriptEnds, allVars
  <2>2. ~NativeStart
    BY <1>6 DEF NativeStart, NextDead, NextStore, NextNotify, CloseBegins, DestroyBegin,
       DestroyStep, DestroyCheck, DestroyCancel, DestroyJoin, DestroyFree, EngineThread,
       ThreadStep, JsLock, JsInit, JsPublish, JsPark, JsSleepAgain, JsResume, JsBadSource,
       JsKilled, JsDie, JsMark, JsExit, JsCancelled, JsEnd, JsInitFatal, SpuriousWake, Chance,
       ScriptAsks, ScriptEnds, JsYield, allVars, vars, hostVars
  <2> QED BY <2>1, <2>2, EngineStep, EngineIsArch
<1> QED BY <1>2, <1>3, <1>4, <1>5, <1>6 DEF ComputerNext, HostStep, CloseStep

\* JoinInv is kept by every step.
LEMMA JoinStep ==
  ASSUME CInv, [ComputerNext]_allVars
  PROVE  JoinInv'
<1>1. CASE UNCHANGED allVars
  BY <1>1 DEF CInv, allVars, vars, engineVars, jsVars, hostVars, runVars, betweenVars, JoinInv,
     PlaceInv, RequestInv, HeardInv, GivenInv, SourceInv, QuietInv, NewsInv, FinalInv, HasSource, HasInput, Busy,
     Booting
<1> QED BY <1>1, WorldJoin, MachineStepJoin, InitializeJoin, ThreadJoin, AskJoin, EndJoin,
           PushJoin, CallJoin, CloseJoin, HearJoin DEF ComputerNext, HostStep

\* CInv is inductive.
LEMMA CStep == CInv /\ [ComputerNext]_allVars => CInv'
<1> SUFFICES ASSUME CInv, [ComputerNext]_allVars PROVE CInv'
  OBVIOUS
<1>1. TypeOK' /\ IInv'
  BY EngineStep, TypeStep, InductiveStep DEF CInv, EngineFacts
<1>2. DriverInv'
  BY EngineStep, DriverStep DEF CInv, EngineFacts, IInv, HandoffInv
<1>3. Arch!TypeOK'
  BY ArchStep, Arch!TypeStep DEF CInv, RunFacts
<1>4. Arch!IInv'
  BY ArchStep, Arch!InductiveStep DEF CInv, RunFacts
<1> QED BY <1>1, <1>2, <1>3, <1>4, JoinStep DEF CInv, EngineFacts, RunFacts

\* The joint invariant holds throughout.
THEOREM ComputerInvariant == ComputerSpec => []CInv
BY InitCInv, CStep, PTL DEF ComputerSpec

-----------------------------------------------------------------------------
(* What follows.                                                           *)

\* runThreaded calls no engine that was late, which is what the theorems about
\* NativeEngine with CallerRetries = FALSE ask of a driver, and calls one that has
\* ended only when the result that it ended with is dispatched as a request.
THEOREM DriverAlwaysStops == ComputerSpec => []DriverStops
<1>1. CInv => DriverStops
  <2> SUFFICES ASSUME CInv, pc = "push"
               PROVE  ~gaveUp /\ (seen = DeadOutput => final # "failed")
    BY DEF DriverStops
  <2>1. RunView
    BY ViewRun DEF CInv
  <2>2. awaits \notin {M!Idle("failed"), M!Idle("none")}
    BY <2>1 DEF RunView, PushInv, M!Idle, M!Invoke
  <2> QED BY <2>2 DEF CInv, JoinInv, HeardInv
<1> QED BY <1>1, ComputerInvariant, PTL

\* The thread of the script, of which the machine knows nothing, executes only
\* while runThreaded waits for it, and has ended when the machine is off.
THEOREM ScriptsRunWithMachine == ComputerSpec => []ScriptRunsWithMachine
<1>1. CInv => ScriptRunsWithMachine
  <2> SUFFICES ASSUME CInv PROVE ScriptRunsWithMachine
    OBVIOUS
  <2>1. RunView
    BY ViewRun DEF CInv
  <2>2. ASSUME jsPc \in {"run", "die"}, answer # {}, ~gaveUp, ~shouldKill
        PROVE  machine = "running"
    <3>1. hostPc \in InNext
      BY <2>2 DEF CInv, EngineFacts, IInv, HandoffInv, AnyCallerInv, TurnInv, Busy, InNext
    <3> QED BY <2>1, <3>1 DEF RunView, CInv, JoinInv, PlaceInv
  <2>3. machine = "stopped" => jsPc \in {"none", "exit"}
    BY DEF CInv, JoinInv, PlaceInv, EngineFacts, IInv, HandoffInv, AnyCallerInv, HostInv
  <2> QED BY <2>2, <2>3 DEF ScriptRunsWithMachine
<1> QED BY <1>1, ComputerInvariant, PTL

\* The value that the script's thread has taken is the one that runThreaded
\* pushed for the request which that script made.
THEOREM AnswersAlwaysReach == ComputerSpec => []AnswersReachRequests
<1>1. CInv => AnswersReachRequests
  BY DEF CInv, JoinInv, GivenInv, Fits, AnswersReachRequests
<1> QED BY <1>1, ComputerInvariant, PTL

-----------------------------------------------------------------------------
(* A of Computer and Arch are one mapping of two modules, the second of    *)
(* which extends the first.                                                *)

\* The two have the same actions.
LEMMA SameNext == A!Next <=> Arch!Next
BY Zenon DEF A!Next, A!OnConnect, A!Initialize, A!AddSignal, A!Stop, A!Close,
   A!RunUnconnected, A!RunThreaded, A!StartEngine, A!PopSignal, A!RunStep,
   A!SyncStep, A!BothPending, A!ExecuteThreaded, A!TakeSource, A!DropSource,
   A!PushFails, A!PushCrashes, A!CallsLeft, A!InitializeFails, A!RunThreadedFails, A!Resume, A!ScriptTurn, A!ScriptYields, A!ScriptInvokes,
   A!HandleSleep, A!HandleCallback, A!HandleFailure, A!HandleInvoke,
   A!Invoked, A!InvokeFails, A!InvokeMissing, A!InvokeDirect,
   A!InvokeDeferred, A!RunSynchronized, A!RunSynchronizedFails, A!Return,
   A!ScriptOnly, A!invokerVars, A!archVars, A!machineVars, A!runVars,
   A!scriptVars, A!CallIds, A!Source, A!Result, A!Empty, A!Signal, A!Callback,
   A!Null, A!Idle, A!Invoke,
   Arch!Next, Arch!OnConnect, Arch!Initialize, Arch!AddSignal,
   Arch!Stop, Arch!Close, Arch!RunUnconnected, Arch!RunThreaded,
   Arch!StartEngine, Arch!PopSignal, Arch!RunStep, Arch!SyncStep,
   Arch!BothPending, Arch!ExecuteThreaded, Arch!TakeSource, Arch!DropSource,
   Arch!PushFails, Arch!PushCrashes, Arch!CallsLeft, Arch!InitializeFails,
   Arch!RunThreadedFails, Arch!Resume, Arch!ScriptTurn, Arch!ScriptYields,
   Arch!ScriptInvokes, Arch!HandleSleep, Arch!HandleCallback,
   Arch!HandleFailure, Arch!HandleInvoke, Arch!Invoked, Arch!InvokeFails,
   Arch!InvokeMissing, Arch!InvokeDirect, Arch!InvokeDeferred,
   Arch!RunSynchronized, Arch!RunSynchronizedFails, Arch!Return,
   Arch!ScriptOnly, Arch!invokerVars, Arch!archVars, Arch!machineVars,
   Arch!runVars, Arch!scriptVars, Arch!CallIds, Arch!Source, Arch!Result,
   Arch!Empty, Arch!Signal, Arch!Callback, Arch!Null, Arch!Idle, Arch!Invoke

\* ... and the same variables.
LEMMA SameVars == A!vars = Arch!vars /\ (A!vars)' = (Arch!vars)'
BY Zenon DEF A!vars, A!archVars, A!invokerVars, A!machineVars, A!runVars, A!scriptVars,
   Arch!vars, Arch!archVars, Arch!invokerVars, Arch!machineVars, Arch!runVars, Arch!scriptVars

\* The computer with the real engine, whose thread may be late, lose its source
\* or end at any time and with any result, does nothing that Architecture, in which
\* the engine is a coroutine or its process ends, does not allow for.
THEOREM Implements == ComputerSpec => ImplementsArchitecture
<1>1. ComputerInit => A!Init
  BY DEF ComputerInit, M!Init, A!Init, Pending, M!Idle, A!Idle, M!CallIds, A!CallIds
<1>2. CInv /\ [ComputerNext]_allVars => [A!Next]_(A!vars)
  BY ArchStep, SameNext, SameVars
<1> QED
  BY <1>1, <1>2, ComputerInvariant, PTL DEF ComputerSpec, ImplementsArchitecture, A!Spec

\* So the computer calls components as RemoteCall has it: each call that a
\* script makes is performed at most once, and is answered, if at all, after it
\* was performed or refused.
THEOREM CallsAreRemoteCalls == ComputerSpec => Arch!ImplementsRemoteCall
<1>1. ComputerInit => Arch!Init
  BY DEF ComputerInit, M!Init, Arch!Init, Pending, M!Idle, Arch!Idle, M!CallIds, Arch!CallIds
<1>2. CInv /\ [ComputerNext]_allVars => [Arch!Next]_(Arch!vars)
  BY ArchStep
<1>3. ComputerSpec => Arch!Spec
  BY <1>1, <1>2, ComputerInvariant, PTL DEF ComputerSpec, Arch!Spec
<1> QED
  BY <1>3, Arch!Refinement, PTL

\* The engine of a computer is the engine of NativeEngine, with this caller: it
\* implements the coroutine of YieldProtocol.
THEOREM EngineOfComputer == ComputerSpec => Spec
<1>1. ComputerInit => Init
  BY DEF ComputerInit
<1>2. CInv /\ [ComputerNext]_allVars => [Next]_vars
  BY EngineStep
<1> QED
  BY <1>1, <1>2, ComputerInvariant, PTL DEF ComputerSpec, Spec

\* What yield() returns answers what it produced: with runThreaded for a caller,
\* the theorem about NativeEngine needs no assumption about the caller.
THEOREM AnswersMatchInComputer == ComputerSpec => []AnswersMatch
<1>1. CInv => AnswersMatch
  BY DEF CInv, EngineFacts, DriverInv, Matches, AnswersMatch
<1> QED BY <1>1, ComputerInvariant, PTL
=============================================================================
