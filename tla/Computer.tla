------------------------------ MODULE Computer -------------------------------
(***************************************************************************)
(* A whole computer with the Duktape engine: the machine's side of         *)
(* Architecture and the native engine of NativeEngine, joined where they   *)
(* meet, in DuktapeEngine.kt.  Nothing is assumed of either about the      *)
(* other: the caller of native_next is runThreaded and that of             *)
(* native_destroy is close(), and the answer to a push is what the thread  *)
(* of the script made of it, or the watchdog.                              *)
(*                                                                         *)
(* Here awaits is what runThreaded has heard last, and what inputs and     *)
(* outputs carry is kept beside their numbers in NativeEngine.             *)
(*                                                                         *)
(* JSEngine dispatches whatever native_next returns by its type.  What the *)
(* script ends with is no exception: the wrapper that DuktapeEngine.start  *)
(* puts around it returns the stack of what it threw, which the script may *)
(* have made look like a request.  And when the engine is late there is no *)
(* type to dispatch by: DuktapeEngine.cpp returns a java.lang.String for   *)
(* the JSValue, and the method JSEngine calls on it is undefined.          *)
(***************************************************************************)
EXTENDS NativeEngine, Sequences

CONSTANTS MaxCalls, MaxSignals  \* the bounds of Architecture; an ended script is
                                \* not taken to ask for a call beyond MaxCalls

ASSUME ComputerBounds == MaxCalls \in Nat /\ MaxSignals \in Nat

VARIABLES
  connected, initialized, engine, callToSync, callResult,
  machine, stopAsked, signals, accepted, pc, signal, input,
  awaits, calls, performed,
  request,  \* what output yieldNo asks for
  given,    \* the value of the last native_next, and what it answered
  final     \* what the script's final result is dispatched as

M == INSTANCE Architecture

runVars == <<connected, initialized, engine, callToSync, callResult, machine,
             stopAsked, signals, accepted, pc, signal, input, awaits, calls,
             performed>>
betweenVars == <<request, given, final>>
allVars == <<vars, runVars, betweenVars>>

NothingGiven == [to |-> NoOutput, value |-> M!Null]

ComputerInit ==
  /\ Init /\ M!Init
  /\ request = M!Idle("bios") /\ given = NothingGiven /\ final = "failed"

\* A process that has died does nothing any more.
Alive == pc # "crashed"

-----------------------------------------------------------------------------
(* The machine on its own, and the engine on its own.                      *)

\* The steps of runThreaded outside jsPushNext.
RunOutside == \/ M!BothPending \/ M!ExecuteThreaded
              \/ M!HandleSleep \/ M!HandleCallback \/ M!HandleFailure
              \/ \E id \in M!CallIds : M!HandleInvoke(id)

EngineWaits == UNCHANGED <<vars, betweenVars>>

World ==
  /\ \/ M!OnConnect \/ M!InitializeFails \/ M!AddSignal \/ M!Stop
     \/ M!RunUnconnected \/ M!RunThreadedFails
  /\ EngineWaits
MachineRuns == M!RunThreaded /\ EngineWaits
MachineStep == (RunOutside \/ M!SyncStep) /\ EngineWaits

MachineWaits == UNCHANGED <<runVars, betweenVars>>

EngineThread == Alive /\ ThreadStep /\ MachineWaits
EngineCancelled == Alive /\ JsCancelled /\ MachineWaits

-----------------------------------------------------------------------------
(* Where they meet.                                                        *)

\* initialize() makes a DuktapeEngine, whose constructor calls native_start.
Initialize ==
  /\ M!Initialize
  /\ NativeStart
  /\ request' = M!Idle("bios") /\ given' = NothingGiven /\ final' = "failed"

\* What runThreaded has heard of a script that has not begun.
Booting == awaits \in {M!Idle("fresh"), M!Idle("bios")}

\* jsPushNext: runThreaded enters native_next with the value it has.
PushNext ==
  /\ pc = "push"
  /\ NativeNext
  /\ \E v \in input : given' = [to |-> seen, value |-> v]
  /\ awaits' = IF Booting THEN awaits ELSE M!Idle("running")
  /\ input' = {} /\ pc' = "script"
  /\ calls' = M!CallsLeft
  /\ UNCHANGED <<connected, initialized, engine, callToSync, callResult, machine,
                 stopAsked, signals, accepted, signal, performed, request, final>>

\* The script yields a request: it sleeps, calls back, invokes a component, or
\* yields what executeThreaded throws at.
ScriptAsks ==
  /\ JsYield
  /\ request' \in {M!Idle("sleep"), M!Idle("callback"), M!Idle("failed")}
                    \cup (IF calls < MaxCalls THEN {M!Invoke(calls + 1)} ELSE {})
  /\ UNCHANGED <<runVars, given, final>>

\* The script ends by itself, with what looks like one of its requests or not.
ScriptEnds ==
  /\ JsEnd
  /\ final' \in {"sleep", "callback", "invoke", "failed"}
  /\ UNCHANGED <<runVars, request, given>>

Hear(what) ==
  /\ awaits' = what
  /\ calls' = calls + (IF what.kind = "invoke" THEN 1 ELSE 0)
  /\ UNCHANGED <<connected, initialized, engine, callToSync, callResult, machine,
                 stopAsked, signals, accepted, signal, input, performed,
                 betweenVars>>

FinalRequest == IF final = "invoke" /\ calls < MaxCalls THEN M!Invoke(calls + 1)
                ELSE IF final = "invoke" THEN M!Idle("failed")
                ELSE M!Idle(final)

\* Mutant: every end of a script is taken for a sleep.
PushReturnsEndAsSleep ==
  /\ NextReturn
  /\ pc' = "yielded"
  /\ Hear(CASE reply = DeadOutput -> M!Idle("sleep")
            [] reply = yieldNo -> request
            [] OTHER -> M!Idle("none"))

\* native_next returns what the script asked for, or its final result, which it
\* returns again to whoever calls the dead engine again.
PushReturns ==
  /\ NextReturn
  /\ pc' = "yielded"
  /\ Hear(CASE reply = DeadOutput -> FinalRequest
            [] reply = yieldNo -> request
            [] OTHER -> M!Idle("none"))

\* Mutant: a machine whose script is late goes on with it.
PushTimesOutAsSleep == NextTimeout /\ pc' = "yielded" /\ Hear(M!Idle("sleep"))

\* The engine is late.  The use of the string that native_next returns throws, or
\* ends the process.
PushTimesOut ==
  /\ NextTimeout
  /\ pc' \in {"yielded", "crashed"}
  /\ Hear(M!Idle("failed"))

\* close() destroys the engine first.
CloseBegins ==
  /\ machine = "stopping"
  /\ DestroyBegin /\ MachineWaits

CloseEnds ==
  /\ ~handle
  /\ M!Close /\ EngineWaits

-----------------------------------------------------------------------------
HostStep == \/ (NextDead \/ NextStore \/ NextNotify) /\ MachineWaits
            \/ PushNext \/ PushReturns \/ PushTimesOut

CloseStep == CloseBegins \/ (DestroyStep /\ MachineWaits) \/ CloseEnds

\* What neither the machine nor the script decides.
Chance == (JsInitFatal \/ SpuriousWake) /\ MachineWaits

ComputerNext == /\ Alive
                /\ \/ World \/ Initialize \/ MachineRuns \/ MachineStep
                   \/ HostStep \/ CloseStep
                   \/ EngineThread \/ Chance
                   \/ ScriptAsks \/ ScriptEnds

ComputerSpec == ComputerInit /\ [][ComputerNext]_allVars

\* The fairness of Architecture and of NativeEngine.
ComputerFairSpec ==
  /\ ComputerSpec
  /\ WF_allVars(MachineRuns) /\ WF_allVars(MachineStep)
  /\ WF_allVars(HostStep) /\ WF_allVars(CloseStep)
  /\ WF_allVars(EngineThread) /\ WF_allVars(EngineCancelled)

-----------------------------------------------------------------------------
(* Properties.                                                             *)

\* What a script's yield returns answers what the script asked for with it, from
\* one end to the other: its source for __bios__, a signal or nothing for a
\* sleep, and the result of that very call for a component call.
AnswersReachRequests ==
  jsPc = "run" /\ yieldNo > 0 =>
    \A i \in answer :
      /\ i.to = given.to
      /\ CASE request.kind = "sleep" -> given.value.kind \in {"signal", "null"}
           [] request.kind = "callback" -> given.value = M!Callback
           [] request.kind = "invoke" ->
                given.value \in {M!Result(request.id), M!Empty(request.id)}
           [] OTHER -> FALSE

\* runThreaded never calls an engine again that was late, which is what
\* NativeEngine assumes of its driver with CallerRetries = FALSE; nor one whose
\* script has ended, unless its final result looked like a request.  (Then it
\* does, for as long as the machine runs: there is nothing left to answer, and
\* native_next returns the same result.)
DriverStops ==
  pc = "push" => ~gaveUp /\ (seen = DeadOutput => final # "failed")

\* A script that has begun executes only while its machine runs it, except one
\* that is late or being destroyed.  In particular it waits while the machine's
\* own thread performs its call, and has gone when the machine is turned off.
ScriptRunsWithMachine ==
  /\ jsPc \in {"run", "die"} /\ answer # {} /\ ~gaveUp /\ ~shouldKill
       => machine = "running"
  /\ machine = "stopped" => jsPc \in {"none", "exit"}

\* The computer seen as Architecture has it, where the engine is a coroutine: a
\* push to a script that has not begun is pending until its thread takes the
\* source.
Pending == pc = "script" /\ Booting /\ (answer = {} \/ ~HasSource)

A == INSTANCE Architecture WITH
  pc <- IF Pending THEN "push" ELSE pc,
  input <- IF Pending THEN {given.value} ELSE input,
  awaits <- IF pc = "script" /\ ~Pending THEN M!Idle("running") ELSE awaits

\* With the real engine, whose thread may be late, lose its source or end at any
\* time with any result, the computer does nothing that Architecture does not
\* allow for: what holds of Architecture, and the calls of RemoteCall, hold of the
\* computer, also of one that goes on calling an engine that has ended.
ImplementsArchitecture == A!Spec

\* A machine that is told to stop, or fails, does stop, or its process dies: also
\* with a script that never yields again, that is starting or that is dying.  The
\* exception is that of Architecture's StopsEnd, a run that never returns because
\* what it hears is answered within it again and again.  Here that is the result
\* of a script that has ended; of a script that still runs, MaxYields leaves it
\* out.
ComputerStops ==
  \/ <>[](machine = "running") /\ []<>M!AnsweredInRun
  \/ stopAsked \/ machine = "stopping" ~> machine = "stopped" \/ ~Alive
=============================================================================
