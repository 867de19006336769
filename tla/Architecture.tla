---------------------------- MODULE Architecture ----------------------------
(***************************************************************************)
(* The machine's side of a computer: JSArchitectureBase, the               *)
(* ComponentInvoker it keeps call results in, and the dispatch of the      *)
(* script's requests in JSEngine.executeThreaded (src/main/java/com/       *)
(* pwootage/oc/js).                                                        *)
(*                                                                         *)
(* The machine that drives them is a library.  It is modelled from how     *)
(* this code uses it: it calls initialize, runThreaded, runSynchronized    *)
(* and close one at a time, takes the ExecutionResult of runThreaded as    *)
(* its next state, queues signals whenever it is on, and may be told to    *)
(* stop at any moment, also while runThreaded is executing on a worker.    *)
(*                                                                         *)
(* The engine is a coroutine (YieldProtocol, which NativeEngine is shown   *)
(* to implement), except for its start, where the first value pushed may   *)
(* be lost and __bios__ returned instead, and for an engine that is late:  *)
(* native_next then returns a java.lang.String where a JSValue is          *)
(* declared, and the method that JSEngine calls on it is undefined.        *)
(* The call throws, or takes the process of the JVM with it (PushCrashes). *)
(*                                                                         *)
(* An input of the script is a record of where it came from; an optional   *)
(* or nullable field is a set with at most one element.                    *)
(***************************************************************************)
EXTENDS Integers, Sequences

CONSTANTS
  MaxCalls,    \* bound: component calls requested by scripts, over all lives,
               \* other than those that find no method
  MaxSignals   \* bound: signals accepted by the machine, over all lives

ASSUME ArchitectureBounds == MaxCalls \in Nat /\ MaxSignals \in Nat

VARIABLES
  \* JSArchitectureBase
  connected,   \* connectedPromise.isDone
  initialized,
  engine,      \* mainEngine: "none", "new" or "started"
  \* ComponentInvoker
  callToSync,  \* the call that runSynchronized is to perform
  callResult,
  \* the machine
  machine,     \* its state
  stopAsked,   \* told to stop while runThreaded executes
  signals,     \* queue of accepted signals
  accepted,    \* number of signals accepted
  \* runThreaded
  pc,
  signal,      \* the signal popped for this run
  input,       \* the value for jsPushNext
  \* the script
  awaits,      \* what it yielded last
  calls,       \* number of component calls requested, except those that found no
               \* method
  performed    \* how often each call was performed

invokerVars == <<callToSync, callResult>>
archVars == <<connected, initialized, engine>>
machineVars == <<machine, stopAsked, signals, accepted>>
runVars == <<pc, signal, input>>
scriptVars == <<awaits, calls, performed>>
vars == <<archVars, invokerVars, machineVars, runVars, scriptVars>>

CallIds == 1 .. MaxCalls
SignalIds == 1 .. MaxSignals

\* Inputs of the script: its source, the answer to a component call, the answer
\* to any other call, a signal, or JSNull.
Source == [kind |-> "source", id |-> 0]
Result(id) == [kind |-> "result", id |-> id]
Empty(id) == [kind |-> "empty", id |-> id]
Signal(id) == [kind |-> "signal", id |-> id]
Callback == [kind |-> "callback", id |-> 0]
Null == [kind |-> "null", id |-> 0]
Inputs == {Source, Callback, Null} \cup {Result(id) : id \in CallIds}
          \cup {Empty(id) : id \in CallIds} \cup {Signal(id) : id \in SignalIds}

\* What a script may be doing: not there, not begun, executing, or waiting for
\* the answer to a request.
Idle(kind) == [kind |-> kind, id |-> 0]
Invoke(id) == [kind |-> "invoke", id |-> id]
IdleKinds == {"none", "fresh", "running", "bios", "sleep", "callback", "failed"}
Requests == {Idle(kind) : kind \in IdleKinds} \cup {Invoke(id) : id \in CallIds}

Optional(S) == {{}} \cup {{x} : x \in S}

MachineStates == {"stopped", "yielded", "running", "syncCall", "syncReturn",
                  "stopping"}

TypeOK ==
  /\ connected \in BOOLEAN
  /\ initialized \in BOOLEAN
  /\ engine \in {"none", "new", "started"}
  /\ callToSync \in Optional(CallIds)
  /\ callResult \in Optional(Inputs)
  /\ machine \in MachineStates
  /\ stopAsked \in BOOLEAN
  /\ signals \in Seq(SignalIds)
  /\ accepted \in 0 .. MaxSignals
  /\ pc \in {"idle", "execute", "push", "script", "yielded", "crashed"}
  /\ signal \in Optional(Inputs)
  /\ input \in Optional(Inputs)
  /\ awaits \in Requests
  /\ calls \in 0 .. MaxCalls
  /\ performed \in [CallIds -> Nat]

Init ==
  /\ connected = FALSE /\ initialized = FALSE /\ engine = "none"
  /\ callToSync = {} /\ callResult = {}
  /\ machine = "stopped" /\ stopAsked = FALSE /\ signals = <<>> /\ accepted = 0
  /\ pc = "idle" /\ signal = {} /\ input = {}
  /\ awaits = Idle("none") /\ calls = 0
  /\ performed = [id \in CallIds |-> 0]

-----------------------------------------------------------------------------
(* The machine turned on and off, connected and signalled.                 *)

OnConnect ==
  /\ ~connected
  /\ connected' = TRUE
  /\ UNCHANGED <<initialized, engine, invokerVars, machineVars, runVars, scriptVars>>

\* The machine drops the signals of its last life.  The node may already have a
\* network, in which case initialize completes the promise.  The invoker is not
\* reset: it is created once, with the architecture.
Initialize ==
  /\ machine = "stopped"
  /\ signals' = <<>>
  /\ connected' \in {connected, TRUE}
  /\ IF initialized
       THEN UNCHANGED <<initialized, engine, awaits>>
       ELSE /\ engine' = "new"
            /\ awaits' = Idle("fresh")
            /\ initialized' = TRUE
  /\ machine' = "yielded"
  /\ UNCHANGED <<invokerVars, stopAsked, accepted, runVars, calls, performed>>

\* The engine cannot be created: initialize reports it and returns false, and
\* the machine does not start.
InitializeFails ==
  /\ machine = "stopped"
  /\ signals' = <<>>
  /\ connected' \in {connected, TRUE}
  /\ UNCHANGED <<initialized, engine, invokerVars, machine, stopAsked, accepted,
                 runVars, scriptVars>>

AddSignal ==
  /\ machine \notin {"stopped", "stopping"}
  /\ accepted < MaxSignals
  /\ accepted' = accepted + 1
  /\ signals' = Append(signals, accepted')
  /\ UNCHANGED <<archVars, invokerVars, machine, stopAsked, runVars, scriptVars>>

\* Somebody turns the machine off, or load() restarts it.
Stop ==
  /\ machine \notin {"stopped", "stopping"}
  /\ IF machine = "running"
       THEN stopAsked' = TRUE /\ UNCHANGED machine
       ELSE machine' = "stopping" /\ UNCHANGED stopAsked
  /\ UNCHANGED <<archVars, invokerVars, signals, accepted, runVars, scriptVars>>

Close ==
  /\ machine = "stopping"
  /\ engine' = "none"
  /\ awaits' = Idle("none")
  /\ initialized' = FALSE
  /\ machine' = "stopped"
  /\ UNCHANGED <<connected, invokerVars, stopAsked, signals, accepted, runVars,
                 calls, performed>>

-----------------------------------------------------------------------------
(* runThreaded up to the first push.                                       *)

RunUnconnected ==
  /\ machine \in {"yielded", "syncReturn"}
  /\ ~connected
  /\ machine' = "yielded"
  /\ UNCHANGED <<archVars, invokerVars, stopAsked, signals, accepted, runVars,
                 scriptVars>>

\* DuktapeEngine.start leaves the source as the pending call result.
StartEngine ==
  IF engine = "new"
    THEN engine' = "started" /\ callResult' = {Source}
    ELSE UNCHANGED <<engine, callResult>>

\* Mutant: every run takes a signal.
PopSignalAlways ==
  IF signals # <<>>
    THEN signal' = {Signal(Head(signals))} /\ signals' = Tail(signals)
    ELSE UNCHANGED <<signal, signals>>

\* A run that returns from a synchronized call leaves the signals alone.
PopSignal ==
  IF machine = "yielded" /\ signals # <<>>
    THEN signal' = {Signal(Head(signals))} /\ signals' = Tail(signals)
    ELSE UNCHANGED <<signal, signals>>

\* Mutant: an engine that has started is only run for a signal.
RunThreadedOnSignal ==
  /\ machine \in {"yielded", "syncReturn"}
  /\ connected
  /\ engine = "new" \/ signals # <<>>
  /\ StartEngine
  /\ PopSignal
  /\ machine' = "running"
  /\ pc' = "execute"
  /\ UNCHANGED <<connected, initialized, callToSync, stopAsked, accepted, input,
                 scriptVars>>

RunThreaded ==
  /\ machine \in {"yielded", "syncReturn"}
  /\ connected
  /\ StartEngine
  /\ PopSignal
  /\ machine' = "running"
  /\ pc' = "execute"
  /\ UNCHANGED <<connected, initialized, callToSync, stopAsked, accepted, input,
                 scriptVars>>

\* The source cannot be loaded, and the engine counts as started without one; or
\* the signal cannot be converted, and is gone.  Either ends in an Error.
RunThreadedFails ==
  /\ machine \in {"yielded", "syncReturn"}
  /\ connected
  /\ \/ /\ engine = "new"
        /\ engine' = "started"
        /\ UNCHANGED <<callResult, signals>>
     \/ /\ machine = "yielded" /\ signals # <<>>
        /\ StartEngine
        /\ signals' = Tail(signals)
  /\ machine' = "stopping"
  /\ UNCHANGED <<connected, initialized, callToSync, stopAsked, accepted, runVars,
                 scriptVars>>

\* runThreaded returns, and the machine acts on the result unless it was told
\* to stop.
Return(state) ==
  /\ pc' = "idle"
  /\ signal' = {}
  /\ input' = {}
  /\ machine' = IF stopAsked THEN "stopping" ELSE state
  /\ stopAsked' = FALSE
  /\ UNCHANGED <<signals, accepted>>

\* ComponentInvoker.result takes the result before the two are compared.
BothPending ==
  /\ pc = "execute"
  /\ signal # {} /\ callResult # {}
  /\ callResult' = {}
  /\ Return("stopping")
  /\ UNCHANGED <<archVars, callToSync, scriptVars>>

\* Mutant: the result is read and not taken.
ExecuteThreadedKeepsResult ==
  /\ pc = "execute"
  /\ signal = {} \/ callResult = {}
  /\ input' = IF callResult # {} THEN callResult
              ELSE IF signal # {} THEN signal
              ELSE {Null}
  /\ signal' = {}
  /\ pc' = "push"
  /\ UNCHANGED <<archVars, invokerVars, machineVars, scriptVars>>

ExecuteThreaded ==
  /\ pc = "execute"
  /\ signal = {} \/ callResult = {}
  /\ callResult' = {}
  /\ input' = IF callResult # {} THEN callResult
              ELSE IF signal # {} THEN signal
              ELSE {Null}
  /\ signal' = {}
  /\ pc' = "push"
  /\ UNCHANGED <<archVars, callToSync, machineVars, scriptVars>>

-----------------------------------------------------------------------------
(* jsPushNext and the script's turn.                                       *)

ScriptOnly == <<archVars, invokerVars, machineVars, signal, performed>>

\* The script starts: the source answers the engine's first request.
TakeSource ==
  /\ pc = "push" /\ awaits \in {Idle("fresh"), Idle("bios")}
  /\ Source \in input
  /\ awaits' = Idle("running")
  /\ input' = {}
  /\ pc' = "script"
  /\ UNCHANGED <<ScriptOnly, calls>>

\* The engine's thread had not yet yielded __bios__: the first value is lost.
DropSource ==
  /\ pc = "push" /\ awaits = Idle("fresh")
  /\ awaits' = Idle("bios")
  /\ input' = {}
  /\ pc' = "yielded"
  /\ UNCHANGED <<ScriptOnly, calls>>

\* A call that found no method gives its number to the next one, once answered:
\* a script may make such calls without end.
CallsLeft == IF \E id \in CallIds : input = {Empty(id)} THEN calls - 1 ELSE calls

\* The engine is late before its script has the value, and the use of what
\* native_next returned throws; or it dies before its script begins, or because
\* the answer to __bios__ is not the source.
PushFails ==
  /\ pc = "push"
  /\ awaits' = Idle("failed")
  /\ input' = {}
  /\ calls' = CallsLeft
  /\ pc' = "yielded"
  /\ UNCHANGED ScriptOnly

\* The engine is late, and the use of what native_next returned ends the process:
\* nothing happens any more.
PushCrashes ==
  /\ pc \in {"push", "script"}
  /\ awaits' = Idle("failed")
  /\ input' = {}
  /\ calls' = CallsLeft
  /\ pc' = "crashed"
  /\ UNCHANGED ScriptOnly

\* The pending yield of the script returns.
Resume ==
  /\ pc = "push" /\ awaits \notin {Idle("fresh"), Idle("bios")}
  /\ awaits' = Idle("running")
  /\ input' = {}
  /\ calls' = CallsLeft
  /\ pc' = "script"
  /\ UNCHANGED ScriptOnly

\* The script sleeps, calls back, crashes, ends, calls back in a way that
\* throws, or does not answer in time.  What a script ends with is dispatched
\* as what it yields, so its end may be any of these, and an invoke.
ScriptYields ==
  /\ pc = "script"
  /\ awaits' \in {Idle("sleep"), Idle("callback"), Idle("failed")}
  /\ pc' = "yielded"
  /\ UNCHANGED <<ScriptOnly, input, calls>>

ScriptInvokes ==
  /\ pc = "script"
  /\ calls < MaxCalls
  /\ calls' = calls + 1
  /\ awaits' = Invoke(calls')
  /\ pc' = "yielded"
  /\ UNCHANGED <<ScriptOnly, input>>

-----------------------------------------------------------------------------
(* The dispatch of what the script yielded.                                *)

\* Mutant: a sleep is waited out in the push loop.
HandleSleepInLoop ==
  /\ pc = "yielded" /\ awaits \in {Idle("bios"), Idle("sleep")}
  /\ input' = {Null}
  /\ pc' = "push"
  /\ UNCHANGED <<archVars, invokerVars, machineVars, signal, scriptVars>>

HandleSleep ==
  /\ pc = "yielded" /\ awaits \in {Idle("bios"), Idle("sleep")}
  /\ Return("yielded")
  /\ UNCHANGED <<archVars, invokerVars, scriptVars>>

\* bios.log, computer.* and component.* are answered within the same push
\* loop, without the invoker.
HandleCallback ==
  /\ pc = "yielded" /\ awaits = Idle("callback")
  /\ input' = {Callback}
  /\ pc' = "push"
  /\ UNCHANGED <<archVars, invokerVars, machineVars, signal, scriptVars>>

\* A crash, an error, an end of the script that is no request, a missed deadline:
\* all throw, and runThreaded turns what was thrown into an Error.
HandleFailure ==
  /\ pc = "yielded" /\ awaits = Idle("failed")
  /\ Return("stopping")
  /\ UNCHANGED <<archVars, invokerVars, scriptVars>>

Invoked(id) == pc = "yielded" /\ awaits = Invoke(id)

\* The component cannot be found or the call throws, before it took effect or
\* after it, or what it returned cannot be converted.
InvokeFails(id) ==
  /\ Invoked(id)
  /\ performed' \in {performed, [performed EXCEPT ![id] = @ + 1]}
  /\ Return("stopping")
  /\ UNCHANGED <<archVars, invokerVars, awaits, calls>>

\* The component has no such method.
InvokeMissing(id) ==
  /\ Invoked(id)
  /\ callResult' = {Empty(id)}
  /\ pc' = "execute"
  /\ UNCHANGED <<archVars, callToSync, machineVars, signal, input, scriptVars>>

\* Mutant: the limit is noticed after the call.
InvokeDirectThenDeferred(id) ==
  /\ Invoked(id)
  /\ performed' = [performed EXCEPT ![id] = @ + 1]
  /\ callToSync' = {id}
  /\ Return("syncCall")
  /\ UNCHANGED <<archVars, callResult, awaits, calls>>

InvokeDirect(id) ==
  /\ Invoked(id)
  /\ performed' = [performed EXCEPT ![id] = @ + 1]
  /\ callResult' = {Result(id)}
  /\ pc' = "execute"
  /\ UNCHANGED <<archVars, callToSync, machineVars, signal, input, awaits, calls>>

\* The method is not direct, or its direct calls are used up.
InvokeDeferred(id) ==
  /\ Invoked(id)
  /\ callToSync' = {id}
  /\ Return("syncCall")
  /\ UNCHANGED <<archVars, callResult, scriptVars>>

-----------------------------------------------------------------------------
(* runSynchronized, on the machine's own thread.                           *)

RunSynchronized ==
  /\ machine = "syncCall"
  /\ IF callToSync = {}
       THEN UNCHANGED <<invokerVars, performed>>
       ELSE \E id \in callToSync :
              /\ performed' = [performed EXCEPT ![id] = @ + 1]
              /\ callResult' = {Result(id)}
              /\ callToSync' = {}
  /\ machine' = "syncReturn"
  /\ UNCHANGED <<archVars, stopAsked, signals, accepted, runVars, awaits, calls>>

\* The call throws, before it took effect or after it, or what it returned cannot
\* be converted: the machine crashes and the call stays in callToSync.
RunSynchronizedFails ==
  /\ machine = "syncCall"
  /\ \E id \in callToSync :
       performed' \in {performed, [performed EXCEPT ![id] = @ + 1]}
  /\ machine' = "stopping"
  /\ UNCHANGED <<archVars, invokerVars, stopAsked, signals, accepted, runVars,
                 awaits, calls>>

-----------------------------------------------------------------------------
\* What becomes of a component.invoke.
HandleInvoke(id) == \/ InvokeFails(id) \/ InvokeMissing(id)
                    \/ InvokeDirect(id) \/ InvokeDeferred(id)

ScriptTurn == ScriptYields \/ ScriptInvokes

\* runThreaded, from the first statement to its return.
RunStep == \/ BothPending \/ ExecuteThreaded
           \/ TakeSource \/ DropSource \/ PushFails \/ PushCrashes \/ Resume
           \/ ScriptTurn
           \/ HandleSleep \/ HandleCallback \/ HandleFailure
           \/ \E id \in CallIds : HandleInvoke(id)

SyncStep == RunSynchronized \/ RunSynchronizedFails

\* Nothing happens in a process that has died.
Next == /\ pc # "crashed"
        /\ \/ OnConnect \/ Initialize \/ InitializeFails \/ AddSignal \/ Stop \/ Close
           \/ RunUnconnected \/ RunThreaded \/ RunThreadedFails \/ RunStep \/ SyncStep

\* The machine gives a runnable computer a worker, ticks, and closes what it
\* stops; a push returns, or native_next gives up on it after a second
\* (CallsReturn of NativeEngine).  Nothing turns a machine on or connects it.
Fairness == /\ WF_vars(RunThreaded) /\ WF_vars(RunStep) /\ WF_vars(SyncStep)
            /\ WF_vars(Close)

Spec == Init /\ [][Next]_vars
FairSpec == Spec /\ Fairness

-----------------------------------------------------------------------------
(* Properties.                                                             *)

\* Every value pushed to the script answers the request it waits on: the source
\* starts it, a sleep ends with a signal or with nothing, and a call returns
\* the result of that call.  In particular a result or a signal left over
\* from before a restart, which close() does not clear, never arrives.  There
\* is one wrong answer: once the source was lost, what is pushed for __bios__ is
\* never the source, but a signal or nothing, which ends the script
\* (FirstYieldGetsCode of NativeEngine shows how it is lost).
AnswersMatchRequests ==
  pc = "push" =>
    \/ awaits = Idle("fresh") /\ input = {Source}
    \/ awaits = Idle("bios") /\ input # {Source}
    \/ awaits = Idle("sleep") /\ \A i \in input : i.kind \in {"signal", "null"}
    \/ awaits = Idle("callback") /\ input = {Callback}
    \/ \E id \in CallIds : /\ awaits = Invoke(id)
                            /\ input \in {{Result(id)}, {Empty(id)}}

\* runSynchronized performs the call that the script is waiting for, once,
\* although a call of an earlier life that never ran is still in callToSync.
SyncCallIsCurrent ==
  machine = "syncCall" =>
    \E id \in CallIds : /\ callToSync = {id} /\ awaits = Invoke(id)
                        /\ performed[id] = 0

\* A signal and a call result meet only in the first run of an engine, when the
\* result is the source.
BothOnlyAtBoot ==
  pc = "execute" /\ signal # {} /\ callResult # {} => callResult = {Source}

\* A signal and a call result never meet: "Both a signal and an invoke result
\* exist! This is not supposed to be possible!" (JSArchitectureBase.kt:138).
NeverBoth == pc = "execute" => signal = {} \/ callResult = {}

\* The script's view of the call in progress.
Settled(id) ==
  performed[id] > 0 \/ callResult = {Empty(id)} \/ input = {Empty(id)}

Phase == IF engine = "none" THEN "off"
         ELSE IF awaits.kind # "invoke" THEN "none"
         ELSE IF Settled(awaits.id) THEN "settled" ELSE "asked"

Call == INSTANCE RemoteCall WITH phase <- Phase

\* A component call is performed at most once, only while its script waits for
\* it, and is answered only once settled: across direct calls, calls deferred
\* to the machine's thread, failures, stops and restarts.
ImplementsRemoteCall == Call!Spec

\* A call is answered, or its machine is turned off, or the process dies: the
\* script does not wait forever, wherever the call was deferred to.
CallsAnswered ==
  \A id \in CallIds : awaits = Invoke(id) ~> awaits # Invoke(id)

\* What runThreaded answers without returning to the machine.
AnsweredInRun == pc = "yielded" /\ (awaits = Idle("callback") \/ awaits.kind = "invoke")

\* A machine that is told to stop does, also while a run executes, or the process
\* dies.  The exception is a run that never returns because its script never stops
\* making requests that are answered within the run: callbacks, in the loop of
\* JSEngine.executeThreaded, and invocations of methods that are missing, or
\* direct and not limited, in that of JSArchitectureBase.  Nothing interrupts
\* either.
StopsEnd ==
  \/ <>[](machine = "running") /\ []<>AnsweredInRun
  \/ stopAsked \/ machine = "stopping" ~> machine = "stopped" \/ pc = "crashed"
=============================================================================
