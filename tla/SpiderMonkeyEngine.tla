------------------------- MODULE SpiderMonkeyEngine -------------------------
(***************************************************************************)
(* The SpiderMonkey engine object and the thread that runs the script in   *)
(* it (native/src/spidermonkey/SpiderMonkeyEngineNative.cpp), with the JNI *)
(* calls of SpiderMonkeyEngine.cpp.                                        *)
(*                                                                         *)
(* The handoff is that of the Duktape engine, statement for statement, and *)
(* its actions are taken from NativeEngine.  Three things differ.  The     *)
(* destructor does not cancel the thread: it requests an interrupt of the  *)
(* script, hands it one more input through next(), and requests the        *)
(* interrupt again, before it joins.  The context is destroyed by the      *)
(* script's thread and not by the destructor.  And a script is told to die *)
(* only by a pending interrupt, never by the flag alone.                   *)
(*                                                                         *)
(* The destructor's call of next() goes through the positions of a         *)
(* native_next ("lock", "notify", "wait"); shouldKill tells the two apart. *)
(***************************************************************************)
EXTENDS NativeEngine

VARIABLES
  interrupt,  \* an interrupt was requested and not yet handled
  freed,      \* the context was destroyed, and its pointer is not cleared yet
  crashed     \* the process died of an interrupt of a context that is gone

smVars == <<vars, interrupt, freed, crashed>>

\* A step that has nothing to do with interrupts, of a process that lives.
Same == ~crashed /\ UNCHANGED <<interrupt, freed, crashed>>

SmTypeOK ==
  TypeOK /\ interrupt \in BOOLEAN /\ freed \in BOOLEAN /\ crashed \in BOOLEAN

SmInit == Init /\ interrupt = FALSE /\ freed = FALSE /\ crashed = FALSE

-----------------------------------------------------------------------------
(* The JNI calls and next().                                               *)

SmStart ==
  NativeStart /\ ~crashed /\ interrupt' = FALSE /\ UNCHANGED <<freed, crashed>>

SmNativeNext == NativeNext /\ Same

SmNext == (NextDead \/ NextStore \/ NextNotify) /\ Same

\* Mutant: native_next waits without a deadline.
ReturnOnlyAnswers == ~shouldKill /\ NextReturn /\ Same

SmReturn == ~shouldKill /\ (NextReturn \/ NextTimeout) /\ Same

-----------------------------------------------------------------------------
(* native_destroy and the destructor.                                      *)

SmDestroyBegin == DestroyBegin /\ Same

SmDestroyCheck == DestroyCheck /\ Same

\* The block that DestroyCheck enters for a thread that is not dead.
InBlock == hostPc = "cancel" \/ (hostPc = "wait" /\ shouldKill)

\* Mutant: the first interrupt is forgotten.
InterruptSkipped ==
  /\ hostPc = "cancel"
  /\ call' = {[what |-> "answer", to |-> seen]}
  /\ hostPc' = "lock"
  /\ UNCHANGED <<engineVars, jsVars, handle, started, reply, seen, gaveUp>>
  /\ Same

\* The first interrupt, and the JSNull for next().  The interrupt of a context
\* that was just freed may do nothing, here and below.
Interrupt ==
  /\ ~crashed
  /\ hostPc = "cancel" /\ context
  /\ interrupt' = TRUE
  /\ call' = {[what |-> "answer", to |-> seen]}
  /\ hostPc' = "lock"
  /\ UNCHANGED <<engineVars, jsVars, handle, started, reply, seen, gaveUp, freed,
                 crashed>>

\* The future of next() is dropped unread.
InterruptAgain ==
  /\ ~crashed
  /\ hostPc = "wait" /\ shouldKill /\ context
  /\ interrupt' = TRUE
  /\ reply' = NoOutput
  /\ outputPromise' = IF outputPromise = "call" THEN "dropped" ELSE outputPromise
  /\ hostPc' = "join"
  /\ UNCHANGED <<locked, nextInput, promiseSet, deadResult, isDead, shouldKill,
                 context, jsVars, handle, call, started, seen, gaveUp, freed,
                 crashed>>

\* JS_RequestInterruptCallback writes through a null context, or into a freed one.
InterruptNothing ==
  /\ ~crashed /\ InBlock
  /\ ~context \/ freed
  /\ crashed' = TRUE
  /\ UNCHANGED <<vars, interrupt, freed>>

\* Mutant: the destructor does not wait for the thread.
SmDestroyJoinSkipped == DestroyJoinSkipped /\ Same

SmDestroyJoin == DestroyJoin /\ Same

SmDestroyFree == DestroyFree /\ Same

-----------------------------------------------------------------------------
(* mainThreadFn, yield and interruptCallback.                              *)

SmLock == JsLock /\ Same

SmNewContext ==
  /\ jsPc = "init" /\ ~context
  /\ context' = TRUE
  /\ UNCHANGED <<locked, Handshake, deadResult, isDead, shouldKill, jsVars, hostVars>>
  /\ Same

\* An interrupt that is handled while the realm is being set up, before the
\* callback is registered, is lost.
SmInitRealm ==
  /\ ~crashed
  /\ jsPc = "init" /\ context
  /\ interrupt' \in {interrupt, FALSE}
  /\ jsPc' = "publish"
  /\ UNCHANGED <<engineVars, cancelled, yieldNo, answer, hostVars, freed, crashed>>

\* Mutant: the wait has no predicate.
SmYieldUnasked == (JsPublish \/ JsPark \/ JsSleepAgain \/ JsResumeUnasked) /\ Same

SmYield == (JsPublish \/ JsPark \/ JsSleepAgain \/ JsResume) /\ Same

SmSpuriousWake == SpuriousWake /\ Same

SmBadSource == JsBadSource /\ Same

\* The script calls __yield, or ends: compileAndExecute returns.
SmScript == (JsYield \/ JsEnd) /\ Same

\* The script polls, and the callback finds shouldKill set.
SmInterrupted ==
  /\ ~crashed
  /\ interrupt /\ JsKilled
  /\ interrupt' = FALSE
  /\ UNCHANGED <<freed, crashed>>

\* Mutant: the context is destroyed before the thread is marked dead.
SmDieUnmarked ==
  /\ jsPc = "die"
  /\ deadResult' = TRUE
  /\ context' = FALSE
  /\ jsPc' = "end"
  /\ UNCHANGED <<locked, Handshake, isDead, shouldKill, cancelled, yieldNo,
                 answer, hostVars>>
  /\ Same

SmDie == (JsDie \/ JsMark) /\ Same

\* JS_DestroyContext, while others still see the context.
SmDestroyContext ==
  /\ ~crashed
  /\ jsPc = "end" /\ context /\ ~freed
  /\ freed' = TRUE
  /\ interrupt' = FALSE
  /\ UNCHANGED <<vars, crashed>>

SmClearContext ==
  /\ ~crashed
  /\ jsPc = "end" /\ freed
  /\ context' = FALSE
  /\ freed' = FALSE
  /\ UNCHANGED <<locked, Handshake, deadResult, isDead, shouldKill, jsVars,
                 hostVars, interrupt, crashed>>

SmExit == ~context /\ JsExit /\ Same

-----------------------------------------------------------------------------
SmCallStep == SmNext \/ SmReturn

SmDestroyStep == \/ SmDestroyCheck \/ Interrupt \/ InterruptAgain \/ InterruptNothing
                 \/ SmDestroyJoin \/ SmDestroyFree

SmThreadStep == \/ SmLock \/ SmNewContext \/ SmInitRealm \/ SmYield \/ SmBadSource
                \/ SmInterrupted \/ SmDie \/ SmDestroyContext \/ SmClearContext
                \/ SmExit

SmNextState == SmStart \/ SmNativeNext \/ SmDestroyBegin
               \/ SmCallStep \/ SmDestroyStep
               \/ SmThreadStep \/ SmScript \/ SmSpuriousWake

\* As for Duktape: both threads are scheduled, wait_for returns and a script
\* that goes on executing polls the interrupt.
SmFairness == WF_smVars(SmCallStep) /\ WF_smVars(SmDestroyStep)
              /\ WF_smVars(SmThreadStep)

SmSpec == SmInit /\ [][SmNextState]_smVars
SmFairSpec == SmSpec /\ SmFairness

-----------------------------------------------------------------------------
(* Properties.  ImplementsProtocol is that of NativeEngine.                *)

\* The script's thread never runs without its context or after its object is
\* gone, although the thread itself destroys the context and the destructor
\* only joins.
ContextWhileRunning ==
  /\ jsPc \notin {"none", "new", "init", "end", "exit"} => context
  /\ jsPc \notin {"none", "exit"} => handle

\* A native_next returns, with an output or without.
SmCallsReturn == hostPc \in InNext /\ ~shouldKill ~> hostPc = "idle"

\* Destroying an engine ends, unless the process crashes, or the script yields
\* once more before it polls the interrupt: then nobody answers it and the
\* join never returns.
DestroyEndsOrWaits ==
  shouldKill /\ handle ~> \/ ~handle \/ crashed
                          \/ hostPc = "join" /\ jsPc = "parked" /\ nextInput = {}

\* A process dies in the destructor only while its script's thread is starting
\* up or has marked itself dead: never with a script that is executing,
\* waiting or about to answer.
CrashesOnlyAtEnds == crashed => jsPc \in {"new", "init"} \/ isDead
=============================================================================
