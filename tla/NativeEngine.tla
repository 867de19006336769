---------------------------- MODULE NativeEngine ----------------------------
(***************************************************************************)
(* The Duktape engine object and the thread that runs the script in it     *)
(* (native/src/duktape/DuktapeEngineNative.cpp), together with the JNI     *)
(* calls of DuktapeEngine.cpp, the only code that touches the object.      *)
(*                                                                         *)
(* Two threads meet here.  The caller's thread (a worker of the machine)   *)
(* makes one JNI call at a time: native_start, native_next or              *)
(* native_destroy.  The script's thread is created by native_start, holds  *)
(* executionMutex whenever it executes, and gives it up only while it      *)
(* waits in yield() for the next input, or when it dies.                   *)
(*                                                                         *)
(* The script's outputs are numbered: output 0 is the __bios__ request of  *)
(* mainThreadFn, output n the n-th yield of the script, and DeadOutput is  *)
(* the final result.  An input is abstracted to what matters about it: is  *)
(* it the source code (the first input the driver ever sends), and which   *)
(* output had the caller seen when it sent it.                             *)
(*                                                                         *)
(* A std::optional is a set with at most one element.                      *)
(***************************************************************************)
EXTENDS Integers

CONSTANTS
  MaxYields,     \* bound: yields of one script after the __bios__ request
  CallerRetries  \* may native_next be called again after a timeout?
                 \* FALSE is the driver of this repository: using what
                 \* native_next then returned throws, and the machine closes
                 \* the engine, or it ends the process.  A dead engine may be
                 \* called again by either: its final result is dispatched
                 \* like any other output

ASSUME EngineBounds == MaxYields \in Nat
ASSUME RetriesAssumption == CallerRetries \in BOOLEAN

VARIABLES
  \* the fields of DukTapeEngineNative
  locked,        \* executionMutex is held by the script's thread
  nextInput,
  outputPromise, \* "none", "boot" (made by the initialiser), "call" (its
                 \* future is held by the caller) or "dropped" (made by a
                 \* next() whose caller stopped waiting)
  promiseSet,    \* set_value was called on outputPromise
  deadResult,
  isDead,
  shouldKill,
  context,       \* the Duktape heap exists
  \* the script's thread
  jsPc,
  cancelled,     \* pthread_cancel was called on it
  yieldNo,       \* number of the output it publishes or waits on
  answer,        \* what the last yield() returned to it
  \* the caller's thread and the JNI field
  handle,        \* duktapeEngineNative # 0
  hostPc,
  call,          \* the argument of the native_next in progress
  started,       \* DuktapeEngine._started: the source code was sent
  reply,         \* value in the future the caller holds
  seen,          \* last output native_next returned to the caller
  gaveUp         \* the last native_next ended without an output

engineVars == <<locked, nextInput, outputPromise, promiseSet, deadResult,
                isDead, shouldKill, context>>
jsVars == <<jsPc, cancelled, yieldNo, answer>>
hostVars == <<handle, hostPc, call, started, reply, seen, gaveUp>>
vars == <<engineVars, jsVars, hostVars>>

NoOutput == -1
DeadOutput == MaxYields + 1
Outputs == 0 .. DeadOutput

Inputs == [what : {"source", "answer"}, to : Outputs \cup {NoOutput}]
Optional(S) == {{}} \cup {{x} : x \in S}

JsPcs == {"none", "new", "init", "publish", "park", "parked", "woken", "run",
          "die", "mark", "end", "exit"}

InNext == {"lock", "notify", "wait"}
InDestroy == {"check", "cancel", "join", "free"}
HostPcs == {"idle"} \cup InNext \cup InDestroy

TypeOK ==
  /\ locked \in BOOLEAN
  /\ nextInput \in Optional(Inputs)
  /\ outputPromise \in {"none", "boot", "call", "dropped"}
  /\ promiseSet \in BOOLEAN
  /\ deadResult \in BOOLEAN
  /\ isDead \in BOOLEAN
  /\ shouldKill \in BOOLEAN
  /\ context \in BOOLEAN
  /\ jsPc \in JsPcs
  /\ cancelled \in BOOLEAN
  /\ yieldNo \in 0 .. MaxYields
  /\ answer \in Optional(Inputs)
  /\ handle \in BOOLEAN
  /\ hostPc \in HostPcs
  /\ call \in Optional(Inputs)
  /\ started \in BOOLEAN
  /\ reply \in Outputs \cup {NoOutput}
  /\ seen \in Outputs \cup {NoOutput}
  /\ gaveUp \in BOOLEAN

-----------------------------------------------------------------------------
(* native_start and the constructor.                                       *)

\* No engine yet: what the fields of a DuktapeEngine hold before native_start.
Init ==
  /\ locked = FALSE /\ nextInput = {} /\ outputPromise = "none"
  /\ promiseSet = FALSE /\ deadResult = FALSE /\ isDead = FALSE
  /\ shouldKill = FALSE /\ context = FALSE
  /\ jsPc = "none" /\ cancelled = FALSE /\ yieldNo = 0 /\ answer = {}
  /\ handle = FALSE /\ hostPc = "idle" /\ call = {} /\ started = FALSE
  /\ reply = NoOutput /\ seen = NoOutput /\ gaveUp = FALSE

\* The initialisers of a new object, and its thread.  The DuktapeEngine that
\* calls native_start is new too.
NativeStart ==
  /\ hostPc = "idle" /\ ~handle
  /\ handle' = TRUE
  /\ locked' = FALSE /\ nextInput' = {} /\ outputPromise' = "boot"
  /\ promiseSet' = FALSE /\ deadResult' = FALSE /\ isDead' = FALSE
  /\ shouldKill' = FALSE /\ context' = FALSE
  /\ jsPc' = "new" /\ cancelled' = FALSE /\ yieldNo' = 0 /\ answer' = {}
  /\ call' = {} /\ started' = FALSE
  /\ reply' = NoOutput /\ seen' = NoOutput /\ gaveUp' = FALSE
  /\ UNCHANGED hostPc

-----------------------------------------------------------------------------
(* native_next and DukTapeEngineNative::next.                              *)

MayCallNext == CallerRetries \/ ~gaveUp

\* The driver's first input is the source code, because DuktapeEngine.start
\* leaves it as the pending call result.
NativeNext ==
  /\ hostPc = "idle" /\ handle /\ MayCallNext
  /\ call' = {[what |-> IF started THEN "answer" ELSE "source", to |-> seen]}
  /\ started' = TRUE
  /\ hostPc' = "lock"
  /\ UNCHANGED <<engineVars, jsVars, handle, reply, seen, gaveUp>>

\* The lock_guard block has no other blocking call, so taking the mutex, the
\* block and the release are one step that needs the mutex free.
NextDead ==
  /\ hostPc = "lock" /\ ~locked
  /\ deadResult
  /\ reply' = DeadOutput
  /\ hostPc' = "wait"
  /\ UNCHANGED <<engineVars, jsVars, handle, call, started, seen, gaveUp>>

\* Mutant: the old promise is kept.
NextStoreNoPromise ==
  /\ hostPc = "lock" /\ ~locked
  /\ ~deadResult
  /\ nextInput' = call
  /\ reply' = NoOutput
  /\ hostPc' = "notify"
  /\ UNCHANGED <<locked, outputPromise, promiseSet, deadResult, isDead,
                 shouldKill, context, jsVars, handle, call, started, seen, gaveUp>>

NextStore ==
  /\ hostPc = "lock" /\ ~locked
  /\ ~deadResult
  /\ nextInput' = call
  /\ outputPromise' = "call"
  /\ promiseSet' = FALSE
  /\ reply' = NoOutput
  /\ hostPc' = "notify"
  /\ UNCHANGED <<locked, deadResult, isDead, shouldKill, context, jsVars,
                 handle, call, started, seen, gaveUp>>

\* notify_one comes after the mutex was released.
NextNotify ==
  /\ hostPc = "notify"
  /\ jsPc' = IF jsPc = "parked" THEN "woken" ELSE jsPc
  /\ hostPc' = "wait"
  /\ UNCHANGED <<engineVars, cancelled, yieldNo, answer, handle, call, started,
                 reply, seen, gaveUp>>

NextReturn ==
  /\ hostPc = "wait" /\ reply # NoOutput
  /\ seen' = reply
  /\ reply' = NoOutput
  /\ gaveUp' = FALSE
  /\ call' = {}
  /\ hostPc' = "idle"
  /\ UNCHANGED <<engineVars, jsVars, handle, started>>

\* Mutant: wait() instead of wait_for(1s).
NextTimeoutNever == FALSE /\ UNCHANGED vars

\* wait_for(1s) ran out.  The future dies with the call; whatever is put in
\* its promise afterwards has no reader.
NextTimeout ==
  /\ hostPc = "wait" /\ reply = NoOutput
  /\ gaveUp' = TRUE
  /\ outputPromise' = IF outputPromise = "call" THEN "dropped" ELSE outputPromise
  /\ call' = {}
  /\ hostPc' = "idle"
  /\ UNCHANGED <<locked, nextInput, promiseSet, deadResult, isDead, shouldKill,
                 context, jsVars, handle, started, reply, seen>>

-----------------------------------------------------------------------------
(* native_destroy and the destructor.                                      *)

DestroyBegin ==
  /\ hostPc = "idle" /\ handle
  /\ shouldKill' = TRUE
  /\ hostPc' = "check"
  /\ UNCHANGED <<locked, nextInput, outputPromise, promiseSet, deadResult,
                 isDead, context, jsVars, handle, call, started, reply, seen,
                 gaveUp>>

\* isDead is read without the mutex, while the other thread may be dying.
DestroyCheck ==
  /\ hostPc = "check"
  /\ hostPc' = IF isDead THEN "join" ELSE "cancel"
  /\ UNCHANGED <<engineVars, jsVars, handle, call, started, reply, seen, gaveUp>>

\* Mutant: the destructor only sets shouldKill.
DestroyCancelSkipped ==
  /\ hostPc = "cancel"
  /\ hostPc' = "join"
  /\ UNCHANGED <<engineVars, jsVars, handle, call, started, reply, seen, gaveUp>>

DestroyCancel ==
  /\ hostPc = "cancel"
  /\ cancelled' = TRUE
  /\ hostPc' = "join"
  /\ UNCHANGED <<engineVars, jsPc, yieldNo, answer, handle, call, started,
                 reply, seen, gaveUp>>

\* Mutant: the destructor does not wait for the thread.
DestroyJoinSkipped ==
  /\ hostPc = "join"
  /\ hostPc' = "free"
  /\ UNCHANGED <<engineVars, jsVars, handle, call, started, reply, seen, gaveUp>>

DestroyJoin ==
  /\ hostPc = "join" /\ jsPc = "exit"
  /\ hostPc' = "free"
  /\ UNCHANGED <<engineVars, jsVars, handle, call, started, reply, seen, gaveUp>>

DestroyFree ==
  /\ hostPc = "free"
  /\ context' = FALSE
  /\ handle' = FALSE
  /\ hostPc' = "idle"
  /\ UNCHANGED <<locked, nextInput, outputPromise, promiseSet, deadResult,
                 isDead, shouldKill, jsVars, call, started, reply, seen, gaveUp>>

-----------------------------------------------------------------------------
(* mainThreadFn, yield and engine_fatal.                                   *)

Handshake == <<nextInput, outputPromise, promiseSet>>

JsLock ==
  /\ jsPc = "new" /\ ~locked
  /\ locked' = TRUE
  /\ jsPc' = "init"
  /\ UNCHANGED <<Handshake, deadResult, isDead, shouldKill, context, cancelled,
                 yieldNo, answer, hostVars>>

JsInit ==
  /\ jsPc = "init"
  /\ context' = TRUE
  /\ jsPc' = "publish"
  /\ UNCHANGED <<locked, Handshake, deadResult, isDead, shouldKill, cancelled,
                 yieldNo, answer, hostVars>>

\* Duktape calls engine_fatal while the global object is being set up, as when the
\* heap has no memory left.
JsInitFatal ==
  /\ jsPc = "init"
  /\ context' = TRUE
  /\ jsPc' = "die"
  /\ UNCHANGED <<locked, Handshake, deadResult, isDead, shouldKill, cancelled,
                 yieldNo, answer, hostVars>>

\* outputPromise->set_value: reaches the caller only through the future it
\* holds.
SetPromise(output) ==
  /\ promiseSet' = TRUE
  /\ reply' = IF outputPromise = "call" THEN output ELSE reply

\* The first statement of yield(): from here on the caller may return, while
\* the script's thread still holds the mutex.
JsPublish ==
  /\ jsPc = "publish"
  /\ SetPromise(yieldNo)
  /\ jsPc' = "park"
  /\ UNCHANGED <<locked, nextInput, outputPromise, deadResult, isDead,
                 shouldKill, context, cancelled, yieldNo, answer, handle,
                 hostPc, call, started, seen, gaveUp>>

\* Mutant: the input that was answered is not cleared.
JsParkKeepsInput ==
  /\ jsPc = "park"
  /\ outputPromise' = "none"
  /\ promiseSet' = FALSE
  /\ locked' = FALSE
  /\ jsPc' = "parked"
  /\ UNCHANGED <<nextInput, deadResult, isDead, shouldKill, context, cancelled,
                 yieldNo, answer, hostVars>>

\* The rest of yield() up to the point where the wait releases the mutex; the
\* wait's predicate is false here, so it does wait.
JsPark ==
  /\ jsPc = "park"
  /\ nextInput' = {}
  /\ outputPromise' = "none"
  /\ promiseSet' = FALSE
  /\ locked' = FALSE
  /\ jsPc' = "parked"
  /\ UNCHANGED <<deadResult, isDead, shouldKill, context, cancelled, yieldNo,
                 answer, hostVars>>

\* condition_variable::wait may return with no notification.
SpuriousWake ==
  /\ jsPc = "parked"
  /\ jsPc' = "woken"
  /\ UNCHANGED <<engineVars, cancelled, yieldNo, answer, hostVars>>

JsSleepAgain ==
  /\ jsPc = "woken" /\ ~locked
  /\ nextInput = {}
  /\ jsPc' = "parked"
  /\ UNCHANGED <<engineVars, cancelled, yieldNo, answer, hostVars>>

\* Mutant: the wait has no predicate.
JsResumeUnasked ==
  /\ jsPc = "woken" /\ ~locked
  /\ locked' = TRUE
  /\ answer' = nextInput
  /\ jsPc' = "run"
  /\ UNCHANGED <<Handshake, deadResult, isDead, shouldKill, context, cancelled,
                 yieldNo, hostVars>>

\* The input is copied out, not taken: nextInput stays set until the next
\* yield clears it.
JsResume ==
  /\ jsPc = "woken" /\ ~locked
  /\ nextInput # {}
  /\ locked' = TRUE
  /\ answer' = nextInput
  /\ jsPc' = "run"
  /\ UNCHANGED <<Handshake, deadResult, isDead, shouldKill, context, cancelled,
                 yieldNo, hostVars>>

HasSource == yieldNo = 0 => \A input \in answer : input.what = "source"

\* The answer to __bios__ is not a string.
JsBadSource ==
  /\ jsPc = "run" /\ ~HasSource
  /\ jsPc' = "die"
  /\ UNCHANGED <<engineVars, cancelled, yieldNo, answer, hostVars>>

\* The script calls __yield.
JsYield ==
  /\ jsPc = "run" /\ HasSource
  /\ yieldNo < MaxYields
  /\ yieldNo' = yieldNo + 1
  /\ jsPc' = "publish"
  /\ UNCHANGED <<engineVars, cancelled, answer, hostVars>>

\* The script does not compile, returns or throws; or Duktape calls
\* engine_fatal, which does to the object what the end of mainThreadFn does.
JsEnd ==
  /\ jsPc = "run" /\ HasSource
  /\ jsPc' = "die"
  /\ UNCHANGED <<engineVars, cancelled, yieldNo, answer, hostVars>>

\* Duktape polls duk_exec_timeout while it executes bytecode.
JsKilled ==
  /\ jsPc = "run" /\ HasSource
  /\ shouldKill
  /\ jsPc' = "die"
  /\ UNCHANGED <<engineVars, cancelled, yieldNo, answer, hostVars>>

\* Mutant: nobody is told of the death.
JsDieSilently ==
  /\ jsPc = "die"
  /\ deadResult' = TRUE
  /\ jsPc' = "mark"
  /\ UNCHANGED <<locked, Handshake, isDead, shouldKill, context, cancelled,
                 yieldNo, answer, hostVars>>

JsDie ==
  /\ jsPc = "die"
  /\ deadResult' = TRUE
  /\ IF outputPromise # "none" THEN SetPromise(DeadOutput)
                               ELSE UNCHANGED <<promiseSet, reply>>
  /\ jsPc' = "mark"
  /\ UNCHANGED <<locked, nextInput, outputPromise, isDead, shouldKill, context,
                 cancelled, yieldNo, answer, handle, hostPc, call, started,
                 seen, gaveUp>>

JsMark ==
  /\ jsPc = "mark"
  /\ isDead' = TRUE
  /\ jsPc' = "end"
  /\ UNCHANGED <<locked, Handshake, deadResult, shouldKill, context, cancelled,
                 yieldNo, answer, hostVars>>

\* Mutant: the thread takes the mutex with it.
JsExitHoldingMutex ==
  /\ jsPc = "end"
  /\ jsPc' = "exit"
  /\ UNCHANGED <<engineVars, cancelled, yieldNo, answer, hostVars>>

JsExit ==
  /\ jsPc = "end"
  /\ locked' = FALSE
  /\ jsPc' = "exit"
  /\ UNCHANGED <<Handshake, deadResult, isDead, shouldKill, context, cancelled,
                 yieldNo, answer, hostVars>>

\* Cancellation is deferred to a cancellation point: the prints at the start
\* and the end of the thread, and the wait in yield(), which takes the mutex
\* again first.  engineLock is a field, so nothing releases the mutex then.
JsCancelled ==
  /\ cancelled
  /\ \/ jsPc \in {"init", "end"}
     \/ jsPc \in {"parked", "woken"} /\ ~locked
  /\ locked' = TRUE
  /\ jsPc' = "exit"
  /\ UNCHANGED <<Handshake, deadResult, isDead, shouldKill, context, cancelled,
                 yieldNo, answer, hostVars>>

-----------------------------------------------------------------------------
HostCallStep == NextDead \/ NextStore \/ NextNotify \/ NextReturn \/ NextTimeout

DestroyStep == DestroyCheck \/ DestroyCancel \/ DestroyJoin \/ DestroyFree

\* What the script's thread does on its own, whatever the script is.
ThreadStep == JsLock \/ JsInit \/ JsPublish \/ JsPark \/ JsSleepAgain
              \/ JsResume \/ JsBadSource \/ JsKilled \/ JsDie \/ JsMark
              \/ JsExit \/ JsCancelled

\* What the script, its heap or the operating system may do or never do.
ScriptStep == JsYield \/ JsEnd \/ JsInitFatal \/ SpuriousWake

Next == NativeStart \/ NativeNext \/ DestroyBegin
        \/ HostCallStep \/ DestroyStep \/ ThreadStep \/ ScriptStep

\* Both threads are scheduled, wait_for returns, a pending cancellation acts
\* in a wait that keeps being woken for nothing, and Duktape polls the kill
\* flag.  Nothing is assumed of the script: it may loop without ever yielding.
Fairness == /\ WF_vars(HostCallStep) /\ WF_vars(DestroyStep)
            /\ WF_vars(ThreadStep) /\ WF_vars(JsCancelled)

Spec == Init /\ [][Next]_vars
FairSpec == Spec /\ Fairness

-----------------------------------------------------------------------------
(* Properties.                                                             *)

\* A promise is there and still empty whenever the script's thread is about to
\* set it: a second set_value throws std::future_error in a thread that
\* nothing catches it in, and a missing promise is a null dereference.
PromiseFresh ==
  /\ jsPc = "publish" => outputPromise # "none" /\ ~promiseSet
  /\ jsPc = "die" /\ outputPromise # "none" => ~promiseSet

\* A script that has begun executes only while a caller waits for it, except after
\* a call gave up on it or while the engine is being destroyed: the two threads
\* take turns although neither holds a lock across a turn.
TakesTurns ==
  \/ jsPc = "run"
  \/ jsPc = "die" /\ answer # {}
  \/ jsPc = "publish" /\ yieldNo > 0
    => hostPc \in {"notify", "wait"} \/ gaveUp \/ shouldKill

\* What yield() returns to the script was sent by a caller that had received
\* the output the script published last, so a call's result or a signal never
\* reaches an older or a newer request.  Only __bios__ may be answered unseen.
AnswersMatch ==
  jsPc = "run" =>
    \A input \in answer :
      input.to = yieldNo \/ (yieldNo = 0 /\ input.to = NoOutput)

\* An engine whose script ended by itself can still be asked: it keeps its
\* result and does not take the mutex with it.
DeadEngineAnswers ==
  jsPc = "exit" /\ ~shouldKill => deadResult /\ isDead /\ ~locked

\* The script's thread never runs without the heap or after its object is
\* gone.
ThreadWithinObject ==
  /\ jsPc \notin {"none", "new", "init", "exit"} => context
  /\ jsPc \notin {"none", "exit"} => handle

\* After the __bios__ exchange, an input leaves nextInput only once yield()
\* has returned it to the script: none is overwritten or cleared unread.
InputsReachScript ==
  [][handle /\ yieldNo > 0 /\ nextInput # {} /\ nextInput' # nextInput
       => nextInput = answer]_vars

\* A native_next returns, with an output or without: it is never
\* stuck on the mutex, which the watchdog of wait_for does not cover.
CallsReturn == hostPc \in InNext ~> hostPc = "idle"

\* Destroying an engine ends whatever its script is doing: parked, looping,
\* starting or dying.
DestroyEnds == hostPc \in InDestroy ~> ~handle

\* Asking a dead engine returns its result, however often it is asked and
\* whoever was not listening when it died.
DeadIsHeard == deadResult /\ hostPc = "lock" ~> seen = DeadOutput

\* "First yield to get code to execute" (DuktapeEngineNative.cpp:100): the
\* value that yield() returns for __bios__ is the code the driver sent.
FirstYieldGetsCode ==
  jsPc = "run" /\ yieldNo = 0 => \A input \in answer : input.what = "source"

\* The engine seen as a coroutine, as long as it is not being destroyed: the
\* turn is the script's from the moment a call's input is stored until its
\* promise is set.
Serving == handle /\ ~shouldKill

Turn == IF Serving /\ outputPromise \in {"call", "dropped"} /\ ~promiseSet
          THEN "script" ELSE "caller"

\* A thread that dies with no answer in its hands never asked for its source.
Produced == IF ~Serving \/ jsPc \in {"new", "init"} THEN NoOutput
            ELSE IF deadResult THEN DeadOutput
            ELSE IF jsPc = "die" /\ answer = {} THEN NoOutput
            ELSE IF jsPc = "publish" THEN yieldNo - 1
            ELSE yieldNo

Heard == IF Serving THEN seen ELSE NoOutput

Protocol == INSTANCE YieldProtocol WITH
  alive <- Serving, turn <- Turn, produced <- Produced, heard <- Heard

\* The handoff implements a coroutine: a call and an output alternate, outputs
\* come in order and none is skipped, the final one is the last, and a caller
\* hears an output only after it was produced for it.
ImplementsProtocol == Protocol!Spec
=============================================================================
