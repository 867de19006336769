# A verification project for oc-js

oc-js is a mod for OpenComputers that runs JavaScript computers: a Minecraft
machine whose CPU is an ECMAScript engine (Duktape, or SpiderMonkey) inside a
native library, a bios and a small operating system in TypeScript that run in
that engine, and the Kotlin classes that connect it to the machine.

Paths below are relative to the repository. `KT/` stands for
`src/main/java/com/pwootage/oc/js/`.

## 1. Inventory

### The parts and how they interact

    machine (OpenComputers, external)        server thread, worker threads
      | initialize / runThreaded / runSynchronized / close / signal
    JSArchitectureBase + ComponentInvoker    one object per computer
      | start / next, through JSEngine's push loop and request dispatch
    DuktapeEngine | SpiderMonkeyEngine       JNI handle of the native object
      | native_start / native_next / native_destroy
    DukTapeEngineNative | SpiderMonkeyEngineNative   mutex, condition, promise
      | __yield(value) in the script's own thread
    bootloader -> bios -> kernel, require, fs, term ...   TypeScript

A script runs in a thread of its own. It hands a value to Java with `__yield`
and sleeps until Java hands one back; Java asks for the next value with `next`
and waits at most one second for it. So the two threads form a coroutine, made
of a mutex, a condition variable, a promise and an optional input. What the
script yields is a request: `sleep`, a `call` of a component or of a query of
the machine, or, first of all, `__bios__`, which asks for the source.
`JSEngine` dispatches it. A component call that is not direct, or that is over
its limit of direct calls, is kept in `ComponentInvoker` until the machine
calls `runSynchronized` on the server thread; its result is pushed in the next
`runThreaded`.

| component | state | operations | hard behaviours | what makes it correct |
|---|---|---|---|---|
| Duktape engine (`native/src/duktape/*`, `KT/duktape/DuktapeEngine.kt`) | mutex, next input, promise, dead result, dead and kill flags, heap; the thread's position | start, next, destroy; `__yield`, script end, kill poll | two threads without a lock held across a turn; spurious wake-ups; a one-second timeout racing a late answer; cancellation and join of a thread in any state | calls and outputs alternate and match; no promise set twice; a call returns, also for a late engine; destruction ends; nothing runs after the object is freed |
| Machine architecture, invoker and dispatch (`KT/JSArchitectureBase.kt`, `KT/ComponentInvoker.kt`, `KT/JSEngine.kt`) | connection, initialised, engine; call to perform, result; the machine's state and signals | onConnect, initialize, runThreaded, runSynchronized, close, load; the dispatch of each request | two threads of the machine in turn; deferral of a call; failure in between; the invoker survives `close` | each value pushed answers the request the script waits on; a call takes effect at most once; the script is not left waiting; stopping ends, but for a run that never returns |
| Duktape memory accounting (`DuktapeEngineNative.cpp:198-278`) | bytes in use, limit, block headers | alloc, realloc, free; set limit | the limit is written by another thread; clamped subtraction; failing reallocation | the count is the sum of the live blocks; the limit holds |
| SpiderMonkey engine (`native/src/spidermonkey/*`, `KT/spidermonkey/SpiderMonkeyEngine.kt`) | as Duktape, and the JS context | as Duktape; the destructor interrupts the script and pushes a last input | interrupt of a context that is not there yet or no more; join of a thread that waits again | as Duktape |
| Value conversions (`native/src/JSValue.*`, `KT/JSValue.kt`, `DuktapeEngine.cpp`) | none | native to Java, script to native and back | nested containers, unknown kinds, texts in two encodings, numbers JSON does not have | a value of kinds that both sides have comes back as it was sent, if it comes back; a second trip changes nothing |
| Bios (`os.js/bios/bios.ts`) | listeners | yields, `invoke`, event emitter, boot | a listener that sleeps delivers the next signal in the middle of the present one; listeners changed during delivery | an emission calls those and only those who were registered; signals are overtaken only across a sleep; sleeps end |
| Boot loader (`os.js/bios/bootloader.ts`) | stored boot address | choose a file system, store its address, run its kernel | stale address; disks and EEPROMs that come and go between two calls | the kernel that runs is the one whose address is stored; a boot ends; it fails only for a reason |
| Kernel and module loader (`os.js/os/kernel.ts`, `usr/kernel/require.ts`) | module cache, `global.exports` | require | cyclic and throwing modules | each module is loaded once; the globals are restored |
| Terminal (`os.js/os/usr/lib/term.ts`) | buffer of lines, bottom line shown now and at the last redraw | construct, scroll, partial and full redraw, scrollbar | partial redraw against full redraw | the screen shows what a full redraw would |
| Path library (`usr/lib/path.ts`) | none | resolve, normalize, join, relative, dirname, basename | `..`, empty parts, slashes at the end, the root | paths lead where walking their parts leads |
| fs, os, component libraries | a handle | thin wrappers | none of their own | none of their own |
| Script APIs (`KT/api/*`) | none | queries; `bios.crash` | an exit by exception | crash ends the run |
| Signal handler (`KT/OCSignalHandler.kt`) | a queue | not constructed anywhere | | |
| Simulator (`os.js/simulator/src/*`) | components, file handles | the bios in Node | handle reuse | development tool |
| Mod and library loading | registration | static initialisation | | |
| Nashorn engine (`src/main/scala`) | commented out | | | |
| `native/include`, `native/lib`, `native/src/test_main.cpp` | third-party code and a manual test | | | |

`PROJECT.json` repeats this list with a status for each component, and lists
the hazards of the code, each at its line.

## 2. Plan

The order of work, the most important behaviour first. All of it is done.

1. `NativeEngine`: the handoff of two threads, timeouts, death, destruction;
   `YieldProtocol`, the coroutine it implements.
2. `Architecture`: the machine's side; `RemoteCall`, the component call it
   implements, with the engine as a coroutine.
3. `Computer`: the two joined, so that a late engine, a lost source and a
   script's end come from the engine and are not assumed; it implements
   `Architecture`.
4. `SpiderMonkeyEngine`: the second engine, an extension of `NativeEngine`.
5. `Memory`: the accounting of the Duktape heap.
6. `Boot`: from the power button to the kernel.
7. `Require` and `Term`: the module loader and the terminal.
8. `Signals`: the event emitter under `sleep()`.
9. `Path` and `Values`, with `MCLibraries` to run them: the path library against
   walking a tree, and what conversions make of a value.
10. Proofs: `EngineProofs` (both engines), `ArchitectureProofs`,
    `ComputerProofs`, `DataProofs` (the heap and the values), `OsProofs` (the boot
    loader and the path library), `RequireProofs`, `TermProofs`, `SignalsProofs`.

## 3. The models

In all modules an optional or nullable field is a set with at most one
element. An operator whose comment begins with "Mutant" is a plausible bug of
the definition behind it; it is used by no specification, and `PROJECT.json`
says which property it must break.

### NativeEngine, YieldProtocol

State: the fields of `DukTapeEngineNative` (`engineVars`), the position and the
local state of the script's thread (`jsVars`), the position of the caller and
what it knows (`hostVars`). Each action is the code between two points at which
the other thread can intervene:

| action | code |
|---|---|
| `NativeStart` | `native_start`, the constructor |
| `NativeNext`, `NextDead`, `NextStore`, `NextNotify` | `native_next`, `next()` up to the notification |
| `NextReturn`, `NextTimeout` | `wait_for` with and without a value |
| `DestroyBegin` .. `DestroyFree` | `native_destroy`, the destructor |
| `JsLock`, `JsInit`, `JsInitFatal` | the start of `mainThreadFn`, and `engine_fatal` within it |
| `JsPublish`, `JsPark`, `JsSleepAgain`, `JsResume`, `SpuriousWake` | `yield()` |
| `JsYield`, `JsEnd`, `JsKilled`, `JsBadSource` | the script: a call of `__yield`, its end, the kill poll, no source |
| `JsDie`, `JsMark`, `JsExit`, `JsCancelled` | the end of the thread, `engine_fatal`, cancellation |

Outputs are numbered, and an input carries the number of the output its sender
had received last. A timeout may fire at any moment of the wait, which includes
the one-second limit for every speed of the script.

Where the code has undefined behaviour: `isDead` and `shouldKill` are read
without the mutex, and a read gives the old or the new value. Cancellation is
deferred, so it acts at the prints at both ends of the thread and in the
condition variable's wait, and leaves the mutex to nobody, because `engineLock`
is a field and not a local.

`YieldProtocol` is the promise: a resumption and an output alternate, outputs
come in order and none is skipped, the final one is the last, and a caller hears
an output only after it was produced. `NativeEngine` implements it under
`alive <- Serving, turn <- Turn, produced <- Produced, heard <- Heard`; turns are
read off the promise: it is the script's turn from the moment `next()` has made
a promise until that promise is set.

### Architecture, RemoteCall

State: `JSArchitectureBase` (connected, initialised, engine), `ComponentInvoker`
(the call to perform, the result), the machine (state, signals, a stop that waits
for a run to end), the run in progress and the script (what it waits on, how
often each of its calls was performed). The machine is OpenComputers' and is
modelled from the calls it makes here: one at a time, the `ExecutionResult` of
`runThreaded` decides the next state, `close` after a stop. Signals arrive at
any moment, and so do stops, also in the middle of a run. One action is one
statement group of `runThreaded`, `runSynchronized` or a dispatch branch of
`JSEngine.executeThreaded`; the engine is the coroutine that `NativeEngine`
implements, with the outcomes of its start (`TakeSource`, `DropSource`).

Two ends of a push are not what `JSEngine.kt` expects, and are modelled as the code
has them. For a late engine `native_next` returns a `java.lang.String` where it
declares a `JSValue` (`native/src/duktape/DuktapeEngine.cpp:60`, and likewise for
SpiderMonkey), and `JSEngine.kt:16` calls a method of `JSValue` on it, which the JVM
does not define. The call throws, and the run ends in an Error (`PushFails`,
`ScriptYields`), or the process dies, and nothing happens any more (`PushCrashes`,
`pc = "crashed"`). And an engine whose script has ended returns a result that is
dispatched by its type like what a script yields, so `ScriptYields` and
`ScriptInvokes` are its ends as well, for as long as the machine runs it.

`RemoteCall` is what `component.invoke` promises: performed at most once, while
the script waits for it, answered only when performed or found missing, abandoned
for good when the computer is turned off.

### Computer

`NativeEngine` extended with an instance of `Architecture`, and joined to it where
`DuktapeEngine.kt` joins them: `Initialize` calls `native_start`, `PushNext` is
`native_next` with the value that `runThreaded` has, `PushReturns` and `PushTimesOut`
are its two ends, `CloseBegins` and `CloseEnds` stand around `native_destroy`. All
other steps of either side leave the other alone. `ScriptAsks` chooses what an output
of the script asks for, and `ScriptEnds` what its final result looks like: the wrapper
of `DuktapeEngine.kt:31-39` returns the `stack` of whatever was thrown, which a script
can make any value. A result given by `engine_fatal`, or for want of a source, is a
text and always a failure. `PushTimesOut` ends in an exception or in the death of the
process, after which no action is enabled; other ends of the process, such as a C++
exception in either thread, are left out (`Values` has one). In
`ImplementsArchitecture` the only state that needs a mapping is a push to a script
that has not begun: `Architecture` has it pending until the thread takes, or loses,
the source.

### SpiderMonkeyEngine

Extends `NativeEngine` and takes the handoff's actions from it; it adds the
pending interrupt, a flag for a process that died, and one for a context that is
destroyed and not yet null. `Interrupt`, `InterruptAgain` and the call of `next()`
between them are the destructor's block; `SmDestroyContext` and `SmClearContext` are
the script's thread destroying its context and setting the field to null, between
which the destructor may use it. An interrupt of a context that is null ends the
process; one of a context that was destroyed is a use of freed memory, and ends it or
does nothing.

### Memory

State: the limit, the count, each block's header, a block that passed the check
of the limit and is not counted yet, and whether the architecture is initialised.
`Grow` and `Count` are the two halves of `engine_alloc` and of a growing
`engine_realloc`, between which another thread may set the limit; `Shrink` and
`Free` are the rest. What Duktape asks for, and when it collects garbage, is
left open. `malloc` and `realloc` do not fail.

### Boot

The program counter walks through `bios.ts` and `bootloader.ts`, one component
call at a time, because each is a yield during which the player may change the
computer: take disks out, put others in, change what is on them, and replace the EEPROM
by another with other data. `first()` is two calls, `list` and the `methods` of
`proxy`; what it found (`own`) is called by its address afterwards. `hotplug` is a
history variable: the player has done so in this boot.

### Require

`stack` holds the frames of `apply` in progress with the `global.exports` each has
put aside; an exports object is known by its module and the number of the
evaluation. A module is its list of `require()` calls and a kind: plain, throwing,
catching, or without a file. The maps from paths to names, to lists and to kinds
are chosen by `Init`. The throw of a full stack is the engine's.

### Term

A screen is a function from rows to what they show; a line is its number, and
`Set`, `FillBehind` and `Copy` are the GPU's. `ScrollUp` is the closed form of the
loop of the code, including `startY + 1 + row - row`, which is the first row each
time. All lines have one length and fit into the window; the buffer never changes
after the constructor, in the code as in the model.

### Signals

`stack` holds the sleeps whose signal is being delivered, the innermost last, each
in the `forEach` of one of its two emissions: to the listeners of `'signal'`, then to
those of the signal's name. A frame has the array that its `forEach` walks over,
the length that the walk began with, and whether that array is still the one in the
map: `on` pushes into it, `deregister` puts a copy in its place. A listener may
return, throw, register, deregister and, if it is one of `sleepers`, sleep; code
that slept may catch what comes out of `sleep()`.

### Path

A path is the sequence of what stands between its slashes, so that `split`, `join`
and concatenation are sequence operations; names have no structure,
and `''`, `'.'` and `'..'` are what they are. The loops of `normalizeArray`, `join`
and `resolve` are folds. The reference is `Walk`: where one ends up
who follows the parts from a directory, one at a time.

### Values

A value is a finite tree: a function from the addresses of what it is made of to
nodes, each of a kind and a content. An item's address is its container's and a
number, so a conversion, which is a recursive function in the code, is a change of
nodes after which some are left out with all that is below them (`Without`). The
bytes of a buffer are items too, since JSON makes numbers of them.

A value makes the trip script, machine, component, machine, script, and may be sent
again. Each step is one conversion function, for either engine and for the three
ways in which a component can give a value back: as a result, inside a container
of a class that `fromJava` does not know, and in a signal. The last two go through
gson, which refuses a NaN and the infinities. `MAX_OBJ_KEYS`, what scripts send and the
number of levels for which Duktape's value stack has room are constants.

Texts are told apart by their surrogates. Duktape keeps a character outside of the
basic plane as two surrogates in UTF-8 (CESU-8) if a literal of the script has it, and
as the character itself if it came from Java. `codecvt_utf8_utf16`, between Duktape
and `JSStringValue`, either makes that character of the two, which is the text's other
encoding (`Text`, `Recoded`), or throws in the script's thread, which ends the process
(`YieldBadText`): the libraries differ. A surrogate alone (`Lone`) may pass on the way
out, and throws on the way back at the latest (`ReceiveBadText`). SpiderMonkey's texts
are UTF-16 like Java's. The keys of objects go through the same codec; in the model
they have no surrogates.

## 4. The runs

| run | what it asks | instance | distinct states |
|---|---|---|---|
| `native_engine` | the handoff, under any caller: also one that goes on after a timeout or a final result | 3 yields | 1771 |
| `native_startup` | does the first `yield()` return the code? No. | 1 yield | violated |
| `computer` | a whole computer: machine, architecture and engine, over several lives | 3 yields, 2 calls, 1 signal | 353219 |
| `architecture` | the machine's side with the engine as a coroutine, over several lives | 3 calls, 2 signals | 13968 |
| `architecture_boot` | do a signal and a result never meet? They do. | 1 call, 1 signal | violated |
| `spidermonkey` | the second engine, as this repository's driver uses it | 3 yields | 1391 |
| `memory` | the count and the limit | 3 blocks, 4 sizes, 4 limits | 2268 |
| `boot_disks` | which disk boots, what is stored for the next time, and does a boot end? | 3 disks, 2 EEPROMs | 565960 |
| `require` | the cache, the globals and cycles | 2 paths, 2 calls each, depth 4, 5 evaluations | 40566 |
| `term` | partial against full redraws | 5 heights, 3 buffers, scrolls by 1 and up to 5 | 4757 |
| `signals` | who hears what, in which order, and does a sleep end? | 2 handlers, 2 names, 2 signals, 3 changes | 57144 |
| `libraries` | paths against walking, values against their round trip | paths of 3 parts over 2 names; scalars, bytes and functions in containers in containers, 3 texts, 2 keys kept of 3 | 107623 |

Why the bounds are enough. *Yields*: a defect of the handoff involves an output, the
one before it and an input in flight; three yields and the `__bios__` request and the
final result give each of them a predecessor and a successor, and the proofs hold for
any number. The engine can be destroyed and started again without a bound. *Calls and
signals*: three calls let one be abandoned by a restart, one be deferred and one be
current (two in `computer`, where the first is also the one abandoned), and two
signals let one be in the queue while another is delivered (one in `computer`, where
`architecture` has shown what signals do to each other). A call of a method that is
missing does not count once it is answered, so a script may make such calls for ever,
and callbacks too; runs, stops and restarts are unbounded, and again the proofs hold
for any number. *Memory*: sizes are chosen so that sums fall below, at and above each
limit; zero is there since Duktape may ask for it. *Disks*: one stored, one chosen,
one that is neither; two EEPROMs can take each other's place, with different data. *Modules*: two are enough for a cycle, for a module that throws
within one that catches, for two paths of one name and for a module evaluated within
itself; the depth lets a cycle go around twice before the stack is full. *Terminal*:
heights from one row in the centre to five, buffers barely and much longer than the
window, scrolls below, at and above the centre's height. *Deliveries*: the second
signal can arrive within the delivery of the first, in either emission, before,
between or after changes by the listeners; three changes let a handler be registered,
removed and registered again; the proofs hold for any numbers. *Paths*: three parts
hold every pair of neighbours, at the beginning, in the middle and at the end, for
both arguments of the functions with two; the proofs hold for paths of any length.
*Values*: what a conversion does with an item depends on the item, its container and,
in JSON, on what is above; so each scalar is tried in each place of a container and of
a container in another, and containers and bytes go below, up to and beyond the limit
on keys. One text in CESU-8, one in UTF-8 and one with a surrogate alone, a NaN and an
infinity are among the scalars, and the value stack has room for one level in any
case, so the second may be refused. The proofs hold for every finite tree.

`signals`, `require`, `spidermonkey`, `architecture`, `architecture_boot` and `computer`
do not check for deadlock: the system stops where no more signals come, where the kernel
got an exception, and where the process has died.

### Fairness

`NativeEngine`: weak fairness of the caller's steps, of the destructor's and of the
script's thread: the operating system schedules both, `wait_for` has a deadline, a
pending cancellation acts in a wait that is woken for nothing again and again, and
Duktape polls `duk_exec_timeout` while it executes. Nothing is assumed of the script,
which may loop for ever without yielding. `SpiderMonkeyEngine`: the same, with the
interrupt that SpiderMonkey polls in place of both. `Architecture`: the machine gives
a runnable computer a worker, ticks, and closes what it stops; a push returns, or
`native_next` gives up on it (`CallsReturn` of `Computer`). `Computer`: that of the
two together, without the last. Nothing turns a machine on, connects it or sends a
signal. `Boot` and `Require`: the script's thread goes on executing; the player and
the kernel need do nothing. `Signals`: the emitter goes on, and a listener that is
called returns, throws or sleeps and so on; no program need ever sleep. The others
have no liveness.

### What the runs show

The handoff is right once it has started: promises are never set twice, outputs and
inputs alternate, calls return and destruction ends in any interleaving. In the
whole computer, with an engine that may be late, lose its source or end at any time,
every answer reaches the request it is for, no engine is called again that was late, nor
one that has ended unless its final result looked like a request, and a script executes
only while its machine runs it. A computer that is told to stop does stop, also with a
script that loops, is starting or is dying, if its run returns and its process lives.

So three liveness properties have exceptions, because the code has them:

- `StopsEnd` and `ComputerStops`: a run never returns whose script goes on making
  requests that are answered within it. Those are callbacks
  (`KT/JSEngine.kt:32`), and invocations of methods that a component does not have, or
  has as direct ones without a limit (`KT/JSArchitectureBase.kt:145-152`): two loops in
  which nothing asks whether the machine is to stop. An engine that has ended with what
  looks like a callback, or like such an invocation, is in them for ever. In `Computer`
  only the last can happen without end, since `MaxYields` bounds what a script yields.
- The same two: a process that died of a late engine stops nothing any more.
- `DestroyEndsOrWaits`: a SpiderMonkey engine's destruction ends unless the script
  yields once more before it polls the interrupt, or the process crashes.

Two statements in the repository are refuted; `PROJECT.json` has them as findings.

- *"First yield to get code to execute"*
  (`native/src/duktape/DuktapeEngineNative.cpp:100`). If the caller's first
  `next()` locks the mutex before the new thread does, `yield()` clears the input
  it brought, and the source is lost.
- *"Both a signal and an invoke result exist! This is not supposed to be
  possible!"* (`KT/JSArchitectureBase.kt:138`). `start()` leaves the source as the
  call result, and a signal queued before the first run meets it. `BothOnlyAtBoot`
  shows that this is the only case.

Noticed on the way, where a property states what remains true:

- A timeout reaches Java as a `java.lang.String` where a `JSValue` is declared
  (`native/src/duktape/DuktapeEngine.cpp:60`), so the branch for `"unresponsive"`
  (`KT/JSEngine.kt:51`) is never taken, and a method of `JSValue` is called on a string.
  If that call throws, the machine ends as that branch would have ended it; it may end
  the process.
- The final result of a script is dispatched by its type (`KT/JSEngine.kt:16`), and a
  script can choose it, as the `stack` of what it throws
  (`KT/duktape/DuktapeEngine.kt:36`). One that looks like a request is served, again and
  again: `ImplementsArchitecture` shows that this does to the machine nothing that a
  living script could not, `DriverStops` that it happens in no other case.
- A script that invokes a missing method, or calls back, without pause cannot be stopped
  (`StopsEnd`).
- What Duktape writes in CESU-8 comes back in UTF-8, or the conversion of it ends the
  process, and so does a surrogate alone in either direction (`PlainSurvives`).
- The thread of a SpiderMonkey engine may die between the destructor's test of
  `isDead` and its last use of the context. `CrashesOnlyAtEnds`: the process then
  dies only with a thread that is starting up or has marked itself dead.
- Scrolling up starts its copy at row `diff` and sets every text in the first row, so
  after one line up the first row shows the line before its own, and by two or more
  the copy reaches below the centre. `OffByAtMostOne` and `FrameKept` bound the damage
  by the arrow keys; `PageIsFaithful` shows what repairs it and `DownIsFaithful` what
  adds none.
- A listener that sleeps lets others hear an older signal after a newer one, and
  nothing but such a sleep does (`OvertakenOnlyAcrossSleep`).
- A component that returns its results inside a class of its own, and every signal,
  lose entries that are null and turn bytes into numbers, and a NaN or an infinity in
  them crashes the machine; as a plain result the same value survives (`PlainSurvives`). The
  engines differ: Duktape keeps `MAX_OBJ_KEYS` items and takes a function for an
  object. Bytes are not cut, but as an array of numbers they are if they are sent
  again, so on those two ways a second trip may change what the first gave
  (`SecondEchoSame` is about all others).
- A cyclic `require` ends in a full stack (`CycleEndsInThrow`); the lower clamp of
  `scroll` leaves line 0 of the buffer out of reach; `initialize` gives a new engine
  the default limit whatever memory was computed before; `freeMemory` may be negative
  after the limit was lowered.

## 5. The proofs

TLAPS checks every proof to the last leaf, for every value of the constants that
satisfies the named assumptions (`EngineBounds`, `RetriesAssumption`,
`ArchitectureBounds`, `ComputerBounds`, `MemoryAssumption`, `RequireBounds`,
`TermSizes`, `SignalsAssumption`, `PathAssumption` and `ValuesAssumption`; `Boot` needs
none); TLC
evaluates these on the runs. The modules have the same order: lemmas about
operators, the invariant, one step for each action, the theorems. Every safety
property of a passing run is proved.

`EngineProofs`, first part: `NativeEngine`. The safety properties are not inductive:
that a promise is empty when the thread sets it depends on who made it, whose turn it
is and where the caller stands. The invariant has one part for each pair of things:
the mutex and the thread (`MutexInv`), the caller and the object (`HostInv`), what
the thread has done (`ThreadInv`), the promise and the thread (`PromiseInv`), the two
positions (`TurnInv`), the value in the caller's future (`ReplyInv`), and, for the
driver that stops after a timeout, the output the caller saw and the input it sent
(`DriverInv`). They make up `HandoffInv`; `HeapInv`, about the object's memory, is
apart, since the SpiderMonkey engine has another. From it follow `PromiseFresh`,
`TakesTurns`, `DeadEngineAnswers`, `ThreadWithinObject` and `ImplementsProtocol` for
any caller, and `AnswersMatch` and `InputsReachScript` for the driver of this
repository. The refinement is proved step by step: each action maps to one step of
`YieldProtocol` or to a stutter. The lemmas about `DriverInv` assume of a caller only
that it stops after a timeout, and not which constant makes it do so; that lets
`ComputerProofs` use them.

Second part: `SpiderMonkeyEngine`. It takes the lemmas about `HandoffInv` from the
first: each action of this engine is one of `NativeEngine`, or leaves the handoff
alone. What it adds is the life of the context (`LifeInv`) and where the destructor
may find none.

`ArchitectureProofs`. `IInv` says what the script waits on and what the invoker
holds in each state of the machine (`BetweenRunsInv`) and at each point of a run
(`RunInv`), how engine, machine and run go together (`EngineInv`) and how calls are
numbered (`CallInv`). It is needed since `close()` does not reset the invoker: that
a left-over result is harmless follows only from what the next life does before it
looks at it. From it follow the four safety properties and `ImplementsRemoteCall`.

`ComputerProofs`. The two halves need each other. What the engine guarantees to a
driver that stops needs a driver that does, which is the architecture with its
machine; what `Architecture` takes its coroutine to do is what the engine guarantees.
Neither is assumed: `CInv` is the engine's invariant with its driver's part
(`EngineFacts`), the invariant of `Architecture` seen through the mapping
(`RunFacts`), and what joins them (`JoinInv`), and the three are carried from step to
step together. `JoinInv` says where the caller of the engine is for each point of a
run (`PlaceInv`), what the script's last output asked for and what the architecture
knows of it (`RequestInv`, `HeardInv`), which answer is on its way (`GivenInv`), where
the source is (`SourceInv`), when the engine is left alone (`QuietInv`) or answers
anew (`NewsInv`), and that only a script that has begun and ended leaves a result that
looks like a request (`FinalInv`). From it follow `DriverStops`,
`ScriptRunsWithMachine` and `AnswersReachRequests`. `ImplementsArchitecture` is proved
one action at a time: each is a step of `Architecture` or a stutter. So the computer
performs component calls as `RemoteCall` promises, and the engine in it matches
answers to outputs (`AnswersMatchInComputer`), without an assumption about the other
side.

`DataProofs`, first part: `Memory`. `WithinLargest` holds at a step that counts a
block only because the block fitted when it was checked and the largest limit has not
shrunk since (`GrowingFits`). `CountIsSum` needs no other invariant but needs to know
what `SumFunctionOnSet` is: that the recursive function under it exists
(`SummedExists`), does not depend on what lies outside the set (`SummedSame`), and
does not depend on the order of summing (`SumRemove`). These are inductions, and each
is done on the least counterexample (`Least`, `LeastSet`), for which the library's
theorem on well-founded relations needs no operator as a parameter.

Second part: `PlainSurvives` and `SecondEchoSame`. The invariant is `ValueInv`: at
each place of its trip a value is what the conversions up to there make of what the
script sent, and nothing else has any influence on it. What is left is about the
functions, for any finite tree; as they change nodes by their addresses, there is no
induction in it. Both properties come from one notion: a value is `Fit` for a way if
it has only kinds of node that all sides know, no item that Duktape would leave off,
on Duktape no text in CESU-8, and, where it goes through JSON, nothing that JSON
changes. A trip leaves a fit value as it is (`Survives`, by `FitComesBack`), a plain
one is fit, and whatever is sent, what arrives is fit for the next trip
(`ArrivesFit`). For the last, what Duktape has left off must leave no item with
`MAX_OBJ_KEYS` elders, also after functions' entries and null entries have gone
(`FromScripts`, `FewerElders`), and the same must hold of the numbers that bytes
become, which is where the condition of `SecondEchoSame` is from. Both theorems speak
of what comes back. Where a conversion throws, the model's actions have the value not
arrive, and what is claimed of it is nothing.

`OsProofs`, first part: `KernelIsStored` needs to know that the loader has chosen a
disk when it stores it (`Chosen`), and that it stores it on the EEPROM that it found
before, with disks and EEPROMs coming and going in between; `Reasons` says what is
known at each step of a computer that stays as it is, from which `FailsForAReason`
follows.

Second part: `PathsLead` and `RewritingKeepsMeaning`, for paths of any length over any
names. A fold of the library is the value of a recursive function on the sets of a
path's positions. That there is such a function (`IterExists`, `FoldExists`) and that
it goes along the path one part at a time (`FoldLeads`) is proved once; from there on,
each claim is an induction over sequences, done on sets of them (`NatSet`, `SeqSet`)
since an operator cannot be a parameter. `normalizeArray` from the root is walking
from it (`ArrayWalks`); above the root it leads where the path leads (`ArrayLeads`),
since a `..` is kept only where no name is left to take away (`LastKept`), and it
keeps what it kept before (`ArrayOnce`), so normalising twice is normalising once. What
a blank part and a slash at the end do is apart (`FromBlank`, `ArrayBlank`,
`NormalizeRebuilds`). On these rest a lemma for each function of the library: `Joining`,
`JoiningSplit` for `dirname` and `basename`, `ResolvedOne` and `ResolvedTwo`, and
`Relating`, where as many `..` as there are parts not shared lead back up (`FromUps`).

`RequireProofs`: each frame of the stack holds the exports it has put aside, and the
oldest holds those of the boot (`OldestKeepsBoot`); an exception or a return takes
frames off. Without a cycle some rank falls along every `require`, so it falls up the
stack (`RanksFall`): no name is evaluated twice at a time, nothing that is being
evaluated is cached (`PendingNotCached`), and no cached module is replaced.

`TermProofs`: a lemma for each way of updating says what every row shows then
(`RenderRows`, `CopyRows`, `ScrollDownRows`, `ScrollUpRows`, `FullUpdate`), for
windows of any size; `Bounds` is what `scroll`'s two clamps keep, and without it a
text could be empty, which `gpu.set` does not draw. That the scrollbar's mark stays
in its frame is an inequality about an integer quotient (`Share`).

`SignalsProofs`: of each sleep on the stack, its walk stays within what its array held
when the emission began, and what it is due to call is what was in there (`Within`);
and only the innermost sleep can hold the newest signal without having slept
(`Newest`). That `deregister` leaves a sequence without the handler is an induction
as in `DataProofs`.

Only model-checked: all liveness, and that nothing but what section 4 names ends in a
deadlock. Both speak of what is enabled, which is out of the prover's reach.

## 6. Not modelled

- The simulator runs the bios in Node with an earlier protocol: its `__yield` answers
  with JSON text, which the present bios does not read, so there is no behaviour of
  the two together to model.
- The file system, OS and component libraries and the script APIs have no state of
  their own beyond a handle: each operation is one component call. The search for a
  file is in `Require`, the listener of `os.ts` is a handler of `Signals`, and
  `bios.crash` is in `Architecture`.
- File extensions in the path library (`extname`, `parse`, `format`); symbols, bigints
  and getters that throw in the conversions, surrogates in the keys of objects, which go
through the same codec as the texts, and cyclic values, whose conversion overflows the
stack; columns and colours of the terminal.
- The signal handler, which nothing constructs, and the Nashorn engine, which is
  commented out.
- Loading of the mod and the libraries: I/O of the host.
- Duktape, SpiderMonkey, ICU and the shims: third-party. They are nearly all of the
  lines under `native/include` and `native/lib`.
- A heap or context that cannot be created: the code goes on as if it were there.
- What else the undefined use of a late engine's string may do than throw or end the
  process; and, in `Computer`, ends of the process from other causes, such as the C++
  exceptions of `Values`: they are ends in which nothing happens any more, as in that one.
