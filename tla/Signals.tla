------------------------------- MODULE Signals -------------------------------
(***************************************************************************)
(* The delivery of signals to the programs of a computer: sleep() and the  *)
(* EventEmitter of os.js/bios/bios.ts.                                     *)
(*                                                                         *)
(* There is one thread.  A program sleeps; when the machine answers with a *)
(* signal, sleep() emits it to the listeners of 'signal' and then to those *)
(* of its name, and returns.  A listener may register and deregister       *)
(* listeners, may throw, and may itself sleep, which delivers the next     *)
(* signal in the middle of the delivery of the present one.  So there is a *)
(* stack of sleeps that got a signal and have not returned, each in the    *)
(* forEach of one of its two emissions.  A sleep that ends without a       *)
(* signal changes nothing.                                                 *)
(*                                                                         *)
(* The array of listeners that a forEach walks over is the one in the map  *)
(* until deregister replaces that one: on() pushes in place.               *)
(***************************************************************************)
EXTENDS Integers, Sequences

CONSTANTS
  Handlers,    \* functions that programs register
  Names,       \* names of signals; "signal" is one of them
  MaxSignals,  \* bound: signals delivered
  MaxChanges   \* bound: registrations and deregistrations

ASSUME SignalsAssumption ==
  /\ "signal" \in Names
  /\ MaxSignals \in Nat /\ MaxChanges \in Nat

VARIABLES
  sleepers,   \* the handlers that may sleep: fixed
  listeners,  \* EventEmitter.listeners; no array is an empty one
  stack,      \* sleeps whose signal is being delivered, the innermost last
  raised,     \* an exception left the innermost sleep
  taken,      \* number of signals taken from the machine
  changes,    \* number of registrations and deregistrations
  \* history
  latest      \* the newest signal that each handler has heard

vars == <<sleepers, listeners, stack, raised, taken, changes, latest>>

ArraysOf(S) == Seq(S)
Elements(arr, n) == {arr[i] : i \in 1 .. n}
Registered(name) == Elements(listeners[name], Len(listeners[name]))

\* A sleep that delivers its signal.  due and stayed are history: the handlers
\* registered when the present emission began, and those of them that have not
\* been deregistered since; slept tells that a listener of this delivery
\* delivered another one.
Sleeps == [no : 1 .. MaxSignals, name : Names, named : BOOLEAN,
           arr : ArraysOf(Handlers), length : Nat, shared : BOOLEAN,
           next : Nat, busy : BOOLEAN,
           due : SUBSET Handlers, stayed : SUBSET Handlers, slept : BOOLEAN]

TypeOK ==
  /\ sleepers \subseteq Handlers
  /\ listeners \in [Names -> ArraysOf(Handlers)]
  /\ stack \in Seq(Sleeps)
  /\ raised \in BOOLEAN
  /\ taken \in 0 .. MaxSignals
  /\ changes \in 0 .. MaxChanges
  /\ latest \in [Handlers -> 0 .. MaxSignals]

Init ==
  /\ sleepers \in SUBSET Handlers
  /\ listeners = [n \in Names |-> <<>>]
  /\ stack = <<>> /\ raised = FALSE /\ taken = 0 /\ changes = 0
  /\ latest = [h \in Handlers |-> 0]

-----------------------------------------------------------------------------
Depth == Len(stack)
Top == stack[Depth]
Below == SubSeq(stack, 1, Depth - 1)
OnTop(frame) == [stack EXCEPT ![Depth] = frame]

\* The name that a sleep is emitting to.
Event(frame) == IF frame.named THEN frame.name ELSE "signal"

\* The program executes, or a listener does.
Executing == ~raised /\ (stack # <<>> => Top.busy)
Executor == Top.arr[Top.next - 1]

\* emit(): a sleep at the start of an emission.
Emitting(frame, named) ==
  LET event == IF named THEN frame.name ELSE "signal"
  IN  [frame EXCEPT !.named = named, !.arr = listeners[event],
                    !.length = Len(listeners[event]), !.shared = TRUE,
                    !.next = 1, !.busy = FALSE,
                    !.due = Registered(event), !.stayed = Registered(event)]

-----------------------------------------------------------------------------
(* What the executing code may do.                                         *)

\* Mutant: the machine hands out the newest signal.
SleepTakesNewest(name) ==
  /\ Executing
  /\ stack # <<>> => Executor \in sleepers
  /\ taken < MaxSignals
  /\ taken' = taken + 1
  /\ stack' = Append(IF stack = <<>> THEN stack ELSE OnTop([Top EXCEPT !.slept = TRUE]),
                     Emitting([no |-> MaxSignals - taken, name |-> name, named |-> FALSE,
                               arr |-> <<>>, length |-> 0, shared |-> TRUE,
                               next |-> 1, busy |-> FALSE,
                               due |-> {}, stayed |-> {}, slept |-> FALSE], FALSE))
  /\ UNCHANGED <<sleepers, listeners, raised, changes, latest>>

\* $bios.computer.sleep(), answered with a signal.
Sleep(name) ==
  /\ Executing
  /\ stack # <<>> => Executor \in sleepers
  /\ taken < MaxSignals
  /\ taken' = taken + 1
  /\ stack' = Append(IF stack = <<>> THEN stack ELSE OnTop([Top EXCEPT !.slept = TRUE]),
                     Emitting([no |-> taken', name |-> name, named |-> FALSE,
                               arr |-> <<>>, length |-> 0, shared |-> TRUE,
                               next |-> 1, busy |-> FALSE,
                               due |-> {}, stayed |-> {}, slept |-> FALSE], FALSE))
  /\ UNCHANGED <<sleepers, listeners, raised, changes, latest>>

\* on(): the array in the map grows, also under a forEach.
On(name, h) ==
  /\ Executing
  /\ changes < MaxChanges
  /\ changes' = changes + 1
  /\ listeners' = [listeners EXCEPT ![name] = Append(@, h)]
  /\ stack' = [i \in DOMAIN stack |->
                 IF stack[i].shared /\ Event(stack[i]) = name
                   THEN [stack[i] EXCEPT !.arr = Append(@, h)] ELSE stack[i]]
  /\ UNCHANGED <<sleepers, raised, taken, latest>>

Without(arr, h) ==
  LET kept[n \in 0 .. Len(arr)] ==
        IF n = 0 THEN <<>>
        ELSE IF arr[n] = h THEN kept[n - 1] ELSE Append(kept[n - 1], arr[n])
  IN  kept[Len(arr)]

\* deregister(), or the function that on() returned: every registration of the
\* handler under that name goes, and the map gets a new array.
Deregister(name, h) ==
  /\ Executing
  /\ changes < MaxChanges
  /\ changes' = changes + 1
  /\ listeners' = [listeners EXCEPT ![name] = Without(@, h)]
  /\ stack' = [i \in DOMAIN stack |->
                 IF Event(stack[i]) = name
                   THEN [stack[i] EXCEPT !.shared = FALSE, !.stayed = @ \ {h}]
                   ELSE stack[i]]
  /\ UNCHANGED <<sleepers, raised, taken, latest>>

\* The listener returns.
Return ==
  /\ Executing /\ stack # <<>>
  /\ stack' = OnTop([Top EXCEPT !.busy = FALSE])
  /\ UNCHANGED <<sleepers, listeners, raised, taken, changes, latest>>

\* It throws, through forEach, emit and sleep, into the code that slept; which
\* catches the exception, or lets it go on into the sleep around it.
Throw ==
  /\ Executing /\ stack # <<>>
  /\ raised' = TRUE
  /\ stack' = Below
  /\ UNCHANGED <<sleepers, listeners, taken, changes, latest>>

Rethrow ==
  /\ raised /\ stack # <<>>
  /\ stack' = Below
  /\ UNCHANGED <<sleepers, listeners, raised, taken, changes, latest>>

Catch ==
  /\ raised
  /\ raised' = FALSE
  /\ UNCHANGED <<sleepers, listeners, stack, taken, changes, latest>>

-----------------------------------------------------------------------------
(* forEach, emit and sleep.                                                *)

Walking == ~raised /\ stack # <<>> /\ ~Top.busy

\* Mutant: the walk ends where the array now ends.
MoreToCallNow(frame) == frame.next =< Len(frame.arr)

\* forEach visits what was in the array when it began.
MoreToCall(frame) == frame.next =< frame.length /\ frame.next =< Len(frame.arr)

Call ==
  /\ Walking /\ MoreToCall(Top)
  /\ stack' = OnTop([Top EXCEPT !.busy = TRUE, !.next = @ + 1])
  /\ latest' = [latest EXCEPT ![Top.arr[Top.next]] = IF @ > Top.no THEN @ ELSE Top.no]
  /\ UNCHANGED <<sleepers, listeners, raised, taken, changes>>

\* From the listeners of 'signal' to those of the signal's name.
EmitNamed ==
  /\ Walking /\ ~MoreToCall(Top) /\ ~Top.named
  /\ stack' = OnTop(Emitting(Top, TRUE))
  /\ UNCHANGED <<sleepers, listeners, raised, taken, changes, latest>>

\* Mutant: an interrupted delivery starts over.
SleepReturnsRestarting ==
  /\ Walking /\ ~MoreToCall(Top) /\ Top.named
  /\ stack' = IF Top.slept THEN OnTop(Emitting(Top, FALSE)) ELSE Below
  /\ UNCHANGED <<sleepers, listeners, raised, taken, changes, latest>>

SleepReturns ==
  /\ Walking /\ ~MoreToCall(Top) /\ Top.named
  /\ stack' = Below
  /\ UNCHANGED <<sleepers, listeners, raised, taken, changes, latest>>

-----------------------------------------------------------------------------
Delivery == Call \/ EmitNamed \/ SleepReturns
Leave == Return \/ Throw \/ Rethrow \/ Catch

Next == \/ Delivery \/ Leave
        \/ \E n \in Names : \/ Sleep(n)
                            \/ \E h \in Handlers : On(n, h) \/ Deregister(n, h)

\* The emitter goes on, and a listener ends sooner or later.
Spec == Init /\ [][Next]_vars
FairSpec == Spec /\ WF_vars(Delivery) /\ WF_vars(Leave)

-----------------------------------------------------------------------------
(* Properties.                                                             *)

Heard(frame) == Elements(frame.arr, frame.next - 1)

\* An emission that ends has called every handler that was registered when it
\* began and stayed so, and none that was not registered then: whatever its
\* listeners register and deregister, in this delivery or in one within it.
RightListeners ==
  [][EmitNamed \/ SleepReturns =>
       Top.stayed \subseteq Heard(Top) /\ Heard(Top) \subseteq Top.due]_vars

\* A handler hears a signal after a newer one only if a listener slept in the
\* middle of the delivery of the older one.
OvertakenOnlyAcrossSleep ==
  [][Call => LET h == Top.arr[Top.next]
             IN  latest[h] =< Top.no \/ Top.slept]_vars

\* Once no more signals come, every sleep returns or throws, however deep the
\* deliveries are nested.
SleepsEnd == stack # <<>> ~> stack = <<>>
=============================================================================
