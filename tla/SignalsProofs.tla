---------------------------- MODULE SignalsProofs ----------------------------
(***************************************************************************)
(* Proofs about Signals, for any handlers, names and numbers of signals    *)
(* and changes.  The invariant says of every sleep on the stack that its   *)
(* walk stays within what the array held when the emission began, whatever *)
(* has been pushed since, and that only the innermost sleep can be the one *)
(* that took the newest signal.                                            *)
(***************************************************************************)
EXTENDS Signals, TLAPS, SequenceTheorems, WellFoundedInduction

\* A sleep in the middle of an emission, when the map holds ls.
Within(f, ls) ==
  /\ f.length =< Len(f.arr)
  /\ f.next \in 1 .. f.length + 1
  /\ Elements(f.arr, f.length) = f.due
  /\ f.stayed \subseteq f.due
  /\ f.shared => f.arr = ls[Event(f)]

Walks == \A i \in 1 .. Len(stack) : Within(stack[i], listeners)

Newest ==
  /\ \A i \in 1 .. Len(stack) :
       /\ stack[i].no =< taken
       /\ stack[i].slept \/ (stack[i].no = taken /\ i = Len(stack))
  /\ \A h \in Handlers : latest[h] =< taken

IInv == TypeOK /\ Walks /\ Newest

-----------------------------------------------------------------------------
(* Sequences.                                                              *)

LEMMA ElementsAppend ==
  ASSUME NEW S, NEW arr \in Seq(S), NEW h \in S, NEW n \in Nat, n =< Len(arr)
  PROVE  Elements(Append(arr, h), n) = Elements(arr, n)
<1>1. \A i \in 1 .. n : Append(arr, h)[i] = arr[i]
  OBVIOUS
<1> QED BY <1>1 DEF Elements

LEMMA ElementsType ==
  ASSUME NEW S, NEW arr \in Seq(S), NEW n \in Nat, n =< Len(arr)
  PROVE  Elements(arr, n) \subseteq S
BY DEF Elements

LEMMA Least ==
  ASSUME NEW T \in SUBSET Nat, T # {}
  PROVE  \E x \in T : \A y \in T : ~(y < x)
<1>1. \E x \in T : \A y \in T : ~(<<y, x>> \in OpToRel(<, Nat))
  BY NatLessThanWellFounded, WFMin
<1>2. \A x, y \in T : <<y, x>> \in OpToRel(<, Nat) <=> y < x
  BY DEF OpToRel
<1> QED BY <1>1, <1>2

\* The recursive function in Without, for the first m elements.
Filters(arr, h, m, f) ==
  f = [n \in 0 .. m |-> IF n = 0 THEN <<>>
                        ELSE IF arr[n] = h THEN f[n - 1] ELSE Append(f[n - 1], arr[n])]

\* There is one, by induction: the least m without one has one.
LEMMA FiltersExist ==
  ASSUME NEW S, NEW arr \in Seq(S), NEW h
  PROVE  \A m \in 0 .. Len(arr) :
           \E f : Filters(arr, h, m, f) /\ \A n \in 0 .. m : f[n] \in Seq(S \ {h})
<1> DEFINE Good(m, f) == Filters(arr, h, m, f) /\ \A n \in 0 .. m : f[n] \in Seq(S \ {h})
           T == {m \in 0 .. Len(arr) : ~ \E f : Good(m, f)}
<1>1. SUFFICES ASSUME T # {} PROVE FALSE
  OBVIOUS
<1>2. T \in SUBSET Nat
  OBVIOUS
<1>3. PICK m \in T : \A y \in T : ~(y < m)
  BY <1>1, <1>2, Least
<1>4. m \in 0 .. Len(arr) /\ ~ \E f : Good(m, f)
  BY <1>3
<1>5. CASE m = 0
  <2> DEFINE f == [n \in 0 .. 0 |-> <<>>]
  <2>1. Filters(arr, h, 0, f)
    BY DEF Filters
  <2>2. \A n \in 0 .. 0 : f[n] \in Seq(S \ {h})
    OBVIOUS
  <2> QED BY <1>4, <1>5, <2>1, <2>2
<1>6. CASE m # 0
  <2>1. m - 1 \in 0 .. Len(arr) /\ m - 1 < m /\ m \in 1 .. Len(arr)
    BY <1>4, <1>6
  <2>2. PICK g : Good(m - 1, g)
    BY <1>3, <2>1
  <2> DEFINE last == IF arr[m] = h THEN g[m - 1] ELSE Append(g[m - 1], arr[m])
             f == [n \in 0 .. m |-> IF n = m THEN last ELSE g[n]]
  <2>3. g[m - 1] \in Seq(S \ {h}) /\ arr[m] \in S
    BY <2>1, <2>2
  <2>4. last \in Seq(S \ {h})
    BY <2>3
  <2> HIDE DEF last
  <2>5. \A n \in 0 .. m : n # m => n \in 0 .. m - 1 /\ (n # 0 => n - 1 \in 0 .. m - 1)
    BY <1>4
  <2>6. \A n \in 0 .. m : f[n] \in Seq(S \ {h})
    BY <2>2, <2>4, <2>5
  <2>7. \A n \in 0 .. m : f[n] = IF n = 0 THEN <<>>
                               ELSE IF arr[n] = h THEN f[n - 1] ELSE Append(f[n - 1], arr[n])
    <3> SUFFICES ASSUME NEW n \in 0 .. m
                 PROVE  f[n] = IF n = 0 THEN <<>>
                               ELSE IF arr[n] = h THEN f[n - 1] ELSE Append(f[n - 1], arr[n])
      OBVIOUS
    <3>1. CASE n = m
      <4>1. m - 1 \in 0 .. m /\ m - 1 # m
        BY <1>4, <1>6
      <4>2. f[m] = last /\ f[m - 1] = g[m - 1]
        BY <1>4, <4>1
      <4> QED BY <1>6, <3>1, <4>2 DEF last
    <3>2. CASE n # m
      <4>1. n \in 0 .. m - 1 /\ f[n] = g[n]
        BY <2>5, <3>2
      <4>2. g[n] = IF n = 0 THEN <<>>
                   ELSE IF arr[n] = h THEN g[n - 1] ELSE Append(g[n - 1], arr[n])
        BY <2>2, <4>1 DEF Filters
      <4>3. n # 0 => n - 1 \in 0 .. m /\ n - 1 # m /\ f[n - 1] = g[n - 1]
        BY <1>4, <3>2
      <4> QED BY <4>1, <4>2, <4>3
    <3> QED BY <3>1, <3>2
  <2>8. f = [n \in 0 .. m |-> IF n = 0 THEN <<>>
                        ELSE IF arr[n] = h THEN f[n - 1] ELSE Append(f[n - 1], arr[n])]
    <3> HIDE DEF last
    <3>1. DOMAIN f = 0 .. m /\ f = [n \in 0 .. m |-> f[n]]
      OBVIOUS
    <3> HIDE DEF f
    <3> QED BY <2>7, <3>1
  <2>9. Good(m, f)
    BY <2>6, <2>8 DEF Filters
  <2> HIDE DEF f
  <2> QED BY <1>4, <2>9
<1> QED BY <1>5, <1>6

\* What deregister leaves: handlers, and not the one it removes.
LEMMA WithoutType ==
  ASSUME NEW S, NEW arr \in Seq(S), NEW h
  PROVE  Without(arr, h) \in Seq(S \ {h}) /\ Without(arr, h) \in Seq(S)
<1> DEFINE n == Len(arr)
<1>1. n \in Nat /\ n \in 0 .. Len(arr)
  OBVIOUS
<1> HIDE DEF n
<1>5. PICK f : Filters(arr, h, n, f) /\ \A i \in 0 .. n : f[i] \in Seq(S \ {h})
  BY <1>1, FiltersExist
<1>2. \E f1 : Filters(arr, h, n, f1)
  BY <1>5
<1> DEFINE kept[i \in 0 .. n] ==
             IF i = 0 THEN <<>>
             ELSE IF arr[i] = h THEN kept[i - 1] ELSE Append(kept[i - 1], arr[i])
<1>3. kept = CHOOSE f1 : Filters(arr, h, n, f1)
  BY DEF Filters
<1>4. Filters(arr, h, n, kept)
  BY <1>2, <1>3
<1>6. Without(arr, h) = kept[n]
  BY DEF Without, n
<1> HIDE DEF kept
<1>7. kept[n] = f[n]
  <2> DEFINE T == {i \in 0 .. n : kept[i] # f[i]}
  <2>1. SUFFICES ASSUME T # {} PROVE FALSE
    BY <1>1
  <2> T \in SUBSET Nat
    BY <1>1
  <2>2. PICK i \in T : \A y \in T : ~(y < i)
    BY <1>1, <2>1, Least
  <2>3. CASE i = 0
    BY <1>1, <1>4, <1>5, <2>2, <2>3 DEF Filters
  <2>4. CASE i # 0
    <3>1. i - 1 \in 0 .. n /\ i - 1 < i
      BY <1>1, <2>2, <2>4
    <3>2. kept[i - 1] = f[i - 1]
      BY <2>2, <3>1
    <3>3. i \in 0 .. n /\ kept[i] # f[i]
      BY <2>2
    <3>4. /\ kept[i] = IF arr[i] = h THEN kept[i - 1] ELSE Append(kept[i - 1], arr[i])
          /\ f[i] = IF arr[i] = h THEN f[i - 1] ELSE Append(f[i - 1], arr[i])
      BY <1>4, <1>5, <2>4, <3>3 DEF Filters
    <3> QED BY <3>2, <3>3, <3>4
  <2> QED BY <2>3, <2>4
<1>8. Without(arr, h) \in Seq(S \ {h})
  BY <1>1, <1>5, <1>6, <1>7
<1> QED BY <1>8, SeqMonotonic

LEMMA OnTopFrames ==
  ASSUME stack \in Seq(Sleeps), stack # <<>>, NEW f \in Sleeps
  PROVE  /\ Depth \in 1 .. Len(stack) /\ Top \in Sleeps
         /\ OnTop(f) \in Seq(Sleeps) /\ Len(OnTop(f)) = Len(stack)
         /\ OnTop(f)[Depth] = f
         /\ \A i \in 1 .. Len(stack) : i # Depth => OnTop(f)[i] = stack[i]
<1>1. Depth \in 1 .. Len(stack)
  BY DEF Depth
<1>2. Top \in Sleeps
  BY <1>1 DEF Top
<1> QED BY <1>1, <1>2 DEF OnTop

LEMMA BelowFrames ==
  ASSUME stack \in Seq(Sleeps), stack # <<>>
  PROVE  /\ Below \in Seq(Sleeps) /\ Len(Below) = Len(stack) - 1
         /\ \A i \in 1 .. Len(Below) : Below[i] = stack[i]
<1>1. Depth \in Nat \ {0} /\ Depth = Len(stack)
  BY DEF Depth
<1>2. /\ 1 \in 1 .. Len(stack) + 1 /\ Depth - 1 \in 1 - 1 .. Len(stack)
      /\ Depth - 1 \in Nat
  BY <1>1
<1>3. Below \in Seq(Sleeps)
  BY <1>2, SubSeqProperties DEF Below
<1>4. Len(Below) = Depth - 1 /\ \A i \in 1 .. Depth - 1 : Below[i] = stack[i]
  BY <1>1, <1>2, SubSeqProperties DEF Below
<1> QED BY <1>1, <1>3, <1>4

\* The start of an emission.
LEMMA EmittingFrame ==
  ASSUME NEW f \in Sleeps, NEW named \in BOOLEAN,
         listeners \in [Names -> Seq(Handlers)]
  PROVE  /\ Emitting(f, named) \in Sleeps
         /\ Within(Emitting(f, named), listeners)
         /\ Emitting(f, named).no = f.no /\ Emitting(f, named).slept = f.slept
<1> DEFINE event == IF named THEN f.name ELSE "signal"
           e == Emitting(f, named)
<1>1. event \in Names
  BY SignalsAssumption DEF Sleeps
<1>2. listeners[event] \in Seq(Handlers) /\ Len(listeners[event]) \in Nat
      /\ Registered(event) \subseteq Handlers
  BY <1>1, ElementsType DEF Registered
<1>3. e = [f EXCEPT !.named = named, !.arr = listeners[event],
                    !.length = Len(listeners[event]), !.shared = TRUE,
                    !.next = 1, !.busy = FALSE,
                    !.due = Registered(event), !.stayed = Registered(event)]
  BY DEF Emitting
<1>4. /\ e.no = f.no /\ e.slept = f.slept /\ e.name = f.name /\ e.named = named
      /\ e.arr = listeners[event] /\ e.length = Len(listeners[event])
      /\ e.next = 1 /\ e.due = Registered(event) /\ e.stayed = Registered(event)
  BY <1>3 DEF Sleeps
<1>5. e \in Sleeps
  <2>1. /\ listeners[event] \in ArraysOf(Handlers) /\ Len(listeners[event]) \in Nat
        /\ Registered(event) \in SUBSET Handlers
    BY <1>2 DEF ArraysOf
  <2> HIDE DEF e, event
  <2> QED BY <1>3, <2>1 DEF Sleeps
<1>6. Event(e) = event
  BY <1>4 DEF Event
<1> HIDE DEF e, event
<1>7. Within(e, listeners)
  BY <1>2, <1>4, <1>6 DEF Within, Registered
<1> QED BY <1>4, <1>5, <1>7 DEF e

-----------------------------------------------------------------------------
(* The invariant.                                                          *)

LEMMA InitIInv == Init => IInv
<1> SUFFICES ASSUME Init PROVE IInv
  OBVIOUS
<1>1. TypeOK
  <2>1. listeners \in [Names -> ArraysOf(Handlers)]
    BY EmptySeq DEF Init, ArraysOf
  <2>2. stack \in Seq(Sleeps)
    BY EmptySeq DEF Init
  <2>3. raised \in BOOLEAN
    BY Zenon DEF Init
  <2> QED BY <2>1, <2>2, <2>3, SignalsAssumption DEF Init, TypeOK
<1>2. Len(stack) = 0
  BY DEF Init
<1> QED BY <1>1, <1>2 DEF Init, IInv, Walks, Newest

\* A step that puts another frame on the top of the stack.
LEMMA TopStep ==
  ASSUME IInv, stack # <<>>, NEW f \in Sleeps, Within(f, listeners),
         f.slept = Top.slept, f.no = Top.no,
         stack' = OnTop(f), UNCHANGED <<sleepers, listeners, taken, changes>>,
         raised' = raised,
         latest' \in [Handlers -> 0 .. MaxSignals], \A h \in Handlers : latest'[h] =< taken
  PROVE  IInv'
<1>1. /\ Depth \in 1 .. Len(stack) /\ Depth = Len(stack) /\ Top = stack[Depth]
      /\ stack' \in Seq(Sleeps) /\ Len(stack') = Len(stack) /\ stack'[Depth] = f
      /\ \A i \in 1 .. Len(stack) : i # Depth => stack'[i] = stack[i]
  BY OnTopFrames DEF IInv, TypeOK, Depth, Top
<1>2. TypeOK'
  BY <1>1 DEF IInv, TypeOK
<1>3. Walks'
  BY <1>1 DEF IInv, Walks
<1>4. Newest'
  BY <1>1 DEF IInv, Newest
<1> QED BY <1>2, <1>3, <1>4 DEF IInv

\* A step that takes the innermost sleep from the stack.
LEMMA PopStep ==
  ASSUME IInv, stack # <<>>, stack' = Below, raised' \in BOOLEAN,
         UNCHANGED <<sleepers, listeners, taken, changes, latest>>
  PROVE  IInv'
<1>1. /\ stack' \in Seq(Sleeps) /\ Len(stack') = Len(stack) - 1
      /\ Len(stack) \in Nat /\ Len(stack') \in Nat
      /\ \A i \in 1 .. Len(stack') : stack'[i] = stack[i]
  BY BelowFrames DEF IInv, TypeOK
<1>2. TypeOK'
  BY <1>1 DEF IInv, TypeOK
<1>3. Walks'
  BY <1>1 DEF IInv, Walks
<1>4. Newest'
  BY <1>1 DEF IInv, Newest
<1> QED BY <1>2, <1>3, <1>4 DEF IInv

LEMMA SleepStep ==
  ASSUME IInv, NEW name \in Names, Sleep(name)
  PROVE  IInv'
<1> DEFINE s == IF stack = <<>> THEN stack ELSE OnTop([Top EXCEPT !.slept = TRUE])
           new == [no |-> taken', name |-> name, named |-> FALSE,
                   arr |-> <<>>, length |-> 0, shared |-> TRUE,
                   next |-> 1, busy |-> FALSE,
                   due |-> {}, stayed |-> {}, slept |-> FALSE]
           e == Emitting(new, FALSE)
<1>1. /\ stack \in Seq(Sleeps) /\ listeners \in [Names -> Seq(Handlers)]
      /\ taken \in 0 .. MaxSignals /\ MaxSignals \in Nat
  BY SignalsAssumption DEF IInv, TypeOK, ArraysOf
<1>2. taken' = taken + 1 /\ taken' \in 1 .. MaxSignals /\ stack' = Append(s, e)
      /\ UNCHANGED <<sleepers, listeners, raised, changes, latest>>
  BY <1>1 DEF Sleep
<1>3. new \in Sleeps
  BY <1>2 DEF Sleeps, ArraysOf
<1>4. e \in Sleeps /\ Within(e, listeners) /\ e.no = taken'
  <2>1. new.no = taken'
    OBVIOUS
  <2> HIDE DEF new
  <2> QED BY <1>1, <1>3, <2>1, EmittingFrame
<1>5. /\ s \in Seq(Sleeps) /\ Len(s) = Len(stack)
      /\ \A i \in 1 .. Len(s) : /\ Within(s[i], listeners) /\ s[i].slept
                                /\ s[i].no \in Nat /\ s[i].no =< taken
  <2>1. CASE stack = <<>>
    BY <1>1, <2>1
  <2>2. CASE stack # <<>>
    <3> DEFINE f == [Top EXCEPT !.slept = TRUE]
    <3>1. Depth \in 1 .. Len(stack) /\ Top = stack[Depth] /\ Top \in Sleeps
          /\ Depth = Len(stack)
      BY <1>1, <2>2 DEF Depth, Top
    <3>2. f \in Sleeps /\ f.slept /\ f.no = Top.no
      BY <3>1 DEF Sleeps
    <3>3. Within(f, listeners)
      BY <3>1 DEF IInv, Walks, Within, Event, Sleeps
    <3> HIDE DEF f
    <3>4. s = OnTop(f)
      BY <2>2 DEF f
    <3> HIDE DEF s
    <3>5. /\ s \in Seq(Sleeps) /\ Len(s) = Len(stack) /\ s[Depth] = f
          /\ \A i \in 1 .. Len(stack) : i # Depth => s[i] = stack[i]
      BY <1>1, <2>2, <3>2, <3>4, OnTopFrames
    <3>6. \A i \in 1 .. Len(stack) : stack[i].no \in Nat /\ stack[i].no =< taken
      <4>1. \A i \in 1 .. Len(stack) : stack[i] \in Sleeps /\ stack[i].no =< taken
        BY <1>1 DEF IInv, Newest
      <4>2. \A f1 \in Sleeps : f1.no \in Nat
        BY DEF Sleeps
      <4> QED BY <4>1, <4>2
    <3> QED BY <3>1, <3>2, <3>3, <3>5, <3>6 DEF IInv, Walks, Newest
  <2> QED BY <2>1, <2>2
<1> HIDE DEF s, new, e
<1>6. /\ stack' \in Seq(Sleeps) /\ Len(stack') = Len(s) + 1 /\ Len(s) \in Nat
      /\ \A i \in 1 .. Len(s) : stack'[i] = s[i]
      /\ stack'[Len(s) + 1] = e
  BY <1>2, <1>4, <1>5
<1>7. TypeOK'
  BY <1>2, <1>6 DEF IInv, TypeOK
<1>8. Walks'
  BY <1>2, <1>4, <1>5, <1>6 DEF Walks, Within, Event
<1>9. Newest'
  <2>1. \A h \in Handlers : latest[h] \in Int /\ latest[h] =< taken /\ latest'[h] = latest[h]
    BY <1>2 DEF IInv, TypeOK, Newest
  <2> QED BY <1>1, <1>2, <1>4, <1>5, <1>6, <2>1 DEF Newest
<1> QED BY <1>7, <1>8, <1>9 DEF IInv

LEMMA OnStep ==
  ASSUME IInv, NEW name \in Names, NEW h \in Handlers, On(name, h)
  PROVE  IInv'
<1>1. /\ stack \in Seq(Sleeps) /\ listeners \in [Names -> Seq(Handlers)]
      /\ \A i \in 1 .. Len(stack) : stack[i] \in Sleeps
      /\ DOMAIN stack = 1 .. Len(stack) /\ Len(stack) \in Nat
  BY DEF IInv, TypeOK, ArraysOf
<1>2. /\ listeners' = [listeners EXCEPT ![name] = Append(@, h)]
      /\ changes' = changes + 1 /\ changes < MaxChanges
      /\ UNCHANGED <<sleepers, raised, taken, latest>>
      /\ stack' = [i \in 1 .. Len(stack) |->
                     IF stack[i].shared /\ Event(stack[i]) = name
                       THEN [stack[i] EXCEPT !.arr = Append(@, h)] ELSE stack[i]]
  BY <1>1 DEF On
<1>3. \A n \in Names : listeners'[n] = IF n = name THEN Append(listeners[n], h)
                                       ELSE listeners[n]
  BY <1>1, <1>2
<1>4. ASSUME NEW i \in 1 .. Len(stack)
      PROVE  /\ stack'[i] \in Sleeps /\ Within(stack'[i], listeners')
             /\ stack'[i].slept = stack[i].slept /\ stack'[i].no = stack[i].no
  <2> DEFINE f == stack[i]
             g == [f EXCEPT !.arr = Append(@, h)]
  <2>1. f \in Sleeps /\ Within(f, listeners) /\ Event(f) \in Names
    BY <1>1, SignalsAssumption DEF IInv, Walks, Event, Sleeps
  <2>2. stack'[i] = IF f.shared /\ Event(f) = name THEN g ELSE f
    BY <1>2
  <2> HIDE DEF f
  <2>3. CASE f.shared /\ Event(f) = name
    <3>1. /\ f.arr \in Seq(Handlers) /\ f.length \in Nat /\ f.length =< Len(f.arr)
          /\ f.arr = listeners[name]
      BY <2>1, <2>3 DEF Sleeps, ArraysOf, Within
    <3>2. /\ g \in Sleeps /\ g.arr = Append(f.arr, h) /\ g.length = f.length
          /\ g.next = f.next /\ g.due = f.due /\ g.stayed = f.stayed /\ g.slept = f.slept
          /\ g.no = f.no /\ Event(g) = Event(f)
      <4>1. Append(f.arr, h) \in ArraysOf(Handlers)
        BY <3>1 DEF ArraysOf
      <4> QED BY <2>1, <4>1 DEF Sleeps, Event
    <3> HIDE DEF g
    <3>3. Elements(g.arr, g.length) = f.due
      BY <2>1, <3>1, <3>2, ElementsAppend DEF Within
    <3>4. g.length =< Len(g.arr)
      BY <3>1, <3>2
    <3>5. g.arr = listeners'[name]
      BY <1>3, <3>1, <3>2
    <3>6. stack'[i] = g
      BY <2>2, <2>3
    <3>7. /\ g.length =< Len(g.arr)
          /\ g.next \in 1 .. g.length + 1
          /\ Elements(g.arr, g.length) = g.due
          /\ g.stayed \subseteq g.due
          /\ g.shared => g.arr = listeners'[Event(g)]
      BY <2>1, <2>3, <3>2, <3>3, <3>4, <3>5 DEF Within
    <3> QED BY <3>2, <3>6, <3>7 DEF Within, Event, f
  <2>4. CASE ~(f.shared /\ Event(f) = name)
    <3>1. stack'[i] = f
      BY <2>2, <2>4
    <3>2. f.shared => f.arr = listeners'[Event(f)]
      BY <1>3, <2>1, <2>4 DEF Within
    <3> QED BY <2>1, <3>1, <3>2 DEF Within, Event, f
  <2> QED BY <2>3, <2>4
<1>5. stack' \in Seq(Sleeps) /\ Len(stack') = Len(stack)
  <2>1. DOMAIN stack' = 1 .. Len(stack)
    BY <1>2
  <2>2. stack' \in [1 .. Len(stack) -> Sleeps]
    BY <1>2, <1>4
  <2> QED BY <1>1, <2>1, <2>2, LenProperties, SeqDef
<1>6. TypeOK'
  <2>1. changes' \in 0 .. MaxChanges
    BY <1>2, SignalsAssumption DEF IInv, TypeOK
  <2>2. listeners' \in [Names -> Seq(Handlers)]
    BY <1>1, <1>2
  <2> QED BY <1>2, <1>5, <2>1, <2>2 DEF IInv, TypeOK, ArraysOf
<1>7. Walks'
  BY <1>4, <1>5 DEF Walks
<1>8. Newest'
  BY <1>2, <1>4, <1>5 DEF IInv, Newest
<1> QED BY <1>6, <1>7, <1>8 DEF IInv

LEMMA DeregisterStep ==
  ASSUME IInv, NEW name \in Names, NEW h \in Handlers, Deregister(name, h)
  PROVE  IInv'
<1>1. /\ stack \in Seq(Sleeps) /\ listeners \in [Names -> Seq(Handlers)]
      /\ \A i \in 1 .. Len(stack) : stack[i] \in Sleeps
      /\ DOMAIN stack = 1 .. Len(stack) /\ Len(stack) \in Nat
  BY DEF IInv, TypeOK, ArraysOf
<1>2. /\ listeners' = [listeners EXCEPT ![name] = Without(@, h)]
      /\ changes' = changes + 1 /\ changes < MaxChanges
      /\ UNCHANGED <<sleepers, raised, taken, latest>>
      /\ stack' = [i \in 1 .. Len(stack) |->
                     IF Event(stack[i]) = name
                       THEN [stack[i] EXCEPT !.shared = FALSE, !.stayed = @ \ {h}]
                       ELSE stack[i]]
  BY <1>1 DEF Deregister
<1>3. \A n \in Names : n # name => listeners'[n] = listeners[n]
  BY <1>1, <1>2
<1>4. ASSUME NEW i \in 1 .. Len(stack)
      PROVE  /\ stack'[i] \in Sleeps /\ Within(stack'[i], listeners')
             /\ stack'[i].slept = stack[i].slept /\ stack'[i].no = stack[i].no
  <2> DEFINE f == stack[i]
             g == [f EXCEPT !.shared = FALSE, !.stayed = @ \ {h}]
  <2>1. f \in Sleeps /\ Within(f, listeners) /\ Event(f) \in Names
    BY <1>1, SignalsAssumption DEF IInv, Walks, Event, Sleeps
  <2>2. stack'[i] = IF Event(f) = name THEN g ELSE f
    BY <1>2
  <2> HIDE DEF f
  <2>3. CASE Event(f) = name
    <3>1. /\ g \in Sleeps /\ g.arr = f.arr /\ g.length = f.length /\ ~g.shared
          /\ g.next = f.next /\ g.due = f.due /\ g.stayed = f.stayed \ {h}
          /\ g.slept = f.slept /\ g.no = f.no
      BY <2>1 DEF Sleeps
    <3> HIDE DEF g
    <3>2. stack'[i] = g
      BY <2>2, <2>3
    <3> QED BY <2>1, <3>1, <3>2 DEF Within, Event, f
  <2>4. CASE Event(f) # name
    <3>1. stack'[i] = f
      BY <2>2, <2>4
    <3>2. f.shared => f.arr = listeners'[Event(f)]
      BY <1>3, <2>1, <2>4 DEF Within
    <3> QED BY <2>1, <3>1, <3>2 DEF Within, Event, f
  <2> QED BY <2>3, <2>4
<1>5. stack' \in Seq(Sleeps) /\ Len(stack') = Len(stack)
  <2>1. DOMAIN stack' = 1 .. Len(stack)
    BY <1>2
  <2>2. stack' \in [1 .. Len(stack) -> Sleeps]
    BY <1>2, <1>4
  <2> QED BY <1>1, <2>1, <2>2, LenProperties, SeqDef
<1>6. TypeOK'
  <2>1. changes' \in 0 .. MaxChanges
    <3>1. changes \in 0 .. MaxChanges /\ MaxChanges \in Nat
      BY SignalsAssumption DEF IInv, TypeOK
    <3>2. changes' = changes + 1 /\ changes < MaxChanges
      BY <1>2
    <3> QED BY <3>1, <3>2
  <2>2. listeners' \in [Names -> Seq(Handlers)]
    BY <1>1, <1>2, WithoutType
  <2> QED BY <1>2, <1>5, <2>1, <2>2 DEF IInv, TypeOK, ArraysOf
<1>7. Walks'
  BY <1>4, <1>5 DEF Walks
<1>8. Newest'
  BY <1>2, <1>4, <1>5 DEF IInv, Newest
<1> QED BY <1>6, <1>7, <1>8 DEF IInv

LEMMA NextIInv == IInv /\ [Next]_vars => IInv'
<1> SUFFICES ASSUME IInv, [Next]_vars PROVE IInv'
  OBVIOUS
<1>0. /\ stack \in Seq(Sleeps) /\ listeners \in [Names -> Seq(Handlers)]
      /\ latest \in [Handlers -> 0 .. MaxSignals] /\ raised \in BOOLEAN
      /\ taken \in 0 .. MaxSignals /\ MaxSignals \in Nat
      /\ \A h \in Handlers : latest[h] =< taken
  BY SignalsAssumption DEF IInv, TypeOK, ArraysOf, Newest
<1>t. stack # <<>> => /\ Depth \in 1 .. Len(stack) /\ Top = stack[Depth] /\ Top \in Sleeps
                      /\ Within(Top, listeners) /\ Top.no =< MaxSignals /\ Top.no \in Nat
  <2> SUFFICES ASSUME stack # <<>>
               PROVE  /\ Depth \in 1 .. Len(stack) /\ Top = stack[Depth] /\ Top \in Sleeps
                      /\ Within(Top, listeners) /\ Top.no =< MaxSignals /\ Top.no \in Nat
    OBVIOUS
  <2>1. Depth \in 1 .. Len(stack) /\ Top = stack[Depth]
    BY <1>0 DEF Depth, Top
  <2>2. Top \in Sleeps /\ Within(Top, listeners)
    BY <1>0, <2>1 DEF IInv, Walks
  <2>3. Top.no \in 1 .. MaxSignals
    BY <2>2 DEF Sleeps
  <2> QED BY <1>0, <2>1, <2>2, <2>3
<1>1. ASSUME Call PROVE IInv'
  <2> DEFINE f == [Top EXCEPT !.busy = TRUE, !.next = @ + 1]
  <2>1. stack # <<>> /\ Top.next =< Top.length /\ Top.next =< Len(Top.arr)
    BY <1>1 DEF Call, Walking, MoreToCall
  <2>2. f \in Sleeps /\ f.slept = Top.slept /\ f.no = Top.no
    <3>1. Top.next + 1 \in Nat /\ Top \in Sleeps
      BY <1>t, <2>1 DEF Sleeps
    <3> QED BY <3>1 DEF Sleeps
  <2>3. Within(f, listeners)
    BY <1>t, <2>1 DEF Within, Event, Sleeps
  <2>4. /\ latest' \in [Handlers -> 0 .. MaxSignals]
        /\ \A h \in Handlers : latest'[h] =< taken
    <3> DEFINE to == IF latest[Top.arr[Top.next]] > Top.no THEN latest[Top.arr[Top.next]]
                     ELSE Top.no
    <3>1. latest' = [latest EXCEPT ![Top.arr[Top.next]] = to]
      BY <1>1 DEF Call
    <3>2. Top.arr[Top.next] \in Handlers
      BY <1>t, <2>1 DEF Sleeps, ArraysOf, Within
    <3>3. Top.no \in 1 .. MaxSignals /\ Top.no =< taken
      BY <1>0, <1>t, <2>1 DEF IInv, Newest, Sleeps
    <3>4. to \in 0 .. MaxSignals /\ to =< taken
      BY <1>0, <3>2, <3>3
    <3> HIDE DEF to
    <3> QED BY <1>0, <3>1, <3>4
  <2>5. stack' = OnTop(f) /\ UNCHANGED <<sleepers, listeners, raised, taken, changes>>
    BY <1>1 DEF Call
  <2> HIDE DEF f
  <2> QED BY <2>1, <2>2, <2>3, <2>4, <2>5, TopStep
<1>2. ASSUME EmitNamed PROVE IInv'
  <2> DEFINE f == Emitting(Top, TRUE)
  <2>1. stack # <<>>
    BY <1>2 DEF EmitNamed, Walking
  <2>2. f \in Sleeps /\ Within(f, listeners) /\ f.slept = Top.slept /\ f.no = Top.no
    BY <1>0, <1>t, <2>1, EmittingFrame
  <2>3. /\ stack' = OnTop(f)
        /\ UNCHANGED <<sleepers, listeners, raised, taken, changes, latest>>
    BY <1>2 DEF EmitNamed
  <2> HIDE DEF f
  <2> QED BY <1>0, <2>1, <2>2, <2>3, TopStep
<1>3. ASSUME SleepReturns PROVE IInv'
  BY <1>0, <1>3, PopStep DEF SleepReturns, Walking
<1>4. ASSUME Return PROVE IInv'
  <2> DEFINE f == [Top EXCEPT !.busy = FALSE]
  <2>1. stack # <<>>
    BY <1>4 DEF Return
  <2>2. f \in Sleeps /\ f.slept = Top.slept /\ f.no = Top.no
    BY <1>t, <2>1 DEF Sleeps
  <2>3. Within(f, listeners)
    BY <1>t, <2>1 DEF Within, Event, Sleeps
  <2>4. /\ stack' = OnTop(f)
        /\ UNCHANGED <<sleepers, listeners, raised, taken, changes, latest>>
    BY <1>4 DEF Return
  <2> HIDE DEF f
  <2> QED BY <1>0, <2>1, <2>2, <2>3, <2>4, TopStep
<1>5. ASSUME Throw \/ Rethrow PROVE IInv'
  BY <1>0, <1>5, PopStep DEF Throw, Rethrow
<1>6. ASSUME Catch PROVE IInv'
  BY <1>6 DEF Catch, IInv, TypeOK, Walks, Within, Event, Newest
<1>7. ASSUME NEW n \in Names, Sleep(n) PROVE IInv'
  BY <1>7, SleepStep
<1>8. ASSUME NEW n \in Names, NEW h \in Handlers, On(n, h) PROVE IInv'
  BY <1>8, OnStep
<1>9. ASSUME NEW n \in Names, NEW h \in Handlers, Deregister(n, h) PROVE IInv'
  BY <1>9, DeregisterStep
<1>10. CASE UNCHANGED vars
  BY <1>10 DEF vars, IInv, TypeOK, Walks, Within, Event, Newest
<1> QED BY <1>1, <1>2, <1>3, <1>4, <1>5, <1>6, <1>7, <1>8, <1>9, <1>10
        DEF Next, Delivery, Leave

LEMMA Invariant == Spec => []IInv
<1> QED BY InitIInv, NextIInv, PTL DEF Spec

-----------------------------------------------------------------------------
(* Theorems.                                                               *)

\* Every array, walk and signal keeps its type, however deep deliveries nest.
THEOREM TypeCorrect == Spec => []TypeOK
<1>1. IInv => TypeOK
  BY DEF IInv
<1> QED BY <1>1, Invariant, PTL

\* An emission that ends has called all the handlers it had to and no other,
\* whatever its listeners registered, deregistered and delivered meanwhile.
THEOREM ListenersAreRight == Spec => RightListeners
<1> DEFINE Right == EmitNamed \/ SleepReturns =>
                      Top.stayed \subseteq Heard(Top) /\ Heard(Top) \subseteq Top.due
<1>1. IInv /\ [Next]_vars => [Right]_vars
  <2> SUFFICES ASSUME IInv, EmitNamed \/ SleepReturns
               PROVE  Top.stayed \subseteq Heard(Top) /\ Heard(Top) \subseteq Top.due
    OBVIOUS
  <2>1. stack # <<>> /\ ~MoreToCall(Top)
    BY DEF EmitNamed, SleepReturns, Walking
  <2>2. Top \in Sleeps /\ Within(Top, listeners)
    <3>1. Depth \in 1 .. Len(stack) /\ Top = stack[Depth]
      BY <2>1 DEF Depth, Top, IInv, TypeOK
    <3> QED BY <3>1 DEF IInv, TypeOK, Walks
  <2>3. Top.next - 1 = Top.length
    <3>1. /\ Top.length \in Nat /\ Top.next \in Nat /\ Len(Top.arr) \in Nat
          /\ Top.length =< Len(Top.arr) /\ Top.next \in 1 .. Top.length + 1
      BY <2>2 DEF Sleeps, ArraysOf, Within
    <3>2. ~(Top.next =< Top.length /\ Top.next =< Len(Top.arr))
      BY <2>1 DEF MoreToCall
    <3> QED BY <3>1, <3>2
  <2> QED BY <2>2, <2>3 DEF Heard, Within
<1> QED BY <1>1, Invariant, PTL DEF Spec, RightListeners

\* Signals reach a handler in order, unless a listener sleeps.
THEOREM OrderedButForSleeps == Spec => OvertakenOnlyAcrossSleep
<1> DEFINE InOrder == Call => LET h == Top.arr[Top.next]
                              IN  latest[h] =< Top.no \/ Top.slept
<1>1. IInv /\ [Next]_vars => [InOrder]_vars
  <2> SUFFICES ASSUME IInv, Call, ~Top.slept
               PROVE  latest[Top.arr[Top.next]] =< Top.no
    OBVIOUS
  <2>1. stack # <<>> /\ Top.next =< Len(Top.arr)
    BY DEF Call, Walking, MoreToCall
  <2>2. Depth \in 1 .. Len(stack) /\ Top = stack[Depth]
    BY <2>1 DEF Depth, Top, IInv, TypeOK
  <2>3. Top \in Sleeps /\ Within(Top, listeners) /\ Top.no = taken
    BY <2>2 DEF IInv, TypeOK, Walks, Newest
  <2>4. Top.arr[Top.next] \in Handlers
    BY <2>1, <2>3 DEF Sleeps, ArraysOf, Within
  <2> QED BY <2>3, <2>4 DEF IInv, Newest
<1> QED BY <1>1, Invariant, PTL DEF Spec, OvertakenOnlyAcrossSleep
=============================================================================
