---------------------------- MODULE RequireProofs ----------------------------
(***************************************************************************)
(* Proofs about Require, for any modules and bounds.                       *)
(*                                                                         *)
(* What is evaluated is known from the stack: the oldest evaluation keeps  *)
(* the exports of the boot, and, if the names can be ranked such that each *)
(* module requires lower ones only, ranks fall from the bottom of the      *)
(* stack to its top, so that no name is evaluated within itself.           *)
(***************************************************************************)
EXTENDS Require, SequenceTheorems, TLAPS

Exports == [path : Paths, no : Nat]
Frames == [value : Exports, next : 1 .. MaxDeps + 1, old : Values]

\* TypeOK, and what is cached or evaluated is the exports of a module.
Typed ==
  /\ name \in [Paths -> Paths]
  /\ deps \in [Paths -> DepLists]
  /\ kind \in [Paths -> Kinds]
  /\ modules \in [Paths -> SUBSET Exports]
  /\ exports \in Values
  /\ stack \in Seq(Frames) /\ Len(stack) =< MaxDepth
  /\ evals \in Nat
  /\ raised \in BOOLEAN

OldestKeepsBoot == stack # <<>> => stack[1].old = Boot

IInv == Typed /\ CacheHoldsOwn /\ ExportsRestored /\ OldestKeepsBoot

\* rank is one of those that Acyclic asks for.
Ranks(rank) ==
  /\ rank \in [Paths -> 1 .. Cardinality(Paths)]
  /\ \A p \in Paths, i \in 1 .. MaxDeps :
       i \in DOMAIN deps[p] => rank[name[deps[p][i]]] < rank[name[p]]

NameAt(i) == name[stack[i].value.path]

RanksFall ==
  \A rank \in [Paths -> 1 .. Cardinality(Paths)] : Ranks(rank) =>
    \A i, j \in DOMAIN stack : i < j => rank[NameAt(j)] < rank[NameAt(i)]

\* What is being evaluated is not cached yet.
PendingNotCached == Acyclic => \A i \in DOMAIN stack : modules[NameAt(i)] = {}

-----------------------------------------------------------------------------
LEMMA DepListShape ==
  ASSUME NEW list \in DepLists
  PROVE  \E n \in 0 .. MaxDeps : list \in [1 .. n -> Paths]
<1>1. PICK S \in {[1 .. n -> Paths] : n \in 0 .. MaxDeps} : list \in S
  BY DEF DepLists
<1> QED BY <1>1

\* Frames are pushed on, advanced and popped.
LEMMA AdvancedTyped ==
  ASSUME Typed, stack = <<>> \/ Frame.next \in DOMAIN deps[Module]
  PROVE  /\ Advanced \in Seq(Frames)
         /\ Len(Advanced) = Len(stack)
         /\ \A i \in DOMAIN stack : /\ Advanced[i].value = stack[i].value
                                    /\ Advanced[i].old = stack[i].old
<1>1. CASE stack = <<>>
  BY <1>1 DEF Advanced, Typed
<1>2. CASE stack # <<>> /\ Frame.next \in DOMAIN deps[Module]
  <2>1. Depth \in 1 .. Len(stack) /\ Depth = Len(stack) /\ stack[Depth] \in Frames
    BY <1>2 DEF Typed, Depth
  <2>2. PICK n \in 0 .. MaxDeps : deps[Module] \in [1 .. n -> Paths]
    BY <2>1, DepListShape DEF Typed, Module, Frame, Frames, Exports
  <2>3. Frame.next \in 1 .. MaxDeps
    BY <1>2, <2>2, RequireBounds
  <2>4. [stack[Depth] EXCEPT !.next = @ + 1] \in Frames
    BY <2>1, <2>3, RequireBounds DEF Frames, Frame
  <2>5. Advanced = [stack EXCEPT ![Depth] = [stack[Depth] EXCEPT !.next = @ + 1]]
    BY <1>2 DEF Advanced
  <2>6. Advanced \in Seq(Frames) /\ Len(Advanced) = Len(stack)
    BY <2>1, <2>4, <2>5 DEF Typed
  <2>7. \A i \in DOMAIN stack : /\ Advanced[i].value = stack[i].value
                                /\ Advanced[i].old = stack[i].old
    BY <2>1, <2>5 DEF Typed, Frames
  <2> QED BY <2>6, <2>7
<1> QED BY <1>1, <1>2

LEMMA PopTyped ==
  ASSUME Typed, stack # <<>>
  PROVE  /\ Pop \in Seq(Frames) /\ Len(Pop) = Len(stack) - 1
         /\ \A i \in 1 .. Len(stack) - 1 : Pop[i] = stack[i]
         /\ Depth = Len(stack) /\ Depth \in DOMAIN stack
         /\ Frame \in Frames /\ Module \in Paths /\ name[Module] \in Paths
<1>1. Depth \in 1 .. Len(stack) /\ stack[Depth] \in Frames
  BY DEF Typed, Depth
<1>2. Pop \in Seq(Frames) /\ Len(Pop) = Len(stack) - 1
      /\ \A i \in 1 .. Len(stack) - 1 : Pop[i] = stack[i]
  <2>1. Len(stack) \in Nat /\ \A i \in 1 .. Len(stack) - 1 : stack[i] \in Frames
    BY DEF Typed
  <2> DEFINE n == Len(stack) - 1
  <2>2. n \in Int /\ n >= 0 /\ Pop = SubSeq(stack, 1, n)
    BY <1>1, <2>1 DEF Pop, Depth
  <2> HIDE DEF n
  <2>3. /\ SubSeq(stack, 1, n) \in Seq(Frames)
        /\ Len(SubSeq(stack, 1, n)) = IF 1 <= n THEN n - 1 + 1 ELSE 0
        /\ \A i \in 1 .. n - 1 + 1 : SubSeq(stack, 1, n)[i] = stack[1 + i - 1]
    <3>1. \A i \in 1 .. n : stack[i] \in Frames
      BY <2>1 DEF n
    <3> QED BY <2>2, <3>1, SubSeqProperties
  <2>4. Len(Pop) = n /\ \A i \in 1 .. n : Pop[i] = stack[i]
    BY <2>2, <2>3
  <2> QED BY <2>2, <2>3, <2>4 DEF n
<1> QED BY <1>1, <1>2 DEF Typed, Depth, Frame, Module, Frames, Exports

\* Every call of apply, from the kernel or from a module.
Applies(p) == Apply(p) /\ UNCHANGED config
              /\ (stack = <<>> \/ Frame.next \in DOMAIN deps[Module])

LEMMA RequiresApply ==
  ASSUME Typed, KernelRequires \/ ModuleRequires
  PROVE  \E p \in Paths :
           Applies(p) /\ (stack # <<>> => /\ Frame.next \in DOMAIN deps[Module]
                                          /\ p = deps[Module][Frame.next])
<1>1. CASE KernelRequires
  BY <1>1 DEF KernelRequires, Applies
<1>2. CASE ModuleRequires
  <2>1. Module \in Paths
    BY <1>2, PopTyped DEF ModuleRequires
  <2>2. PICK n \in 0 .. MaxDeps : deps[Module] \in [1 .. n -> Paths]
    BY <2>1, DepListShape DEF Typed
  <2>3. deps[Module][Frame.next] \in Paths
    BY <1>2, <2>2 DEF ModuleRequires
  <2> QED BY <1>2, <2>3 DEF ModuleRequires, Applies
<1> QED BY <1>1, <1>2

-----------------------------------------------------------------------------
LEMMA InitIInv == Init => IInv
<1> SUFFICES ASSUME Init PROVE IInv
  OBVIOUS
<1>1. name \in [Paths -> Paths] /\ kind \in [Paths -> Kinds] /\ deps \in [Paths -> DepLists]
  BY DEF Init, Names
<1>2. modules \in [Paths -> SUBSET Exports] /\ CacheHoldsOwn
  BY DEF Init, CacheHoldsOwn
<1>3. stack \in Seq(Frames) /\ Len(stack) =< MaxDepth /\ evals \in Nat
  BY RequireBounds DEF Init
<1>4. exports \in Values /\ raised \in BOOLEAN
  BY DEF Init, Values
<1> QED BY <1>1, <1>2, <1>3, <1>4 DEF Init, IInv, Typed, ExportsRestored, OldestKeepsBoot

LEMMA ApplyIInv ==
  ASSUME IInv, NEW p \in Paths, Applies(p)
  PROVE  IInv'
<1>1. /\ Advanced \in Seq(Frames) /\ Len(Advanced) = Len(stack)
      /\ \A i \in DOMAIN stack : Advanced[i].old = stack[i].old
  BY AdvancedTyped DEF IInv, Applies
<1>2. UNCHANGED config /\ ~raised
  BY DEF Applies, Apply
<1>3. CASE Cached(p) \/ NotFound(p) \/ Overflow(p)
  <2>1. stack' = Advanced /\ UNCHANGED <<modules, exports, evals>> /\ raised' \in BOOLEAN
        /\ (Overflow(p) => raised') /\ (~Overflow(p) => raised' = raised)
    BY <1>3 DEF Cached, NotFound, Overflow, IInv, Typed
  <2>2. Typed' /\ CacheHoldsOwn'
    BY <1>1, <1>2, <2>1 DEF IInv, Typed, CacheHoldsOwn, config
  <2>3. stack' = <<>> <=> stack = <<>>
    BY <1>1, <2>1 DEF IInv, Typed
  <2>4. stack # <<>> => stack'[1].old = stack[1].old
    BY <1>1, <2>1 DEF IInv, Typed
  <2> QED BY <1>2, <2>1, <2>2, <2>3, <2>4 DEF IInv, ExportsRestored, OldestKeepsBoot
<1>4. CASE Evaluate(p)
  <2> DEFINE value == [path |-> p, no |-> evals']
             frame == [value |-> value, next |-> 1, old |-> exports]
  <2>1. value \in Exports /\ evals' \in Nat
    BY <1>4 DEF Evaluate, IInv, Typed, Exports
  <2>2. frame \in Frames
    BY <2>1, RequireBounds DEF Frames, IInv, Typed
  <2>3. exports' = value /\ stack' = Append(Advanced, frame) /\ Depth < MaxDepth
        /\ UNCHANGED <<modules, raised>>
    BY <1>4 DEF Evaluate
  <2> HIDE DEF value, frame
  <2>4. /\ stack' \in Seq(Frames) /\ Len(stack') = Len(stack) + 1 /\ stack' # <<>>
        /\ \A i \in 1 .. Len(stack) : stack'[i] = Advanced[i]
        /\ stack'[Len(stack) + 1] = frame
    BY <1>1, <2>2, <2>3
  <2>5. Typed' /\ CacheHoldsOwn'
    <3>1. exports' \in Values
      BY <2>1, <2>3 DEF Values, Exports
    <3>2. Len(stack') =< MaxDepth
      BY <2>3, <2>4, RequireBounds DEF Depth, IInv, Typed
    <3> QED BY <1>2, <2>1, <2>3, <2>4, <3>1, <3>2 DEF IInv, Typed, CacheHoldsOwn, config
  <2>6. OldestKeepsBoot'
    <3>1. CASE stack = <<>>
      <4>1. exports = Boot
        BY <3>1, <1>2 DEF IInv, ExportsRestored
      <4>2. stack'[1] = frame
        BY <2>4, <3>1
      <4> QED BY <4>1, <4>2 DEF OldestKeepsBoot, frame
    <3>2. CASE stack # <<>>
      BY <1>1, <2>4, <3>2 DEF IInv, Typed, OldestKeepsBoot
    <3> QED BY <3>1, <3>2
  <2> QED BY <2>4, <2>5, <2>6 DEF IInv, ExportsRestored
<1> QED BY <1>3, <1>4 DEF Applies, Apply

LEMMA NextIInv ==
  ASSUME IInv, [Next]_vars
  PROVE  IInv'
<1>1. CASE KernelRequires \/ ModuleRequires
  BY <1>1, RequiresApply, ApplyIInv DEF IInv
<1>2. CASE Throw \/ Unwind
  <2>1. stack # <<>> /\ stack' = Pop /\ UNCHANGED <<config, modules, exports, evals>> /\ raised'
    BY <1>2 DEF Throw, Unwind
  <2>2. raised' \in BOOLEAN
    BY <1>2 DEF Throw, Unwind, IInv, Typed
  <2>3. Typed' /\ CacheHoldsOwn'
    <3>1. Pop \in Seq(Frames) /\ Len(Pop) =< MaxDepth
      BY <2>1, PopTyped, RequireBounds DEF IInv, Typed
    <3> QED BY <2>1, <2>2, <3>1 DEF IInv, Typed, CacheHoldsOwn, config
  <2>4. OldestKeepsBoot'
    BY <2>1, PopTyped DEF IInv, Typed, OldestKeepsBoot
  <2> QED BY <2>1, <2>3, <2>4 DEF IInv, ExportsRestored
<1>3. CASE Catch
  BY <1>3 DEF Catch, IInv, Typed, CacheHoldsOwn, ExportsRestored, OldestKeepsBoot, config
<1>4. CASE Finish
  <2>1. /\ stack # <<>> /\ stack' = Pop /\ exports' = Frame.old
        /\ modules' = [modules EXCEPT ![name[Module]] = {Frame.value}]
        /\ UNCHANGED <<config, evals, raised>>
    BY <1>4 DEF Finish
  <2>2. Frame \in Frames /\ Frame.value \in Exports /\ Frame.old \in Values
        /\ name[Module] \in Paths
    BY <2>1, PopTyped DEF IInv, Frames
  <2>3. Typed'
    <3>1. Pop \in Seq(Frames) /\ Len(Pop) =< MaxDepth
      BY <2>1, PopTyped, RequireBounds DEF IInv, Typed
    <3>2. modules' \in [Paths -> SUBSET Exports]
      BY <2>1, <2>2 DEF IInv, Typed
    <3> QED BY <2>1, <2>2, <3>1, <3>2 DEF IInv, Typed, config
  <2>4. CacheHoldsOwn'
    <3> SUFFICES ASSUME NEW n \in Paths, NEW value \in modules'[n]
                 PROVE  name[value.path] = n
      BY <2>1 DEF CacheHoldsOwn, config
    <3>1. CASE n = name[Module]
      <4>1. value = Frame.value
        BY <2>1, <2>2, <3>1 DEF IInv, Typed
      <4> QED BY <3>1, <4>1 DEF Module
    <3>2. CASE n # name[Module]
      BY <2>1, <2>2, <3>2 DEF IInv, Typed, CacheHoldsOwn
    <3> QED BY <3>1, <3>2
  <2>5. OldestKeepsBoot'
    BY <2>1, PopTyped DEF IInv, Typed, OldestKeepsBoot
  <2>6. ExportsRestored'
    <3>1. stack' = <<>> => Frame = stack[1]
      BY <2>1, PopTyped DEF IInv, Typed, Frame
    <3> QED BY <2>1, <3>1 DEF IInv, OldestKeepsBoot, ExportsRestored
  <2> QED BY <2>3, <2>4, <2>5, <2>6 DEF IInv
<1>5. CASE UNCHANGED vars
  BY <1>5 DEF vars, config, IInv, Typed, CacheHoldsOwn, ExportsRestored, OldestKeepsBoot
<1> QED BY <1>1, <1>2, <1>3, <1>4, <1>5 DEF Next, Execution

LEMMA AlwaysIInv == Spec => []IInv
BY InitIInv, NextIInv, PTL DEF Spec

-----------------------------------------------------------------------------
LEMMA InitRanks == Init => RanksFall /\ PendingNotCached
BY DEF Init, RanksFall, PendingNotCached

\* The values on the stack and the modules tell what RanksFall and
\* PendingNotCached say.
LEMMA RanksKept ==
  ASSUME Typed, RanksFall, PendingNotCached, UNCHANGED <<config, modules>>,
         DOMAIN stack' \subseteq DOMAIN stack,
         \A i \in DOMAIN stack' : stack'[i].value = stack[i].value
  PROVE  (RanksFall /\ PendingNotCached)'
<1>1. \A i \in DOMAIN stack' : NameAt(i)' = NameAt(i)
  BY DEF NameAt, config
<1>2. \A rank : Ranks(rank)' <=> Ranks(rank)
  BY DEF Ranks, config
<1>3. Acyclic' <=> Acyclic
  BY DEF Acyclic, config
<1>4. RanksFall'
  BY <1>1, <1>2 DEF RanksFall
<1> QED BY <1>1, <1>3, <1>4 DEF PendingNotCached

\* A module that is evaluated ranks below the one that requires it, and so below
\* all that are being evaluated.
LEMMA ApplyRanks ==
  ASSUME IInv, RanksFall, PendingNotCached,
         NEW p \in Paths, Applies(p),
         stack # <<>> => Frame.next \in DOMAIN deps[Module] /\ p = deps[Module][Frame.next]
  PROVE  (RanksFall /\ PendingNotCached)'
<1>1. /\ Advanced \in Seq(Frames) /\ Len(Advanced) = Len(stack)
      /\ \A i \in DOMAIN stack : Advanced[i].value = stack[i].value
  BY AdvancedTyped DEF IInv, Applies
<1>2. UNCHANGED <<config, modules>>
  BY DEF Applies, Apply, Cached, NotFound, Evaluate, Overflow
<1>3. DOMAIN stack = 1 .. Len(stack) /\ Len(stack) \in Nat
  BY DEF IInv, Typed
<1>4. CASE Cached(p) \/ NotFound(p) \/ Overflow(p)
  <2>1. stack' = Advanced
    BY <1>4 DEF Cached, NotFound, Overflow
  <2>2. DOMAIN stack' = DOMAIN stack
    BY <1>1, <1>3, <2>1
  <2> QED BY <1>1, <1>2, <2>1, <2>2, RanksKept DEF IInv
<1>5. CASE Evaluate(p)
  <2> DEFINE frame == [value |-> [path |-> p, no |-> evals'], next |-> 1, old |-> exports]
  <2>1. stack' = Append(Advanced, frame) /\ modules[name[p]] = {}
    BY <1>5 DEF Evaluate
  <2>0. PICK top \in Nat : top = Len(stack) + 1
    BY <1>3
  <2>2. /\ DOMAIN stack' = 1 .. top
        /\ \A i \in DOMAIN stack : stack'[i] = Advanced[i]
        /\ stack'[top] = frame
    <3> HIDE DEF frame
    <3>1. Advanced \in Seq(Frames \cup {frame})
      BY <1>1
    <3> QED BY <1>1, <1>3, <2>0, <2>1, <3>1
  <2>3. /\ \A i \in DOMAIN stack : NameAt(i)' = NameAt(i)
        /\ NameAt(top)' = name[p]
    BY <1>1, <1>2, <1>3, <2>0, <2>2 DEF NameAt, config
  <2>4. ASSUME NEW rank \in [Paths -> 1 .. Cardinality(Paths)], Ranks(rank),
               NEW i \in DOMAIN stack
        PROVE  rank[name[p]] < rank[NameAt(i)]
    <3>1. stack # <<>> /\ Depth = Len(stack) /\ Depth \in DOMAIN stack /\ Module \in Paths
          /\ Module = stack[Depth].value.path
      <4>1. stack # <<>>
        BY <2>4
      <4> QED BY <4>1, PopTyped DEF IInv, Module, Frame
    <3>2. PICK n \in 0 .. MaxDeps : deps[Module] \in [1 .. n -> Paths]
      BY <3>1, DepListShape DEF IInv, Typed
    <3>3. Frame.next \in 1 .. MaxDeps /\ Frame.next \in DOMAIN deps[Module]
      <4>1. Frame.next \in DOMAIN deps[Module]
        BY <3>1
      <4>2. Frame.next \in 1 .. n
        BY <3>2, <4>1
      <4> QED BY <4>1, <4>2, RequireBounds
    <3>4. rank[name[p]] < rank[NameAt(Depth)]
      BY <2>4, <3>1, <3>3 DEF Ranks, NameAt
    <3>5. i = Depth \/ rank[NameAt(Depth)] < rank[NameAt(i)]
      <4>1. i = Depth \/ i < Depth
        BY <1>3, <3>1
      <4> QED BY <2>4, <3>1, <4>1 DEF RanksFall
    <3>6. /\ name[p] \in Paths /\ NameAt(Depth) \in Paths /\ NameAt(i) \in Paths
      <4>1. stack[i] \in Frames /\ stack[Depth] \in Frames
        BY <3>1 DEF IInv, Typed
      <4>2. stack[i].value.path \in Paths /\ stack[Depth].value.path \in Paths
        BY <4>1 DEF Frames, Exports
      <4> QED BY <4>2 DEF IInv, Typed, NameAt
    <3>7. /\ rank[name[p]] \in 1 .. Cardinality(Paths)
          /\ rank[NameAt(Depth)] \in 1 .. Cardinality(Paths)
          /\ rank[NameAt(i)] \in 1 .. Cardinality(Paths)
      BY <2>4, <3>6
    <3>8. \A r \in 1 .. Cardinality(Paths) : r \in Int
      OBVIOUS
    <3> HIDE DEF NameAt
    <3> QED BY <3>4, <3>5, <3>7, <3>8
  <2>5. RanksFall'
    <3> SUFFICES ASSUME NEW rank \in [Paths -> 1 .. Cardinality(Paths)], Ranks(rank)',
                        NEW i \in DOMAIN stack', NEW j \in DOMAIN stack', i < j
                 PROVE  rank[NameAt(j)'] < rank[NameAt(i)']
      BY DEF RanksFall
    <3>1. Ranks(rank)
      BY <1>2 DEF Ranks, config
    <3>2. i \in DOMAIN stack
      BY <1>3, <2>0, <2>2
    <3>3. CASE j \in DOMAIN stack
      BY <2>3, <3>1, <3>2, <3>3 DEF RanksFall
    <3>4. CASE j = top
      BY <2>3, <2>4, <3>1, <3>2, <3>4
    <3> QED BY <1>3, <2>0, <2>2, <3>3, <3>4
  <2>6. PendingNotCached'
    <3> SUFFICES ASSUME Acyclic', NEW i \in DOMAIN stack'
                 PROVE  modules[NameAt(i)'] = {}
      BY <1>2 DEF PendingNotCached
    <3>1. Acyclic
      BY <1>2 DEF Acyclic, config
    <3>2. CASE i \in DOMAIN stack
      BY <2>3, <3>1, <3>2 DEF PendingNotCached
    <3>3. CASE i = top
      BY <2>1, <2>3, <3>3
    <3> QED BY <1>3, <2>0, <2>2, <3>2, <3>3
  <2> QED BY <2>5, <2>6
<1> QED BY <1>4, <1>5 DEF Applies, Apply

LEMMA NextRanks ==
  ASSUME IInv, RanksFall, PendingNotCached, [Next]_vars
  PROVE  (RanksFall /\ PendingNotCached)'
<1>1. CASE KernelRequires \/ ModuleRequires
  BY <1>1, RequiresApply, ApplyRanks DEF IInv
<1>2. CASE Throw \/ Unwind
  <2>1. stack # <<>> /\ stack' = Pop /\ UNCHANGED <<config, modules>>
    BY <1>2 DEF Throw, Unwind
  <2>2. DOMAIN stack' \subseteq DOMAIN stack /\ \A i \in DOMAIN stack' : stack'[i] = stack[i]
    BY <2>1, PopTyped DEF IInv, Typed
  <2> QED BY <2>1, <2>2, RanksKept DEF IInv
<1>3. CASE Catch \/ UNCHANGED vars
  <2>1. UNCHANGED <<config, modules, stack>>
    BY <1>3 DEF Catch, vars
  <2> QED BY <2>1, RanksKept DEF IInv
<1>4. CASE Finish
  <2>1. /\ stack # <<>> /\ stack' = Pop /\ UNCHANGED config
        /\ modules' = [modules EXCEPT ![name[Module]] = {Frame.value}]
    BY <1>4 DEF Finish
  <2>2. /\ \A i \in DOMAIN stack' : i \in DOMAIN stack /\ i < Depth /\ stack'[i] = stack[i]
        /\ Depth \in DOMAIN stack
    BY <2>1, PopTyped DEF IInv, Typed
  <2>3. \A i \in DOMAIN stack' : NameAt(i)' = NameAt(i)
    BY <2>1, <2>2 DEF NameAt, config
  <2>4. RanksFall'
    <3>1. \A rank : Ranks(rank)' <=> Ranks(rank)
      BY <2>1 DEF Ranks, config
    <3> QED BY <2>2, <2>3, <3>1 DEF RanksFall
  <2>5. PendingNotCached'
    <3> SUFFICES ASSUME Acyclic', NEW i \in DOMAIN stack'
                 PROVE  modules'[NameAt(i)'] = {}
      BY DEF PendingNotCached
    <3>1. PICK rank \in [Paths -> 1 .. Cardinality(Paths)] : Ranks(rank)
      BY <2>1 DEF Acyclic, Ranks, config
    <3>2. Acyclic
      BY <3>1 DEF Acyclic, Ranks
    <3>3. rank[NameAt(Depth)] < rank[NameAt(i)]
      BY <2>2, <3>1 DEF RanksFall
    <3>4. NameAt(i) # name[Module]
      <4>1. NameAt(Depth) = name[Module] /\ name[Module] \in Paths
        BY <2>1, PopTyped DEF NameAt, Module, Frame, IInv
      <4>2. rank[name[Module]] \in Int
        BY <3>1, <4>1
      <4> QED BY <3>3, <4>1, <4>2
    <3>5. NameAt(i) \in Paths
      <4>1. stack[i] \in Frames
        BY <2>2 DEF IInv, Typed
      <4>2. stack[i].value.path \in Paths
        BY <4>1 DEF Frames, Exports
      <4> QED BY <4>2 DEF IInv, Typed, NameAt
    <3> QED BY <2>1, <2>2, <2>3, <3>2, <3>4, <3>5 DEF IInv, Typed, PendingNotCached
  <2> QED BY <2>4, <2>5
<1> QED BY <1>1, <1>2, <1>3, <1>4 DEF Next, Execution

-----------------------------------------------------------------------------
\* Every variable of the loader keeps its type.
THEOREM TypeCorrect == Spec => []TypeOK
<1>1. ASSUME IInv PROVE TypeOK
  <2>1. \A n \in Paths : \A value \in modules[n] : value \in Values
    BY <1>1 DEF IInv, Typed, Values, Exports
  <2>2. \A i \in DOMAIN stack : /\ stack[i].value \in Values /\ stack[i].old \in Values
                                /\ stack[i].next \in 1 .. MaxDeps + 1
    <3> SUFFICES ASSUME NEW i \in DOMAIN stack
                 PROVE  /\ stack[i].value \in Values /\ stack[i].old \in Values
                        /\ stack[i].next \in 1 .. MaxDeps + 1
      OBVIOUS
    <3>1. stack[i] \in Frames
      BY <1>1 DEF IInv, Typed
    <3> QED BY <3>1 DEF Frames, Values, Exports
  <2> QED BY <1>1, <2>1, <2>2 DEF IInv, Typed, TypeOK
<1> QED BY <1>1, AlwaysIInv, PTL

\* What is cached under a name was exported by a module of that name.
THEOREM CachesAreTheirs == Spec => []CacheHoldsOwn
<1>1. IInv => CacheHoldsOwn
  BY DEF IInv
<1> QED BY <1>1, AlwaysIInv, PTL

\* Between the kernel's calls global.exports is that of the boot.
THEOREM ExportsComeBack == Spec => []ExportsRestored
<1>1. IInv => ExportsRestored
  BY DEF IInv
<1> QED BY <1>1, AlwaysIInv, PTL

\* Without cycles, what is cached under a name is never replaced: everybody who
\* requires it gets the same object.
THEOREM CachesAreStable == Spec => CacheStable
<1> DEFINE A == \A n \in Paths : modules[n] = {} \/ modules'[n] = modules[n] \/ ~Acyclic
<1>1. ASSUME IInv, PendingNotCached, [Next]_vars
      PROVE  [A]_vars
  <2>1. CASE Finish
    <3>1. stack # <<>> /\ modules' = [modules EXCEPT ![name[Module]] = {Frame.value}]
      BY <2>1 DEF Finish
    <3>2. Acyclic => modules[name[Module]] = {}
      BY <1>1, <3>1, PopTyped DEF IInv, PendingNotCached, NameAt, Module, Frame
    <3> QED BY <1>1, <3>1, <3>2 DEF IInv, Typed
  <2>2. CASE KernelRequires \/ ModuleRequires \/ Throw \/ Unwind \/ Catch
    <3>1. modules' = modules
      BY <2>2 DEF KernelRequires, ModuleRequires, Apply, Cached, NotFound, Evaluate,
                  Overflow, Throw, Unwind, Catch
    <3> QED BY <3>1
  <2>3. CASE UNCHANGED vars
    BY <2>3
  <2> QED BY <1>1, <2>1, <2>2, <2>3 DEF Next, Execution
<1> QED BY <1>1, InitIInv, NextIInv, InitRanks, NextRanks, PTL DEF Spec, CacheStable
=============================================================================
