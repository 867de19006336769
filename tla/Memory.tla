------------------------------- MODULE Memory -------------------------------
(***************************************************************************)
(* The memory accounting of the Duktape engine (engine_alloc,              *)
(* engine_realloc and engine_free of native/src/duktape/                   *)
(* DuktapeEngineNative.cpp) and its limit, which JSArchitectureBase sets   *)
(* from the memory that is installed.                                      *)
(*                                                                         *)
(* The heap belongs to the script's thread.  The limit is written by the   *)
(* server's thread without a lock, so reading it and counting the block    *)
(* are two steps.  When a block is asked for, what the heap does with it   *)
(* and when it collects garbage is Duktape's: it calls the three functions *)
(* in any order that the contract of malloc allows.                        *)
(***************************************************************************)
EXTENDS Integers, FiniteSets, Functions

CONSTANTS
  Blocks,   \* addresses the allocator can give out
  Sizes,    \* what Duktape asks for
  Header,   \* sizeof(alloc_struct)
  Limits,   \* what recomputeMemory computes
  Default   \* the limit of a new engine

ASSUME MemoryAssumption ==
  /\ Sizes \subseteq Nat /\ Header \in Nat \ {0}
  /\ Limits \subseteq Nat /\ Default \in Nat
  /\ IsFiniteSet(Blocks)

VARIABLES
  \* JSArchitectureBase
  initialized,
  \* the engine
  engine,    \* "none", "live" or "destroyed" (the heap is being freed)
  maxMemory,
  allocatedMemory,
  size,      \* header of each block: its size, or NotAllocated
  growing,   \* block and size that passed the check and is not counted yet
  \* history
  largest    \* the largest limit this engine has had

vars == <<initialized, engine, maxMemory, allocatedMemory, size, growing, largest>>

NotAllocated == -1
Live == {b \in Blocks : size[b] # NotAllocated}
Optional(S) == {{}} \cup {{x} : x \in S}

\* That the count is never negative is part of CountIsSum.
TypeOK ==
  /\ initialized \in BOOLEAN
  /\ engine \in {"none", "live", "destroyed"}
  /\ maxMemory \in Limits \cup {Default} /\ largest \in Limits \cup {Default}
  /\ allocatedMemory \in Int
  /\ size \in [Blocks -> {NotAllocated} \cup {n + Header : n \in Sizes}]
  /\ growing \in Optional([block : Blocks, total : {n + Header : n \in Sizes}])

Init ==
  /\ initialized = FALSE /\ engine = "none"
  /\ maxMemory = Default /\ largest = Default
  /\ allocatedMemory = 0
  /\ size = [b \in Blocks |-> NotAllocated]
  /\ growing = {}

-----------------------------------------------------------------------------
(* The machine.                                                            *)

\* createEngine: a new object with the limit of its initialiser.
Initialize ==
  /\ ~initialized /\ engine = "none"
  /\ initialized' = TRUE /\ engine' = "live"
  /\ maxMemory' = Default /\ largest' = Default
  /\ allocatedMemory' = 0
  /\ size' = [b \in Blocks |-> NotAllocated]
  /\ growing' = {}

\* Without an engine what is computed is not kept.
RecomputeMemory ==
  /\ \E limit \in Limits :
       IF initialized
         THEN /\ maxMemory' = limit
              /\ largest' = IF limit > largest THEN limit ELSE largest
         ELSE UNCHANGED <<maxMemory, largest>>
  /\ UNCHANGED <<initialized, engine, allocatedMemory, size, growing>>

\* close(), on the thread that also recomputes the memory.  The script's thread
\* ends before the heap is destroyed, and nowhere within an allocation;
\* duk_destroy_heap frees what there is.
Close ==
  /\ engine = "live" /\ growing = {}
  /\ initialized' = FALSE /\ engine' = "destroyed"
  /\ UNCHANGED <<maxMemory, allocatedMemory, size, growing, largest>>

Destroyed ==
  /\ engine = "destroyed" /\ Live = {}
  /\ engine' = "none"
  /\ UNCHANGED <<initialized, maxMemory, allocatedMemory, size, growing, largest>>

-----------------------------------------------------------------------------
(* The allocator.                                                          *)

Growth(b, total) == total - (IF b \in Live THEN size[b] ELSE 0)

\* Mutant: the block that is asked for is left out.
FitsAlone(b, total) == allocatedMemory =< maxMemory

Fits(b, total) == allocatedMemory + Growth(b, total) =< maxMemory

\* engine_alloc, or engine_realloc of a larger size: a null pointer if it does
\* not fit, with which Duktape collects garbage, tries again or throws.
Grow(b, total) ==
  /\ engine = "live" /\ growing = {}
  /\ Growth(b, total) > 0
  /\ growing' = IF Fits(b, total) THEN {[block |-> b, total |-> total]} ELSE {}
  /\ UNCHANGED <<initialized, engine, maxMemory, allocatedMemory, size, largest>>

Count ==
  \E g \in growing :
    /\ allocatedMemory' = allocatedMemory + Growth(g.block, g.total)
    /\ size' = [size EXCEPT ![g.block] = g.total]
    /\ growing' = {}
    /\ UNCHANGED <<initialized, engine, maxMemory, largest>>

\* Mutant: the header of the block that shrank keeps its old size.
ShrinkKeepsHeader(b, total) ==
  /\ engine = "live" /\ growing = {}
  /\ b \in Live /\ Growth(b, total) =< 0
  /\ allocatedMemory' = allocatedMemory + Growth(b, total)
  /\ UNCHANGED <<initialized, engine, maxMemory, size, growing, largest>>

Shrink(b, total) ==
  /\ engine = "live" /\ growing = {}
  /\ b \in Live /\ Growth(b, total) =< 0
  /\ allocatedMemory' = allocatedMemory + Growth(b, total)
  /\ size' = [size EXCEPT ![b] = total]
  /\ UNCHANGED <<initialized, engine, maxMemory, growing, largest>>

\* "BAD FREE, MEMORY WOULD GO NEGATIVE".
BadFree(b) == allocatedMemory < size[b]

Free(b) ==
  /\ engine # "none" /\ growing = {}
  /\ b \in Live
  /\ allocatedMemory' = IF BadFree(b) THEN 0 ELSE allocatedMemory - size[b]
  /\ size' = [size EXCEPT ![b] = NotAllocated]
  /\ UNCHANGED <<initialized, engine, maxMemory, growing, largest>>

-----------------------------------------------------------------------------
Allocator ==
  \/ \E b \in Blocks, n \in Sizes : Grow(b, n + Header) \/ Shrink(b, n + Header)
  \/ \E b \in Blocks : Free(b)
  \/ Count

Next == Initialize \/ RecomputeMemory \/ Close \/ Destroyed \/ Allocator

Spec == Init /\ [][Next]_vars

-----------------------------------------------------------------------------
(* Properties.                                                             *)

\* What usedMemory reports is the sum of the live blocks with their headers,
\* after any number of reallocations: so no free ever finds it too small, and
\* a destroyed heap leaves nothing.
CountIsSum ==
  /\ allocatedMemory = SumFunctionOnSet(size, Live)
  /\ \A b \in Live : ~BadFree(b)

\* However the limit is changed under the allocator's feet, the memory of an
\* engine never exceeds the largest limit it has been given.
WithinLargest == allocatedMemory =< largest
=============================================================================
