------------------------------ MODULE Require -------------------------------
(***************************************************************************)
(* The module loader of the operating system (os.js/os/usr/kernel/         *)
(* require.ts): RequireImpl.apply with its cache, the modules it executes  *)
(* and the require() calls they make.                                      *)
(*                                                                         *)
(* Everything runs on the script's one thread.  A module is its list of    *)
(* require() calls and what may go wrong with it; the cache is keyed by    *)
(* the name of a module, its base name without the extension, which        *)
(* several paths may share.  The modules are chosen by Init.               *)
(*                                                                         *)
(* An exports object is known by the path of the module it was made for    *)
(* and by the number of the evaluation.                                    *)
(***************************************************************************)
EXTENDS Integers, Sequences, FiniteSets

CONSTANTS
  Paths,        \* what require() may be called with
  MaxDeps,      \* bound: require() calls in a module
  MaxDepth,     \* bound: evaluations nested before the engine's stack is full
  MaxEvals      \* bound: after so many evaluations the kernel requires nothing

ASSUME RequireBounds ==
  MaxDeps \in Nat /\ MaxDepth \in Nat \ {0} /\ MaxEvals \in Nat

VARIABLES
  \* the modules: fixed from the start
  name,     \* name of each path
  deps,     \* what each module requires, in order
  kind,     \* "plain", "faulty" (may throw), "catching" (has its require()
            \* calls in a try block) or "missing" (no file)
  \* RequireImpl
  modules,  \* the cache
  exports,  \* global.exports
  \* the executing modules
  stack,    \* evaluations in progress, the innermost last
  evals,    \* number of evaluations begun
  raised    \* an exception is propagating

config == <<name, deps, kind>>
vars == <<config, modules, exports, stack, evals, raised>>

Kinds == {"plain", "faulty", "catching", "missing"}

DepLists == UNION {[1 .. n -> Paths] : n \in 0 .. MaxDeps}

Boot == [path |-> "boot", no |-> 0]
Values == {Boot} \cup [path : Paths, no : Nat]
Optional(S) == {{}} \cup {{x} : x \in S}

TypeOK ==
  /\ name \in [Paths -> Paths]
  /\ deps \in [Paths -> DepLists]
  /\ kind \in [Paths -> Kinds]
  /\ \A n \in Paths : \A value \in modules[n] : value \in Values
  /\ exports \in Values
  /\ Len(stack) =< MaxDepth
  /\ \A i \in DOMAIN stack : /\ stack[i].value \in Values /\ stack[i].old \in Values
                             /\ stack[i].next \in 1 .. MaxDeps + 1
  /\ evals \in Nat
  /\ raised \in BOOLEAN

-----------------------------------------------------------------------------
\* The names are a choice of one path for all that share a name.
Names == {f \in [Paths -> Paths] : \A p \in Paths : f[f[p]] = f[p]}

Init ==
  /\ name \in Names
  /\ deps \in [Paths -> DepLists]
  /\ kind \in [Paths -> Kinds]
  /\ \A p \in Paths : kind[p] = "missing" => deps[p] = <<>>
  /\ modules = [n \in Paths |-> {}]
  /\ exports = Boot
  /\ stack = <<>> /\ evals = 0 /\ raised = FALSE

Depth == Len(stack)
Frame == stack[Depth]
Module == Frame.value.path

\* The executing module goes on with its next statement.
Advanced == IF stack = <<>> THEN stack ELSE [stack EXCEPT ![Depth].next = @ + 1]

-----------------------------------------------------------------------------
(* apply(path), called from the executing module or, with none, from the   *)
(* kernel or a signal's handler.                                           *)

Cached(p) ==
  /\ modules[name[p]] # {}
  /\ stack' = Advanced
  /\ UNCHANGED <<modules, exports, evals, raised>>

\* find or loadFile has nothing: apply returns null.
NotFound(p) ==
  /\ modules[name[p]] = {}
  /\ kind[p] = "missing"
  /\ stack' = Advanced
  /\ UNCHANGED <<modules, exports, evals, raised>>

\* Mutant: the module is in the cache while it is evaluated.
EvaluateCached(p) ==
  /\ modules[name[p]] = {}
  /\ kind[p] # "missing"
  /\ Depth < MaxDepth
  /\ evals' = evals + 1
  /\ exports' = [path |-> p, no |-> evals']
  /\ modules' = [modules EXCEPT ![name[p]] = {exports'}]
  /\ stack' = Append(Advanced, [value |-> exports', next |-> 1, old |-> exports])
  /\ UNCHANGED raised

\* Mutant: the cache is keyed by the path.
EvaluateByPath(p) ==
  /\ kind[p] # "missing"
  /\ Depth < MaxDepth
  /\ evals' = evals + 1
  /\ exports' = [path |-> p, no |-> evals']
  /\ stack' = Append(Advanced, [value |-> exports', next |-> 1, old |-> exports])
  /\ UNCHANGED <<modules, raised>>

\* The old exports are kept in apply's frame, and global.exports is a new
\* object, which is the module's exports.
Evaluate(p) ==
  /\ modules[name[p]] = {}
  /\ kind[p] # "missing"
  /\ Depth < MaxDepth
  /\ evals' = evals + 1
  /\ exports' = [path |-> p, no |-> evals']
  /\ stack' = Append(Advanced, [value |-> exports', next |-> 1, old |-> exports])
  /\ UNCHANGED <<modules, raised>>

\* The engine throws when its stack is full.
Overflow(p) ==
  /\ modules[name[p]] = {}
  /\ kind[p] # "missing"
  /\ Depth = MaxDepth
  /\ stack' = Advanced
  /\ raised' = TRUE
  /\ UNCHANGED <<modules, exports, evals>>

Apply(p) == ~raised /\ (Cached(p) \/ NotFound(p) \/ Evaluate(p) \/ Overflow(p))

KernelRequires ==
  /\ stack = <<>> /\ evals < MaxEvals
  /\ \E p \in Paths : Apply(p)
  /\ UNCHANGED config

ModuleRequires ==
  /\ stack # <<>> /\ Frame.next \in DOMAIN deps[Module]
  /\ Apply(deps[Module][Frame.next])
  /\ UNCHANGED config

-----------------------------------------------------------------------------
(* The end of an evaluation.                                               *)

Pop == SubSeq(stack, 1, Depth - 1)

\* A throw, or a source that does not compile.
Throw ==
  /\ stack # <<>> /\ ~raised
  /\ kind[Module] = "faulty"
  /\ raised' = TRUE
  /\ stack' = Pop
  /\ UNCHANGED <<config, modules, exports, evals>>

\* apply has no handler: what it replaced stays replaced.
Unwind ==
  /\ stack # <<>> /\ raised
  /\ kind[Module] # "catching"
  /\ stack' = Pop
  /\ UNCHANGED <<config, modules, exports, evals, raised>>

Catch ==
  /\ stack # <<>> /\ raised
  /\ kind[Module] = "catching"
  /\ raised' = FALSE
  /\ UNCHANGED <<config, modules, exports, stack, evals>>

\* Mutant: the wrapper does not assign global.exports.
FinishWithGlobal ==
  /\ stack # <<>> /\ ~raised
  /\ Frame.next \notin DOMAIN deps[Module]
  /\ modules' = [modules EXCEPT ![name[Module]] = {exports}]
  /\ exports' = Frame.old
  /\ stack' = Pop
  /\ UNCHANGED <<config, evals, raised>>

\* Mutant: global.exports is not restored.
FinishWithoutRestoring ==
  /\ stack # <<>> /\ ~raised
  /\ Frame.next \notin DOMAIN deps[Module]
  /\ modules' = [modules EXCEPT ![name[Module]] = {Frame.value}]
  /\ exports' = Frame.value
  /\ stack' = Pop
  /\ UNCHANGED <<config, evals, raised>>

\* The wrapper of compileModule assigns the module's exports to global.exports,
\* whatever is there by then; apply caches it and restores the old one.
Finish ==
  /\ stack # <<>> /\ ~raised
  /\ Frame.next \notin DOMAIN deps[Module]
  /\ modules' = [modules EXCEPT ![name[Module]] = {Frame.value}]
  /\ exports' = Frame.old
  /\ stack' = Pop
  /\ UNCHANGED <<config, evals, raised>>

-----------------------------------------------------------------------------
Execution == ModuleRequires \/ Throw \/ Unwind \/ Catch \/ Finish

Next == KernelRequires \/ Execution

\* The script's thread goes on executing; what the kernel requires and when is
\* left open.
Spec == Init /\ [][Next]_vars
FairSpec == Spec /\ WF_vars(Execution)

-----------------------------------------------------------------------------
(* Properties.                                                             *)

\* What is cached under a name are the exports of a module of that name, even
\* if one of its require() calls threw and left another object in
\* global.exports.
CacheHoldsOwn == \A n \in Paths : \A value \in modules[n] : name[value.path] = n

\* Between the kernel's calls global.exports is what it was at boot, whatever
\* was loaded, thrown and caught: unless an exception got out, which ends the
\* kernel.
ExportsRestored == stack = <<>> /\ ~raised => exports = Boot

\* Some order of the paths has every name after what it requires.
Acyclic ==
  \E rank \in [Paths -> 1 .. Cardinality(Paths)] :
    \A p \in Paths, i \in 1 .. MaxDeps :
      i \in DOMAIN deps[p] => rank[name[deps[p][i]]] < rank[name[p]]

\* Everybody who requires a name gets the same object, for good, if no cycle
\* lets a module be evaluated within its own evaluation.
CacheStable ==
  [][\A n \in Paths : modules[n] = {} \/ modules'[n] = modules[n] \/ ~Acyclic]_vars

\* A cyclic require never gets through: there are no exports of an unfinished
\* module to return, so its modules are evaluated again and again until the
\* stack is full, and an exception ends them all.  (A module that catches it,
\* or another one of the same name, may still get in between.)
CycleEndsInThrow ==
  /\ \A p \in Paths : name[p] = p /\ kind[p] # "catching"
  /\ stack # <<>> /\ Frame.next \in DOMAIN deps[Module]
  /\ \E i \in DOMAIN stack : stack[i].value.path = deps[Module][Frame.next]
  ~> raised
=============================================================================
