----------------------------- MODULE RemoteCall -----------------------------
(***************************************************************************)
(* What component.invoke promises to a script (component.invoke in         *)
(* os.js/bios/bios.ts): a call is performed at most once, while the script *)
(* waits for it, and it returns only after it was performed, or after it   *)
(* was found that there is no such method.  Turning the computer off       *)
(* abandons the call in progress, performed or not, for good.              *)
(***************************************************************************)
EXTENDS Integers

CONSTANT MaxCalls  \* bound: calls requested

VARIABLES
  phase,     \* "off", "none" (no call in progress), "asked" or "settled"
  calls,     \* number of calls requested that did not end without being
             \* performed; the last one is in progress, if any
  performed  \* how often each call was performed

vars == <<phase, calls, performed>>

Init ==
  /\ phase = "off"
  /\ calls = 0
  /\ performed = [id \in 1 .. MaxCalls |-> 0]

TurnOn == phase = "off" /\ phase' = "none" /\ UNCHANGED <<calls, performed>>

TurnOff == phase' = "off" /\ UNCHANGED <<calls, performed>>

Ask ==
  /\ phase = "none" /\ calls < MaxCalls
  /\ phase' = "asked"
  /\ calls' = calls + 1
  /\ UNCHANGED performed

Perform ==
  /\ phase = "asked"
  /\ phase' = "settled"
  /\ performed' = [performed EXCEPT ![calls] = 1]
  /\ UNCHANGED calls

NoSuchMethod ==
  /\ phase = "asked"
  /\ phase' = "settled"
  /\ UNCHANGED <<calls, performed>>

\* There may be any number of calls of methods that do not exist.
Answer ==
  /\ phase = "settled"
  /\ phase' = "none"
  /\ calls' = IF performed[calls] = 0 THEN calls - 1 ELSE calls
  /\ UNCHANGED performed

Next == TurnOn \/ TurnOff \/ Ask \/ Perform \/ NoSuchMethod \/ Answer

Spec == Init /\ [][Next]_vars
=============================================================================
