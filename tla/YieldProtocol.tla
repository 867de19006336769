--------------------------- MODULE YieldProtocol ----------------------------
(***************************************************************************)
(* What an engine promises to the machine: JSEngine.jsPushNext resumes the *)
(* script with a value and returns the script's next output.  The engine   *)
(* is a coroutine.  The turn alternates between the caller and the script; *)
(* the script uses its turn to produce the next output, or its final one,  *)
(* after which there is no other.                                          *)
(***************************************************************************)
EXTENDS Integers

CONSTANT MaxYields  \* bound: outputs after output 0

VARIABLES
  alive,     \* the engine exists and is not being destroyed
  turn,      \* "caller" or "script"
  produced,  \* last output of the script, NoOutput at first
  heard      \* last output a call returned

vars == <<alive, turn, produced, heard>>

NoOutput == -1
DeadOutput == MaxYields + 1

Init ==
  /\ alive = FALSE
  /\ turn = "caller"
  /\ produced = NoOutput
  /\ heard = NoOutput

Start ==
  /\ ~alive /\ alive'
  /\ UNCHANGED <<turn, produced, heard>>

\* The caller hands the script an input.
Resume ==
  /\ alive
  /\ turn = "caller" /\ produced # DeadOutput
  /\ turn' = "script"
  /\ UNCHANGED <<alive, produced, heard>>

\* Output 0 asks for the source code and is produced in anybody's turn; every
\* other output is produced in the script's turn and ends it.
Produce ==
  /\ alive
  /\ turn = "script" \/ produced = NoOutput
  /\ produced < MaxYields
  /\ produced' = produced + 1
  /\ turn' = "caller"
  /\ UNCHANGED <<alive, heard>>

\* The script's final output, which may be its first, in anybody's turn.
Finish ==
  /\ alive
  /\ turn = "script" \/ produced = NoOutput
  /\ produced # DeadOutput
  /\ produced' = DeadOutput
  /\ turn' = "caller"
  /\ UNCHANGED <<alive, heard>>

\* A call returns the output that its resumption led to.
Hear ==
  /\ alive
  /\ turn = "caller" /\ produced # NoOutput
  /\ heard' = produced
  /\ UNCHANGED <<alive, turn, produced>>

\* Destroying the engine: nothing the script does from here on is heard.
Stop ==
  /\ alive /\ ~alive'
  /\ turn' = "caller"
  /\ produced' = NoOutput
  /\ heard' = NoOutput

Next == Start \/ Resume \/ Produce \/ Finish \/ Hear \/ Stop

Spec == Init /\ [][Next]_vars
=============================================================================
