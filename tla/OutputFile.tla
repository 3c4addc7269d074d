----------------------------- MODULE OutputFile ------------------------------
(***************************************************************************)
(* What a command that writes a file promises about the path it writes to. *)
(* The file there is the old one, or none, or it is being written, or it   *)
(* is whole: everything that was to go into it can be found in it.  The    *)
(* command ends, and says "ok" only of a whole file.  It starts to write   *)
(* once; after an error there is nothing at the path that it wrote,        *)
(* unless LEAVES_HALF.                                                     *)
(***************************************************************************)
CONSTANT LEAVES_HALF   \* whether an error leaves what was written so far

VARIABLES
  at,       \* "older", "absent", "partial", "whole"
  result    \* "none", "ok", "error"

vars == <<at, result>>

Init ==
  /\ at \in {"older", "absent"}
  /\ result = "none"

Start ==
  /\ result = "none" /\ at \in {"older", "absent"}
  /\ at' = "partial"
  /\ UNCHANGED result

Complete ==
  /\ result = "none" /\ at = "partial"
  /\ at' = "whole"
  /\ result' \in {"none", "ok"}

Report ==
  /\ result = "none" /\ at = "whole"
  /\ result' = "ok"
  /\ UNCHANGED at

\* The command fails; what it wrote is removed, and an older file may be.
Abandon ==
  /\ result = "none"
  /\ result' = "error"
  /\ IF at \in {"partial", "whole"} THEN at' = IF LEAVES_HALF THEN at ELSE "absent"
     ELSE at' \in {at, "absent"}

Next == Start \/ Complete \/ Report \/ Abandon

\* The command does not go on for ever.
Ends == <>(result # "none")

Safety == Init /\ [][Next]_vars
Spec == Safety /\ Ends
=============================================================================
