-------------------------- MODULE CapacityContract --------------------------
(***************************************************************************)
(* What launching promises to Kueue, without gates, caches or retries:     *)
(* quota and topology are granted, and what runs fits one grant as a       *)
(* whole.  LaunchGates implements it.                                      *)
(***************************************************************************)
CONSTANTS
    NoRun,        \* the value of run when nothing runs
    Fits(_, _)    \* what a run may be, given a grant

VARIABLES granted, run

contractVars == <<granted, run>>

Init == granted = {} /\ run = NoRun

Grant == (\E a \in granted' : granted' = granted \cup {a}) /\ UNCHANGED run

Start == run = NoRun /\ (\E a \in granted : Fits(run', a)) /\ UNCHANGED granted

Stop == run # NoRun /\ run' = NoRun /\ UNCHANGED granted

Next == Grant \/ Start \/ Stop

Spec == Init /\ [][Next]_contractVars
=============================================================================
