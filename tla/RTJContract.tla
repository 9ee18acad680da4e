----------------------------- MODULE RTJContract -----------------------------
(***************************************************************************)
(* A statement of the repository's own documents about the lifecycle that  *)
(* the code of RTJLifecycle does not keep.  It is quoted with its place;   *)
(* TLC's counterexample to it is a behaviour of the code.                  *)
(***************************************************************************)
EXTENDS RTJLifecycle

(* The controller has nothing left to do: no reconcile in progress or queued, no event on
   its way. *)
Settled == ctl.pc = "idle" /\ ~queued /\ seenFresh

(* docs/phase0/contracts/lifecycle-state-machine.md:148: "`Paused` MUST imply no active
   training Pods for the RTJ."  A JobSet created by a reconcile whose status write then
   conflicts with a pause is not recorded; the next reconcile reports Paused without looking
   for it, and the controller comes to rest with the JobSet running. *)
PausedHasNoRuntime == Settled /\ rtj.phase = "Paused" => \A a \in Attempts : ~Live(a)
=============================================================================
