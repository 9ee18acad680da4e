---------------------------- MODULE ElasticContract ----------------------------
(***************************************************************************)
(* A statement of docs/phase9 about resizing that the code of              *)
(* ElasticResize does not keep.                                            *)
(***************************************************************************)
EXTENDS ElasticResize

(* docs/phase9/resize-execution.md:48: "Runtime checkpoints, drain completes, child
   JobSet is cleaned up."  The next reconcile finds no reason to stop in the spec, marks the
   RTJ Running again and plans ResizeInProgress, which waits: nothing drains the run. *)
RelaunchResizeDrains ==
    (rtj.phase = "YieldRequested" /\ isResizeTriggeredStop(rtj)) ~> (jobSet = 0 \/ rtj.target = 0)
================================================================================
