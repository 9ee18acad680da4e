------------------------- MODULE ResumeReadinessMC -------------------------
(* A policy left at its defaults, one that demands a young checkpoint, one that fails open. *)
EXTENDS ResumeReadiness

MCSpecs == {[maxAge |-> {}, failurePolicy |-> Unset, allowInitial |-> {}],
            [maxAge |-> {1}, failurePolicy |-> Unset, allowInitial |-> {FALSE}],
            [maxAge |-> {0}, failurePolicy |-> "FailOpen", allowInitial |-> {FALSE}]}
=============================================================================
