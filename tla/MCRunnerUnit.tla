---------------------------- MODULE MCRunnerUnit ----------------------------
(***************************************************************************)
(* RunnerUnit for TLC.  The instances and the ctl processes are model      *)
(* values; no action tells one from another, so the safety runs use both   *)
(* symmetries.  The liveness runs use none.                                *)
(***************************************************************************)
EXTENDS RunnerUnit, TLC

Symmetry == Permutations(Instances) \cup Permutations(Ctls)

AnyStep == {"next", "check", "secret", "clear", "dropin", "relink", "symlink",
            "mark", "unlink", "reload", "start", "stop"}
=============================================================================
