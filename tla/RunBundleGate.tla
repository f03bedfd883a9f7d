---------------------------- MODULE RunBundleGate ----------------------------
(***************************************************************************)
(* The run bundle implements the review gate: the refinement mapping reads *)
(* the stage off the saved record and the sealed decisions off the seal.   *)
(***************************************************************************)
EXTENDS RunBundle

stage ==
    CASE record = None -> "none"
      [] record # None /\ record.phase \in {"extract", "analyze", "human_review"} ->
             (CASE record.status = "running" -> "drafting"
                [] record.status = "waiting" -> "waiting"
                [] OTHER -> "failed")
      [] record # None /\ record.phase = "rewrite" -> "promoting"
      [] record # None /\ record.phase = "verify" ->
             IF record.status = "succeeded" THEN "succeeded" ELSE "rejected"

committed ==
    IF record # None /\ record.phase \in {"rewrite", "verify"}
    THEN record.refs["decisions"] ELSE None

sealed == IF seal # None THEN seal["decisions"] ELSE None

CompleteBundles == {b \in Bundle : b.approve /\ Open(b) = {}}

Gate == INSTANCE ReviewGate WITH Complete <- CompleteBundles

\* When stage 1 has ended before resume is called, every step of the processes,
\* crashes included, is a step of the review gate or none: promotion starts only
\* from a waiting run with complete, approved decisions, every retry promotes
\* the same decisions, and the seal stands on them.
ImplementsReviewGate == Gate!Spec
=============================================================================
