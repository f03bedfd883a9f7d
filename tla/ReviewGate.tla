------------------------------ MODULE ReviewGate ------------------------------
(***************************************************************************)
(* What a run bundle promises its reviewer, without files, processes or    *)
(* locks: nothing is promoted before a complete, approved set of decisions *)
(* is committed, a retry promotes the committed set again, and the only    *)
(* decisions a seal can stand on are the committed ones.                   *)
(***************************************************************************)
CONSTANTS
    Complete,   \* decision sets that are approved and leave nothing open
    None

VARIABLES stage, committed, sealed

vars == <<stage, committed, sealed>>

Init ==
    /\ stage = "none"
    /\ committed = None
    /\ sealed = None

\* Stage 1 begins, hands the draft to the reviewer, or fails for good.
Begin == stage = "none" /\ stage' = "drafting" /\ UNCHANGED <<committed, sealed>>

Ask == stage = "drafting" /\ stage' = "waiting" /\ UNCHANGED <<committed, sealed>>

Fail ==
    /\ stage \in {"drafting", "waiting"}
    /\ stage' = "failed"
    /\ UNCHANGED <<committed, sealed>>

Commit ==
    /\ stage = "waiting"
    /\ stage' = "promoting"
    /\ committed' \in Complete
    /\ UNCHANGED sealed

Judge ==
    /\ stage = "promoting"
    /\ stage' \in {"succeeded", "rejected"}
    /\ UNCHANGED <<committed, sealed>>

Retry == stage = "rejected" /\ stage' = "promoting" /\ UNCHANGED <<committed, sealed>>

Seal ==
    /\ stage = "succeeded"
    /\ sealed = None
    /\ sealed' = committed
    /\ UNCHANGED <<stage, committed>>

Next == Begin \/ Ask \/ Fail \/ Commit \/ Judge \/ Retry \/ Seal

Spec == Init /\ [][Next]_vars
=============================================================================
