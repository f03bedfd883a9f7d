-------------------------- MODULE RunBundleInvariant --------------------------
(***************************************************************************)
(* The inductive invariant behind the safety of sealing.  It says what the *)
(* saved record, the memory of a process and the lock look like before     *)
(* each store call; RunBundleProofs shows that every step preserves it.    *)
(***************************************************************************)
EXTENDS RunBundle

\* Approved decisions that leave no blocking question open.
Complete(b) == b # None /\ b.approve /\ Open(b) = {}

\* The artifacts a record has by the time it is saved in each phase.
PhaseOK(r) ==
    /\ r.phase \in {"extract", "analyze"} => r.refs["review"] = None
    /\ r.phase \in {"human_review", "rewrite", "verify"} =>
          r.refs["draft"] # None /\ r.refs["review"] = r.refs["draft"]
    /\ r.phase \in {"rewrite", "verify"} => Complete(r.refs["decisions"])

\* Steps only a promotion takes, and the two that start takes as well.
Promoting == {"prepare", "write_final", "write_audit", "save_verdict",
              "write_seal", "save_sealed"}
Reporting == {"write_report", "save_report"}
Reviewing == {"read_decisions", "submit", "save_decisions", "verify_inputs",
              "save_unresolved", "promote"}
Analyzing == {"write_draft", "write_review", "write_template", "save_analyzed"}

\* Who holds the lock is promoting, who promotes holds the lock, and start,
\* which reports too, never does.
LockInv(p) ==
    /\ lock = p => pc[p] \in Promoting \cup Reporting /\ starter # p
    /\ pc[p] \in Promoting => lock = p
    /\ pc[p] \in Reporting => lock = p \/ starter = p
    /\ starter = p => pc[p] \in StageOne \cup Reporting

\* Stage 1: the record in memory gathers the artifacts of the analysis.
DraftingInv(p) ==
    /\ pc[p] \in {"extract", "save_extracted"} =>
          loc[p].phase = "extract" /\ loc[p].refs["review"] = None
    /\ pc[p] \in Analyzing => loc[p].phase = "analyze"
    /\ pc[p] \in {"write_draft", "write_review"} => loc[p].refs["review"] = None
    /\ pc[p] \in {"write_review", "write_template", "save_analyzed"} =>
          loc[p].refs["draft"] # None
    /\ pc[p] \in {"write_template", "save_analyzed"} =>
          loc[p].refs["review"] = loc[p].refs["draft"]
    /\ pc[p] = "save_waiting" => loc[p].phase = "human_review" /\ PhaseOK(loc[p])

\* Stage 2 before the lock: the identity a process waits to compare.
ReviewingInv(p) ==
    /\ pc[p] \in Reviewing => expect[p] # None
    /\ expect[p] # None => PhaseOK(expect[p])
    /\ pc[p] \in Reviewing \ {"promote"} => loc[p].phase = "human_review" /\ PhaseOK(loc[p])
    /\ pc[p] \in {"submit", "save_decisions", "verify_inputs", "save_unresolved"} =>
          loc[p].refs["decisions"] # None
    /\ pc[p] = "verify_inputs" => expect[p] = loc[p]
    /\ pc[p] = "check_recovery" => loc[p].phase \in {"rewrite", "verify"} /\ PhaseOK(loc[p])
    /\ pc[p] = "promote" =>
          /\ Complete(expect[p].refs["decisions"])
          /\ expect[p].phase \in {"human_review", "rewrite", "verify"}

\* The outputs in memory derive from the inputs in memory.
FinalDerived(r) ==
    /\ r.refs["final"] # None
    /\ r.refs["final"].draft = r.refs["draft"]
    /\ r.refs["final"].decisions = r.refs["decisions"]

AuditDerived(r) ==
    /\ r.refs["audit"] # None
    /\ r.refs["audit"].draft = r.refs["draft"]
    /\ r.refs["audit"].decisions = r.refs["decisions"]

\* Under the lock: what a promotion has in memory before each of its steps.
PromotingInv(p) ==
    lock = p =>
        /\ PhaseOK(loc[p])
        /\ loc[p].phase = (IF pc[p] \in {"prepare", "write_final", "write_audit", "save_verdict"}
                           THEN "rewrite" ELSE "verify")
        /\ pc[p] # "prepare" => loc[p].refs["decisions"].review = loc[p].refs["review"]
        /\ pc[p] \notin {"prepare", "write_final"} => FinalDerived(loc[p])
        /\ pc[p] \notin {"prepare", "write_final", "write_audit"} => AuditDerived(loc[p])
        /\ pc[p] \in {"write_seal", "save_sealed"} => loc[p].refs["audit"].outcome = "pass"
        /\ pc[p] \in Reporting =>
              /\ loc[p].status \in {"succeeded", "failed"}
              /\ loc[p].status = "succeeded" => loc[p].refs["audit"].outcome = "pass"

\* start writing its report: the gate is saved and the lock is not held.
WaitingReportInv(p) ==
    pc[p] \in Reporting /\ lock # p =>
        loc[p].phase = "human_review" /\ loc[p].status = "waiting" /\ PhaseOK(loc[p])

ProcessInv(p) ==
    /\ LockInv(p)
    /\ DraftingInv(p)
    /\ ReviewingInv(p)
    /\ PromotingInv(p)
    /\ WaitingReportInv(p)

SealInv == SealedDecisionsComplete /\ SealedAuditCoversFinal /\ SealedBytesIntact

\* The inductive invariant: types, ownership of the lock, and the state of the
\* record and of every process before each store call, strong enough to show
\* that a seal is written only on complete decisions and matching outputs.
IInv ==
    /\ TypeOK
    /\ record # None => PhaseOK(record)
    /\ starter # None => record # None
    /\ \A p \in Procs : ProcessInv(p)
    /\ SealInv
=============================================================================
