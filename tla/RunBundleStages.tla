---------------------------- MODULE RunBundleStages ----------------------------
(***************************************************************************)
(* The second inductive invariant of the run bundle: what holds besides    *)
(* IInv when resume is not called before stage 1 has ended (Overlap is     *)
(* FALSE).  It ties the memory of a process to the saved record and the    *)
(* registered files, which IInv cannot do while start may save its record  *)
(* over a promotion; RunBundleProofs shows that every step keeps it        *)
(* and that the steps are those of the review gate.                        *)
(***************************************************************************)
EXTENDS RunBundleInvariant

Early == {"extract", "analyze", "human_review"}

\* The states of a record that a promotion may start from.
Promotable(r) ==
    \/ r.status = "waiting" /\ r.phase = "human_review"
    \/ r.status = "failed" /\ r.phase = "verify"
    \/ r.status = "running" /\ r.phase = "rewrite"

InStageOne(p) == pc[p] \in StageOne \/ starter = p

\* The registered bytes of these artifacts are there.
Intact(r, kinds) == \A k \in kinds : r.refs[k] # None => files[k] = r.refs[k]

\* A process of stage 1 is alone, the record is the one it saved, and what it has
\* registered so far is intact.
StageOneAlone(p) ==
    InStageOne(p) =>
        /\ \A q \in Procs \ {p} : pc[q] = "idle"
        /\ seal = None
        /\ lock # p
        /\ record # None
        /\ pc[p] \in {"extract", "save_extracted"} \cup Analyzing =>
              record.status = "running" /\ record.phase \in {"extract", "analyze"}
        /\ pc[p] = "save_waiting" => record.status = "running" /\ record.phase = "human_review"
        /\ pc[p] \in StageOne => loc[p].status = "running"
        /\ pc[p] \in Reporting => record.status = "waiting" /\ record.phase = "human_review"
        /\ pc[p] # "save_report" => record.refs["report"] = None /\ loc[p].refs["report"] = None
        /\ record.refs["report"] = None
        /\ loc[p].refs["final"] = None /\ loc[p].refs["audit"] = None
        /\ Intact(loc[p], {"source", "report"})
        /\ pc[p] \in {"write_review", "write_template", "save_analyzed", "save_waiting"} \cup Reporting =>
              Intact(loc[p], {"draft"})
        /\ pc[p] \in {"write_template", "save_analyzed", "save_waiting"} \cup Reporting =>
              Intact(loc[p], {"review"})

\* A process of stage 2 waits for the record it has loaded; but for the decisions
\* it carries the same artifacts.
ReviewerWaits(p) ==
    /\ pc[p] \in Reviewing \ {"promote"} =>
          /\ loc[p].status = "waiting"
          /\ expect[p].status = "waiting" /\ expect[p].phase = "human_review"
          /\ \A k \in Key \ {"decisions"} : loc[p].refs[k] = expect[p].refs[k]
    /\ pc[p] = "check_recovery" => Promotable(loc[p])
    /\ pc[p] = "promote" => Promotable(expect[p])

\* Under the lock the saved record stays what the promotion has made of it.
PromoterOwns(p) ==
    lock = p =>
        /\ record # None
        /\ \A k \in Inputs : loc[p].refs[k] = record.refs[k]
        /\ pc[p] = "prepare" =>
              /\ Promotable(record)
              /\ loc[p].status = "running"
              /\ \A k \in Key : loc[p].refs[k] = record.refs[k]
        /\ pc[p] \in {"write_final", "write_audit", "save_verdict"} =>
              record.status = "running" /\ record.phase = "rewrite" /\ loc[p].status = "running"
        /\ pc[p] \in Reporting => record.phase = "verify" /\ record.status = loc[p].status
        /\ pc[p] \in {"write_seal", "save_sealed"} => record = loc[p] /\ loc[p].status = "succeeded"
        /\ pc[p] \notin {"prepare", "save_sealed"} => seal = None
        /\ pc[p] = "save_sealed" => seal = loc[p].refs

\* The saved record: which states it can be in, and which of its artifacts are
\* intact whoever was killed.
RecordStands ==
    /\ record = None => \A p \in Procs : pc[p] = "idle"
    /\ seal # None =>
          record # None /\ record.status = "succeeded" /\ record.phase = "verify" /\ record.refs = seal
    /\ record # None =>
          /\ record.status = "waiting" => record.phase = "human_review"
          /\ record.status = "succeeded" => record.phase = "verify"
          /\ record.phase \in {"extract", "analyze"} =>
                record.refs["report"] = None /\ \A p \in Procs : pc[p] \in StageOne \cup {"idle"}
          /\ record.phase \in Early => record.refs["final"] = None
          /\ record.phase = "verify" => record.refs["final"] # None
          /\ Intact(record, {"source"})
          /\ record.phase \notin {"extract", "analyze"} => Intact(record, {"draft", "review"})
          /\ record.refs["final"] = None => record.refs["audit"] = None /\ Intact(record, {"report"})

\* The inductive invariant of the runs in which stage 1 ends before resume is
\* called.
StageInv ==
    /\ RecordStands
    /\ \A p \in Procs : StageOneAlone(p) /\ ReviewerWaits(p) /\ PromoterOwns(p)
=============================================================================
