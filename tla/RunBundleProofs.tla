--------------------------- MODULE RunBundleProofs ---------------------------
(***************************************************************************)
(* The run bundle keeps its inductive invariant, and so never seals        *)
(* incomplete decisions, mixed outputs or altered bytes: for every set of  *)
(* processes, configurations, candidates, questions, answers and           *)
(* timestamps, and however the calls of start and resume overlap.          *)
(* One lemma per action; the frame lemmas say what a step leaves alone.    *)
(*                                                                         *)
(* When resume is not called before stage 1 has ended, it implements the   *)
(* review gate, keeps the inputs of a promotion, and leaves record and     *)
(* files as the next call needs them, whoever is killed.  That argument is *)
(* StageInv, on top of IInv, in the second half.                           *)
(***************************************************************************)
EXTENDS RunBundleGate, RunBundleStages, TLAPS

\* The bytes each artifact can have, one kind at a time.
LEMMA ContentFacts ==
    /\ Content("source") = {"source"}
    /\ Content("draft") = Analysis
    /\ Content("review") = Analysis
    /\ Content("decisions") = Bundle
    /\ Content("final") = [draft : Analysis, decisions : Bundle, stamp : Stamps]
    /\ Content("audit") = [outcome : {"pass", "fail"}, draft : Analysis, decisions : Bundle]
    /\ Content("report") = [status : {"waiting", "succeeded", "failed"}, review : Analysis]
BY DEF Content

\* Registering bytes of the right kind keeps a map of artifacts well formed.
LEMMA RefsUpdate ==
    ASSUME NEW f, RefsOK(f), NEW k \in Key, NEW v, v # None => v \in Content(k)
    PROVE  /\ RefsOK([f EXCEPT ![k] = v])
           /\ [f EXCEPT ![k] = v][k] = v
           /\ \A j \in Key : j # k => [f EXCEPT ![k] = v][j] = f[j]
BY DEF RefsOK

\* A run record is never mistaken for its absence.
LEMMA RecordIsNotNone == ASSUME NEW r, RecordOK(r) PROVE r # None
<1>1. r.refs \in [Key -> {None} \cup UNION {Content(k) : k \in Key}]
  BY DEF RecordOK, RefsOK
<1>2. r \in Record
  BY <1>1 DEF RecordOK, Record
<1> QED BY <1>2, NoneIsNoRecord

\* register_artifact changes one reference and nothing else of the record.
LEMMA RegisterFacts ==
    ASSUME NEW r, RecordOK(r), NEW k \in Key, NEW v, v # None => v \in Content(k)
    PROVE  /\ RecordOK(Register(r, k, v))
           /\ Register(r, k, v).refs[k] = v
           /\ \A j \in Key : j # k => Register(r, k, v).refs[j] = r.refs[j]
           /\ Register(r, k, v).status = r.status
           /\ Register(r, k, v).phase = r.phase
<1>1. Register(r, k, v) =
        [status |-> r.status, phase |-> r.phase, config |-> r.config,
         refs |-> [r.refs EXCEPT ![k] = v], unresolved |-> r.unresolved, sealed |-> r.sealed]
  BY DEF Register, RecordOK
<1>2. RefsOK(r.refs)
  BY DEF RecordOK
<1> QED BY <1>1, <1>2, RefsUpdate DEF RecordOK

-----------------------------------------------------------------------------
(* Frames: what a step of p leaves alone.                                  *)

\* No other process moves, and the lock and the role of start pass only
\* between p and nobody.
OnlyMoves(p) ==
    \A q \in Procs \ {p} :
        /\ pc'[q] = pc[q] /\ loc'[q] = loc[q]
        /\ expect'[q] = expect[q] /\ conf'[q] = conf[q]
        /\ lock' = q <=> lock = q
        /\ starter' = q <=> starter = q

\* The variables that are functions of the process.
Local ==
    /\ pc \in [Procs -> Step]
    /\ loc = [q \in Procs |-> loc[q]]
    /\ expect = [q \in Procs |-> expect[q]]
    /\ conf \in [Procs -> Configs \cup {None}]

ProcessType(p) ==
    /\ pc[p] # "idle" => RecordOK(loc[p]) /\ conf[p] \in Configs
    /\ expect[p] # None => RecordOK(expect[p])

SharedType ==
    /\ record # None => RecordOK(record) /\ PhaseOK(record)
    /\ RefsOK(files)
    /\ yaml # None => yaml \in Bundle
    /\ seal # None => RefsOK(seal)
    /\ lock \in Procs \cup {None}
    /\ starter \in Procs \cup {None}
    /\ starter # None => record # None
    /\ ops \in 0 .. MaxOps

\* The invariant, regrouped by what a step of one process can disturb.
LEMMA Parts ==
    IInv <=> /\ Local /\ SharedType /\ SealInv
             /\ \A p \in Procs : ProcessType(p) /\ ProcessInv(p)
BY DEF IInv, TypeOK, Local, SharedType, ProcessType

\* A step of p keeps the invariant when it keeps the parts p can disturb.
LEMMA Assemble ==
    ASSUME IInv, NEW p \in Procs, OnlyMoves(p), Local', SharedType', SealInv',
           ProcessType(p)', ProcessInv(p)'
    PROVE  IInv'
<1>1. \A q \in Procs \ {p} : ProcessType(q)'
  BY Parts DEF OnlyMoves, ProcessType
<1>2. ASSUME NEW q \in Procs \ {p} PROVE ProcessInv(q)'
  <2>1. /\ pc'[q] = pc[q] /\ loc'[q] = loc[q] /\ expect'[q] = expect[q]
        /\ (lock' = q) = (lock = q) /\ (starter' = q) = (starter = q)
    BY DEF OnlyMoves
  <2>2. ProcessInv(q)
    BY Parts
  <2>3. LockInv(q)' /\ WaitingReportInv(q)'
    BY <2>1, <2>2 DEF ProcessInv, LockInv, WaitingReportInv, PhaseOK
  <2>4. DraftingInv(q)'
    BY <2>1, <2>2 DEF ProcessInv, DraftingInv, PhaseOK
  <2>5. ReviewingInv(q)'
    BY <2>1, <2>2 DEF ProcessInv, ReviewingInv, PhaseOK
  <2>6. PromotingInv(q)'
    BY <2>1, <2>2 DEF ProcessInv, PromotingInv, PhaseOK, FinalDerived, AuditDerived
  <2> QED BY <2>3, <2>4, <2>5, <2>6 DEF ProcessInv
<1>3. IInv' <=> /\ Local' /\ SharedType' /\ SealInv'
                /\ \A q \in Procs : ProcessType(q)' /\ ProcessInv(q)'
  BY DEF IInv, TypeOK, Local, SharedType, ProcessType
<1> QED BY <1>1, <1>2, <1>3

\* p goes to its next store call with the record r in memory.
LEMMA MoveFrame ==
    ASSUME IInv, NEW p \in Procs, NEW step \in Step, NEW r, Goto(p, step), Keep(p, r),
           UNCHANGED <<lock, expect, conf, starter>>
    PROVE  /\ OnlyMoves(p) /\ Local'
           /\ pc'[p] = step /\ loc'[p] = r
BY Parts DEF Goto, Keep, OnlyMoves, Local

\* p returns: whatever it held is released.
LEMMA ReturnFrame ==
    ASSUME IInv, NEW p \in Procs, Return(p)
    PROVE  /\ OnlyMoves(p) /\ Local'
           /\ ProcessType(p)' /\ ProcessInv(p)'
           /\ lock' \in Procs \cup {None} /\ starter' \in {starter, None}
<1>1. OnlyMoves(p) /\ Local'
  <2>1. Local
    BY Parts
  <2>2. "idle" \in Step
    BY DEF Step
  <2>3. Local'
    BY <2>1, <2>2 DEF Return, Goto, Local
  <2>4. \A q \in Procs \ {p} : q # None
    BY ConstantsAssumption
  <2>5. ASSUME NEW q \in Procs \ {p}
        PROVE  pc'[q] = pc[q] /\ loc'[q] = loc[q] /\ expect'[q] = expect[q] /\ conf'[q] = conf[q]
    BY <2>1 DEF Return, Goto, Local
  <2>6. ASSUME NEW q \in Procs \ {p}
        PROVE  (lock' = q <=> lock = q) /\ (starter' = q <=> starter = q)
    BY <2>4 DEF Return
  <2> QED BY <2>3, <2>5, <2>6 DEF OnlyMoves
<1>2. pc'[p] = "idle" /\ expect'[p] = None /\ lock' # p /\ starter' # p
  BY Parts, ConstantsAssumption DEF Return, Goto, Local
<1>3. ProcessType(p)' /\ ProcessInv(p)'
  BY <1>2 DEF ProcessType, ProcessInv, LockInv, DraftingInv, ReviewingInv, PromotingInv,
              WaitingReportInv, Promoting, Reporting, Reviewing, Analyzing
<1> QED BY <1>1, <1>3, Parts DEF Return, SharedType

\* p writes one artifact and registers it in the record it carries.
LEMMA WriteFrame ==
    ASSUME IInv, NEW p \in Procs, pc[p] # "idle", NEW step \in Step, step # "idle",
           NEW k \in Key, NEW v \in Content(k), Write(p, k, v), Goto(p, step),
           UNCHANGED <<record, yaml, seal, lock, expect, conf, starter, ops>>
    PROVE  /\ OnlyMoves(p) /\ Local' /\ SharedType' /\ SealInv' /\ ProcessType(p)'
           /\ pc'[p] = step
           /\ loc'[p] = Register(loc[p], k, v)
<1>1. RecordOK(loc[p]) /\ conf[p] \in Configs /\ (expect[p] # None => RecordOK(expect[p]))
  BY Parts DEF ProcessType
<1>2. v # None
  BY NoneIsNoContent
<1>3. Keep(p, Register(loc[p], k, v))
  BY DEF Write
<1>4. OnlyMoves(p) /\ Local' /\ pc'[p] = step /\ loc'[p] = Register(loc[p], k, v)
  BY <1>3, MoveFrame
<1>5. ProcessType(p)'
  <2>1. RecordOK(Register(loc[p], k, v))
    BY <1>1, RegisterFacts
  <2> QED BY <1>1, <1>4, <2>1 DEF ProcessType
<1>6. SharedType'
  BY Parts, RefsUpdate DEF SharedType, Write, PhaseOK
<1>7. SealInv'
  BY DEF Write, SealInv, SealedDecisionsComplete, SealedAuditCoversFinal, SealedBytesIntact
<1> QED BY <1>4, <1>5, <1>6, <1>7

\* p saves the record r and keeps it in memory.
LEMMA SaveFrame ==
    ASSUME IInv, NEW p \in Procs, pc[p] # "idle", NEW step \in Step, step # "idle",
           NEW r, RecordOK(r), PhaseOK(r), Save(p, r), Goto(p, step),
           UNCHANGED <<files, yaml, seal, lock, expect, conf, starter, ops>>
    PROVE  /\ OnlyMoves(p) /\ Local' /\ SharedType' /\ SealInv' /\ ProcessType(p)'
           /\ pc'[p] = step /\ loc'[p] = r
<1>1. conf[p] \in Configs /\ (expect[p] # None => RecordOK(expect[p]))
  BY Parts DEF ProcessType
<1>2. OnlyMoves(p) /\ Local' /\ pc'[p] = step /\ loc'[p] = r
  BY MoveFrame DEF Save
<1>3. ProcessType(p)'
  BY <1>1, <1>2 DEF ProcessType
<1>4. SharedType'
  BY Parts, RecordIsNotNone DEF SharedType, Save, PhaseOK
<1>5. SealInv'
  BY Parts DEF SealInv, SealedDecisionsComplete, SealedAuditCoversFinal, SealedBytesIntact
<1> QED BY <1>2, <1>3, <1>4, <1>5

\* p saves the record r and returns.
LEMMA SaveReturn ==
    ASSUME IInv, NEW p \in Procs, NEW r, RecordOK(r), PhaseOK(r), record' = r, Return(p),
           UNCHANGED <<files, yaml, seal, ops>>
    PROVE  IInv'
<1>1. OnlyMoves(p) /\ Local' /\ ProcessType(p)' /\ ProcessInv(p)'
      /\ lock' \in Procs \cup {None} /\ starter' \in {starter, None}
  BY ReturnFrame
<1>2. SharedType'
  BY <1>1, Parts, RecordIsNotNone DEF SharedType, PhaseOK
<1>3. SealInv'
  BY Parts DEF SealInv, SealedDecisionsComplete, SealedAuditCoversFinal, SealedBytesIntact
<1> QED BY <1>1, <1>2, <1>3, Assemble

-----------------------------------------------------------------------------
(* Steps that write and register an artifact.                              *)

\* Source registration keeps the record of stage 1 in its extract phase.
LEMMA ExtractStep == ASSUME IInv, NEW p \in Procs, Extract(p) PROVE IInv'
<1>0. PICK v : v = "source"
  OBVIOUS
<1>1. "source" \in Key /\ "review" \in Key /\ "save_extracted" \in Step
  BY DEF Key, Step, StageOne
<1>2. pc[p] = "extract" /\ ProcessInv(p) /\ ProcessType(p)
  BY Parts DEF Extract, At
<1>3. v \in Content("source")
  BY <1>0, ContentFacts
<1>4. /\ OnlyMoves(p) /\ Local' /\ SharedType' /\ SealInv' /\ ProcessType(p)'
      /\ pc'[p] = "save_extracted" /\ loc'[p] = Register(loc[p], "source", v)
  <2>1. /\ Write(p, "source", v) /\ Goto(p, "save_extracted")
        /\ UNCHANGED <<record, yaml, seal, lock, expect, conf, starter, ops>>
    BY <1>0 DEF Extract
  <2>2. pc[p] # "idle" /\ "save_extracted" # "idle"
    BY <1>2
  <2> HIDE DEF OnlyMoves, Local, SharedType, SealInv, ProcessType
  <2> QED BY <1>1, <1>3, <2>1, <2>2, WriteFrame
<1>5. /\ loc'[p].refs["source"] = v
      /\ loc'[p].refs["review"] = loc[p].refs["review"]
      /\ loc'[p].status = loc[p].status /\ loc'[p].phase = loc[p].phase
  <2>1. RecordOK(loc[p])
    BY <1>2 DEF ProcessType
  <2> QED BY <1>1, <1>3, <1>4, <2>1, RegisterFacts
<1>6. UNCHANGED <<lock, starter, expect>>
  BY DEF Extract
<1>7. v # None
  BY <1>1, <1>3, NoneIsNoContent
<1>8. ProcessInv(p)'
  BY <1>0, <1>2, <1>3, <1>4, <1>5, <1>6, <1>7 DEF ProcessInv, LockInv, DraftingInv, ReviewingInv, PromotingInv,
     WaitingReportInv, Promoting, Reporting, Reviewing, Analyzing, StageOne, PhaseOK
<1> QED BY <1>4, <1>8, Assemble

\* A new draft is registered before any review of it exists.
LEMMA WriteDraftStep == ASSUME IInv, NEW p \in Procs, NEW a \in Attempts, WriteDraft(p, a) PROVE IInv'
<1>0. PICK v : v = [attempt |-> a, config |-> conf[p]]
  OBVIOUS
<1>1. "draft" \in Key /\ "review" \in Key /\ "write_review" \in Step
  BY DEF Key, Step, StageOne
<1>2. pc[p] = "write_draft" /\ ProcessInv(p) /\ ProcessType(p)
  BY Parts DEF WriteDraft, At
<1>3. v \in Content("draft")
  BY <1>0, <1>2, ContentFacts DEF ProcessType, Analysis
<1>4. /\ OnlyMoves(p) /\ Local' /\ SharedType' /\ SealInv' /\ ProcessType(p)'
      /\ pc'[p] = "write_review" /\ loc'[p] = Register(loc[p], "draft", v)
  <2>1. /\ Write(p, "draft", v) /\ Goto(p, "write_review")
        /\ UNCHANGED <<record, yaml, seal, lock, expect, conf, starter, ops>>
    BY <1>0 DEF WriteDraft
  <2>2. pc[p] # "idle" /\ "write_review" # "idle"
    BY <1>2
  <2> HIDE DEF OnlyMoves, Local, SharedType, SealInv, ProcessType
  <2> QED BY <1>1, <1>3, <2>1, <2>2, WriteFrame
<1>5. /\ loc'[p].refs["draft"] = v
      /\ loc'[p].refs["review"] = loc[p].refs["review"]
      /\ loc'[p].status = loc[p].status /\ loc'[p].phase = loc[p].phase
  <2>1. RecordOK(loc[p])
    BY <1>2 DEF ProcessType
  <2> QED BY <1>1, <1>3, <1>4, <2>1, RegisterFacts
<1>6. UNCHANGED <<lock, starter, expect>>
  BY DEF WriteDraft
<1>7. v # None
  BY <1>1, <1>3, NoneIsNoContent
<1>8. ProcessInv(p)'
  BY <1>0, <1>2, <1>3, <1>4, <1>5, <1>6, <1>7 DEF ProcessInv, LockInv, DraftingInv, ReviewingInv, PromotingInv,
     WaitingReportInv, Promoting, Reporting, Reviewing, Analyzing, StageOne, PhaseOK
<1> QED BY <1>4, <1>8, Assemble

\* The review registered is that of the draft in memory.
LEMMA WriteReviewStep == ASSUME IInv, NEW p \in Procs, WriteReview(p) PROVE IInv'
<1>0. PICK v : v = loc[p].refs["draft"]
  OBVIOUS
<1>1. "review" \in Key /\ "draft" \in Key /\ "write_template" \in Step
  BY DEF Key, Step, StageOne
<1>2. pc[p] = "write_review" /\ ProcessInv(p) /\ ProcessType(p)
  BY Parts DEF WriteReview, At
<1>3. v \in Content("review")
  <2>1. RefsOK(loc[p].refs) /\ loc[p].refs["draft"] # None
    BY <1>2 DEF ProcessType, ProcessInv, DraftingInv, RecordOK
  <2> QED BY <1>0, <1>1, <2>1, ContentFacts DEF RefsOK
<1>4. /\ OnlyMoves(p) /\ Local' /\ SharedType' /\ SealInv' /\ ProcessType(p)'
      /\ pc'[p] = "write_template" /\ loc'[p] = Register(loc[p], "review", v)
  <2>1. /\ Write(p, "review", v) /\ Goto(p, "write_template")
        /\ UNCHANGED <<record, yaml, seal, lock, expect, conf, starter, ops>>
    BY <1>0 DEF WriteReview
  <2>2. pc[p] # "idle" /\ "write_template" # "idle"
    BY <1>2
  <2> HIDE DEF OnlyMoves, Local, SharedType, SealInv, ProcessType
  <2> QED BY <1>1, <1>3, <2>1, <2>2, WriteFrame
<1>5. /\ loc'[p].refs["review"] = v
      /\ loc'[p].refs["draft"] = loc[p].refs["draft"]
      /\ loc'[p].status = loc[p].status /\ loc'[p].phase = loc[p].phase
  <2>1. RecordOK(loc[p])
    BY <1>2 DEF ProcessType
  <2> QED BY <1>1, <1>3, <1>4, <2>1, RegisterFacts
<1>6. UNCHANGED <<lock, starter, expect>>
  BY DEF WriteReview
<1>7. v # None
  BY <1>1, <1>3, NoneIsNoContent
<1>8. ProcessInv(p)'
  BY <1>0, <1>2, <1>3, <1>4, <1>5, <1>6, <1>7 DEF ProcessInv, LockInv, DraftingInv, ReviewingInv, PromotingInv,
     WaitingReportInv, Promoting, Reporting, Reviewing, Analyzing, StageOne, PhaseOK
<1> QED BY <1>4, <1>8, Assemble

\* The HTML report changes none of the artifacts the seal depends on.
LEMMA WriteReportStep == ASSUME IInv, NEW p \in Procs, WriteReport(p) PROVE IInv'
<1>0. PICK v : v = Report(loc[p])
  OBVIOUS
<1>1. "report" \in Key /\ "draft" \in Key /\ "review" \in Key /\ "decisions" \in Key /\ "final" \in Key /\ "audit" \in Key /\ "save_report" \in Step
  BY DEF Key, Step, StageOne
<1>2. pc[p] = "write_report" /\ ProcessInv(p) /\ ProcessType(p)
  BY Parts DEF WriteReport, At
<1>3. v \in Content("report")
  <2>1. /\ RefsOK(loc[p].refs) /\ PhaseOK(loc[p])
        /\ loc[p].status \in {"waiting", "succeeded", "failed"}
        /\ loc[p].phase \in {"human_review", "verify"}
    BY <1>2 DEF ProcessType, RecordOK, ProcessInv, LockInv, PromotingInv, WaitingReportInv, Reporting
  <2>2. loc[p].refs["review"] \in Analysis
    BY <1>1, <2>1, ContentFacts DEF RefsOK, PhaseOK
  <2> QED BY <1>0, <2>1, <2>2, ContentFacts DEF Report
<1>4. /\ OnlyMoves(p) /\ Local' /\ SharedType' /\ SealInv' /\ ProcessType(p)'
      /\ pc'[p] = "save_report" /\ loc'[p] = Register(loc[p], "report", v)
  <2>1. /\ Write(p, "report", v) /\ Goto(p, "save_report")
        /\ UNCHANGED <<record, yaml, seal, lock, expect, conf, starter, ops>>
    BY <1>0 DEF WriteReport
  <2>2. pc[p] # "idle" /\ "save_report" # "idle"
    BY <1>2
  <2> HIDE DEF OnlyMoves, Local, SharedType, SealInv, ProcessType
  <2> QED BY <1>1, <1>3, <2>1, <2>2, WriteFrame
<1>5. /\ loc'[p].refs["report"] = v
      /\ loc'[p].refs["draft"] = loc[p].refs["draft"]
      /\ loc'[p].refs["review"] = loc[p].refs["review"]
      /\ loc'[p].refs["decisions"] = loc[p].refs["decisions"]
      /\ loc'[p].refs["final"] = loc[p].refs["final"]
      /\ loc'[p].refs["audit"] = loc[p].refs["audit"]
      /\ loc'[p].status = loc[p].status /\ loc'[p].phase = loc[p].phase
  <2>1. RecordOK(loc[p])
    BY <1>2 DEF ProcessType
  <2> QED BY <1>1, <1>3, <1>4, <2>1, RegisterFacts
<1>6. UNCHANGED <<lock, starter, expect>>
  BY DEF WriteReport
<1>7. v # None
  BY <1>1, <1>3, NoneIsNoContent
<1>8. ProcessInv(p)'
  BY <1>0, <1>2, <1>3, <1>4, <1>5, <1>6, <1>7 DEF ProcessInv, LockInv, DraftingInv, ReviewingInv, PromotingInv,
     WaitingReportInv, Promoting, Reporting, Reviewing, Analyzing, StageOne, PhaseOK, FinalDerived, AuditDerived
<1> QED BY <1>4, <1>8, Assemble

\* The final document derives from the draft and decisions in memory.
LEMMA WriteFinalStep == ASSUME IInv, NEW p \in Procs, NEW s \in Stamps, WriteFinal(p, s) PROVE IInv'
<1>0. PICK v : v = [draft |-> loc[p].refs["draft"], decisions |-> loc[p].refs["decisions"], stamp |-> s]
  OBVIOUS
<1>1. "final" \in Key /\ "draft" \in Key /\ "review" \in Key /\ "decisions" \in Key /\ "write_audit" \in Step
  BY DEF Key, Step, StageOne
<1>2. pc[p] = "write_final" /\ ProcessInv(p) /\ ProcessType(p)
  BY Parts DEF WriteFinal, At
<1>3. v \in Content("final")
  <2>1. RefsOK(loc[p].refs) /\ loc[p].refs["draft"] # None /\ loc[p].refs["decisions"] # None
    BY <1>2 DEF ProcessType, RecordOK, ProcessInv, LockInv, PromotingInv, PhaseOK, Complete,
       Promoting
  <2> QED BY <1>0, <1>1, <2>1, ContentFacts DEF RefsOK
<1>4. /\ OnlyMoves(p) /\ Local' /\ SharedType' /\ SealInv' /\ ProcessType(p)'
      /\ pc'[p] = "write_audit" /\ loc'[p] = Register(loc[p], "final", v)
  <2>1. /\ Write(p, "final", v) /\ Goto(p, "write_audit")
        /\ UNCHANGED <<record, yaml, seal, lock, expect, conf, starter, ops>>
    BY <1>0 DEF WriteFinal, Decisions
  <2>2. pc[p] # "idle" /\ "write_audit" # "idle"
    BY <1>2
  <2> HIDE DEF OnlyMoves, Local, SharedType, SealInv, ProcessType
  <2> QED BY <1>1, <1>3, <2>1, <2>2, WriteFrame
<1>5. /\ loc'[p].refs["final"] = v
      /\ loc'[p].refs["draft"] = loc[p].refs["draft"]
      /\ loc'[p].refs["review"] = loc[p].refs["review"]
      /\ loc'[p].refs["decisions"] = loc[p].refs["decisions"]
      /\ loc'[p].status = loc[p].status /\ loc'[p].phase = loc[p].phase
  <2>1. RecordOK(loc[p])
    BY <1>2 DEF ProcessType
  <2> QED BY <1>1, <1>3, <1>4, <2>1, RegisterFacts
<1>6. UNCHANGED <<lock, starter, expect>>
  BY DEF WriteFinal
<1>7. v # None
  BY <1>1, <1>3, NoneIsNoContent
<1>8. ProcessInv(p)'
  BY <1>0, <1>2, <1>3, <1>4, <1>5, <1>6, <1>7 DEF ProcessInv, LockInv, DraftingInv, ReviewingInv, PromotingInv,
     WaitingReportInv, Promoting, Reporting, Reviewing, Analyzing, StageOne, PhaseOK, FinalDerived, AuditDerived
<1> QED BY <1>4, <1>8, Assemble

\* The audit judges the final document in memory.
LEMMA WriteAuditStep == ASSUME IInv, NEW p \in Procs, NEW o \in {"pass", "fail"}, WriteAudit(p, o) PROVE IInv'
<1>0. PICK v : v = [outcome |-> o, draft |-> loc[p].refs["final"].draft,
                decisions |-> loc[p].refs["final"].decisions]
  OBVIOUS
<1>1. "audit" \in Key /\ "draft" \in Key /\ "review" \in Key /\ "decisions" \in Key /\ "final" \in Key /\ "save_verdict" \in Step
  BY DEF Key, Step, StageOne
<1>2. pc[p] = "write_audit" /\ ProcessInv(p) /\ ProcessType(p)
  BY Parts DEF WriteAudit, At
<1>3. v \in Content("audit")
  <2>1. RefsOK(loc[p].refs) /\ loc[p].refs["final"] # None
    BY <1>2 DEF ProcessType, RecordOK, ProcessInv, LockInv, PromotingInv, FinalDerived, Promoting
  <2>2. loc[p].refs["final"] \in [draft : Analysis, decisions : Bundle, stamp : Stamps]
    BY <1>1, <2>1, ContentFacts DEF RefsOK
  <2> QED BY <1>0, <2>2, ContentFacts
<1>4. /\ OnlyMoves(p) /\ Local' /\ SharedType' /\ SealInv' /\ ProcessType(p)'
      /\ pc'[p] = "save_verdict" /\ loc'[p] = Register(loc[p], "audit", v)
  <2>1. /\ Write(p, "audit", v) /\ Goto(p, "save_verdict")
        /\ UNCHANGED <<record, yaml, seal, lock, expect, conf, starter, ops>>
    BY <1>0 DEF WriteAudit
  <2>2. pc[p] # "idle" /\ "save_verdict" # "idle"
    BY <1>2
  <2> HIDE DEF OnlyMoves, Local, SharedType, SealInv, ProcessType
  <2> QED BY <1>1, <1>3, <2>1, <2>2, WriteFrame
<1>5. /\ loc'[p].refs["audit"] = v
      /\ loc'[p].refs["draft"] = loc[p].refs["draft"]
      /\ loc'[p].refs["review"] = loc[p].refs["review"]
      /\ loc'[p].refs["decisions"] = loc[p].refs["decisions"]
      /\ loc'[p].refs["final"] = loc[p].refs["final"]
      /\ loc'[p].status = loc[p].status /\ loc'[p].phase = loc[p].phase
  <2>1. RecordOK(loc[p])
    BY <1>2 DEF ProcessType
  <2> QED BY <1>1, <1>3, <1>4, <2>1, RegisterFacts
<1>6. UNCHANGED <<lock, starter, expect>>
  BY DEF WriteAudit
<1>7. v # None
  BY <1>1, <1>3, NoneIsNoContent
<1>8. ProcessInv(p)'
  <2>1. lock = p /\ starter # p /\ PhaseOK(loc[p]) /\ FinalDerived(loc[p])
        /\ loc[p].phase = "rewrite" /\ loc[p].refs["decisions"].review = loc[p].refs["review"]
    BY <1>2 DEF ProcessInv, LockInv, PromotingInv, Promoting, Reporting
  <2>2. FinalDerived(loc[p])' /\ AuditDerived(loc[p])'
    BY <1>0, <1>5, <1>7, <2>1 DEF FinalDerived, AuditDerived
  <2>3. PhaseOK(loc[p])' /\ loc'[p].phase = "rewrite"
        /\ loc'[p].refs["decisions"].review = loc'[p].refs["review"]
    BY <1>5, <2>1 DEF PhaseOK
  <2> QED BY <1>2, <1>4, <1>6, <2>1, <2>2, <2>3 DEF ProcessInv, LockInv, DraftingInv, ReviewingInv, PromotingInv,
     WaitingReportInv, Promoting, Reporting, Reviewing, Analyzing, StageOne
<1> QED BY <1>4, <1>8, Assemble

\* The decisions stored are a bundle, whoever edits the YAML meanwhile.
LEMMA SubmitStep == ASSUME IInv, NEW p \in Procs, Submit(p) PROVE IInv'
<1>0. PICK v : v = loc[p].refs["decisions"]
  OBVIOUS
<1>1. "decisions" \in Key /\ "draft" \in Key /\ "review" \in Key /\ "save_decisions" \in Step
  BY DEF Key, Step, StageOne
<1>2. pc[p] = "submit" /\ ProcessInv(p) /\ ProcessType(p)
  BY Parts DEF Submit, At
<1>3. v \in Content("decisions")
  <2>1. RefsOK(loc[p].refs) /\ loc[p].refs["decisions"] # None
    BY <1>2 DEF ProcessType, RecordOK, ProcessInv, ReviewingInv
  <2> QED BY <1>0, <1>1, <2>1, ContentFacts DEF RefsOK
<1>4. /\ OnlyMoves(p) /\ Local' /\ SharedType' /\ SealInv' /\ ProcessType(p)'
      /\ pc'[p] = "save_decisions" /\ loc'[p] = Register(loc[p], "decisions", v)
  <2>1. /\ Write(p, "decisions", v) /\ Goto(p, "save_decisions")
        /\ UNCHANGED <<record, yaml, seal, lock, expect, conf, starter, ops>>
    BY <1>0 DEF Submit
  <2>2. pc[p] # "idle" /\ "save_decisions" # "idle"
    BY <1>2
  <2> HIDE DEF OnlyMoves, Local, SharedType, SealInv, ProcessType
  <2> QED BY <1>1, <1>3, <2>1, <2>2, WriteFrame
<1>5. /\ loc'[p].refs["decisions"] = v
      /\ loc'[p].refs["draft"] = loc[p].refs["draft"]
      /\ loc'[p].refs["review"] = loc[p].refs["review"]
      /\ loc'[p].status = loc[p].status /\ loc'[p].phase = loc[p].phase
  <2>1. RecordOK(loc[p])
    BY <1>2 DEF ProcessType
  <2> QED BY <1>1, <1>3, <1>4, <2>1, RegisterFacts
<1>6. UNCHANGED <<lock, starter, expect>>
  BY DEF Submit
<1>7. v # None
  BY <1>1, <1>3, NoneIsNoContent
<1>8. ProcessInv(p)'
  BY <1>0, <1>2, <1>3, <1>4, <1>5, <1>6, <1>7 DEF ProcessInv, LockInv, DraftingInv, ReviewingInv, PromotingInv,
     WaitingReportInv, Promoting, Reporting, Reviewing, Analyzing, StageOne, PhaseOK
<1> QED BY <1>4, <1>8, Assemble

-----------------------------------------------------------------------------
(* Steps that save the record, go on or return.                            *)

\* The record saved for analysis has no review yet.
LEMMA SaveExtractedStep == ASSUME IInv, NEW p \in Procs, SaveExtracted(p) PROVE IInv'
<1>0. PICK r : r = [loc[p] EXCEPT !.phase = "analyze"]
  OBVIOUS
<1>1. pc[p] = "save_extracted" /\ ProcessInv(p) /\ RecordOK(loc[p])
  BY Parts DEF SaveExtracted, At, ProcessType
<1>2. RecordOK(r) /\ r.refs = loc[p].refs /\ r.phase = "analyze"
  <2>1. r = [status |-> loc[p].status, phase |-> "analyze", config |-> loc[p].config,
             refs |-> loc[p].refs, unresolved |-> loc[p].unresolved, sealed |-> loc[p].sealed]
    BY <1>0, <1>1 DEF RecordOK
  <2> QED BY <1>1, <2>1 DEF RecordOK
<1>3. PhaseOK(r)
  BY <1>1, <1>2 DEF PhaseOK, ProcessInv, DraftingInv
<1>4. OnlyMoves(p) /\ Local' /\ SharedType' /\ SealInv' /\ ProcessType(p)'
      /\ pc'[p] = "write_draft" /\ loc'[p] = r
  <2>1. /\ Save(p, r) /\ Goto(p, "write_draft")
        /\ UNCHANGED <<files, yaml, seal, lock, expect, conf, starter, ops>>
    BY <1>0 DEF SaveExtracted
  <2>2. pc[p] # "idle" /\ "write_draft" # "idle" /\ "write_draft" \in Step
    BY <1>1 DEF Step, StageOne
  <2> HIDE DEF OnlyMoves, Local, SharedType, SealInv, ProcessType
  <2> QED BY <1>2, <1>3, <2>1, <2>2, SaveFrame
<1>5. UNCHANGED <<lock, starter, expect>>
  BY DEF SaveExtracted
<1>6. ProcessInv(p)'
  BY <1>0, <1>1, <1>2, <1>3, <1>4, <1>5 DEF ProcessInv, LockInv, DraftingInv, ReviewingInv, PromotingInv,
     WaitingReportInv, Promoting, Reporting, Reviewing, Analyzing, StageOne, PhaseOK
<1> QED BY <1>4, <1>6, Assemble

\* The record handed to the reviewer has its draft and its review.
LEMMA SaveAnalyzedStep == ASSUME IInv, NEW p \in Procs, SaveAnalyzed(p) PROVE IInv'
<1>0. PICK r : r = [loc[p] EXCEPT !.phase = "human_review", !.unresolved = Blocking]
  OBVIOUS
<1>1. pc[p] = "save_analyzed" /\ ProcessInv(p) /\ RecordOK(loc[p])
  BY Parts DEF SaveAnalyzed, At, ProcessType
<1>2. RecordOK(r) /\ r.refs = loc[p].refs /\ r.phase = "human_review"
  <2>1. r = [status |-> loc[p].status, phase |-> "human_review", config |-> loc[p].config,
             refs |-> loc[p].refs, unresolved |-> Blocking, sealed |-> loc[p].sealed]
    BY <1>0, <1>1 DEF RecordOK
  <2> QED BY <1>1, <2>1 DEF RecordOK
<1>3. PhaseOK(r)
  BY <1>1, <1>2 DEF PhaseOK, ProcessInv, DraftingInv
<1>4. OnlyMoves(p) /\ Local' /\ SharedType' /\ SealInv' /\ ProcessType(p)'
      /\ pc'[p] = "save_waiting" /\ loc'[p] = r
  <2>1. /\ Save(p, r) /\ Goto(p, "save_waiting")
        /\ UNCHANGED <<files, yaml, seal, lock, expect, conf, starter, ops>>
    BY <1>0 DEF SaveAnalyzed
  <2>2. pc[p] # "idle" /\ "save_waiting" # "idle" /\ "save_waiting" \in Step
    BY <1>1 DEF Step, StageOne
  <2> HIDE DEF OnlyMoves, Local, SharedType, SealInv, ProcessType
  <2> QED BY <1>2, <1>3, <2>1, <2>2, SaveFrame
<1>5. UNCHANGED <<lock, starter, expect>>
  BY DEF SaveAnalyzed
<1>6. ProcessInv(p)'
  BY <1>0, <1>1, <1>2, <1>3, <1>4, <1>5 DEF ProcessInv, LockInv, DraftingInv, ReviewingInv, PromotingInv,
     WaitingReportInv, Promoting, Reporting, Reviewing, Analyzing, StageOne, PhaseOK
<1> QED BY <1>4, <1>6, Assemble

\* The promotion goes on only with approved decisions about its review.
LEMMA PrepareStep == ASSUME IInv, NEW p \in Procs, Prepare(p) PROVE IInv'
<1>0. PICK r : r = [loc[p] EXCEPT !.unresolved = {}]
  OBVIOUS
<1>1. pc[p] = "prepare" /\ ProcessInv(p) /\ RecordOK(loc[p])
  BY Parts DEF Prepare, At, ProcessType
<1>2. RecordOK(r) /\ r.refs = loc[p].refs /\ r.phase = loc[p].phase
  <2>1. r = [status |-> loc[p].status, phase |-> loc[p].phase, config |-> loc[p].config,
             refs |-> loc[p].refs, unresolved |-> {}, sealed |-> loc[p].sealed]
    BY <1>0, <1>1 DEF RecordOK
  <2> QED BY <1>1, <2>1 DEF RecordOK
<1>3. PhaseOK(r)
  BY <1>1, <1>2 DEF PhaseOK, ProcessInv, LockInv, PromotingInv, Promoting
<1>4. OnlyMoves(p) /\ Local' /\ SharedType' /\ SealInv' /\ ProcessType(p)'
      /\ pc'[p] = "write_final" /\ loc'[p] = r
  <2>1. /\ Save(p, r) /\ Goto(p, "write_final")
        /\ UNCHANGED <<files, yaml, seal, lock, expect, conf, starter, ops>>
    BY <1>0 DEF Prepare
  <2>2. pc[p] # "idle" /\ "write_final" # "idle" /\ "write_final" \in Step
    BY <1>1 DEF Step, StageOne
  <2> HIDE DEF OnlyMoves, Local, SharedType, SealInv, ProcessType
  <2> QED BY <1>2, <1>3, <2>1, <2>2, SaveFrame
<1>5. UNCHANGED <<lock, starter, expect>>
  BY DEF Prepare
<1>6. loc[p].refs["decisions"].review = loc[p].refs["review"]
  BY DEF Prepare, Decisions
<1>7. ProcessInv(p)'
  BY <1>0, <1>1, <1>2, <1>3, <1>4, <1>5, <1>6 DEF ProcessInv, LockInv, DraftingInv, ReviewingInv, PromotingInv,
     WaitingReportInv, Promoting, Reporting, Reviewing, Analyzing, StageOne, PhaseOK
<1> QED BY <1>4, <1>7, Assemble

\* The verdict saved is the one of the audit in memory.
LEMMA SaveVerdictStep == ASSUME IInv, NEW p \in Procs, SaveVerdict(p) PROVE IInv'
<1>0. PICK r : r = [loc[p] EXCEPT
                   !.status = IF loc[p].refs["audit"].outcome = "pass" THEN "succeeded" ELSE "failed",
                   !.phase = "verify"]
  OBVIOUS
<1>1. pc[p] = "save_verdict" /\ ProcessInv(p) /\ RecordOK(loc[p])
  BY Parts DEF SaveVerdict, At, ProcessType
<1>2. RecordOK(r) /\ r.refs = loc[p].refs /\ r.phase = "verify"
      /\ r.status = (IF loc[p].refs["audit"].outcome = "pass" THEN "succeeded" ELSE "failed")
  <2>1. r = [status |-> IF loc[p].refs["audit"].outcome = "pass" THEN "succeeded" ELSE "failed", phase |-> "verify", config |-> loc[p].config,
             refs |-> loc[p].refs, unresolved |-> loc[p].unresolved, sealed |-> loc[p].sealed]
    BY <1>0, <1>1 DEF RecordOK
  <2> QED BY <1>1, <2>1 DEF RecordOK
<1>3. PhaseOK(r)
  BY <1>1, <1>2 DEF PhaseOK, ProcessInv, LockInv, PromotingInv, Promoting
<1>4. OnlyMoves(p) /\ Local' /\ SharedType' /\ SealInv' /\ ProcessType(p)'
      /\ pc'[p] = "write_report" /\ loc'[p] = r
  <2>1. /\ Save(p, r) /\ Goto(p, "write_report")
        /\ UNCHANGED <<files, yaml, seal, lock, expect, conf, starter, ops>>
    BY <1>0 DEF SaveVerdict
  <2>2. pc[p] # "idle" /\ "write_report" # "idle" /\ "write_report" \in Step
    BY <1>1 DEF Step, StageOne
  <2> HIDE DEF OnlyMoves, Local, SharedType, SealInv, ProcessType
  <2> QED BY <1>2, <1>3, <2>1, <2>2, SaveFrame
<1>5. UNCHANGED <<lock, starter, expect>>
  BY DEF SaveVerdict
<1>6. ProcessInv(p)'
  BY <1>0, <1>1, <1>2, <1>3, <1>4, <1>5 DEF ProcessInv, LockInv, DraftingInv, ReviewingInv, PromotingInv,
     WaitingReportInv, Promoting, Reporting, Reviewing, Analyzing, StageOne, PhaseOK, FinalDerived, AuditDerived
<1> QED BY <1>4, <1>6, Assemble

\* A run with open questions goes back to waiting with its inputs.
LEMMA SaveUnresolvedStep == ASSUME IInv, NEW p \in Procs, SaveUnresolved(p) PROVE IInv'
<1>0. PICK r : r = [loc[p] EXCEPT !.unresolved = Unresolved(loc[p].refs["decisions"])]
  OBVIOUS
<1>1. pc[p] = "save_unresolved" /\ ProcessInv(p) /\ RecordOK(loc[p])
  BY Parts, ConstantsAssumption DEF SaveUnresolved, At, ProcessType, ProcessInv, LockInv, StageOne, Reporting
<1>2. RecordOK(r) /\ r.refs = loc[p].refs /\ r.phase = loc[p].phase
  <2>1. r = [status |-> loc[p].status, phase |-> loc[p].phase, config |-> loc[p].config,
             refs |-> loc[p].refs, unresolved |-> Unresolved(loc[p].refs["decisions"]), sealed |-> loc[p].sealed]
    BY <1>0, <1>1 DEF RecordOK
  <2> QED BY <1>1, <2>1 DEF RecordOK, Unresolved, Open
<1>3. PhaseOK(r)
  BY <1>1, <1>2 DEF PhaseOK, ProcessInv, ReviewingInv, Reviewing
<1>4. record' = r /\ Return(p) /\ UNCHANGED <<files, yaml, seal, ops>>
  BY <1>0 DEF SaveUnresolved
<1> QED BY <1>2, <1>3, <1>4, SaveReturn

\* The sealed record keeps the artifacts it was sealed with.
LEMMA SaveSealedStep == ASSUME IInv, NEW p \in Procs, SaveSealed(p) PROVE IInv'
<1>0. PICK r : r = [loc[p] EXCEPT !.sealed = TRUE]
  OBVIOUS
<1>1. pc[p] = "save_sealed" /\ ProcessInv(p) /\ RecordOK(loc[p])
  BY Parts, ConstantsAssumption DEF SaveSealed, At, ProcessType, ProcessInv, LockInv, StageOne, Reporting
<1>2. RecordOK(r) /\ r.refs = loc[p].refs /\ r.phase = loc[p].phase
  <2>1. r = [status |-> loc[p].status, phase |-> loc[p].phase, config |-> loc[p].config,
             refs |-> loc[p].refs, unresolved |-> loc[p].unresolved, sealed |-> TRUE]
    BY <1>0, <1>1 DEF RecordOK
  <2> QED BY <1>1, <2>1 DEF RecordOK
<1>3. PhaseOK(r)
  BY <1>1, <1>2 DEF PhaseOK, ProcessInv, LockInv, PromotingInv, Promoting
<1>4. record' = r /\ Return(p) /\ UNCHANGED <<files, yaml, seal, ops>>
  BY <1>0 DEF SaveSealed
<1> QED BY <1>2, <1>3, <1>4, SaveReturn

\* The gate is saved; start goes on to report, resume returns.
LEMMA SaveWaitingStep == ASSUME IInv, NEW p \in Procs, SaveWaiting(p) PROVE IInv'
<1>0. PICK r : r = [loc[p] EXCEPT !.status = "waiting", !.phase = "human_review",
                                  !.unresolved = Blocking]
  OBVIOUS
<1>1. pc[p] = "save_waiting" /\ ProcessInv(p) /\ RecordOK(loc[p])
  BY Parts DEF SaveWaiting, At, ProcessType
<1>2. RecordOK(r) /\ r.refs = loc[p].refs /\ r.phase = "human_review" /\ r.status = "waiting"
  <2>1. r = [status |-> "waiting", phase |-> "human_review", config |-> loc[p].config,
             refs |-> loc[p].refs, unresolved |-> Blocking, sealed |-> loc[p].sealed]
    BY <1>0, <1>1 DEF RecordOK
  <2> QED BY <1>1, <2>1 DEF RecordOK
<1>3. PhaseOK(r)
  BY <1>1, <1>2 DEF PhaseOK, ProcessInv, DraftingInv
<1>4. CASE starter = p
  <2>1. /\ Save(p, r) /\ Goto(p, "write_report")
        /\ UNCHANGED <<files, yaml, seal, lock, expect, conf, starter, ops>>
    BY <1>0, <1>4 DEF SaveWaiting
  <2>2. OnlyMoves(p) /\ Local' /\ SharedType' /\ SealInv' /\ ProcessType(p)'
        /\ pc'[p] = "write_report" /\ loc'[p] = r
    <3>1. pc[p] # "idle" /\ "write_report" # "idle" /\ "write_report" \in Step
      BY <1>1 DEF Step
    <3> HIDE DEF OnlyMoves, Local, SharedType, SealInv, ProcessType
    <3> QED BY <1>2, <1>3, <2>1, <3>1, SaveFrame
  <2>3. ProcessInv(p)'
    BY <1>1, <1>2, <1>3, <1>4, <2>1, <2>2 DEF ProcessInv, LockInv, DraftingInv, ReviewingInv, PromotingInv,
     WaitingReportInv, Promoting, Reporting, Reviewing, Analyzing, StageOne, PhaseOK
  <2> QED BY <2>2, <2>3, Assemble
<1>5. CASE starter # p
  <2>1. record' = r /\ Return(p) /\ UNCHANGED <<files, yaml, seal, ops>>
    BY <1>0, <1>5 DEF SaveWaiting
  <2> QED BY <1>2, <1>3, <2>1, SaveReturn
<1> QED BY <1>4, <1>5

\* Only a promotion that succeeded goes on to seal.
LEMMA SaveReportStep == ASSUME IInv, NEW p \in Procs, SaveReport(p) PROVE IInv'
<1>1. pc[p] = "save_report" /\ ProcessInv(p) /\ RecordOK(loc[p])
  BY Parts DEF SaveReport, At, ProcessType
<1>2. PhaseOK(loc[p])
  BY <1>1 DEF ProcessInv, PromotingInv, WaitingReportInv, Reporting
<1>3. CASE loc[p].status = "succeeded"
  <2>1. /\ Save(p, loc[p]) /\ Goto(p, "write_seal")
        /\ UNCHANGED <<files, yaml, seal, lock, expect, conf, starter, ops>>
    BY <1>3 DEF SaveReport
  <2>2. OnlyMoves(p) /\ Local' /\ SharedType' /\ SealInv' /\ ProcessType(p)'
        /\ pc'[p] = "write_seal" /\ loc'[p] = loc[p]
    <3>1. pc[p] # "idle" /\ "write_seal" # "idle" /\ "write_seal" \in Step
      BY <1>1 DEF Step
    <3> HIDE DEF OnlyMoves, Local, SharedType, SealInv, ProcessType
    <3> QED BY <1>1, <1>2, <2>1, <3>1, SaveFrame
  <2>3. lock = p
    BY <1>1, <1>3 DEF ProcessInv, WaitingReportInv, Reporting
  <2>4. ProcessInv(p)'
    BY <1>1, <1>2, <1>3, <2>1, <2>2, <2>3 DEF ProcessInv, LockInv, DraftingInv, ReviewingInv, PromotingInv,
     WaitingReportInv, Promoting, Reporting, Reviewing, Analyzing, StageOne, PhaseOK, FinalDerived, AuditDerived
  <2> QED BY <2>2, <2>4, Assemble
<1>4. CASE loc[p].status # "succeeded"
  <2>1. record' = loc[p] /\ Return(p) /\ UNCHANGED <<files, yaml, seal, ops>>
    BY <1>4 DEF SaveReport
  <2> QED BY <1>1, <1>2, <2>1, SaveReturn
<1> QED BY <1>3, <1>4

\* The handler saves a record that has lost some references, never gained any.
LEMMA StartFailsStep == ASSUME IInv, NEW p \in Procs, StartFails(p) PROVE IInv'
<1>1. starter = p /\ ProcessInv(p) /\ pc[p] # "idle" /\ RecordOK(loc[p]) /\ lock # p
  BY Parts, ConstantsAssumption DEF StartFails, ProcessType, ProcessInv, LockInv, StageOne, Reporting
<1>2. RecordOK(StartRecord(p)) /\ PhaseOK(StartRecord(p))
  <2>1. CASE pc[p] \in {"extract", "save_extracted"}
    <3>1. StartRecord(p) = [loc[p] EXCEPT !.refs = NoArtifacts]
      BY <2>1 DEF StartRecord
    <3>2. StartRecord(p) = [status |-> loc[p].status, phase |-> loc[p].phase,
             config |-> loc[p].config, refs |-> NoArtifacts,
             unresolved |-> loc[p].unresolved, sealed |-> loc[p].sealed]
      BY <1>1, <3>1 DEF RecordOK
    <3>3. RefsOK(NoArtifacts) /\ NoArtifacts["review"] = None
      BY DEF RefsOK, NoArtifacts, Key
    <3> QED BY <1>1, <2>1, <3>2, <3>3 DEF RecordOK, PhaseOK, ProcessInv, DraftingInv
  <2>2. CASE pc[p] \in {"write_draft", "write_review", "write_template", "save_analyzed"}
    <3>1. StartRecord(p) = Register(Register(loc[p], "draft", None), "review", None)
      BY <1>1, <2>2 DEF StartRecord, Register, RecordOK
    <3>2. "draft" \in Key /\ "review" \in Key
      BY DEF Key
    <3>3. RecordOK(Register(loc[p], "draft", None)) /\ Register(loc[p], "draft", None).phase = loc[p].phase
      BY <1>1, <3>2, RegisterFacts
    <3>4. /\ RecordOK(StartRecord(p)) /\ StartRecord(p).phase = loc[p].phase
          /\ StartRecord(p).refs["review"] = None
      BY <3>1, <3>2, <3>3, RegisterFacts
    <3> QED BY <1>1, <2>2, <3>4 DEF PhaseOK, ProcessInv, DraftingInv, Analyzing
  <2>3. CASE pc[p] \in {"save_waiting", "write_report", "save_report"}
    <3>1. StartRecord(p) = Register(loc[p], "report", None)
      BY <2>3 DEF StartRecord, Register
    <3>2. "draft" \in Key /\ "review" \in Key /\ "report" \in Key /\ "decisions" \in Key
      BY DEF Key
    <3>3. /\ RecordOK(StartRecord(p)) /\ StartRecord(p).phase = loc[p].phase
          /\ StartRecord(p).refs["review"] = loc[p].refs["review"]
          /\ StartRecord(p).refs["draft"] = loc[p].refs["draft"]
          /\ StartRecord(p).refs["decisions"] = loc[p].refs["decisions"]
      BY <1>1, <3>1, <3>2, RegisterFacts
    <3>4. PhaseOK(loc[p])
      BY <1>1, <2>3 DEF ProcessInv, DraftingInv, WaitingReportInv, Reporting
    <3> QED BY <3>3, <3>4 DEF PhaseOK
  <2> QED BY <1>1, <2>1, <2>2, <2>3 DEF ProcessInv, LockInv, StageOne, Reporting
<1>3. PICK r : r = [StartRecord(p) EXCEPT !.status = "failed"]
  OBVIOUS
<1>4. RecordOK(r) /\ PhaseOK(r)
  <2>1. r = [status |-> "failed", phase |-> StartRecord(p).phase,
             config |-> StartRecord(p).config, refs |-> StartRecord(p).refs,
             unresolved |-> StartRecord(p).unresolved, sealed |-> StartRecord(p).sealed]
    BY <1>2, <1>3 DEF RecordOK
  <2> QED BY <1>2, <2>1 DEF RecordOK, PhaseOK
<1>5. record' = r /\ Return(p) /\ UNCHANGED <<files, yaml, seal, ops>>
  BY <1>3 DEF StartFails
<1> QED BY <1>4, <1>5, SaveReturn

\* A process killed at any point loses only its memory and its lock.
LEMMA CrashStep == ASSUME IInv, NEW p \in Procs, Crash(p) PROVE IInv'
<1>1. OnlyMoves(p) /\ Local' /\ ProcessType(p)' /\ ProcessInv(p)'
      /\ lock' \in Procs \cup {None} /\ starter' \in {starter, None}
  BY ReturnFrame DEF Crash
<1>2. SharedType' /\ SealInv'
  BY <1>1, Parts DEF Crash, SharedType, PhaseOK, SealInv, SealedDecisionsComplete, SealedAuditCoversFinal, SealedBytesIntact
<1> QED BY <1>1, <1>2, Assemble

\* start creates the record of a run that has none.
LEMMA StartStep == ASSUME IInv, NEW p \in Procs, NEW c \in Configs, Start(p, c) PROVE IInv'
<1>0. PICK r : r = [status |-> "running", phase |-> "extract", config |-> c,
                    refs |-> NoArtifacts, unresolved |-> {}, sealed |-> FALSE]
  OBVIOUS
<1>1. pc[p] = "idle" /\ lock \in {None, p} /\ record = None /\ ops < MaxOps
      /\ record' = r /\ Keep(p, r) /\ Goto(p, "extract")
      /\ conf' = [conf EXCEPT ![p] = c] /\ starter' = p /\ ops' = ops + 1
      /\ UNCHANGED <<files, yaml, seal, lock, expect>>
  BY <1>0 DEF Start, At, Save
<1>2. ProcessInv(p) /\ Local /\ SharedType /\ ProcessType(p)
  BY Parts
<1>3. RecordOK(r) /\ PhaseOK(r) /\ r.phase = "extract" /\ r.refs["review"] = None
  BY <1>0 DEF RecordOK, PhaseOK, RefsOK, NoArtifacts, Key
<1>4. lock # p /\ starter = None
  BY <1>1, <1>2 DEF ProcessInv, LockInv, SharedType, Promoting, Reporting
<1>5. Local' /\ pc'[p] = "extract" /\ loc'[p] = r /\ conf'[p] = c
  <2>1. "extract" \in Step
    BY DEF Step, StageOne
  <2> QED BY <1>1, <1>2, <2>1 DEF Local, Goto, Keep
<1>6. OnlyMoves(p)
  <2>1. ASSUME NEW q \in Procs \ {p}
        PROVE  pc'[q] = pc[q] /\ loc'[q] = loc[q] /\ expect'[q] = expect[q] /\ conf'[q] = conf[q]
               /\ q # None
    BY <1>1, <1>2, ConstantsAssumption DEF Local, Goto, Keep
  <2> QED BY <1>1, <1>4, <2>1 DEF OnlyMoves
<1>7. SharedType'
  <2>1. ops' \in 0 .. MaxOps
    BY <1>1, <1>2, ConstantsAssumption DEF SharedType
  <2>2. record' # None
    BY <1>1, <1>3, RecordIsNotNone
  <2> QED BY <1>1, <1>2, <1>3, <2>1, <2>2 DEF SharedType, PhaseOK
<1>8. SealInv' /\ ProcessType(p)'
  BY <1>1, <1>2, <1>3, <1>5, Parts DEF ProcessType, SealInv, SealedDecisionsComplete, SealedAuditCoversFinal, SealedBytesIntact
<1>9. ProcessInv(p)'
  BY <1>1, <1>2, <1>3, <1>4, <1>5 DEF ProcessInv, LockInv, DraftingInv, ReviewingInv, PromotingInv,
     WaitingReportInv, Promoting, Reporting, Reviewing, Analyzing, StageOne, PhaseOK
<1> QED BY <1>5, <1>6, <1>7, <1>8, <1>9, Assemble

\* decisions.yaml is no artifact: only the editable file changes.
LEMMA WriteTemplateStep == ASSUME IInv, NEW p \in Procs, WriteTemplate(p) PROVE IInv'
<1>1. pc[p] = "write_template" /\ ProcessInv(p) /\ Local /\ SharedType /\ ProcessType(p)
  BY Parts DEF WriteTemplate, At
<1>2. RecordOK(loc[p]) /\ loc[p].refs["review"] \in Analysis
  <2>1. RecordOK(loc[p]) /\ loc[p].refs["review"] # None /\ "review" \in Key
    <3>1. RefsOK(loc[p].refs) /\ "draft" \in Key /\ "review" \in Key
      BY <1>1 DEF ProcessType, RecordOK, Key
    <3> QED BY <1>1, <3>1 DEF ProcessType, ProcessInv, DraftingInv
  <2> QED BY <2>1, ContentFacts DEF RecordOK, RefsOK
<1>3. yaml' \in Bundle
  <2>1. yaml' = Template(loc[p].refs["review"])
    BY DEF WriteTemplate
  <2> QED BY <1>2, <2>1 DEF Template, Bundle
<1>4. OnlyMoves(p) /\ Local' /\ pc'[p] = "save_analyzed" /\ loc'[p] = loc[p]
  <2>1. "save_analyzed" \in Step
    BY DEF Step, StageOne
  <2> QED BY <1>1, <2>1 DEF WriteTemplate, OnlyMoves, Local, Goto
<1>5. SharedType' /\ SealInv' /\ ProcessType(p)'
  BY <1>1, <1>3, <1>4, Parts DEF WriteTemplate, SharedType, PhaseOK, ProcessType, SealInv, SealedDecisionsComplete, SealedAuditCoversFinal, SealedBytesIntact
<1>6. UNCHANGED <<lock, starter, expect>>
  BY DEF WriteTemplate
<1>7. ProcessInv(p)'
  BY <1>1, <1>4, <1>6 DEF ProcessInv, LockInv, DraftingInv, ReviewingInv, PromotingInv,
     WaitingReportInv, Promoting, Reporting, Reviewing, Analyzing, StageOne, PhaseOK
<1> QED BY <1>4, <1>5, <1>7, Assemble

-----------------------------------------------------------------------------
(* Steps that load, compare and verify the record.                         *)

\* resume loads the record, and captures it as the identity e when it has to.
LEMMA CallFrame ==
    ASSUME IInv, NEW p \in Procs, NEW c \in Configs, NEW step \in Step, step # "idle",
           Call(p, c, step), NEW e, e \in {expect[p], record},
           expect' = [expect EXCEPT ![p] = e]
    PROVE  /\ OnlyMoves(p) /\ Local' /\ SharedType' /\ SealInv' /\ ProcessType(p)'
           /\ pc'[p] = step /\ loc'[p] = record /\ expect'[p] = e
           /\ lock' = lock /\ lock # p /\ starter' = starter /\ starter # p
           /\ PhaseOK(record) /\ (expect[p] # None => PhaseOK(expect[p]))
<1>1. /\ pc[p] = "idle" /\ record # None /\ ops < MaxOps
      /\ pc' = [pc EXCEPT ![p] = step] /\ loc' = [loc EXCEPT ![p] = record]
      /\ conf' = [conf EXCEPT ![p] = c] /\ ops' = ops + 1
      /\ UNCHANGED <<record, files, yaml, seal, lock, starter>>
  BY DEF Call, At, Goto, Keep
<1>2. ProcessInv(p) /\ Local /\ SharedType /\ ProcessType(p)
  BY Parts
<1>3. /\ Local' /\ OnlyMoves(p)
      /\ pc'[p] = step /\ loc'[p] = record /\ expect'[p] = e /\ conf'[p] = c
  BY <1>1, <1>2 DEF Local, OnlyMoves
<1>4. lock # p /\ starter # p /\ (expect[p] # None => PhaseOK(expect[p]))
  BY <1>1, <1>2 DEF ProcessInv, LockInv, ReviewingInv, StageOne, Promoting, Reporting
<1>5. SharedType'
  <2>1. ops' \in 0 .. MaxOps
    BY <1>1, <1>2, ConstantsAssumption DEF SharedType
  <2> QED BY <1>1, <1>2, <2>1 DEF SharedType, PhaseOK
<1>6. RecordOK(record) /\ PhaseOK(record)
  BY <1>1, <1>2 DEF SharedType
<1>7. ProcessType(p)'
  BY <1>2, <1>3, <1>6 DEF ProcessType
<1>8. SealInv'
  BY <1>1, Parts DEF SealInv, SealedDecisionsComplete, SealedAuditCoversFinal, SealedBytesIntact
<1> QED BY <1>1, <1>3, <1>4, <1>5, <1>6, <1>7, <1>8

\* An interrupted analysis restarts without a review.
LEMMA ResumeAnalysisStep ==
    ASSUME IInv, NEW p \in Procs, NEW c \in Configs, ResumeAnalysis(p, c) PROVE IInv'
<1>1. /\ OnlyMoves(p) /\ Local' /\ SharedType' /\ SealInv' /\ ProcessType(p)'
      /\ pc'[p] = "write_draft" /\ loc'[p] = record /\ expect'[p] = expect[p]
      /\ lock' = lock /\ lock # p /\ starter' = starter /\ starter # p
      /\ PhaseOK(record) /\ (expect[p] # None => PhaseOK(expect[p]))
  <2>1. Call(p, c, "write_draft") /\ expect' = [expect EXCEPT ![p] = expect[p]]
    BY Parts DEF ResumeAnalysis, Local
  <2>2. "write_draft" \in Step /\ "write_draft" # "idle"
    BY DEF Step, StageOne
  <2> HIDE DEF OnlyMoves, Local, SharedType, SealInv, ProcessType
  <2> QED BY <2>1, <2>2, CallFrame
<1>2. record.phase = "analyze"
  BY DEF ResumeAnalysis
<1>3. ProcessInv(p)'
  BY <1>1, <1>2 DEF ProcessInv, LockInv, DraftingInv, ReviewingInv, PromotingInv,
     WaitingReportInv, Promoting, Reporting, Reviewing, Analyzing, StageOne, PhaseOK
<1> QED BY <1>1, <1>3, Assemble

\* A waiting run is loaded with its draft and review.
LEMMA ResumeReviewStep ==
    ASSUME IInv, NEW p \in Procs, NEW c \in Configs, ResumeReview(p, c) PROVE IInv'
<1>1. /\ OnlyMoves(p) /\ Local' /\ SharedType' /\ SealInv' /\ ProcessType(p)'
      /\ pc'[p] = "read_decisions" /\ loc'[p] = record /\ expect'[p] = record
      /\ lock' = lock /\ lock # p /\ starter' = starter /\ starter # p
      /\ PhaseOK(record) /\ (expect[p] # None => PhaseOK(expect[p]))
  <2>1. Call(p, c, "read_decisions") /\ expect' = [expect EXCEPT ![p] = record]
    BY DEF ResumeReview
  <2>2. "read_decisions" \in Step /\ "read_decisions" # "idle"
    BY DEF Step
  <2> HIDE DEF OnlyMoves, Local, SharedType, SealInv, ProcessType
  <2> QED BY <2>1, <2>2, CallFrame
<1>2. record.phase = "human_review" /\ record # None
  BY DEF ResumeReview, Call
<1>3. ProcessInv(p)'
  BY <1>1, <1>2 DEF ProcessInv, LockInv, DraftingInv, ReviewingInv, PromotingInv,
     WaitingReportInv, Promoting, Reporting, Reviewing, Analyzing, StageOne, PhaseOK
<1> QED BY <1>1, <1>3, Assemble

\* What is read stays a bundle whatever happens to the file afterwards.
LEMMA ReadDecisionsStep == ASSUME IInv, NEW p \in Procs, ReadDecisions(p) PROVE IInv'
<1>1. pc[p] = "read_decisions" /\ ProcessInv(p) /\ Local /\ SharedType /\ ProcessType(p)
  BY Parts DEF ReadDecisions, At
<1>2. PICK r : r = Register(loc[p], "decisions", yaml)
  OBVIOUS
<1>3. /\ loc' = [loc EXCEPT ![p] = r] /\ pc' = [pc EXCEPT ![p] = "submit"]
      /\ UNCHANGED <<record, files, yaml, seal, lock, expect, conf, starter, ops>>
  BY <1>2 DEF ReadDecisions, Keep, Goto
<1>4. yaml # None /\ yaml \in Content("decisions")
  BY <1>1, ContentFacts DEF ReadDecisions, SharedType
<1>5. "decisions" \in Key /\ "draft" \in Key /\ "review" \in Key
  BY DEF Key
<1>6. /\ RecordOK(r) /\ r.refs["decisions"] = yaml /\ r.phase = loc[p].phase
      /\ r.refs["draft"] = loc[p].refs["draft"] /\ r.refs["review"] = loc[p].refs["review"]
  <2>1. RecordOK(loc[p])
    BY <1>1 DEF ProcessType
  <2> QED BY <1>2, <1>4, <1>5, <2>1, RegisterFacts
<1>7. loc[p].phase = "human_review" /\ PhaseOK(loc[p])
  BY <1>1 DEF ProcessInv, ReviewingInv, Reviewing
<1>8. PhaseOK(r)
  BY <1>6, <1>7 DEF PhaseOK
<1>9. OnlyMoves(p) /\ Local' /\ pc'[p] = "submit" /\ loc'[p] = r
  <2>1. "submit" \in Step
    BY DEF Step
  <2> QED BY <1>1, <1>3, <2>1 DEF OnlyMoves, Local
<1>10. SharedType' /\ SealInv' /\ ProcessType(p)'
  BY <1>1, <1>3, <1>6, <1>9, Parts DEF SharedType, PhaseOK, ProcessType, SealInv, SealedDecisionsComplete, SealedAuditCoversFinal, SealedBytesIntact
<1>11. ProcessInv(p)'
  BY <1>1, <1>3, <1>4, <1>6, <1>7, <1>8, <1>9 DEF ProcessInv, LockInv, DraftingInv, ReviewingInv, PromotingInv,
     WaitingReportInv, Promoting, Reporting, Reviewing, Analyzing, StageOne
<1> QED BY <1>9, <1>10, <1>11, Assemble

\* A retry starts from decisions that were complete when promoted.
LEMMA ResumePromotionStep ==
    ASSUME IInv, NEW p \in Procs, NEW c \in Configs, ResumePromotion(p, c) PROVE IInv'
<1>1. /\ OnlyMoves(p) /\ Local' /\ SharedType' /\ SealInv' /\ ProcessType(p)'
      /\ pc'[p] = "check_recovery" /\ loc'[p] = record /\ expect'[p] = expect[p]
      /\ lock' = lock /\ lock # p /\ starter' = starter /\ starter # p
      /\ PhaseOK(record) /\ (expect[p] # None => PhaseOK(expect[p]))
  <2>1. Call(p, c, "check_recovery") /\ expect' = [expect EXCEPT ![p] = expect[p]]
    BY Parts DEF ResumePromotion, Local
  <2>2. "check_recovery" \in Step /\ "check_recovery" # "idle"
    BY DEF Step
  <2> HIDE DEF OnlyMoves, Local, SharedType, SealInv, ProcessType
  <2> QED BY <2>1, <2>2, CallFrame
<1>2. record.phase \in {"rewrite", "verify"} /\ record # None
  BY DEF ResumePromotion, Call
<1>3. ProcessInv(p)'
  BY <1>1, <1>2 DEF ProcessInv, LockInv, DraftingInv, ReviewingInv, PromotingInv,
     WaitingReportInv, Promoting, Reporting, Reviewing, Analyzing, StageOne, PhaseOK
<1> QED BY <1>1, <1>3, Assemble

\* The identity a retry waits for is the one whose artifacts it verified.
LEMMA CheckRecoveryStep == ASSUME IInv, NEW p \in Procs, CheckRecovery(p) PROVE IInv'
<1>1. pc[p] = "check_recovery" /\ ProcessInv(p) /\ Local /\ SharedType /\ ProcessType(p)
  BY Parts DEF CheckRecovery, At
<1>2. RecordOK(loc[p]) /\ PhaseOK(loc[p]) /\ loc[p].phase \in {"rewrite", "verify"}
  BY <1>1 DEF ProcessType, ProcessInv, ReviewingInv
<1>3. /\ expect' = [expect EXCEPT ![p] = loc[p]] /\ pc' = [pc EXCEPT ![p] = "promote"]
      /\ UNCHANGED <<record, files, yaml, seal, lock, loc, conf, starter, ops>>
  BY DEF CheckRecovery, Goto
<1>4. /\ OnlyMoves(p) /\ Local'
      /\ pc'[p] = "promote" /\ loc'[p] = loc[p] /\ expect'[p] = loc[p]
  <2>1. "promote" \in Step
    BY DEF Step
  <2> QED BY <1>1, <1>3, <2>1 DEF OnlyMoves, Local
<1>5. SharedType' /\ SealInv' /\ ProcessType(p)'
  BY <1>1, <1>2, <1>3, <1>4, Parts DEF SharedType, PhaseOK, ProcessType, SealInv, SealedDecisionsComplete, SealedAuditCoversFinal, SealedBytesIntact
<1>6. loc[p] # None /\ Complete(loc[p].refs["decisions"])
  BY <1>2, RecordIsNotNone DEF PhaseOK
<1>7. ProcessInv(p)'
  BY <1>1, <1>2, <1>3, <1>4, <1>6 DEF ProcessInv, LockInv, DraftingInv, ReviewingInv, PromotingInv,
     WaitingReportInv, Promoting, Reporting, Reviewing, Analyzing, StageOne, PhaseOK
<1> QED BY <1>4, <1>5, <1>7, Assemble

\* The compare-and-save moves the identity a resume waits for.
LEMMA SaveDecisionsStep == ASSUME IInv, NEW p \in Procs, SaveDecisions(p) PROVE IInv'
<1>1. pc[p] = "save_decisions" /\ ProcessInv(p) /\ Local /\ SharedType /\ ProcessType(p)
  BY Parts DEF SaveDecisions, At
<1>2. RecordOK(loc[p]) /\ PhaseOK(loc[p]) /\ conf[p] \in Configs
  BY <1>1 DEF ProcessType, ProcessInv, ReviewingInv, Reviewing
<1>3. /\ record' = loc[p] /\ loc' = [loc EXCEPT ![p] = loc[p]]
      /\ expect' = [expect EXCEPT ![p] = loc[p]] /\ pc' = [pc EXCEPT ![p] = "verify_inputs"]
      /\ UNCHANGED <<files, yaml, seal, lock, conf, starter, ops>>
  BY DEF SaveDecisions, Save, Keep, Goto
<1>4. /\ OnlyMoves(p) /\ Local'
      /\ pc'[p] = "verify_inputs" /\ loc'[p] = loc[p] /\ expect'[p] = loc[p]
  <2>1. "verify_inputs" \in Step
    BY DEF Step
  <2> QED BY <1>1, <1>3, <2>1 DEF OnlyMoves, Local
<1>5. SharedType'
  BY <1>1, <1>2, <1>3, RecordIsNotNone DEF SharedType, PhaseOK
<1>6. SealInv' /\ ProcessType(p)'
  BY <1>2, <1>3, <1>4, Parts DEF ProcessType, SealInv, SealedDecisionsComplete, SealedAuditCoversFinal, SealedBytesIntact
<1>7. loc[p] # None
  BY <1>2, RecordIsNotNone
<1>8. ProcessInv(p)'
  BY <1>1, <1>2, <1>3, <1>4, <1>7 DEF ProcessInv, LockInv, DraftingInv, ReviewingInv, PromotingInv,
     WaitingReportInv, Promoting, Reporting, Reviewing, Analyzing, StageOne, PhaseOK
<1> QED BY <1>4, <1>5, <1>6, <1>8, Assemble

\* Promotion is reached only when no blocking question is open.
LEMMA VerifyInputsStep == ASSUME IInv, NEW p \in Procs, VerifyInputs(p) PROVE IInv'
<1> DEFINE b == loc[p].refs["decisions"]
<1>1. pc[p] = "verify_inputs" /\ ProcessInv(p) /\ Local /\ SharedType /\ ProcessType(p)
  BY Parts DEF VerifyInputs, At
<1>2. PICK step : step = IF Unresolved(b) = {} THEN "promote" ELSE "save_unresolved"
  OBVIOUS
<1>3. /\ pc' = [pc EXCEPT ![p] = step]
      /\ UNCHANGED <<record, files, yaml, seal, lock, loc, expect, conf, starter, ops>>
  BY <1>2 DEF VerifyInputs, Goto
<1>4. step = "promote" => Complete(b)
  <2>1. b # None
    BY <1>1 DEF ProcessInv, ReviewingInv
  <2>2. "decisions" \in Key /\ RefsOK(loc[p].refs)
    BY <1>1 DEF Key, ProcessType, RecordOK
  <2>3. b \in Bundle
    BY <2>1, <2>2, ContentFacts DEF RefsOK
  <2>4. b.approve \in BOOLEAN
    BY <2>3 DEF Bundle
  <2>5. step = "promote" => Open(b) = {} /\ b.approve
    BY <1>2, <2>4 DEF Unresolved
  <2> QED BY <2>1, <2>5 DEF Complete
<1>5. OnlyMoves(p) /\ Local' /\ pc'[p] = step /\ loc'[p] = loc[p]
  <2>1. step \in Step
    BY <1>2 DEF Step
  <2> QED BY <1>1, <1>3, <2>1 DEF OnlyMoves, Local
<1>6. SharedType' /\ SealInv' /\ ProcessType(p)'
  BY <1>1, <1>3, <1>5, Parts DEF SharedType, PhaseOK, ProcessType, SealInv, SealedDecisionsComplete, SealedAuditCoversFinal, SealedBytesIntact
<1>7. step \in {"promote", "save_unresolved"}
  BY <1>2
<1>8. ProcessInv(p)'
  BY <1>1, <1>3, <1>4, <1>5, <1>7 DEF ProcessInv, LockInv, DraftingInv, ReviewingInv, PromotingInv,
     WaitingReportInv, Promoting, Reporting, Reviewing, Analyzing, StageOne, PhaseOK
<1> QED BY <1>5, <1>6, <1>8, Assemble

-----------------------------------------------------------------------------
(* The promotion block.                                                    *)

\* Under the lock, the record promoted is the one that was checked.
LEMMA PromoteStep == ASSUME IInv, NEW p \in Procs, Promote(p) PROVE IInv'
<1>0. PICK r : r = [record EXCEPT !.status = "running", !.phase = "rewrite"]
  OBVIOUS
<1>1. pc[p] = "promote" /\ lock \in {None, p}
      /\ ProcessInv(p) /\ Local /\ SharedType /\ ProcessType(p)
  BY Parts DEF Promote, At
<1>2. record # None /\ record = expect[p]
      /\ Complete(record.refs["decisions"]) /\ record.phase \in {"human_review", "rewrite", "verify"}
  BY <1>1 DEF Promote, ProcessInv, ReviewingInv, Reviewing
<1>3. RecordOK(record) /\ PhaseOK(record)
  BY <1>1, <1>2 DEF SharedType
<1>4. RecordOK(r) /\ PhaseOK(r) /\ r.phase = "rewrite"
  <2>1. r = [status |-> "running", phase |-> "rewrite", config |-> record.config,
             refs |-> record.refs, unresolved |-> record.unresolved, sealed |-> record.sealed]
    BY <1>0, <1>3 DEF RecordOK
  <2>2. RecordOK(r) /\ r.refs = record.refs /\ r.phase = "rewrite"
    BY <1>3, <2>1 DEF RecordOK
  <2> QED BY <1>2, <1>3, <2>2 DEF PhaseOK
<1>5. /\ lock' = p /\ loc' = [loc EXCEPT ![p] = r] /\ pc' = [pc EXCEPT ![p] = "prepare"]
      /\ UNCHANGED <<record, files, yaml, seal, expect, conf, starter, ops>>
  BY <1>0 DEF Promote, Keep, Goto
<1>6. Local' /\ pc'[p] = "prepare" /\ loc'[p] = r
  <2>1. "prepare" \in Step
    BY DEF Step
  <2> QED BY <1>1, <1>5, <2>1 DEF Local
<1>7. OnlyMoves(p)
  <2>1. ASSUME NEW q \in Procs \ {p}
        PROVE  pc'[q] = pc[q] /\ loc'[q] = loc[q] /\ q # None
    BY <1>1, <1>5, ConstantsAssumption DEF Local
  <2> QED BY <1>1, <1>5, <2>1 DEF OnlyMoves
<1>8. SharedType' /\ SealInv' /\ ProcessType(p)'
  BY <1>1, <1>4, <1>5, <1>6, Parts DEF SharedType, PhaseOK, ProcessType, SealInv, SealedDecisionsComplete, SealedAuditCoversFinal, SealedBytesIntact
<1>9. ProcessInv(p)'
  BY <1>1, <1>4, <1>5, <1>6 DEF ProcessInv, LockInv, DraftingInv, ReviewingInv, PromotingInv,
     WaitingReportInv, Promoting, Reporting, Reviewing, Analyzing, StageOne, PhaseOK
<1> QED BY <1>6, <1>7, <1>8, <1>9, Assemble

\* The seal is what the promotion has in memory, and the bytes are verified.
LEMMA WriteSealStep == ASSUME IInv, NEW p \in Procs, WriteSeal(p) PROVE IInv'
<1>1. pc[p] = "write_seal" /\ ProcessInv(p) /\ Local /\ SharedType /\ ProcessType(p)
  BY Parts DEF WriteSeal, At
<1>2. /\ Verified(loc[p]) /\ seal' = loc[p].refs /\ pc' = [pc EXCEPT ![p] = "save_sealed"]
      /\ UNCHANGED <<record, files, yaml, lock, loc, expect, conf, starter, ops>>
  BY DEF WriteSeal, Goto
<1>3. OnlyMoves(p) /\ Local' /\ pc'[p] = "save_sealed" /\ loc'[p] = loc[p]
  <2>1. "save_sealed" \in Step
    BY DEF Step
  <2> QED BY <1>1, <1>2, <2>1 DEF OnlyMoves, Local
<1>4. /\ PhaseOK(loc[p]) /\ loc[p].phase = "verify" /\ FinalDerived(loc[p]) /\ AuditDerived(loc[p])
      /\ loc[p].refs["audit"].outcome = "pass"
      /\ loc[p].refs["decisions"].review = loc[p].refs["review"]
  BY <1>1 DEF ProcessInv, LockInv, PromotingInv, Promoting
<1>5. SealedDecisionsComplete'
  BY <1>2, <1>4 DEF SealedDecisionsComplete, PhaseOK, Complete
<1>6. SealedAuditCoversFinal'
  BY <1>2, <1>4 DEF SealedAuditCoversFinal, FinalDerived, AuditDerived
<1>7. SealedBytesIntact'
  BY <1>2 DEF SealedBytesIntact, Verified
<1>8. SharedType' /\ ProcessType(p)'
  BY <1>1, <1>2, <1>3 DEF SharedType, PhaseOK, ProcessType, RecordOK
<1>9. ProcessInv(p)'
  BY <1>1, <1>2, <1>3 DEF ProcessInv, LockInv, DraftingInv, ReviewingInv, PromotingInv,
     WaitingReportInv, Promoting, Reporting, Reviewing, Analyzing, StageOne, PhaseOK, FinalDerived, AuditDerived
<1> QED BY <1>3, <1>5, <1>6, <1>7, <1>8, <1>9, Assemble DEF SealInv

\* The reviewer changes nothing but the editable file.
LEMMA EditDecisionsStep == ASSUME IInv, EditDecisions PROVE IInv'
<1>1. yaml' \in Bundle
  <2>1. yaml \in Bundle
    BY Parts DEF EditDecisions, SharedType
  <2>2. PICK approve \in BOOLEAN, answers \in [Blocking -> Answers \cup {None}] :
          yaml' = [yaml EXCEPT !.approve = approve, !.answers = answers]
    BY DEF EditDecisions
  <2> QED BY <2>1, <2>2 DEF Bundle
<1>2. UNCHANGED <<record, files, seal, lock, pc, loc, expect, conf, starter, ops>>
  BY DEF EditDecisions
<1>3. TypeOK'
  BY <1>1, <1>2 DEF IInv, TypeOK
<1>4. SealInv' /\ (record' # None => PhaseOK(record')) /\ (starter' # None => record' # None)
  BY <1>2 DEF IInv, PhaseOK, SealInv, SealedDecisionsComplete, SealedAuditCoversFinal, SealedBytesIntact
<1>5. ASSUME NEW q \in Procs PROVE ProcessInv(q)'
  BY <1>2 DEF IInv, ProcessInv, LockInv, DraftingInv, ReviewingInv, PromotingInv,
     WaitingReportInv, PhaseOK, FinalDerived, AuditDerived
<1> QED BY <1>3, <1>4, <1>5 DEF IInv, PhaseOK

-----------------------------------------------------------------------------
(* Together.                                                               *)

\* The empty workspace satisfies the invariant.
LEMMA InitIInv == ASSUME Init PROVE IInv
<1>1. RefsOK(NoArtifacts)
  BY DEF RefsOK, NoArtifacts
<1>2. TypeOK
  BY <1>1, ConstantsAssumption DEF Init, TypeOK, Step
<1>3. \A p \in Procs : ProcessInv(p)
  BY ConstantsAssumption DEF Init, ProcessInv, LockInv, DraftingInv, ReviewingInv, PromotingInv,
     WaitingReportInv, Promoting, Reporting, Reviewing, Analyzing, StageOne
<1>4. SealInv
  BY DEF Init, SealInv, SealedDecisionsComplete, SealedAuditCoversFinal, SealedBytesIntact
<1> QED BY <1>2, <1>3, <1>4 DEF Init, IInv

\* Every step of start keeps the invariant.
LEMMA Stage1Step == ASSUME IInv, NEW p \in Procs, Stage1(p) PROVE IInv'
<1>1. CASE \E c \in Configs : Start(p, c)
  BY <1>1, StartStep
<1>2. CASE Extract(p)
  BY <1>2, ExtractStep
<1>3. CASE SaveExtracted(p)
  BY <1>3, SaveExtractedStep
<1>4. CASE \E a \in Attempts : WriteDraft(p, a)
  BY <1>4, WriteDraftStep
<1>5. CASE WriteReview(p)
  BY <1>5, WriteReviewStep
<1>6. CASE WriteTemplate(p)
  BY <1>6, WriteTemplateStep
<1>7. CASE SaveAnalyzed(p)
  BY <1>7, SaveAnalyzedStep
<1>8. CASE SaveWaiting(p)
  BY <1>8, SaveWaitingStep
<1>9. CASE StartFails(p)
  BY <1>9, StartFailsStep
<1> QED BY <1>1, <1>2, <1>3, <1>4, <1>5, <1>6, <1>7, <1>8, <1>9 DEF Stage1

\* Every step of resume keeps the invariant.
LEMMA Stage2Step == ASSUME IInv, NEW p \in Procs, Stage2(p) PROVE IInv'
<1>1. CASE \E c \in Configs : ResumeAnalysis(p, c) \/ ResumeReview(p, c) \/ ResumePromotion(p, c)
  BY <1>1, ResumeAnalysisStep, ResumeReviewStep, ResumePromotionStep
<1>2. CASE Submit(p)
  BY <1>2, SubmitStep
<1>3. CASE SaveDecisions(p)
  BY <1>3, SaveDecisionsStep
<1>4. CASE VerifyInputs(p)
  BY <1>4, VerifyInputsStep
<1>5. CASE SaveUnresolved(p)
  BY <1>5, SaveUnresolvedStep
<1>6. CASE Promote(p)
  BY <1>6, PromoteStep
<1>7. CASE Prepare(p)
  BY <1>7, PrepareStep
<1>8. CASE \E s \in Stamps : WriteFinal(p, s)
  BY <1>8, WriteFinalStep
<1>9. CASE \E o \in {"pass", "fail"} : WriteAudit(p, o)
  BY <1>9, WriteAuditStep
<1>10. CASE SaveVerdict(p)
  BY <1>10, SaveVerdictStep
<1>11. CASE WriteSeal(p)
  BY <1>11, WriteSealStep
<1>12. CASE SaveSealed(p)
  BY <1>12, SaveSealedStep
<1>13. CASE ReadDecisions(p)
  BY <1>13, ReadDecisionsStep
<1>14. CASE CheckRecovery(p)
  BY <1>14, CheckRecoveryStep
<1> QED BY <1>1, <1>2, <1>3, <1>4, <1>5, <1>6, <1>7, <1>8, <1>9, <1>10, <1>11, <1>12,
           <1>13, <1>14 DEF Stage2

\* Every step, and every stutter, keeps the invariant.
LEMMA NextIInv == ASSUME IInv, [Next]_vars PROVE IInv'
<1>1. CASE EditDecisions
  BY <1>1, EditDecisionsStep
<1>2. ASSUME NEW p \in Procs,
             Stage1(p) \/ Stage2(p) \/ WriteReport(p) \/ SaveReport(p) \/ Crash(p)
      PROVE  IInv'
  BY <1>2, Stage1Step, Stage2Step, WriteReportStep, SaveReportStep, CrashStep
<1>3. CASE UNCHANGED vars
  <2>1. UNCHANGED <<record, files, yaml, seal, lock, pc, loc, expect, conf, starter, ops>>
    BY <1>3 DEF vars
  <2>2. TypeOK' /\ SealInv'
    BY <2>1 DEF IInv, TypeOK, SealInv, SealedDecisionsComplete, SealedAuditCoversFinal,
                SealedBytesIntact
  <2>3. \A q \in Procs : ProcessInv(q)'
    BY <2>1 DEF IInv, ProcessInv, LockInv, DraftingInv, ReviewingInv, PromotingInv,
       WaitingReportInv, PhaseOK, FinalDerived, AuditDerived
  <2> QED BY <2>1, <2>2, <2>3 DEF IInv, PhaseOK
<1> QED BY <1>1, <1>2, <1>3 DEF Next

\* The inductive invariant holds in every state, for every set of processes,
\* configurations, questions and answers, and any number of calls, whether or
\* not resume overlaps start.
THEOREM Invariance == Spec => []IInv
<1> QED BY InitIInv, NextIInv, PTL DEF Spec

\* Every variable of the run bundle keeps its type.
THEOREM TypeCorrectness == Spec => []TypeOK
<1>1. IInv => TypeOK
  BY DEF IInv
<1> QED BY <1>1, Invariance, PTL

\* RunStore never seals decisions that are unapproved, incomplete, or made about
\* another draft than the one sealed.
THEOREM SealCompleteness == Spec => []SealedDecisionsComplete
<1>1. IInv => SealedDecisionsComplete
  BY DEF IInv, SealInv
<1> QED BY <1>1, Invariance, PTL

\* A seal never mixes the final document, the decisions and the audit of
\* different promotion attempts, and never stands on a failed audit.
THEOREM SealCoherence == Spec => []SealedAuditCoversFinal
<1>1. IInv => SealedAuditCoversFinal
  BY DEF IInv, SealInv
<1> QED BY <1>1, Invariance, PTL

\* No step of any process changes the bytes of a sealed artifact.
THEOREM SealIntegrity == Spec => []SealedBytesIntact
<1>1. IInv => SealedBytesIntact
  BY DEF IInv, SealInv
<1> QED BY <1>1, Invariance, PTL

-----------------------------------------------------------------------------
(* Stages: StageInv and what follows from it *)

OwnStage(p) == StageOneAlone(p) /\ ReviewerWaits(p) /\ PromoterOwns(p)

-----------------------------------------------------------------------------
(* Frames *)

\* A step of p, which no promotion of another process stops and no stage 1 of
\* another process excludes, disturbs nobody else.
LEMMA OthersKeep ==
    ASSUME IInv, StageInv, NEW p \in Procs, OnlyMoves(p),
           lock \in {None, p} \/ UNCHANGED <<record, files, seal>>,
           pc[p] # "idle" \/ \A q \in Procs \ {p} : ~InStageOne(q)
    PROVE  \A q \in Procs \ {p} : OwnStage(q)'
<1> SUFFICES ASSUME NEW q \in Procs \ {p} PROVE OwnStage(q)'
  OBVIOUS
<1>1. /\ pc'[q] = pc[q] /\ loc'[q] = loc[q] /\ expect'[q] = expect[q]
      /\ (lock' = q) <=> (lock = q)
      /\ (starter' = q) <=> (starter = q)
  BY DEF OnlyMoves
<1>2. OwnStage(q)
  BY DEF StageInv, OwnStage
<1>3. ~InStageOne(q)
  BY <1>2 DEF OwnStage, StageOneAlone
<1>4. StageOneAlone(q)'
  BY <1>1, <1>3 DEF StageOneAlone, InStageOne
<1>5. ReviewerWaits(q)'
  BY <1>1, <1>2 DEF OwnStage, ReviewerWaits, Promotable
<1>6. PromoterOwns(q)'
  <2>1. CASE lock = q
    <3>1. UNCHANGED <<record, files, seal>>
      BY <2>1, ConstantsAssumption
    <3> QED BY <1>1, <1>2, <3>1 DEF OwnStage, PromoterOwns, Promotable
  <2>2. CASE lock # q
    BY <1>1, <2>2 DEF PromoterOwns
  <2> QED BY <2>1, <2>2
<1> QED BY <1>4, <1>5, <1>6 DEF OwnStage

\* The parts of the invariant that a step of p has to restore.
LEMMA StageAssemble ==
    ASSUME IInv, StageInv, NEW p \in Procs, OnlyMoves(p),
           lock \in {None, p} \/ UNCHANGED <<record, files, seal>>,
           pc[p] # "idle" \/ \A q \in Procs \ {p} : ~InStageOne(q),
           OwnStage(p)', RecordStands'
    PROVE  StageInv'
<1>1. \A q \in Procs \ {p} : OwnStage(q)'
  BY OthersKeep
<1> QED BY <1>1 DEF StageInv, OwnStage

\* Who has returned has nothing left to keep.
LEMMA OwnReturned ==
    ASSUME IInv, NEW p \in Procs, Return(p)
    PROVE  OnlyMoves(p) /\ OwnStage(p)' /\ pc'[p] = "idle" /\ lock' # p
<1>1. OnlyMoves(p) /\ Local'
  BY ReturnFrame
<1>2. pc'[p] = "idle" /\ lock' # p /\ starter' # p
  BY Parts, ConstantsAssumption DEF Return, Goto, Local
<1>3. OwnStage(p)'
  BY <1>2 DEF OwnStage, StageOneAlone, ReviewerWaits, PromoterOwns, InStageOne, StageOne,
              Reviewing
<1> QED BY <1>1, <1>2, <1>3

\* A process that is killed leaves the record and the files as they are.
LEMMA CrashStage == ASSUME IInv, StageInv, NEW p \in Procs, Crash(p) PROVE StageInv'
<1>1. Return(p) /\ UNCHANGED <<record, files, seal>> /\ pc[p] # "idle"
  BY DEF Crash
<1>2. OnlyMoves(p) /\ OwnStage(p)' /\ pc'[p] = "idle"
  BY <1>1, OwnReturned
<1>3. RecordStands'
  BY <1>1, <1>2 DEF StageInv, RecordStands, Intact, OnlyMoves
<1> QED BY <1>1, <1>2, <1>3, StageAssemble

-----------------------------------------------------------------------------
(* Stage 1 *)

\* A process of stage 1 goes on alone.
LEMMA StageOneStep ==
    ASSUME IInv, StageInv, NEW p \in Procs, pc[p] \in StageOne \/ starter = p, OnlyMoves(p),
           StageOneAlone(p)', pc'[p] \in StageOne \cup Reporting \cup {"idle"}, lock' # p,
           RecordStands'
    PROVE  StageInv'
<1>1. pc[p] # "idle" /\ lock \in {None, p}
  <2>1. pc[p] # "idle"
    BY Parts DEF ProcessInv, LockInv, StageOne, Reporting
  <2>2. \A q \in Procs \ {p} : pc[q] = "idle"
    BY DEF StageInv, StageOneAlone, InStageOne
  <2>3. \A q \in Procs \ {p} : lock # q
    BY <2>2, Parts DEF ProcessInv, LockInv, Promoting, Reporting
  <2> QED BY <2>1, <2>3, Parts DEF SharedType
<1>2. ReviewerWaits(p)' /\ PromoterOwns(p)'
  BY DEF ReviewerWaits, PromoterOwns, StageOne, Reporting, Reviewing
<1> QED BY <1>1, <1>2, StageAssemble DEF OwnStage

\* Nobody but stage 1 works on a run that has nothing to review yet.
LEMMA AloneWorks ==
    ASSUME NEW p \in Procs, StageOneAlone(p)', pc'[p] \in StageOne
    PROVE  \A q \in Procs : pc'[q] \in StageOne \cup {"idle"}
BY DEF StageOneAlone, InStageOne

\* What is known of a process of stage 1 before each of its steps.
LEMMA StageOneFacts ==
    ASSUME IInv, StageInv, NEW p \in Procs, InStageOne(p)
    PROVE  /\ StageOneAlone(p) /\ RecordStands /\ DraftingInv(p) /\ LockInv(p)
           /\ record # None /\ RecordOK(record) /\ PhaseOK(record) /\ RefsOK(files)
           /\ pc[p] # "idle" /\ RecordOK(loc[p]) /\ conf[p] \in Configs
<1>1. StageOneAlone(p) /\ RecordStands
  BY DEF StageInv
<1>2. pc[p] # "idle"
  BY Parts DEF ProcessInv, LockInv, StageOne, Reporting, InStageOne
<1> QED BY <1>1, <1>2, Parts DEF StageOneAlone, ProcessInv, SharedType, ProcessType

\* A new run: nobody works on what does not exist.
LEMMA StartStage ==
    ASSUME IInv, StageInv, NEW p \in Procs, NEW c \in Configs, Start(p, c) PROVE StageInv'
<1> DEFINE r == [status |-> "running", phase |-> "extract", config |-> c,
                 refs |-> NoArtifacts, unresolved |-> {}, sealed |-> FALSE]
<1>1. /\ record = None /\ record' = r /\ Keep(p, r) /\ Goto(p, "extract") /\ starter' = p
      /\ conf' = [conf EXCEPT ![p] = c] /\ UNCHANGED <<files, yaml, seal, lock, expect>>
  BY DEF Start, Save
<1>2. (\A q \in Procs : pc[q] = "idle") /\ seal = None /\ starter = None
  BY <1>1 DEF StageInv, RecordStands, IInv
<1>3. lock = None
  BY <1>2, Parts DEF ProcessInv, LockInv, SharedType, Promoting, Reporting
<1>4. OnlyMoves(p) /\ pc'[p] = "extract" /\ loc'[p] = r
  BY <1>1, <1>2, Parts, ConstantsAssumption DEF OnlyMoves, Goto, Keep, Local
<1>5. r # None /\ (\A k \in Key : r.refs[k] = None)
  <2>1. RefsOK(NoArtifacts)
    BY DEF RefsOK, NoArtifacts
  <2>2. RecordOK(r)
    BY <2>1 DEF RecordOK
  <2> QED BY <2>2, RecordIsNotNone DEF NoArtifacts
<1>6. StageOneAlone(p)'
  BY <1>1, <1>2, <1>3, <1>4, <1>5, ConstantsAssumption
  DEF StageOneAlone, Intact, Key, OnlyMoves, StageOne, Analyzing, Reporting
<1>7. RecordStands'
  <2>1. \A q \in Procs : pc'[q] \in StageOne \cup {"idle"}
    BY <1>4, <1>6, AloneWorks DEF StageOne
  <2> QED BY <1>1, <1>2, <1>5, <2>1 DEF RecordStands, Intact, Key
<1>8. OwnStage(p)'
  BY <1>1, <1>3, <1>4, <1>6, ConstantsAssumption DEF OwnStage, ReviewerWaits, PromoterOwns, Reviewing
<1>9. \A q \in Procs \ {p} : ~InStageOne(q)
  BY <1>2, ConstantsAssumption DEF InStageOne, StageOne
<1> QED BY <1>3, <1>4, <1>7, <1>8, <1>9, StageAssemble

\* The files of the source.
LEMMA ExtractStage == ASSUME IInv, StageInv, NEW p \in Procs, Extract(p) PROVE StageInv'
<1>1. InStageOne(p) /\ pc[p] = "extract"
  BY DEF Extract, At, InStageOne, StageOne
<1>2. /\ files' = [files EXCEPT !["source"] = "source"]
      /\ Keep(p, Register(loc[p], "source", "source")) /\ Goto(p, "save_extracted")
      /\ UNCHANGED <<record, seal, lock, expect, conf, starter>>
  BY DEF Extract, Write
<1>3. OnlyMoves(p) /\ pc'[p] = "save_extracted" /\ loc'[p] = Register(loc[p], "source", "source")
  BY <1>2, MoveFrame DEF Step, StageOne
<1>4. "source" \in Content("source")
  BY ContentFacts
<1>5. /\ loc'[p].refs["source"] = "source" /\ loc'[p].status = loc[p].status
      /\ \A k \in Key : k # "source" => loc'[p].refs[k] = loc[p].refs[k]
  BY <1>1, <1>3, <1>4, StageOneFacts, RegisterFacts DEF Key
<1>6. /\ files'["source"] = "source"
      /\ \A k \in Key : k # "source" => files'[k] = files[k]
  BY <1>1, <1>2, <1>4, StageOneFacts, RefsUpdate DEF Key
<1>7. StageOneAlone(p)'
  BY <1>1, <1>2, <1>3, <1>5, <1>6, StageOneFacts
  DEF StageOneAlone, Intact, Key, OnlyMoves, InStageOne, StageOne, Analyzing, Reporting
<1>8. RecordStands'
  <2>1. record.refs["source"] # None => record.refs["source"] = "source"
    BY <1>1, StageOneFacts, ContentFacts DEF RecordOK, RefsOK, Key
  <2>2. \A q \in Procs : pc'[q] \in StageOne \cup {"idle"}
    BY <1>3, <1>7, AloneWorks DEF StageOne
  <2> QED BY <1>1, <1>2, <1>3, <1>6, <2>1, <2>2, StageOneFacts
          DEF RecordStands, Intact, Key, StageOneAlone
<1>9. lock' # p
  BY <1>1, <1>2, StageOneFacts DEF StageOneAlone
<1> QED BY <1>1, <1>3, <1>7, <1>8, <1>9, StageOneStep DEF StageOne, InStageOne

\* A step of stage 1 that registers one of the artifacts of the analysis.
LEMMA WriteStageOne ==
    ASSUME IInv, StageInv, NEW p \in Procs, InStageOne(p),
           NEW k \in {"source", "draft", "review"}, NEW v \in Content(k), NEW step \in Step,
           Write(p, k, v), Goto(p, step),
           UNCHANGED <<record, yaml, seal, lock, expect, conf, starter, ops>>
    PROVE  /\ OnlyMoves(p) /\ pc'[p] = step /\ lock' # p
           /\ loc'[p].refs[k] = v /\ loc'[p].status = loc[p].status
           /\ \A j \in Key : j # k => loc'[p].refs[j] = loc[p].refs[j]
           /\ files'[k] = v /\ (\A j \in Key : j # k => files'[j] = files[j])
<1>1. OnlyMoves(p) /\ pc'[p] = step /\ loc'[p] = Register(loc[p], k, v)
  BY MoveFrame DEF Write
<1>2. k \in Key
  BY DEF Key
<1>3. /\ loc'[p].refs[k] = v /\ loc'[p].status = loc[p].status
      /\ \A j \in Key : j # k => loc'[p].refs[j] = loc[p].refs[j]
  BY <1>1, <1>2, StageOneFacts, RegisterFacts
<1>4. files'[k] = v /\ (\A j \in Key : j # k => files'[j] = files[j])
  BY <1>2, StageOneFacts, RefsUpdate DEF Write
<1>5. lock' # p
  BY StageOneFacts DEF StageOneAlone
<1> QED BY <1>1, <1>3, <1>4, <1>5

\* Until the analysis is saved, no registered draft can be overwritten.
LEMMA WriteDraftStage ==
    ASSUME IInv, StageInv, NEW p \in Procs, NEW a \in Attempts, WriteDraft(p, a) PROVE StageInv'
<1> DEFINE v == [attempt |-> a, config |-> conf[p]]
<1>1. InStageOne(p) /\ pc[p] = "write_draft"
  BY DEF WriteDraft, At, InStageOne, StageOne
<1>2. v \in Content("draft") /\ "write_review" \in Step
  BY <1>1, StageOneFacts, ContentFacts DEF Analysis, Step, StageOne
<1>3. /\ Write(p, "draft", v) /\ Goto(p, "write_review")
      /\ UNCHANGED <<record, yaml, seal, lock, expect, conf, starter, ops>>
  BY DEF WriteDraft
<1> HIDE DEF v
<1>4. /\ OnlyMoves(p) /\ pc'[p] = "write_review" /\ lock' # p
      /\ loc'[p].refs["draft"] = v /\ loc'[p].status = loc[p].status
      /\ \A j \in Key : j # "draft" => loc'[p].refs[j] = loc[p].refs[j]
      /\ files'["draft"] = v /\ (\A j \in Key : j # "draft" => files'[j] = files[j])
  BY <1>1, <1>2, <1>3, WriteStageOne
<1>5. StageOneAlone(p)'
  BY <1>1, <1>3, <1>4, StageOneFacts
  DEF StageOneAlone, Intact, Key, OnlyMoves, InStageOne, StageOne, Analyzing, Reporting
<1>6. RecordStands'
  <2>1. \A q \in Procs : pc'[q] \in StageOne \cup {"idle"}
    BY <1>4, <1>5, AloneWorks DEF StageOne
  <2> QED BY <1>1, <1>3, <1>4, <2>1, StageOneFacts
          DEF RecordStands, Intact, Key, StageOneAlone, Analyzing
<1> QED BY <1>1, <1>4, <1>5, <1>6, StageOneStep DEF StageOne, InStageOne

\* The review is written once the draft is registered in memory.
LEMMA WriteReviewStage == ASSUME IInv, StageInv, NEW p \in Procs, WriteReview(p) PROVE StageInv'
<1> DEFINE v == loc[p].refs["draft"]
<1>1. InStageOne(p) /\ pc[p] = "write_review"
  BY DEF WriteReview, At, InStageOne, StageOne
<1>2. v \in Content("review") /\ "write_template" \in Step
  BY <1>1, StageOneFacts, ContentFacts DEF DraftingInv, RecordOK, RefsOK, Key, Step, StageOne
<1>3. /\ Write(p, "review", v) /\ Goto(p, "write_template")
      /\ UNCHANGED <<record, yaml, seal, lock, expect, conf, starter, ops>>
  BY DEF WriteReview
<1> HIDE DEF v
<1>4. /\ OnlyMoves(p) /\ pc'[p] = "write_template" /\ lock' # p
      /\ loc'[p].refs["review"] = v /\ loc'[p].status = loc[p].status
      /\ \A j \in Key : j # "review" => loc'[p].refs[j] = loc[p].refs[j]
      /\ files'["review"] = v /\ (\A j \in Key : j # "review" => files'[j] = files[j])
  BY <1>1, <1>2, <1>3, WriteStageOne
<1>5. StageOneAlone(p)'
  BY <1>1, <1>3, <1>4, StageOneFacts
  DEF StageOneAlone, Intact, Key, OnlyMoves, InStageOne, StageOne, Analyzing, Reporting
<1>6. RecordStands'
  <2>1. \A q \in Procs : pc'[q] \in StageOne \cup {"idle"}
    BY <1>4, <1>5, AloneWorks DEF StageOne
  <2> QED BY <1>1, <1>3, <1>4, <2>1, StageOneFacts
          DEF RecordStands, Intact, Key, StageOneAlone, Analyzing
<1> QED BY <1>1, <1>4, <1>5, <1>6, StageOneStep DEF StageOne, InStageOne

\* The template is no registered artifact.
LEMMA WriteTemplateStage == ASSUME IInv, StageInv, NEW p \in Procs, WriteTemplate(p) PROVE StageInv'
<1>1. InStageOne(p) /\ pc[p] = "write_template"
  BY DEF WriteTemplate, At, InStageOne, StageOne
<1>2. /\ Goto(p, "save_analyzed")
      /\ UNCHANGED <<record, files, seal, lock, loc, expect, conf, starter, ops>>
  BY DEF WriteTemplate
<1>3. OnlyMoves(p) /\ pc'[p] = "save_analyzed" /\ loc'[p] = loc[p]
  BY <1>2, Parts DEF Goto, Local, OnlyMoves
<1>4. StageOneAlone(p)' /\ lock' # p
  BY <1>1, <1>2, <1>3, StageOneFacts
  DEF StageOneAlone, Intact, Key, OnlyMoves, InStageOne, StageOne, Analyzing, Reporting
<1>5. RecordStands'
  <2>1. \A q \in Procs : pc'[q] \in StageOne \cup {"idle"}
    BY <1>3, <1>4, AloneWorks DEF StageOne
  <2> QED BY <1>1, <1>2, <2>1, StageOneFacts DEF RecordStands, Intact
<1> QED BY <1>1, <1>3, <1>4, <1>5, StageOneStep DEF StageOne, InStageOne

-----------------------------------------------------------------------------
(* Stage 1 saves its record. *)

\* The fields that a save changes are those of the state alone.
LEMMA StateUpdate ==
    ASSUME NEW r, RecordOK(r), NEW s, NEW f, NEW u
    PROVE  /\ [r EXCEPT !.phase = f].refs = r.refs
           /\ [r EXCEPT !.phase = f].phase = f /\ [r EXCEPT !.phase = f].status = r.status
           /\ [r EXCEPT !.phase = f, !.unresolved = u].refs = r.refs
           /\ [r EXCEPT !.phase = f, !.unresolved = u].phase = f
           /\ [r EXCEPT !.phase = f, !.unresolved = u].status = r.status
           /\ [r EXCEPT !.status = s, !.phase = f].refs = r.refs
           /\ [r EXCEPT !.status = s, !.phase = f].phase = f
           /\ [r EXCEPT !.status = s, !.phase = f].status = s
           /\ [r EXCEPT !.status = s, !.phase = f, !.unresolved = u].refs = r.refs
           /\ [r EXCEPT !.status = s, !.phase = f, !.unresolved = u].phase = f
           /\ [r EXCEPT !.status = s, !.phase = f, !.unresolved = u].status = s
           /\ [r EXCEPT !.unresolved = u].refs = r.refs
           /\ [r EXCEPT !.unresolved = u].phase = r.phase
           /\ [r EXCEPT !.unresolved = u].status = r.status
BY DEF RecordOK

\* A record whose state is saved anew is a record.
LEMMA StateType ==
    ASSUME NEW r, RecordOK(r), NEW s \in {"running", "waiting", "succeeded", "failed"},
           NEW f \in {"extract", "analyze", "human_review", "rewrite", "verify"}
    PROVE  RecordOK([r EXCEPT !.status = s, !.phase = f])
<1>1. PICK n : n = [r EXCEPT !.status = s, !.phase = f]
  OBVIOUS
<1>2. n = [status |-> s, phase |-> f, config |-> r.config, refs |-> r.refs,
           unresolved |-> r.unresolved, sealed |-> r.sealed]
  BY <1>1 DEF RecordOK
<1>3. RecordOK(n)
  BY <1>2 DEF RecordOK
<1> QED BY <1>1, <1>3

\* The record says that extraction is over.
LEMMA SaveExtractedStage == ASSUME IInv, StageInv, NEW p \in Procs, SaveExtracted(p) PROVE StageInv'
<1>1. InStageOne(p) /\ pc[p] = "save_extracted"
  BY DEF SaveExtracted, At, InStageOne, StageOne
<1> DEFINE r == [loc[p] EXCEPT !.phase = "analyze"]
<1>2. r.refs = loc[p].refs /\ r.phase = "analyze" /\ r.status = loc[p].status
  BY <1>1, StageOneFacts, StateUpdate
<1>3. /\ record' = r /\ Keep(p, r) /\ Goto(p, "write_draft")
      /\ UNCHANGED <<files, yaml, seal, lock, expect, conf, starter, ops>>
  BY DEF SaveExtracted, Save
<1>4. r # None
  BY <1>1, RecordIsNotNone, StageOneFacts DEF RecordOK
<1> HIDE DEF r
<1>5. OnlyMoves(p) /\ pc'[p] = "write_draft" /\ loc'[p] = r
  BY <1>3, MoveFrame DEF Step, StageOne
<1>6. StageOneAlone(p)' /\ lock' # p
  BY <1>1, <1>2, <1>3, <1>4, <1>5, StageOneFacts
  DEF StageOneAlone, Intact, Key, OnlyMoves, InStageOne, StageOne, Analyzing, Reporting
<1>7. RecordStands'
  <2>1. \A q \in Procs : pc'[q] \in StageOne \cup {"idle"}
    BY <1>5, <1>6, AloneWorks DEF StageOne
  <2> QED BY <1>1, <1>2, <1>3, <1>4, <2>1, StageOneFacts
          DEF RecordStands, StageOneAlone, Intact, Key, Early
<1> QED BY <1>1, <1>5, <1>6, <1>7, StageOneStep DEF StageOne, InStageOne

\* The record gets the draft and the review.
LEMMA SaveAnalyzedStage == ASSUME IInv, StageInv, NEW p \in Procs, SaveAnalyzed(p) PROVE StageInv'
<1>1. InStageOne(p) /\ pc[p] = "save_analyzed"
  BY DEF SaveAnalyzed, At, InStageOne, StageOne
<1> DEFINE r == [loc[p] EXCEPT !.phase = "human_review", !.unresolved = Blocking]
<1>2. r.refs = loc[p].refs /\ r.phase = "human_review" /\ r.status = loc[p].status
  BY <1>1, StageOneFacts, StateUpdate
<1>3. /\ record' = r /\ Keep(p, r) /\ Goto(p, "save_waiting")
      /\ UNCHANGED <<files, yaml, seal, lock, expect, conf, starter, ops>>
  BY DEF SaveAnalyzed, Save
<1>4. r # None
  BY <1>1, RecordIsNotNone, StageOneFacts DEF RecordOK
<1> HIDE DEF r
<1>5. OnlyMoves(p) /\ pc'[p] = "save_waiting" /\ loc'[p] = r
  BY <1>3, MoveFrame DEF Step, StageOne
<1>6. StageOneAlone(p)' /\ lock' # p
  BY <1>1, <1>2, <1>3, <1>4, <1>5, StageOneFacts
  DEF StageOneAlone, Intact, Key, OnlyMoves, InStageOne, StageOne, Analyzing, Reporting
<1>7. RecordStands'
  BY <1>1, <1>2, <1>3, <1>4, <1>5, StageOneFacts
  DEF RecordStands, StageOneAlone, Intact, Key, Early, StageOne
<1> QED BY <1>1, <1>5, <1>6, <1>7, StageOneStep DEF StageOne, InStageOne

\* The gate is saved; start goes on to its report.
LEMMA SaveWaitingStage == ASSUME IInv, StageInv, NEW p \in Procs, SaveWaiting(p) PROVE StageInv'
<1>1. InStageOne(p) /\ pc[p] = "save_waiting"
  BY DEF SaveWaiting, At, InStageOne, StageOne
<1> DEFINE r == [loc[p] EXCEPT !.status = "waiting", !.phase = "human_review",
                               !.unresolved = Blocking]
<1>2. r.refs = loc[p].refs /\ r.phase = "human_review" /\ r.status = "waiting"
  BY <1>1, StageOneFacts, StateUpdate
<1>3. r # None
  BY <1>1, RecordIsNotNone, StageOneFacts DEF RecordOK
<1>4. /\ record' = r /\ UNCHANGED <<files, yaml, seal, ops>>
      /\ \/ starter = p /\ Keep(p, r) /\ Goto(p, "write_report") /\ UNCHANGED <<lock, expect, conf, starter>>
         \/ starter # p /\ Return(p)
  BY DEF SaveWaiting, Save
<1> HIDE DEF r
<1>5. /\ OnlyMoves(p) /\ StageOneAlone(p)' /\ lock' # p
      /\ pc'[p] \in {"write_report", "idle"}
  <2>1. CASE starter = p
    <3>1. Keep(p, r) /\ Goto(p, "write_report") /\ UNCHANGED <<lock, expect, conf, starter>>
      BY <1>4, <2>1
    <3>2. OnlyMoves(p) /\ pc'[p] = "write_report" /\ loc'[p] = r
      BY <3>1, MoveFrame DEF Step, StageOne
    <3>3. StageOneAlone(p)' /\ lock' # p
      BY <1>1, <1>2, <1>3, <1>4, <3>1, <3>2, StageOneFacts
      DEF StageOneAlone, Intact, Key, OnlyMoves, InStageOne, StageOne, Analyzing, Reporting
    <3> QED BY <3>2, <3>3
  <2>2. CASE starter # p
    <3>1. Return(p)
      BY <1>4, <2>2
    <3> QED BY <3>1, OwnReturned DEF OwnStage
  <2> QED BY <2>1, <2>2
<1>6. RecordStands'
  BY <1>1, <1>2, <1>3, <1>4, StageOneFacts
  DEF RecordStands, StageOneAlone, Intact, Key, Early, StageOne
<1> QED BY <1>1, <1>5, <1>6, StageOneStep DEF StageOne, InStageOne, Reporting

\* What the record of a failed start has lost are references.
LEMMA StartRecordFacts ==
    ASSUME IInv, StageInv, NEW p \in Procs, starter = p
    PROVE  LET r == [StartRecord(p) EXCEPT !.status = "failed"]
           IN  /\ r.status = "failed" /\ r.phase = loc[p].phase /\ r # None
               /\ r.refs["report"] = None
               /\ \A k \in Key : r.refs[k] = None \/ r.refs[k] = loc[p].refs[k]
<1> DEFINE r == [StartRecord(p) EXCEPT !.status = "failed"]
<1>1. InStageOne(p)
  BY DEF InStageOne
<1>2. RecordOK(loc[p]) /\ StageOneAlone(p) /\ LockInv(p) /\ pc[p] \in StageOne \cup Reporting
  BY <1>1, StageOneFacts DEF LockInv
<1>3. \E f : /\ RefsOK(f) /\ f["report"] = None
             /\ \A k \in Key : f[k] = None \/ f[k] = loc[p].refs[k]
             /\ StartRecord(p) = [loc[p] EXCEPT !.refs = f]
  <2>1. CASE pc[p] \in {"extract", "save_extracted"}
    <3>1. StartRecord(p) = [loc[p] EXCEPT !.refs = NoArtifacts]
      BY <2>1 DEF StartRecord
    <3>2. RefsOK(NoArtifacts) /\ \A k \in Key : NoArtifacts[k] = None
      BY DEF RefsOK, NoArtifacts
    <3> QED BY <3>1, <3>2 DEF Key
  <2>2. CASE pc[p] \in {"write_draft", "write_review", "write_template", "save_analyzed"}
    <3> DEFINE f == [loc[p].refs EXCEPT !["draft"] = None, !["review"] = None]
    <3>1. StartRecord(p) = [loc[p] EXCEPT !.refs = f]
      BY <1>2, <2>2 DEF StartRecord, RecordOK
    <3>2. loc[p].refs["report"] = None
      BY <1>1, <1>2, <2>2 DEF StageOneAlone
    <3>3. RefsOK(f) /\ f["report"] = None /\ \A k \in Key : f[k] = None \/ f[k] = loc[p].refs[k]
      BY <1>2, <3>2 DEF RecordOK, RefsOK, Key
    <3> QED BY <3>1, <3>3
  <2>3. CASE pc[p] \in {"save_waiting", "write_report", "save_report"}
    <3> DEFINE f == [loc[p].refs EXCEPT !["report"] = None]
    <3>1. StartRecord(p) = [loc[p] EXCEPT !.refs = f]
      BY <1>2, <2>3 DEF StartRecord, RecordOK
    <3>2. RefsOK(f) /\ f["report"] = None /\ \A k \in Key : f[k] = None \/ f[k] = loc[p].refs[k]
      BY <1>2 DEF RecordOK, RefsOK, Key
    <3> QED BY <3>1, <3>2
  <2> QED BY <1>2, <2>1, <2>2, <2>3 DEF StageOne, Reporting
<1>4. PICK f : /\ RefsOK(f) /\ f["report"] = None
               /\ \A k \in Key : f[k] = None \/ f[k] = loc[p].refs[k]
               /\ StartRecord(p) = [loc[p] EXCEPT !.refs = f]
  BY <1>3
<1>5. r = [status |-> "failed", phase |-> loc[p].phase, config |-> loc[p].config, refs |-> f,
           unresolved |-> loc[p].unresolved, sealed |-> loc[p].sealed]
  <2>1. StartRecord(p) =
          [status |-> loc[p].status, phase |-> loc[p].phase, config |-> loc[p].config, refs |-> f,
           unresolved |-> loc[p].unresolved, sealed |-> loc[p].sealed]
    BY <1>2, <1>4 DEF RecordOK
  <2> QED BY <2>1
<1>6. r # None
  <2>1. RecordOK(r)
    BY <1>2, <1>4, <1>5 DEF RecordOK
  <2> HIDE DEF r
  <2> QED BY <2>1, RecordIsNotNone
<1>7. /\ r.status = "failed" /\ r.phase = loc[p].phase
      /\ r.refs["report"] = None
      /\ \A k \in Key : r.refs[k] = None \/ r.refs[k] = loc[p].refs[k]
  <2> HIDE DEF r
  <2> QED BY <1>4, <1>5
<1> QED BY <1>6, <1>7

\* The handler of start saves the failure.
LEMMA StartFailsStage == ASSUME IInv, StageInv, NEW p \in Procs, StartFails(p) PROVE StageInv'
<1> DEFINE r == [StartRecord(p) EXCEPT !.status = "failed"]
<1>1. InStageOne(p) /\ starter = p /\ record' = r /\ Return(p) /\ UNCHANGED <<files, yaml, seal>>
  BY DEF StartFails, InStageOne
<1>2. /\ r.status = "failed" /\ r.phase = loc[p].phase /\ r # None
      /\ r.refs["report"] = None
      /\ \A k \in Key : r.refs[k] = None \/ r.refs[k] = loc[p].refs[k]
  BY <1>1, StartRecordFacts
<1> HIDE DEF r
<1>3. OnlyMoves(p) /\ StageOneAlone(p)' /\ lock' # p /\ pc'[p] = "idle"
  BY <1>1, OwnReturned DEF OwnStage
<1>4. loc[p].phase \in Early
  BY <1>1, StageOneFacts, Parts DEF DraftingInv, LockInv, ProcessInv, WaitingReportInv, StageOneAlone,
     StageOne, Analyzing, Reporting, Early
<1>5. \A q \in Procs : pc'[q] = "idle"
  BY <1>1, <1>3, StageOneFacts DEF StageOneAlone, OnlyMoves
<1>6. loc[p].phase = "human_review" => pc[p] \in {"save_waiting"} \cup Reporting
  BY <1>1, StageOneFacts, Parts DEF DraftingInv, LockInv, StageOne, Analyzing
<1>7. RecordStands'
  BY <1>1, <1>2, <1>4, <1>5, <1>6, StageOneFacts DEF RecordStands, StageOneAlone, Intact, Key, Early
<1> QED BY <1>1, <1>3, <1>7, StageOneStep DEF InStageOne

-----------------------------------------------------------------------------
(* The promotion block *)

\* A promotion goes on under its lock.
LEMMA PromotionStep ==
    ASSUME IInv, StageInv, NEW p \in Procs, lock = p, OnlyMoves(p), starter' = starter,
           pc'[p] \in Promoting \cup Reporting, PromoterOwns(p)', RecordStands'
    PROVE  StageInv'
<1>1. pc[p] # "idle" /\ starter # p
  BY Parts DEF ProcessInv, LockInv, Promoting, Reporting
<1>2. StageOneAlone(p)' /\ ReviewerWaits(p)'
  BY <1>1 DEF StageOneAlone, InStageOne, StageOne, ReviewerWaits, Promoting, Reporting, Reviewing
<1> QED BY <1>1, <1>2, StageAssemble DEF OwnStage

\* What is known of a promotion before each of its steps.
LEMMA PromotionFacts ==
    ASSUME IInv, StageInv, NEW p \in Procs, lock = p
    PROVE  /\ PromoterOwns(p) /\ RecordStands /\ PromotingInv(p) /\ starter # p
           /\ record # None /\ RecordOK(record) /\ PhaseOK(record) /\ RefsOK(files)
           /\ pc[p] \in Promoting \cup Reporting /\ RecordOK(loc[p])
<1>1. PromoterOwns(p) /\ RecordStands
  BY DEF StageInv
<1>2. pc[p] \in Promoting \cup Reporting /\ starter # p /\ pc[p] # "idle"
  BY Parts DEF ProcessInv, LockInv, Promoting, Reporting
<1> QED BY <1>1, <1>2, Parts DEF PromoterOwns, ProcessInv, SharedType, ProcessType

\* A step of a promotion that registers one of its outputs.
LEMMA WritePromotion ==
    ASSUME IInv, StageInv, NEW p \in Procs, lock = p,
           NEW k \in {"final", "audit", "report"}, NEW v \in Content(k), NEW step \in Step,
           Write(p, k, v), Goto(p, step), step \in {"write_audit", "save_verdict", "save_report"},
           IF k = "report" THEN step = "save_report" /\ pc[p] = "write_report"
           ELSE step # "save_report" /\ pc[p] \in {"write_final", "write_audit"},
           UNCHANGED <<record, yaml, seal, lock, expect, conf, starter, ops>>
    PROVE  StageInv'
<1>1. OnlyMoves(p) /\ pc'[p] = step /\ loc'[p] = Register(loc[p], k, v)
  BY MoveFrame DEF Write
<1>2. k \in Key
  BY DEF Key
<1>3. /\ loc'[p].status = loc[p].status
      /\ \A j \in Inputs : loc'[p].refs[j] = loc[p].refs[j]
  BY <1>1, <1>2, PromotionFacts, RegisterFacts DEF Inputs, Key
<1>4. \A j \in Key : j # k => files'[j] = files[j]
  BY <1>2, PromotionFacts, RefsUpdate DEF Write
<1>5. seal = None
  BY DEF Write
<1>6. PromoterOwns(p)'
  BY <1>1, <1>3, <1>5, PromotionFacts DEF PromoterOwns, Reporting
<1>7. record.phase = IF k = "report" THEN "verify" ELSE "rewrite"
  BY PromotionFacts DEF PromoterOwns, Reporting
<1>8. RecordStands'
  BY <1>1, <1>4, <1>5, <1>7, PromotionFacts, ConstantsAssumption
  DEF RecordStands, Intact, Key, Promoting, Reporting
<1> QED BY <1>1, <1>6, <1>8, PromotionStep DEF Promoting, Reporting

\* The outputs are written under the lock.
LEMMA WriteFinalStage == ASSUME IInv, StageInv, NEW p \in Procs, NEW s \in Stamps, WriteFinal(p, s) PROVE StageInv'
<1> DEFINE v == [draft |-> loc[p].refs["draft"], decisions |-> Decisions(p), stamp |-> s]
<1>1. pc[p] = "write_final" /\ lock = p
  BY Parts DEF WriteFinal, At, ProcessInv, LockInv, Promoting
<1>2. v \in Content("final")
  <2>1. RefsOK(loc[p].refs) /\ loc[p].refs["draft"] # None /\ loc[p].refs["decisions"] # None
    BY <1>1, PromotionFacts DEF RecordOK, PromotingInv, PhaseOK, Complete
  <2> QED BY <2>1, ContentFacts DEF RefsOK, Key, Decisions
<1>3. /\ Write(p, "final", v) /\ Goto(p, "write_audit")
      /\ UNCHANGED <<record, yaml, seal, lock, expect, conf, starter, ops>>
  BY DEF WriteFinal
<1> HIDE DEF v
<1> QED BY <1>1, <1>2, <1>3, WritePromotion DEF Step

\* The audit is written under the lock.
LEMMA WriteAuditStage ==
    ASSUME IInv, StageInv, NEW p \in Procs, NEW o \in {"pass", "fail"}, WriteAudit(p, o) PROVE StageInv'
<1> DEFINE v == [outcome |-> o, draft |-> loc[p].refs["final"].draft,
                 decisions |-> loc[p].refs["final"].decisions]
<1>1. pc[p] = "write_audit" /\ lock = p
  BY Parts DEF WriteAudit, At, ProcessInv, LockInv, Promoting
<1>2. v \in Content("audit")
  <2>1. RefsOK(loc[p].refs) /\ loc[p].refs["final"] # None
    BY <1>1, PromotionFacts DEF RecordOK, PromotingInv, FinalDerived
  <2>2. loc[p].refs["final"] \in [draft : Analysis, decisions : Bundle, stamp : Stamps]
    BY <2>1, ContentFacts DEF RefsOK, Key
  <2> QED BY <2>2, ContentFacts
<1>3. /\ Write(p, "audit", v) /\ Goto(p, "save_verdict")
      /\ UNCHANGED <<record, yaml, seal, lock, expect, conf, starter, ops>>
  BY DEF WriteAudit
<1> HIDE DEF v
<1> QED BY <1>1, <1>2, <1>3, WritePromotion DEF Step

-----------------------------------------------------------------------------
(* The report, which start and a promotion write. *)

\* The report is written by a process of either stage.
LEMMA WriteReportStage == ASSUME IInv, StageInv, NEW p \in Procs, WriteReport(p) PROVE StageInv'
<1> DEFINE v == Report(loc[p])
<1>1. pc[p] = "write_report" /\ (lock = p \/ starter = p)
  BY Parts DEF WriteReport, At, ProcessInv, LockInv, Reporting
<1>2. v \in Content("report")
  <2>1. RecordOK(loc[p]) /\ PhaseOK(loc[p]) /\ loc[p].status \in {"waiting", "succeeded", "failed"}
        /\ loc[p].phase \in {"human_review", "verify"}
    BY <1>1, Parts DEF ProcessType, ProcessInv, PromotingInv, WaitingReportInv, Reporting
  <2>2. RefsOK(loc[p].refs) /\ loc[p].refs["review"] # None
    BY <2>1 DEF RecordOK, PhaseOK
  <2> QED BY <2>1, <2>2, ContentFacts DEF Report, RefsOK, Key
<1>3. /\ Write(p, "report", v) /\ Goto(p, "save_report") /\ "save_report" \in Step
      /\ UNCHANGED <<record, yaml, seal, lock, expect, conf, starter, ops>>
  BY DEF WriteReport, Step
<1> HIDE DEF v
<1>4. CASE lock = p
  BY <1>1, <1>2, <1>3, <1>4, WritePromotion
<1>5. CASE starter = p
  <2>1. InStageOne(p)
    BY <1>5 DEF InStageOne
  <2>2. OnlyMoves(p) /\ pc'[p] = "save_report" /\ loc'[p] = Register(loc[p], "report", v)
    BY <1>3, MoveFrame DEF Write
  <2>3. /\ loc'[p].refs["report"] = v /\ loc'[p].status = loc[p].status
        /\ \A j \in Key : j # "report" => loc'[p].refs[j] = loc[p].refs[j]
    BY <1>2, <2>1, <2>2, StageOneFacts, RegisterFacts DEF Key
  <2>4. files'["report"] = v /\ (\A j \in Key : j # "report" => files'[j] = files[j])
    BY <1>2, <1>3, <2>1, StageOneFacts, RefsUpdate DEF Write, Key
  <2>5. StageOneAlone(p)' /\ lock' # p
    BY <1>1, <1>3, <2>1, <2>2, <2>3, <2>4, StageOneFacts
    DEF StageOneAlone, Intact, Key, OnlyMoves, InStageOne, StageOne, Analyzing, Reporting
  <2>6. RecordStands'
    BY <1>1, <1>3, <2>1, <2>2, <2>4, StageOneFacts
    DEF RecordStands, StageOneAlone, Intact, Key, OnlyMoves, Reporting
  <2> QED BY <1>5, <2>2, <2>5, <2>6, StageOneStep DEF Reporting
<1> QED BY <1>1, <1>4, <1>5


\* The record is saved with its report.
LEMMA SaveReportStage == ASSUME IInv, StageInv, NEW p \in Procs, SaveReport(p) PROVE StageInv'
<1>1. pc[p] = "save_report" /\ (lock = p \/ starter = p) /\ LockInv(p) /\ RecordOK(loc[p])
  BY Parts DEF SaveReport, At, ProcessInv, LockInv, Reporting, ProcessType
<1>2. /\ record' = loc[p] /\ UNCHANGED <<files, yaml, seal>>
      /\ \/ /\ loc[p].status = "succeeded" /\ Keep(p, loc[p]) /\ Goto(p, "write_seal")
            /\ UNCHANGED <<lock, expect, conf, starter>>
         \/ loc[p].status # "succeeded" /\ Return(p)
  BY DEF SaveReport, Save
<1>3. loc[p] # None
  BY <1>1, RecordIsNotNone
<1>4. CASE starter = p
  <2>1. InStageOne(p)
    BY <1>4 DEF InStageOne
  <2>2. loc[p].phase = "human_review" /\ loc[p].status = "waiting"
    BY <1>1, <1>4, <2>1, StageOneFacts, Parts DEF StageOneAlone, ProcessInv, WaitingReportInv, Reporting
  <2>3. OnlyMoves(p) /\ OwnStage(p)' /\ pc'[p] = "idle" /\ lock' # p
    BY <1>2, <2>2, OwnReturned
  <2>4. RecordStands'
    BY <1>1, <1>2, <1>3, <2>1, <2>2, StageOneFacts
    DEF RecordStands, StageOneAlone, Intact, Key, Early, Reporting
  <2> QED BY <1>4, <2>3, <2>4, StageOneStep DEF OwnStage
<1>5. CASE lock = p
  <2>1. loc[p].phase = "verify" /\ loc[p].status \in {"succeeded", "failed"} /\ loc[p].refs["final"] # None
    BY <1>1, <1>5, PromotionFacts DEF PromotingInv, Reporting, FinalDerived
  <2>2. /\ \A k \in Inputs : loc[p].refs[k] = record.refs[k]
        /\ record.phase = "verify" /\ seal = None
    BY <1>1, <1>5, PromotionFacts DEF PromoterOwns, Reporting
  <2>3. RecordStands'
    BY <1>2, <1>3, <1>5, <2>1, <2>2, PromotionFacts DEF RecordStands, Intact, Inputs, Early
  <2>4. CASE loc[p].status = "succeeded"
    <3>1. Keep(p, loc[p]) /\ Goto(p, "write_seal") /\ UNCHANGED <<lock, expect, conf, starter>>
      BY <1>2, <2>4
    <3>2. OnlyMoves(p) /\ pc'[p] = "write_seal" /\ loc'[p] = loc[p]
      BY <3>1, MoveFrame DEF Step
    <3>3. PromoterOwns(p)'
      BY <1>2, <1>3, <1>5, <2>2, <2>4, <3>1, <3>2 DEF PromoterOwns, Reporting, Inputs
    <3> QED BY <1>5, <2>3, <3>1, <3>2, <3>3, PromotionStep DEF Promoting
  <2>5. CASE loc[p].status # "succeeded"
    <3>1. OnlyMoves(p) /\ OwnStage(p)'
      BY <1>2, <2>5, OwnReturned
    <3> QED BY <1>1, <1>5, <2>3, <3>1, StageAssemble
  <2> QED BY <2>4, <2>5
<1> QED BY <1>1, <1>4, <1>5

-----------------------------------------------------------------------------
(* The promotion saves its record. *)

\* The promotion saves that it runs.
LEMMA PrepareStage == ASSUME IInv, StageInv, NEW p \in Procs, Prepare(p) PROVE StageInv'
<1> DEFINE r == [loc[p] EXCEPT !.unresolved = {}]
<1>1. pc[p] = "prepare" /\ lock = p
  BY Parts DEF Prepare, At, ProcessInv, LockInv, Promoting
<1>2. /\ record' = r /\ Keep(p, r) /\ Goto(p, "write_final") /\ seal = None
      /\ UNCHANGED <<files, yaml, seal, lock, expect, conf, starter, ops>>
  BY DEF Prepare, Save
<1>3. r.refs = loc[p].refs /\ r.phase = loc[p].phase /\ r.status = loc[p].status
  BY <1>1, PromotionFacts, StateUpdate
<1>4. r # None
  BY <1>1, PromotionFacts, RecordIsNotNone DEF RecordOK
<1> HIDE DEF r
<1>5. OnlyMoves(p) /\ pc'[p] = "write_final" /\ loc'[p] = r
  BY <1>2, MoveFrame DEF Step
<1>6. loc[p].phase = "rewrite" /\ loc[p].status = "running" /\ Promotable(record)
      /\ \A k \in Key : loc[p].refs[k] = record.refs[k]
  BY <1>1, PromotionFacts DEF PromotingInv, PromoterOwns
<1>7. PromoterOwns(p)'
  BY <1>2, <1>3, <1>4, <1>5, <1>6 DEF PromoterOwns, Reporting, Inputs
<1>8. RecordStands'
  BY <1>1, <1>2, <1>3, <1>4, <1>6, PromotionFacts
  DEF RecordStands, Promotable, Intact, Early, Key
<1> QED BY <1>1, <1>2, <1>5, <1>7, <1>8, PromotionStep DEF Promoting

\* The promotion saves its verdict.
LEMMA SaveVerdictStage == ASSUME IInv, StageInv, NEW p \in Procs, SaveVerdict(p) PROVE StageInv'
<1> DEFINE verdict == IF loc[p].refs["audit"].outcome = "pass" THEN "succeeded" ELSE "failed"
           r == [loc[p] EXCEPT !.status = verdict, !.phase = "verify"]
<1>1. pc[p] = "save_verdict" /\ lock = p
  BY Parts DEF SaveVerdict, At, ProcessInv, LockInv, Promoting
<1>2. /\ record' = r /\ Keep(p, r) /\ Goto(p, "write_report")
      /\ UNCHANGED <<files, yaml, seal, lock, expect, conf, starter, ops>>
  BY DEF SaveVerdict, Save
<1>3. r.refs = loc[p].refs /\ r.phase = "verify" /\ r.status \in {"succeeded", "failed"}
  BY <1>1, PromotionFacts, StateUpdate
<1>4. r # None
  <2> HIDE DEF verdict
  <2>1. verdict \in {"succeeded", "failed"}
    BY DEF verdict
  <2>2. RecordOK(loc[p])
    BY <1>1, PromotionFacts
  <2>3. RecordOK(r)
    BY <2>1, <2>2, StateType
  <2> HIDE DEF r
  <2> QED BY <2>3, RecordIsNotNone
<1> HIDE DEF r
<1>5. OnlyMoves(p) /\ pc'[p] = "write_report" /\ loc'[p] = r
  BY <1>2, MoveFrame DEF Step
<1>6. /\ \A k \in Inputs : loc[p].refs[k] = record.refs[k]
      /\ record.phase = "rewrite" /\ seal = None /\ loc[p].refs["final"] # None
  BY <1>1, PromotionFacts DEF PromotingInv, PromoterOwns, FinalDerived
<1>7. PromoterOwns(p)'
  BY <1>2, <1>3, <1>4, <1>5, <1>6 DEF PromoterOwns, Reporting, Inputs
<1>8. RecordStands'
  BY <1>1, <1>2, <1>3, <1>4, <1>6, PromotionFacts DEF RecordStands, Intact, Early, Inputs
<1> QED BY <1>1, <1>2, <1>5, <1>7, <1>8, PromotionStep DEF Reporting

\* The seal lists what the saved record registers.
LEMMA WriteSealStage == ASSUME IInv, StageInv, NEW p \in Procs, WriteSeal(p) PROVE StageInv'
<1>1. pc[p] = "write_seal" /\ lock = p
  BY Parts DEF WriteSeal, At, ProcessInv, LockInv, Promoting
<1>2. /\ seal' = loc[p].refs /\ Goto(p, "save_sealed")
      /\ UNCHANGED <<record, files, yaml, lock, loc, expect, conf, starter, ops>>
  BY DEF WriteSeal
<1>3. OnlyMoves(p) /\ pc'[p] = "save_sealed" /\ loc'[p] = loc[p]
  BY <1>2, Parts DEF Goto, Local, OnlyMoves
<1>4. record = loc[p] /\ loc[p].status = "succeeded" /\ loc[p].phase = "verify"
  BY <1>1, PromotionFacts DEF PromoterOwns, PromotingInv
<1>5. PromoterOwns(p)'
  BY <1>1, <1>2, <1>3, <1>4, PromotionFacts DEF PromoterOwns, Reporting, Inputs
<1>6. RecordStands'
  BY <1>1, <1>2, <1>3, <1>4, PromotionFacts DEF RecordStands, Intact
<1> QED BY <1>1, <1>2, <1>3, <1>5, <1>6, PromotionStep DEF Promoting

\* The promotion saves the sealed record and leaves the lock.
LEMMA SaveSealedStage == ASSUME IInv, StageInv, NEW p \in Procs, SaveSealed(p) PROVE StageInv'
<1> DEFINE r == [loc[p] EXCEPT !.sealed = TRUE]
<1>1. pc[p] = "save_sealed" /\ lock = p
  BY Parts DEF SaveSealed, At, ProcessInv, LockInv, Promoting
<1>2. record' = r /\ Return(p) /\ UNCHANGED <<files, yaml, seal, ops>>
  BY DEF SaveSealed
<1>3. r.refs = loc[p].refs /\ r.phase = loc[p].phase /\ r.status = loc[p].status
  BY <1>1, PromotionFacts DEF RecordOK
<1>4. r # None
  BY <1>1, PromotionFacts, RecordIsNotNone DEF RecordOK
<1> HIDE DEF r
<1>5. OnlyMoves(p) /\ OwnStage(p)'
  BY <1>2, OwnReturned
<1>6. RecordStands'
  BY <1>1, <1>2, <1>3, <1>4, PromotionFacts DEF RecordStands, Intact, PromoterOwns
<1> QED BY <1>1, <1>5, <1>6, StageAssemble

-----------------------------------------------------------------------------
(* Stage 2 before the lock *)

\* A call of resume finds stage 1 at an end and changes nothing but its memory.
LEMMA CallFacts ==
    ASSUME IInv, StageInv, Overlap = FALSE, NEW p \in Procs, NEW c \in Configs,
           NEW step \in Step, step # "idle", Call(p, c, step), NEW e \in {expect[p], record},
           expect' = [expect EXCEPT ![p] = e]
    PROVE  /\ OnlyMoves(p) /\ pc'[p] = step /\ loc'[p] = record /\ expect'[p] = e
           /\ lock = None /\ lock' # p /\ starter' # p
           /\ UNCHANGED <<record, files, seal>>
           /\ record # None /\ RecordStands
           /\ \A q \in Procs : ~InStageOne(q)
<1>1. /\ OnlyMoves(p) /\ pc'[p] = step /\ loc'[p] = record /\ expect'[p] = e
      /\ lock' = lock /\ lock # p /\ starter' = starter /\ starter # p
  BY CallFrame
<1>2. lock \in {None, p} /\ record # None /\ ~StageOneActive /\ UNCHANGED <<record, files, seal>>
  BY DEF Call, At
<1>3. \A q \in Procs : ~InStageOne(q)
  BY <1>2, ConstantsAssumption DEF StageOneActive, InStageOne
<1> QED BY <1>1, <1>2, <1>3 DEF StageInv

\* An interrupted analysis is taken up by a process that is alone with it.
LEMMA ResumeAnalysisStage ==
    ASSUME IInv, StageInv, Overlap = FALSE, NEW p \in Procs, NEW c \in Configs, ResumeAnalysis(p, c)
    PROVE  StageInv'
<1>1. /\ Call(p, c, "write_draft") /\ expect' = [expect EXCEPT ![p] = expect[p]]
      /\ "write_draft" \in Step
  BY Parts DEF ResumeAnalysis, Local, Step, StageOne
<1>2. /\ OnlyMoves(p) /\ pc'[p] = "write_draft" /\ loc'[p] = record
      /\ lock = None /\ lock' # p /\ UNCHANGED <<record, files, seal>>
      /\ record # None /\ RecordStands
      /\ \A q \in Procs : ~InStageOne(q)
  BY <1>1, CallFacts
<1>3. record.status = "running" /\ record.phase = "analyze"
  BY DEF ResumeAnalysis
<1>4. \A q \in Procs \ {p} : pc[q] = "idle"
  BY <1>2, <1>3 DEF RecordStands, InStageOne
<1>5. StageOneAlone(p)'
  BY <1>2, <1>3, <1>4
  DEF StageOneAlone, RecordStands, Intact, Early, OnlyMoves, StageOne, Analyzing, Reporting
<1>6. RecordStands'
  <2>1. \A q \in Procs : pc'[q] \in StageOne \cup {"idle"}
    BY <1>2, <1>5, AloneWorks DEF StageOne
  <2> QED BY <1>2, <2>1 DEF RecordStands, Intact
<1>7. OwnStage(p)'
  BY <1>2, <1>5 DEF OwnStage, ReviewerWaits, PromoterOwns, Reviewing
<1> QED BY <1>2, <1>6, <1>7, StageAssemble

\* A process of stage 2 that does not hold the lock.
LEMMA ReviewerStep ==
    ASSUME IInv, StageInv, NEW p \in Procs, pc[p] \in Reviewing \cup {"check_recovery"}, OnlyMoves(p),
           lock \in {None, p} \/ UNCHANGED <<record, files, seal>>,
           pc'[p] \in Reviewing, lock' = lock, starter' = starter,
           ReviewerWaits(p)', RecordStands'
    PROVE  StageInv'
<1>1. lock # p /\ starter # p
  BY Parts DEF ProcessInv, LockInv, Promoting, Reporting, Reviewing, StageOne
<1>2. StageOneAlone(p)' /\ PromoterOwns(p)'
  BY <1>1 DEF StageOneAlone, InStageOne, StageOne, PromoterOwns, Reviewing
<1> QED BY <1>2, StageAssemble DEF OwnStage, Reviewing

\* A resume of a waiting run captures its identity.
LEMMA ResumeReviewStage ==
    ASSUME IInv, StageInv, Overlap = FALSE, NEW p \in Procs, NEW c \in Configs, ResumeReview(p, c)
    PROVE  StageInv'
<1>1. /\ Call(p, c, "read_decisions") /\ expect' = [expect EXCEPT ![p] = record]
      /\ "read_decisions" \in Step
  BY DEF ResumeReview, Step
<1>2. /\ OnlyMoves(p) /\ pc'[p] = "read_decisions" /\ loc'[p] = record /\ expect'[p] = record
      /\ lock = None /\ lock' # p /\ starter' # p /\ UNCHANGED <<record, files, seal>>
      /\ record # None /\ RecordStands
      /\ \A q \in Procs : ~InStageOne(q)
  BY <1>1, CallFacts
<1>3. record.status = "waiting" /\ record.phase = "human_review"
  BY DEF ResumeReview
<1>4. OwnStage(p)'
  BY <1>2, <1>3 DEF OwnStage, StageOneAlone, InStageOne, StageOne, ReviewerWaits, PromoterOwns, Reviewing
<1>5. RecordStands'
  BY <1>2, <1>3 DEF RecordStands, Intact
<1> QED BY <1>2, <1>4, <1>5, StageAssemble

\* A resume of a failed or interrupted promotion captures its identity.
LEMMA ResumePromotionStage ==
    ASSUME IInv, StageInv, Overlap = FALSE, NEW p \in Procs, NEW c \in Configs, ResumePromotion(p, c)
    PROVE  StageInv'
<1>1. /\ Call(p, c, "check_recovery") /\ expect' = [expect EXCEPT ![p] = expect[p]]
      /\ "check_recovery" \in Step
  BY Parts DEF ResumePromotion, Local, Step
<1>2. /\ OnlyMoves(p) /\ pc'[p] = "check_recovery" /\ loc'[p] = record
      /\ lock = None /\ lock' # p /\ starter' # p /\ UNCHANGED <<record, files, seal>>
      /\ record # None /\ RecordStands
      /\ \A q \in Procs : ~InStageOne(q)
  BY <1>1, CallFacts
<1>3. Promotable(record) /\ record.phase \in {"rewrite", "verify"}
  BY DEF ResumePromotion, Promotable
<1>4. OwnStage(p)'
  BY <1>2, <1>3 DEF OwnStage, StageOneAlone, InStageOne, StageOne, ReviewerWaits, PromoterOwns,
                    Reviewing, Promotable
<1>5. RecordStands'
  BY <1>2, <1>3 DEF RecordStands, Intact
<1> QED BY <1>2, <1>4, <1>5, StageAssemble

\* The editable file is read without the lock.
LEMMA ReadDecisionsStage == ASSUME IInv, StageInv, NEW p \in Procs, ReadDecisions(p) PROVE StageInv'
<1>1. pc[p] = "read_decisions" /\ lock \in {None, p} /\ RecordOK(loc[p]) /\ ReviewerWaits(p) /\ RecordStands
  BY Parts DEF ReadDecisions, At, ProcessType, StageInv
<1>2. /\ yaml # None /\ Keep(p, Register(loc[p], "decisions", yaml)) /\ Goto(p, "submit")
      /\ UNCHANGED <<record, files, seal, lock, expect, conf, starter>>
  BY DEF ReadDecisions
<1>3. OnlyMoves(p) /\ pc'[p] = "submit" /\ loc'[p] = Register(loc[p], "decisions", yaml)
  BY <1>2, MoveFrame DEF Step
<1>4. yaml \in Content("decisions")
  BY <1>2, Parts, ContentFacts DEF SharedType
<1>5. loc'[p].status = loc[p].status /\ \A k \in Key \ {"decisions"} : loc'[p].refs[k] = loc[p].refs[k]
  BY <1>1, <1>3, <1>4, RegisterFacts DEF Key
<1>6. ReviewerWaits(p)'
  BY <1>1, <1>2, <1>3, <1>5 DEF ReviewerWaits, Reviewing
<1>7. RecordStands'
  <2>1. record # None => record.phase \notin {"extract", "analyze"}
    BY <1>1 DEF RecordStands, StageOne
  <2> QED BY <1>1, <1>2, <2>1 DEF RecordStands, Intact
<1> QED BY <1>1, <1>2, <1>3, <1>6, <1>7, ReviewerStep DEF Reviewing

\* A lost race leaves other bytes of the decisions behind, of nothing else.
LEMMA SubmitStage == ASSUME IInv, StageInv, NEW p \in Procs, Submit(p) PROVE StageInv'
<1> DEFINE v == loc[p].refs["decisions"]
<1>1. /\ pc[p] = "submit" /\ lock \in {None, p} /\ RecordOK(loc[p]) /\ RefsOK(files)
      /\ ReviewerWaits(p) /\ RecordStands /\ ReviewingInv(p)
  BY Parts DEF Submit, At, ProcessType, SharedType, ProcessInv, StageInv
<1>2. v \in Content("decisions")
  BY <1>1 DEF ReviewingInv, RecordOK, RefsOK, Key
<1>3. /\ Write(p, "decisions", v) /\ Goto(p, "save_decisions")
      /\ UNCHANGED <<record, seal, lock, expect, conf, starter>>
  BY DEF Submit
<1> HIDE DEF v
<1>4. OnlyMoves(p) /\ pc'[p] = "save_decisions" /\ loc'[p] = Register(loc[p], "decisions", v)
  BY <1>3, MoveFrame DEF Write, Step
<1>5. loc'[p].status = loc[p].status /\ \A k \in Key \ {"decisions"} : loc'[p].refs[k] = loc[p].refs[k]
  BY <1>1, <1>2, <1>4, RegisterFacts DEF Key
<1>6. \A k \in Key \ {"decisions"} : files'[k] = files[k]
  BY <1>1, <1>2, <1>3, RefsUpdate DEF Write, Key
<1>7. ReviewerWaits(p)'
  BY <1>1, <1>3, <1>4, <1>5 DEF ReviewerWaits, Reviewing
<1>8. RecordStands'
  <2>1. record # None /\ record.phase \notin {"extract", "analyze"}
    BY <1>1 DEF RecordStands, StageOne
  <2> QED BY <1>1, <1>3, <1>6, <2>1 DEF RecordStands, Intact, Key
<1> QED BY <1>1, <1>3, <1>4, <1>7, <1>8, ReviewerStep DEF Reviewing

\* The record that a process of stage 2 saves, while it is the one it has loaded,
\* differs from it in the decisions.
LEMMA ReviewerSaves ==
    ASSUME IInv, StageInv, NEW p \in Procs, pc[p] \in Reviewing \ {"promote"}, record = expect[p],
           NEW r, r # None, r.refs = loc[p].refs, r.status = loc[p].status, r.phase = loc[p].phase,
           record' = r, UNCHANGED <<files, seal>>
    PROVE  RecordStands' /\ r.status = "waiting" /\ r.phase = "human_review"
<1>1. ReviewerWaits(p) /\ ReviewingInv(p) /\ RecordStands
  BY Parts DEF ProcessInv, StageInv
<1>2. /\ record # None /\ record.status = "waiting" /\ record.phase = "human_review"
      /\ \A k \in Key \ {"decisions"} : loc[p].refs[k] = record.refs[k]
      /\ r.status = "waiting" /\ r.phase = "human_review"
  BY <1>1 DEF ReviewerWaits, ReviewingInv
<1>3. RecordStands'
  BY <1>1, <1>2 DEF RecordStands, Intact, Key, Early
<1> QED BY <1>2, <1>3

\* The decisions are registered in a record that still waits.
LEMMA SaveDecisionsStage == ASSUME IInv, StageInv, NEW p \in Procs, SaveDecisions(p) PROVE StageInv'
<1>1. pc[p] = "save_decisions" /\ lock \in {None, p} /\ RecordOK(loc[p]) /\ record = expect[p]
  BY Parts DEF SaveDecisions, At, ProcessType
<1>2. /\ record' = loc[p] /\ Keep(p, loc[p]) /\ Goto(p, "verify_inputs")
      /\ expect' = [expect EXCEPT ![p] = loc[p]]
      /\ UNCHANGED <<files, seal, lock, conf, starter>>
  BY DEF SaveDecisions, Save
<1>3. /\ OnlyMoves(p) /\ pc'[p] = "verify_inputs" /\ loc'[p] = loc[p] /\ expect'[p] = loc[p]
  BY <1>2, Parts DEF Goto, Keep, Local, OnlyMoves
<1>4. RecordStands' /\ loc[p].status = "waiting" /\ loc[p].phase = "human_review"
  BY <1>1, <1>2, ReviewerSaves, RecordIsNotNone DEF Reviewing
<1>5. ReviewerWaits(p)'
  BY <1>3, <1>4 DEF ReviewerWaits
<1> QED BY <1>1, <1>2, <1>3, <1>4, <1>5, ReviewerStep DEF Reviewing

\* Open questions are saved in a record that still waits.
LEMMA SaveUnresolvedStage == ASSUME IInv, StageInv, NEW p \in Procs, SaveUnresolved(p) PROVE StageInv'
<1> DEFINE r == [loc[p] EXCEPT !.unresolved = Unresolved(loc[p].refs["decisions"])]
<1>1. /\ pc[p] = "save_unresolved" /\ lock \in {None, p} /\ RecordOK(loc[p]) /\ record = expect[p]
      /\ record' = r /\ Return(p) /\ UNCHANGED <<files, seal>>
  BY Parts DEF SaveUnresolved, At, ProcessType
<1>2. r.refs = loc[p].refs /\ r.status = loc[p].status /\ r.phase = loc[p].phase
  BY <1>1, StateUpdate
<1>3. r # None
  <2>1. RecordOK(r)
    BY <1>1 DEF RecordOK, Unresolved, Open
  <2> HIDE DEF r
  <2> QED BY <2>1, RecordIsNotNone
<1> HIDE DEF r
<1>4. RecordStands'
  BY <1>1, <1>2, <1>3, ReviewerSaves DEF Reviewing
<1>5. OnlyMoves(p) /\ OwnStage(p)'
  BY <1>1, OwnReturned
<1> QED BY <1>1, <1>4, <1>5, StageAssemble

\* The registered inputs are verified.
LEMMA VerifyInputsStage == ASSUME IInv, StageInv, NEW p \in Procs, VerifyInputs(p) PROVE StageInv'
<1>1. pc[p] = "verify_inputs" /\ lock \in {None, p} /\ ReviewerWaits(p) /\ RecordStands
  BY DEF VerifyInputs, At, StageInv
<1>2. PICK step \in {"promote", "save_unresolved"} : Goto(p, step)
  BY DEF VerifyInputs
<1>3. UNCHANGED <<record, files, yaml, seal, lock, loc, expect, conf, starter, ops>>
  BY DEF VerifyInputs
<1>4. OnlyMoves(p) /\ pc'[p] = step /\ loc'[p] = loc[p]
  BY <1>2, <1>3, Parts DEF Goto, Local, OnlyMoves
<1>5. ReviewerWaits(p)'
  BY <1>1, <1>3, <1>4 DEF ReviewerWaits, Promotable, Reviewing
<1>6. RecordStands'
  BY <1>1, <1>3 DEF RecordStands, Intact, StageOne
<1> QED BY <1>1, <1>3, <1>4, <1>5, <1>6, ReviewerStep DEF Reviewing

\* The artifacts of an interrupted promotion are verified.
LEMMA CheckRecoveryStage == ASSUME IInv, StageInv, NEW p \in Procs, CheckRecovery(p) PROVE StageInv'
<1>1. pc[p] = "check_recovery" /\ lock \in {None, p} /\ ReviewerWaits(p) /\ RecordStands
  BY DEF CheckRecovery, At, StageInv
<1>2. /\ expect' = [expect EXCEPT ![p] = loc[p]] /\ Goto(p, "promote")
      /\ UNCHANGED <<record, files, yaml, seal, lock, loc, conf, starter, ops>>
  BY DEF CheckRecovery
<1>3. OnlyMoves(p) /\ pc'[p] = "promote" /\ expect'[p] = loc[p]
  BY <1>2, Parts DEF Goto, Local, OnlyMoves
<1>4. ReviewerWaits(p)'
  BY <1>1, <1>3 DEF ReviewerWaits, Promotable
<1>5. RecordStands'
  BY <1>1, <1>2 DEF RecordStands, Intact, StageOne
<1> QED BY <1>1, <1>2, <1>3, <1>4, <1>5, ReviewerStep DEF Reviewing

\* The identity is compared under the lock: the promotion owns what it has loaded.
LEMMA PromoteStage == ASSUME IInv, StageInv, NEW p \in Procs, Promote(p) PROVE StageInv'
<1> DEFINE r == [record EXCEPT !.status = "running", !.phase = "rewrite"]
<1>1. /\ pc[p] = "promote" /\ lock \in {None, p} /\ record = expect[p]
      /\ ReviewerWaits(p) /\ ReviewingInv(p) /\ RecordStands
  BY Parts DEF Promote, At, StageInv, ProcessInv
<1>2. /\ lock' = p /\ Keep(p, r) /\ Goto(p, "prepare")
      /\ UNCHANGED <<record, files, seal, expect, conf, starter>>
  BY DEF Promote
<1>3. record # None /\ Promotable(record) /\ RecordOK(record)
  BY <1>1, Parts DEF ReviewerWaits, ReviewingInv, Reviewing, SharedType
<1>4. r.refs = record.refs /\ r.status = "running"
  BY <1>3, StateUpdate
<1> HIDE DEF r
<1>5. OnlyMoves(p) /\ pc'[p] = "prepare" /\ loc'[p] = r /\ starter' # p
  BY <1>1, <1>2, Parts, ConstantsAssumption
  DEF Goto, Keep, Local, OnlyMoves, ProcessInv, LockInv, StageOne, Reporting
<1>6. OwnStage(p)'
  BY <1>2, <1>3, <1>4, <1>5
  DEF OwnStage, StageOneAlone, InStageOne, StageOne, ReviewerWaits, Reviewing, PromoterOwns, Promotable,
      Reporting
<1>7. RecordStands'
  BY <1>1, <1>2 DEF RecordStands, Intact, StageOne
<1> QED BY <1>1, <1>2, <1>5, <1>6, <1>7, StageAssemble

-----------------------------------------------------------------------------
(* The invariant *)

\* The invariant holds before start.
LEMMA InitStage == ASSUME Init PROVE StageInv
<1>1. RecordStands
  BY DEF Init, RecordStands
<1>2. ASSUME NEW p \in Procs PROVE OwnStage(p)
  BY ConstantsAssumption
  DEF Init, OwnStage, StageOneAlone, InStageOne, StageOne, ReviewerWaits, Reviewing, PromoterOwns
<1> QED BY <1>1, <1>2 DEF StageInv, OwnStage

\* The reviewer edits a file that nothing registers, and a stutter is no step.
LEMMA IdleStage ==
    ASSUME StageInv, UNCHANGED <<record, files, seal, lock, pc, loc, expect, starter>>
    PROVE  StageInv'
<1>1. RecordStands'
  BY DEF StageInv, RecordStands, Intact
<1>2. ASSUME NEW p \in Procs PROVE OwnStage(p)'
  <2>1. StageOneAlone(p)'
    BY DEF StageInv, StageOneAlone, InStageOne, Intact
  <2>2. ReviewerWaits(p)' /\ PromoterOwns(p)'
    BY DEF StageInv, ReviewerWaits, PromoterOwns, Promotable
  <2> QED BY <2>1, <2>2 DEF OwnStage
<1> QED BY <1>1, <1>2 DEF StageInv, OwnStage

\* The steps of start and of an analysis.
LEMMA StageOneSteps == ASSUME IInv, StageInv, NEW p \in Procs, Stage1(p) PROVE StageInv'
<1>1. CASE \E c \in Configs : Start(p, c)
  BY <1>1, StartStage
<1>2. CASE Extract(p) \/ SaveExtracted(p) \/ \E a \in Attempts : WriteDraft(p, a)
  BY <1>2, ExtractStage, SaveExtractedStage, WriteDraftStage
<1>3. CASE WriteReview(p) \/ WriteTemplate(p) \/ SaveAnalyzed(p)
  BY <1>3, WriteReviewStage, WriteTemplateStage, SaveAnalyzedStage
<1>4. CASE SaveWaiting(p) \/ StartFails(p)
  BY <1>4, SaveWaitingStage, StartFailsStage
<1> QED BY <1>1, <1>2, <1>3, <1>4 DEF Stage1

\* The steps of resume.
LEMMA StageTwoSteps ==
    ASSUME IInv, StageInv, Overlap = FALSE, NEW p \in Procs, Stage2(p) PROVE StageInv'
<1>1. CASE \E c \in Configs : ResumeAnalysis(p, c) \/ ResumeReview(p, c) \/ ResumePromotion(p, c)
  BY <1>1, ResumeAnalysisStage, ResumeReviewStage, ResumePromotionStage
<1>2. CASE ReadDecisions(p) \/ CheckRecovery(p) \/ Submit(p) \/ SaveDecisions(p)
  BY <1>2, ReadDecisionsStage, CheckRecoveryStage, SubmitStage, SaveDecisionsStage
<1>3. CASE VerifyInputs(p) \/ SaveUnresolved(p) \/ Promote(p) \/ Prepare(p)
  BY <1>3, VerifyInputsStage, SaveUnresolvedStage, PromoteStage, PrepareStage
<1>4. CASE \E s \in Stamps : WriteFinal(p, s)
  BY <1>4, WriteFinalStage
<1>5. CASE \E o \in {"pass", "fail"} : WriteAudit(p, o)
  BY <1>5, WriteAuditStage
<1>6. CASE SaveVerdict(p) \/ WriteSeal(p) \/ SaveSealed(p)
  BY <1>6, SaveVerdictStage, WriteSealStage, SaveSealedStage
<1> QED BY <1>1, <1>2, <1>3, <1>4, <1>5, <1>6 DEF Stage2

\* Every step keeps the invariant.
LEMMA NextStage == ASSUME IInv, StageInv, Overlap = FALSE, [Next]_vars PROVE StageInv'
<1>1. CASE EditDecisions
  BY <1>1, IdleStage DEF EditDecisions
<1>2. ASSUME NEW p \in Procs,
             Stage1(p) \/ Stage2(p) \/ WriteReport(p) \/ SaveReport(p) \/ Crash(p)
      PROVE  StageInv'
  BY <1>2, StageOneSteps, StageTwoSteps, WriteReportStage, SaveReportStage, CrashStage
<1>3. CASE UNCHANGED vars
  BY <1>3, IdleStage DEF vars
<1> QED BY <1>1, <1>2, <1>3 DEF Next

\* When resume is not called before stage 1 has ended, StageInv holds in every
\* state, whoever is killed and however the calls of resume interleave.
THEOREM StageInvariance == ASSUME Overlap = FALSE PROVE Spec => []StageInv
<1>1. Init => StageInv
  BY InitStage
<1>2. IInv /\ StageInv /\ [Next]_vars => StageInv'
  BY NextStage
<1> QED BY <1>1, <1>2, Invariance, PTL DEF Spec

\* A sealed bundle and its record agree: the record says succeeded and registers
\* what the seal lists, so that the loader's comparison of the two goes through.
THEOREM RecordAgreement == ASSUME Overlap = FALSE PROVE Spec => []SealedRecordAgrees
<1>1. StageInv => SealedRecordAgrees
  BY DEF StageInv, RecordStands, SealedRecordAgrees
<1> QED BY <1>1, StageInvariance, PTL

\* Whoever was killed or lost a race, a run that waits has all the bytes that the
\* next resume verifies, but those of the decisions, which it writes itself.
THEOREM WaitingIsResumable == ASSUME Overlap = FALSE PROVE Spec => []WaitingRunCanResume
<1>1. ASSUME IInv, StageInv PROVE WaitingRunCanResume
  <2> SUFFICES ASSUME record # None, record.status = "waiting",
                      NEW k \in Key \ {"decisions"}, record.refs[k] # None
               PROVE  files[k] = record.refs[k]
    BY DEF WaitingRunCanResume
  <2>1. record.phase = "human_review" /\ record.refs["final"] = None
    BY <1>1 DEF StageInv, RecordStands, Early
  <2> QED BY <1>1, <2>1 DEF StageInv, RecordStands, Intact, Key
<1> QED BY <1>1, Invariance, StageInvariance, PTL

\* A promotion that was killed before its verdict leaves nothing that keeps
\* resume from verifying the registered artifacts and starting over.
THEOREM InterruptionIsRecoverable == ASSUME Overlap = FALSE PROVE Spec => []FirstInterruptionRecoverable
<1>1. StageInv => FirstInterruptionRecoverable
  BY DEF StageInv, RecordStands, Intact, Key, FirstInterruptionRecoverable
<1> QED BY <1>1, StageInvariance, PTL

-----------------------------------------------------------------------------
(* What a step makes of the saved record and the seal *)

State(r, statuses, phases) == r # None /\ r.status \in statuses /\ r.phase \in phases

SameInputs == \A k \in Inputs : record'.refs[k] = record.refs[k]

\* The ways a record is saved: by stage 1, by a reviewer, by a promotion.
DraftingSave ==
    \/ record = None /\ State(record', {"running"}, Early)
    \/ State(record, {"running"}, Early) /\ State(record', {"running", "waiting"}, Early)
    \/ State(record, {"running", "waiting"}, Early) /\ State(record', {"failed"}, Early)

ReviewerSave == State(record, {"waiting"}, Early) /\ State(record', {"waiting"}, Early)

PromotionSave ==
    /\ SameInputs
    /\ \/ record # None /\ Promotable(record) /\ State(record', {"running"}, {"rewrite"})
       \/ State(record, {"running"}, {"rewrite"}) /\ State(record', {"succeeded", "failed"}, {"verify"})
       \/ /\ State(record, {"succeeded", "failed"}, {"verify"})
          /\ State(record', {record.status}, {"verify"})

SealStep ==
    State(record, {"succeeded"}, {"verify"}) /\ seal = None /\ seal' = record.refs /\ UNCHANGED record

RecordStep ==
    \/ UNCHANGED <<record, seal>>
    \/ (DraftingSave \/ ReviewerSave \/ PromotionSave) /\ UNCHANGED seal
    \/ SealStep

\* start saves the first record.
LEMMA StartSaves == ASSUME NEW p \in Procs, NEW c \in Configs, Start(p, c) PROVE RecordStep
<1> DEFINE r == [status |-> "running", phase |-> "extract", config |-> c,
                 refs |-> NoArtifacts, unresolved |-> {}, sealed |-> FALSE]
<1>1. record = None /\ record' = r /\ UNCHANGED seal
  BY DEF Start, Save
<1>2. r # None
  <2>1. RefsOK(NoArtifacts)
    BY DEF RefsOK, NoArtifacts
  <2>2. RecordOK(r)
    BY <2>1 DEF RecordOK
  <2> HIDE DEF r
  <2> QED BY <2>2, RecordIsNotNone
<1> QED BY <1>1, <1>2 DEF RecordStep, DraftingSave, State, Early

\* Stage 1 saves records of early phases over records of early phases.
LEMMA StageOneSaves ==
    ASSUME IInv, StageInv, NEW p \in Procs,
           SaveExtracted(p) \/ SaveAnalyzed(p) \/ SaveWaiting(p) \/ StartFails(p), StageInv'
    PROVE  RecordStep
<1>1. InStageOne(p) /\ seal' = seal
  BY DEF SaveExtracted, SaveAnalyzed, SaveWaiting, StartFails, At, InStageOne, StageOne
<1>2. StageOneAlone(p) /\ LockInv(p) /\ record # None /\ RecordOK(loc[p])
  BY <1>1, StageOneFacts
<1>3. CASE SaveExtracted(p)
  <2>1. pc[p] = "save_extracted" /\ pc'[p] = "write_draft"
    BY <1>3, Parts DEF SaveExtracted, At, Goto, Local
  <2>2. State(record, {"running"}, Early)
    BY <1>2, <2>1 DEF StageOneAlone, InStageOne, StageOne, State, Early
  <2>3. State(record', {"running"}, Early)
    BY <2>1 DEF StageInv, StageOneAlone, InStageOne, StageOne, Analyzing, State, Early
  <2> QED BY <1>1, <2>2, <2>3 DEF RecordStep, DraftingSave, State
<1>4. CASE SaveAnalyzed(p)
  <2>1. pc[p] = "save_analyzed" /\ pc'[p] = "save_waiting"
    BY <1>4, Parts DEF SaveAnalyzed, At, Goto, Local
  <2>2. State(record, {"running"}, Early)
    BY <1>2, <2>1 DEF StageOneAlone, InStageOne, StageOne, Analyzing, State, Early
  <2>3. State(record', {"running"}, Early)
    BY <2>1 DEF StageInv, StageOneAlone, InStageOne, StageOne, State, Early
  <2> QED BY <1>1, <2>2, <2>3 DEF RecordStep, DraftingSave, State
<1>5. CASE SaveWaiting(p)
  <2> DEFINE r == [loc[p] EXCEPT !.status = "waiting", !.phase = "human_review", !.unresolved = Blocking]
  <2>1. pc[p] = "save_waiting" /\ record' = r
    BY <1>5 DEF SaveWaiting, At, Save
  <2>2. r.status = "waiting" /\ r.phase = "human_review"
    BY <1>2, StateUpdate
  <2>3. r # None
    BY <1>2, RecordIsNotNone DEF RecordOK
  <2> HIDE DEF r
  <2>4. State(record, {"running"}, Early)
    BY <1>2, <2>1 DEF StageOneAlone, InStageOne, StageOne, State, Early
  <2> QED BY <1>1, <2>1, <2>2, <2>3, <2>4 DEF RecordStep, DraftingSave, State, Early
<1>6. CASE StartFails(p)
  <2> DEFINE r == [StartRecord(p) EXCEPT !.status = "failed"]
  <2>1. starter = p /\ record' = r
    BY <1>6 DEF StartFails
  <2>2. r.status = "failed" /\ r.phase = loc[p].phase /\ r # None
    BY <2>1, StartRecordFacts
  <2> HIDE DEF r
  <2>3. loc[p].phase \in Early
    BY <1>2, <2>1, Parts DEF DraftingInv, LockInv, ProcessInv, WaitingReportInv, StageOneAlone, InStageOne,
       StageOne, Analyzing, Reporting, Early
  <2>4. State(record, {"running", "waiting"}, Early)
    BY <1>2, <2>1 DEF StageOneAlone, LockInv, InStageOne, StageOne, Analyzing, Reporting, State, Early
  <2> QED BY <1>1, <2>1, <2>2, <2>3, <2>4 DEF RecordStep, DraftingSave, State
<1> QED BY <1>3, <1>4, <1>5, <1>6

\* A reviewer saves a record that waits over a record that waits.
LEMMA ReviewerRecords ==
    ASSUME IInv, StageInv, NEW p \in Procs, SaveDecisions(p) \/ SaveUnresolved(p), StageInv'
    PROVE  RecordStep
<1> DEFINE r == [loc[p] EXCEPT !.unresolved = Unresolved(loc[p].refs["decisions"])]
<1>1. /\ pc[p] \in Reviewing \ {"promote"} /\ record = expect[p] /\ record' \in {loc[p], r}
      /\ UNCHANGED seal
  BY DEF SaveDecisions, SaveUnresolved, Save, At, Reviewing
<1>2. RecordOK(loc[p]) /\ ReviewerWaits(p) /\ ReviewingInv(p)
  BY <1>1, Parts DEF ProcessType, StageInv, ProcessInv, Reviewing
<1>3. State(record, {"waiting"}, Early)
  BY <1>1, <1>2 DEF ReviewerWaits, ReviewingInv, State, Early
<1>4. State(loc[p], {"waiting"}, Early)
  BY <1>1, <1>2, RecordIsNotNone DEF ReviewerWaits, ReviewingInv, State, Early
<1>5. State(r, {"waiting"}, Early)
  <2>1. r.status = loc[p].status /\ r.phase = loc[p].phase
    BY <1>2, StateUpdate
  <2>2. RecordOK(r)
    BY <1>2 DEF RecordOK, Unresolved, Open
  <2> HIDE DEF r
  <2> QED BY <1>4, <2>1, <2>2, RecordIsNotNone DEF State
<1> QED BY <1>1, <1>3, <1>4, <1>5 DEF RecordStep, ReviewerSave


\* A promotion saves the inputs it was approved with.
LEMMA PromotionSaves ==
    ASSUME IInv, StageInv, NEW p \in Procs, Prepare(p) \/ SaveVerdict(p) \/ SaveSealed(p), StageInv'
    PROVE  RecordStep
<1>1. lock = p /\ UNCHANGED seal
  BY Parts DEF Prepare, SaveVerdict, SaveSealed, At, ProcessInv, LockInv, Promoting
<1>2. PromoterOwns(p) /\ PromotingInv(p) /\ record # None /\ RecordOK(loc[p])
      /\ \A k \in Inputs : loc[p].refs[k] = record.refs[k]
  BY <1>1, PromotionFacts DEF PromoterOwns
<1>3. CASE Prepare(p)
  <2> DEFINE r == [loc[p] EXCEPT !.unresolved = {}]
  <2>1. pc[p] = "prepare" /\ pc'[p] = "write_final" /\ record' = r /\ lock' = p
    BY <1>1, <1>3, Parts DEF Prepare, At, Save, Goto, Local
  <2>2. r.refs = loc[p].refs
    BY <1>2, StateUpdate
  <2> HIDE DEF r
  <2>3. State(record', {"running"}, {"rewrite"})
    BY <2>1 DEF StageInv, PromoterOwns, State
  <2>4. SameInputs /\ Promotable(record)
    BY <1>1, <1>2, <2>1, <2>2 DEF SameInputs, PromoterOwns
  <2> QED BY <1>1, <1>2, <2>3, <2>4 DEF RecordStep, PromotionSave
<1>4. CASE SaveVerdict(p)
  <2> DEFINE verdict == IF loc[p].refs["audit"].outcome = "pass" THEN "succeeded" ELSE "failed"
             r == [loc[p] EXCEPT !.status = verdict, !.phase = "verify"]
  <2>1. pc[p] = "save_verdict" /\ pc'[p] = "write_report" /\ record' = r /\ lock' = p
    BY <1>1, <1>4, Parts DEF SaveVerdict, At, Save, Goto, Local
  <2>2. r.refs = loc[p].refs /\ r.status \in {"succeeded", "failed"} /\ r.phase = "verify"
    BY <1>2, StateUpdate
  <2> HIDE DEF r
  <2>3. record' # None
    BY <2>1 DEF StageInv, PromoterOwns
  <2>4. SameInputs /\ State(record, {"running"}, {"rewrite"})
    BY <1>1, <1>2, <2>1, <2>2 DEF SameInputs, PromoterOwns, State
  <2> QED BY <1>1, <2>1, <2>2, <2>3, <2>4 DEF RecordStep, PromotionSave, State
<1>5. CASE SaveSealed(p)
  <2> DEFINE r == [loc[p] EXCEPT !.sealed = TRUE]
  <2>1. pc[p] = "save_sealed" /\ record' = r
    BY <1>5 DEF SaveSealed, At
  <2>2. r.refs = loc[p].refs /\ r.status = loc[p].status /\ r.phase = loc[p].phase
    BY <1>2 DEF RecordOK
  <2>3. r # None
    BY <1>2, RecordIsNotNone DEF RecordOK
  <2> HIDE DEF r
  <2>4. record = loc[p] /\ loc[p].status = "succeeded" /\ loc[p].phase = "verify"
    BY <1>1, <1>2, <2>1 DEF PromoterOwns, PromotingInv
  <2> QED BY <1>1, <1>2, <2>1, <2>2, <2>3, <2>4 DEF RecordStep, PromotionSave, SameInputs, State
<1> QED BY <1>3, <1>4, <1>5

\* The report is saved over the record of the same state.
LEMMA ReportSaves == ASSUME IInv, StageInv, NEW p \in Procs, SaveReport(p) PROVE RecordStep
<1>1. /\ pc[p] = "save_report" /\ (lock = p \/ starter = p) /\ RecordOK(loc[p])
      /\ record' = loc[p] /\ UNCHANGED seal
  BY Parts DEF SaveReport, Save, At, ProcessInv, LockInv, Reporting, ProcessType
<1>2. loc[p] # None
  BY <1>1, RecordIsNotNone
<1>3. CASE lock = p
  <2>1. /\ loc[p].phase = "verify" /\ loc[p].status \in {"succeeded", "failed"} /\ record # None
        /\ record.phase = "verify" /\ record.status = loc[p].status
        /\ \A k \in Inputs : loc[p].refs[k] = record.refs[k]
    BY <1>1, <1>3, PromotionFacts DEF PromotingInv, PromoterOwns, Reporting
  <2> QED BY <1>1, <1>2, <2>1 DEF RecordStep, PromotionSave, SameInputs, State
<1>4. CASE starter = p /\ lock # p
  <2>1. InStageOne(p)
    BY <1>4 DEF InStageOne
  <2>2. State(record, {"waiting"}, Early)
    BY <1>1, <2>1, StageOneFacts DEF StageOneAlone, Reporting, State, Early
  <2>3. loc[p].phase = "human_review" /\ loc[p].status = "waiting"
    BY <1>1, <1>4, Parts DEF ProcessInv, WaitingReportInv, Reporting
  <2> QED BY <1>1, <1>2, <2>2, <2>3 DEF RecordStep, ReviewerSave, State, Early
<1> QED BY <1>1, <1>3, <1>4

\* The seal is written over a succeeded record with its artifacts.
LEMMA SealRecords == ASSUME IInv, StageInv, NEW p \in Procs, WriteSeal(p) PROVE RecordStep
<1>1. /\ pc[p] = "write_seal" /\ lock = p /\ seal = None /\ seal' = loc[p].refs /\ UNCHANGED record
  BY Parts DEF WriteSeal, At, ProcessInv, LockInv, Promoting
<1>2. record # None /\ record = loc[p] /\ loc[p].status = "succeeded" /\ loc[p].phase = "verify"
  BY <1>1, PromotionFacts DEF PromoterOwns, PromotingInv
<1> QED BY <1>1, <1>2 DEF RecordStep, SealStep, State

\* Every step of every process, crashes included, is one of these.
LEMMA NextRecord == ASSUME IInv, StageInv, Overlap = FALSE, [Next]_vars PROVE RecordStep
<1> StageInv'
  BY NextStage
<1>1. CASE EditDecisions \/ UNCHANGED vars
  BY <1>1 DEF EditDecisions, vars, RecordStep
<1>2. ASSUME NEW p \in Procs, Stage1(p) PROVE RecordStep
  <2>1. CASE \E c \in Configs : Start(p, c)
    BY <2>1, StartSaves
  <2>2. CASE SaveExtracted(p) \/ SaveAnalyzed(p) \/ SaveWaiting(p) \/ StartFails(p)
    BY <2>2, StageOneSaves
  <2>3. CASE Extract(p) \/ (\E a \in Attempts : WriteDraft(p, a)) \/ WriteReview(p) \/ WriteTemplate(p)
    BY <2>3 DEF Extract, WriteDraft, WriteReview, WriteTemplate, RecordStep
  <2> QED BY <1>2, <2>1, <2>2, <2>3 DEF Stage1
<1>3. ASSUME NEW p \in Procs, Stage2(p) PROVE RecordStep
  <2>1. CASE \E c \in Configs : ResumeAnalysis(p, c) \/ ResumeReview(p, c) \/ ResumePromotion(p, c)
    BY <2>1 DEF ResumeAnalysis, ResumeReview, ResumePromotion, Call, RecordStep
  <2>2. CASE ReadDecisions(p) \/ CheckRecovery(p) \/ Submit(p) \/ VerifyInputs(p) \/ Promote(p)
    BY <2>2 DEF ReadDecisions, CheckRecovery, Submit, VerifyInputs, Promote, RecordStep
  <2>3. CASE SaveDecisions(p) \/ SaveUnresolved(p)
    BY <2>3, ReviewerRecords
  <2>4. CASE (\E s \in Stamps : WriteFinal(p, s)) \/ (\E o \in {"pass", "fail"} : WriteAudit(p, o))
    BY <2>4 DEF WriteFinal, WriteAudit, RecordStep
  <2>5. CASE Prepare(p) \/ SaveVerdict(p) \/ SaveSealed(p)
    BY <2>5, PromotionSaves
  <2>6. CASE WriteSeal(p)
    BY <2>6, SealRecords
  <2> QED BY <1>3, <2>1, <2>2, <2>3, <2>4, <2>5, <2>6 DEF Stage2
<1>4. ASSUME NEW p \in Procs, WriteReport(p) \/ Crash(p) PROVE RecordStep
  BY <1>4 DEF WriteReport, Crash, RecordStep
<1>5. ASSUME NEW p \in Procs, SaveReport(p) PROVE RecordStep
  BY <1>5, ReportSaves
<1> QED BY <1>1, <1>2, <1>3, <1>4, <1>5 DEF Next

\* Once a promotion is recorded, the run never goes back to the reviewer and keeps
\* the inputs it was approved with: no resume that loaded the record earlier
\* writes its own decisions over it.
THEOREM InputsKept == ASSUME Overlap = FALSE PROVE Spec => PromotionKeepsInputs
<1> DEFINE Kept == record # None /\ record.phase \in {"rewrite", "verify"} =>
                      /\ record'.phase \in {"rewrite", "verify"}
                      /\ \A k \in Inputs : record'.refs[k] = record.refs[k]
<1>1. ASSUME IInv, StageInv, [Next]_vars PROVE [Kept]_vars
  BY <1>1, NextRecord
  DEF RecordStep, DraftingSave, ReviewerSave, PromotionSave, SealStep, SameInputs, State, Early
<1> QED BY <1>1, Invariance, StageInvariance, PTL DEF Spec, PromotionKeepsInputs

-----------------------------------------------------------------------------
(* The review gate *)

\* An empty directory is the initial state of the gate.
LEMMA GateInit == ASSUME Init PROVE Gate!Init
BY DEF Init, Gate!Init, stage, committed, sealed

\* Every record that promotes has committed decisions that are complete.
LEMMA CommittedComplete ==
    ASSUME IInv', record' # None, record'.phase \in {"rewrite", "verify"}
    PROVE  committed' = record'.refs["decisions"] /\ committed' \in CompleteBundles
<1>1. RecordOK(record') /\ PhaseOK(record')
  BY DEF IInv, TypeOK
<1>2. Complete(record'.refs["decisions"])
  BY <1>1 DEF PhaseOK
<1>3. record'.refs["decisions"] \in Bundle
  BY <1>1, <1>2, ContentFacts DEF RecordOK, RefsOK, Complete, Key
<1> QED BY <1>2, <1>3 DEF committed, CompleteBundles, Complete

\* The stage of a record that is saved.
LEMMA StageOf ==
    /\ record = None => stage = "none" /\ committed = None
    /\ State(record, {"running"}, Early) => stage = "drafting" /\ committed = None
    /\ State(record, {"waiting"}, Early) => stage = "waiting" /\ committed = None
    /\ State(record, {"failed"}, Early) => stage = "failed" /\ committed = None
    /\ State(record, {"running"}, {"rewrite"}) => stage = "promoting"
    /\ State(record, {"succeeded"}, {"verify"}) => stage = "succeeded"
    /\ State(record, {"failed"}, {"verify"}) => stage = "rejected"
BY DEF State, Early, stage, committed

\* What the mapping makes of the record after a step.
LEMMA StageOfNext ==
    /\ record' = None => stage' = "none" /\ committed' = None
    /\ State(record', {"running"}, Early) => stage' = "drafting" /\ committed' = None
    /\ State(record', {"waiting"}, Early) => stage' = "waiting" /\ committed' = None
    /\ State(record', {"failed"}, Early) => stage' = "failed" /\ committed' = None
    /\ State(record', {"running"}, {"rewrite"}) => stage' = "promoting"
    /\ State(record', {"succeeded"}, {"verify"}) => stage' = "succeeded"
    /\ State(record', {"failed"}, {"verify"}) => stage' = "rejected"
BY DEF State, Early, stage, committed

\* Each way of saving the record is an action of the gate, or invisible to it.
LEMMA GateStep ==
    ASSUME IInv, IInv', StageInv, Overlap = FALSE, [Next]_vars
    PROVE  [Gate!Next]_Gate!vars
<1>1. RecordStep
  BY NextRecord
<1>2. seal' = seal => sealed' = sealed
  BY DEF sealed
<1>3. CASE UNCHANGED <<record, seal>>
  BY <1>3 DEF Gate!vars, stage, committed, sealed
<1>4. CASE DraftingSave /\ UNCHANGED seal
  BY <1>2, <1>4, StageOf, StageOfNext
  DEF DraftingSave, State, Gate!Next, Gate!Begin, Gate!Ask, Gate!Fail, Gate!vars
<1>5. CASE ReviewerSave /\ UNCHANGED seal
  BY <1>2, <1>5, StageOf, StageOfNext DEF ReviewerSave, Gate!vars
<1>6. CASE PromotionSave /\ UNCHANGED seal
  <2>1. State(record', {"running", "succeeded", "failed"}, {"rewrite", "verify"}) /\ committed' \in CompleteBundles
    <3>1. State(record', {"running", "succeeded", "failed"}, {"rewrite", "verify"})
      BY <1>6 DEF PromotionSave, State
    <3> QED BY <3>1, CommittedComplete DEF State
  <2>2. record # None /\ record.phase \in {"rewrite", "verify"} => committed' = committed
    BY <1>6, <2>1 DEF PromotionSave, SameInputs, Inputs, State, committed
  <2>3. CASE record # None /\ Promotable(record) /\ State(record', {"running"}, {"rewrite"})
    <3>1. stage' = "promoting"
      BY <2>3, StageOfNext
    <3>2. CASE record.status = "waiting" /\ record.phase = "human_review"
      BY <1>2, <1>6, <2>1, <2>3, <3>1, <3>2, StageOf DEF State, Early, Gate!Next, Gate!Commit
    <3>3. CASE record.status = "failed" /\ record.phase = "verify"
      BY <1>2, <1>6, <2>2, <2>3, <3>1, <3>3, StageOf DEF State, Gate!Next, Gate!Retry
    <3>4. CASE record.status = "running" /\ record.phase = "rewrite"
      BY <1>2, <1>6, <2>2, <2>3, <3>1, <3>4, StageOf DEF State, Gate!vars
    <3> QED BY <2>3, <3>2, <3>3, <3>4 DEF Promotable
  <2>4. CASE State(record, {"running"}, {"rewrite"}) /\ State(record', {"succeeded", "failed"}, {"verify"})
    BY <1>2, <1>6, <2>2, <2>4, StageOf, StageOfNext DEF State, Gate!Next, Gate!Judge
  <2>5. CASE State(record, {"succeeded", "failed"}, {"verify"}) /\ State(record', {record.status}, {"verify"})
    BY <1>2, <1>6, <2>2, <2>5, StageOf, StageOfNext DEF State, Gate!vars
  <2> QED BY <1>6, <2>3, <2>4, <2>5 DEF PromotionSave
<1>7. CASE SealStep
  <2>1. stage = "succeeded" /\ UNCHANGED <<stage, committed>>
    BY <1>7, StageOf DEF SealStep, stage, committed
  <2>2. CASE seal' = None
    BY <1>2, <1>7, <2>1, <2>2 DEF SealStep, Gate!vars
  <2>3. CASE seal' # None
    <3>1. sealed = None /\ sealed' = committed
      BY <1>7, <2>3 DEF SealStep, sealed, committed, State
    <3> QED BY <2>1, <3>1 DEF Gate!Next, Gate!Seal
  <2> QED BY <2>2, <2>3
<1> QED BY <1>1, <1>3, <1>4, <1>5, <1>6, <1>7 DEF RecordStep

\* When resume is not called before stage 1 has ended, every step of the
\* processes, crashes included, is a step of the review gate or none: promotion
\* starts only from a waiting run with complete, approved decisions, every retry
\* promotes the same decisions, and the seal stands on them.
THEOREM GateRefinement == ASSUME Overlap = FALSE PROVE Spec => ImplementsReviewGate
<1>1. Init => Gate!Init
  BY GateInit
<1>2. IInv /\ IInv' /\ StageInv /\ [Next]_vars => [Gate!Next]_Gate!vars
  BY GateStep
<1> QED BY <1>1, <1>2, Invariance, StageInvariance, PTL DEF Spec, ImplementsReviewGate, Gate!Spec
=============================================================================
