------------------------------ MODULE RunBundle ------------------------------
(***************************************************************************)
(* One run bundle of the document enhancer: its record json/00-run.json,   *)
(* its artifact files, the reviewer's decisions.yaml, the seal, the run    *)
(* lock, and the operations (CoreRunner.start and CoreRunner.resume) that  *)
(* work on them from any number of processes or threads, any of which can  *)
(* be killed between two store calls.                                      *)
(*                                                                         *)
(* Every call of RunStore takes the run lock, so a store call is one       *)
(* atomic step; what a process computes between two calls is local and is  *)
(* folded into the call that publishes it.  The promotion block of resume  *)
(* (_finish) holds the lock from its identity check to its end.            *)
(***************************************************************************)
EXTENDS Naturals

CONSTANTS
    Procs,      \* processes or threads that call start and resume
    Configs,    \* recipe and configuration digests a runner can be built with
    Attempts,   \* the candidates an analysis can come back with
    Blocking,   \* the blocking questions of the review
    Answers,    \* the answers a reviewer can give
    Stamps,     \* zip timestamps of the rendered DOCX package
    Overlap,    \* may resume be called while stage 1 is still working?
    MaxOps,     \* bound on the number of calls of start and resume
    None        \* absence of a record, a reference, an answer, an owner

ASSUME ConstantsAssumption ==
    /\ Overlap \in BOOLEAN
    /\ MaxOps \in Nat
    /\ None \notin Procs \cup Answers \cup Attempts \cup Configs

VARIABLES
    record,     \* json/00-run.json
    files,      \* bytes of every registered artifact path
    yaml,       \* review/decisions.yaml, which the reviewer edits
    seal,       \* json/12-seal.json: the manifest of the sealed artifacts
    lock,       \* the holder of .run.lock across a promotion block
    pc,         \* the next store call of each process
    loc,        \* the record a process carries in memory
    expect,     \* the ResumeIdentity a process captured
    conf,       \* the configuration of the runner a process built
    starter,    \* the process inside start
    ops         \* calls of start and resume so far

vars == <<record, files, yaml, seal, lock, pc, loc, expect, conf, starter, ops>>

-----------------------------------------------------------------------------
(* Artifacts.  "source" stands for the files _extract registers, "draft"   *)
(* for draft.*, "review" for review.* but the decisions, "final" for what   *)
(* _finish derives from draft and decisions, "audit" for audit.report.     *)

Key == {"source", "draft", "review", "decisions", "final", "audit", "report"}

Analysis == [attempt : Attempts, config : Configs]

Bundle == [review : Analysis, approve : BOOLEAN,
           answers : [Blocking -> Answers \cup {None}]]

\* The bytes of each kind of artifact, up to what the properties tell apart.
Content(k) ==
    CASE k = "source"    -> {"source"}
      [] k = "draft"     -> Analysis
      [] k = "review"    -> Analysis
      [] k = "decisions" -> Bundle
      [] k = "final"     -> [draft : Analysis, decisions : Bundle, stamp : Stamps]
      [] k = "audit"     -> [outcome : {"pass", "fail"}, draft : Analysis, decisions : Bundle]
      [] k = "report"    -> [status : {"waiting", "succeeded", "failed"}, review : Analysis]

ASSUME NoneIsNoContent == \A k \in Key : None \notin Content(k)

\* The run records, with the registered artifacts as bytes instead of digests.
Record ==
    [status : {"running", "waiting", "succeeded", "failed"},
     phase : {"extract", "analyze", "human_review", "rewrite", "verify"},
     config : Configs,
     refs : [Key -> {None} \cup UNION {Content(k) : k \in Key}],
     unresolved : SUBSET (Blocking \cup {"approve_rewrite"}),
     sealed : BOOLEAN]

ASSUME NoneIsNoRecord == None \notin Record

NoArtifacts == [k \in Key |-> None]

\* verify_registered_artifacts: every registered digest is that of the bytes.
Verified(r) == \A k \in Key : r.refs[k] # None => files[k] = r.refs[k]

Register(r, k, v) == [r EXCEPT !.refs[k] = v]

\* The blocking questions whose decision is missing, deferred or blank.
Open(b) == {q \in Blocking : b.answers[q] = None}

\* What resume stores as unresolved_question_ids.
Unresolved(b) == Open(b) \cup (IF b.approve THEN {} ELSE {"approve_rewrite"})

\* Mutant: the template leaves approve_rewrite out.
TemplateWithoutApproval(a) ==
    [review |-> a, approve |-> None, answers |-> [q \in Blocking |-> None]]

\* decisions.yaml as _analyze writes it: every disposition defer, no approval.
Template(a) == [review |-> a, approve |-> FALSE, answers |-> [q \in Blocking |-> None]]

-----------------------------------------------------------------------------
Init ==
    /\ record = None
    /\ files = NoArtifacts
    /\ yaml = None
    /\ seal = None
    /\ lock = None
    /\ pc = [p \in Procs |-> "idle"]
    /\ loc = [p \in Procs |-> None]
    /\ expect = [p \in Procs |-> None]
    /\ conf = [p \in Procs |-> None]
    /\ starter = None
    /\ ops = 0

\* A store call of p goes through unless another process is promoting.
At(p, step) == pc[p] = step /\ lock \in {None, p}

Goto(p, step) == pc' = [pc EXCEPT ![p] = step]

Keep(p, r) == loc' = [loc EXCEPT ![p] = r]

\* save_run: unconditional, whatever the saved record has become meanwhile.
Save(p, r) == record' = r /\ Keep(p, r)

\* Mutant: the store does not look for the seal.
WriteSealed(p, k, v) ==
    /\ files' = [files EXCEPT ![k] = v]
    /\ Keep(p, Register(loc[p], k, v))

\* write_bytes and register_artifact: refused once the run is sealed.
Write(p, k, v) ==
    /\ seal = None
    /\ files' = [files EXCEPT ![k] = v]
    /\ Keep(p, Register(loc[p], k, v))

\* Mutant: the lock survives the call.
ReturnLocked(p) ==
    /\ Goto(p, "idle")
    /\ loc' = [loc EXCEPT ![p] = None]
    /\ expect' = [expect EXCEPT ![p] = None]
    /\ conf' = [conf EXCEPT ![p] = None]
    /\ starter' = IF starter = p THEN None ELSE starter
    /\ UNCHANGED lock

\* The call returns or raises; its memory and the lock go with it.
Return(p) ==
    /\ Goto(p, "idle")
    /\ loc' = [loc EXCEPT ![p] = None]
    /\ expect' = [expect EXCEPT ![p] = None]
    /\ conf' = [conf EXCEPT ![p] = None]
    /\ lock' = IF lock = p THEN None ELSE lock
    /\ starter' = IF starter = p THEN None ELSE starter

-----------------------------------------------------------------------------
(* CoreRunner.start: stage 1.                                              *)

Start(p, c) ==
    /\ At(p, "idle")
    /\ record = None
    /\ ops < MaxOps
    /\ LET r == [status |-> "running", phase |-> "extract", config |-> c,
                 refs |-> NoArtifacts, unresolved |-> {}, sealed |-> FALSE]
       IN  Save(p, r)
    /\ Goto(p, "extract")
    /\ conf' = [conf EXCEPT ![p] = c]
    /\ starter' = p
    /\ ops' = ops + 1
    /\ UNCHANGED <<files, yaml, seal, lock, expect>>

Extract(p) ==
    /\ At(p, "extract")
    /\ Write(p, "source", "source")
    /\ Goto(p, "save_extracted")
    /\ UNCHANGED <<record, yaml, seal, lock, expect, conf, starter, ops>>

SaveExtracted(p) ==
    /\ At(p, "save_extracted")
    /\ Save(p, [loc[p] EXCEPT !.phase = "analyze"])
    /\ Goto(p, "write_draft")
    /\ UNCHANGED <<files, yaml, seal, lock, expect, conf, starter, ops>>

\* _analyze, entered by start and by resume of an interrupted analysis.
WriteDraft(p, a) ==
    /\ At(p, "write_draft")
    /\ Write(p, "draft", [attempt |-> a, config |-> conf[p]])
    /\ Goto(p, "write_review")
    /\ UNCHANGED <<record, yaml, seal, lock, expect, conf, starter, ops>>

WriteReview(p) ==
    /\ At(p, "write_review")
    /\ Write(p, "review", loc[p].refs["draft"])
    /\ Goto(p, "write_template")
    /\ UNCHANGED <<record, yaml, seal, lock, expect, conf, starter, ops>>

\* decisions.yaml is written through the store but never registered.
WriteTemplate(p) ==
    /\ At(p, "write_template")
    /\ seal = None
    /\ yaml' = Template(loc[p].refs["review"])
    /\ Goto(p, "save_analyzed")
    /\ UNCHANGED <<record, files, seal, lock, loc, expect, conf, starter, ops>>

SaveAnalyzed(p) ==
    /\ At(p, "save_analyzed")
    /\ Save(p, [loc[p] EXCEPT !.phase = "human_review", !.unresolved = Blocking])
    /\ Goto(p, "save_waiting")
    /\ UNCHANGED <<files, yaml, seal, lock, expect, conf, starter, ops>>

\* resume ends here; start goes on to the HTML report.
SaveWaiting(p) ==
    /\ At(p, "save_waiting")
    /\ files["review"] = loc[p].refs["review"]
    /\ LET r == [loc[p] EXCEPT !.status = "waiting", !.phase = "human_review",
                               !.unresolved = Blocking]
       IN  IF starter = p
           THEN /\ Save(p, r)
                /\ Goto(p, "write_report")
                /\ UNCHANGED <<lock, expect, conf, starter>>
           ELSE record' = r /\ Return(p)
    /\ UNCHANGED <<files, yaml, seal, ops>>

\* _refresh_html_report, after the gate and again after the verdict; every
\* registered document it shows is verified first.
Report(r) == [status |-> r.status, review |-> r.refs["review"]]

WriteReport(p) ==
    /\ At(p, "write_report")
    /\ \A k \in Key \ {"decisions", "report"} :
          loc[p].refs[k] # None => files[k] = loc[p].refs[k]
    /\ Write(p, "report", Report(loc[p]))
    /\ Goto(p, "save_report")
    /\ UNCHANGED <<record, yaml, seal, lock, expect, conf, starter, ops>>

\* Mutant: the record is not saved once its report is written.
SaveReportUnsaved(p) ==
    /\ At(p, "save_report")
    /\ IF loc[p].status = "succeeded"
       THEN Goto(p, "write_seal") /\ UNCHANGED <<record, loc, lock, expect, conf, starter>>
       ELSE record' = loc[p] /\ Return(p)
    /\ UNCHANGED <<files, yaml, seal, ops>>

SaveReport(p) ==
    /\ At(p, "save_report")
    /\ IF loc[p].status = "succeeded"
       THEN /\ Save(p, loc[p])
            /\ Goto(p, "write_seal")
            /\ UNCHANGED <<lock, expect, conf, starter>>
       ELSE record' = loc[p] /\ Return(p)
    /\ UNCHANGED <<files, yaml, seal, ops>>

\* What the variable record of start is bound to when its body raises: a
\* helper's registrations are lost with the frame of that helper.
StartRecord(p) ==
    CASE pc[p] \in {"extract", "save_extracted"} ->
             [loc[p] EXCEPT !.refs = NoArtifacts]
      [] pc[p] \in {"write_draft", "write_review", "write_template", "save_analyzed"} ->
             [loc[p] EXCEPT !.refs["draft"] = None, !.refs["review"] = None]
      [] OTHER -> [loc[p] EXCEPT !.refs["report"] = None]

\* The exception handler of start saves the failure over whatever is there.
StartFails(p) ==
    /\ starter = p
    /\ lock = None
    /\ record' = [StartRecord(p) EXCEPT !.status = "failed"]
    /\ Return(p)
    /\ UNCHANGED <<files, yaml, seal, ops>>

-----------------------------------------------------------------------------
(* The reviewer, who takes no lock.                                        *)

EditDecisions ==
    /\ yaml # None
    /\ \E approve \in BOOLEAN, answers \in [Blocking -> Answers \cup {None}] :
          yaml' = [yaml EXCEPT !.approve = approve, !.answers = answers]
    /\ UNCHANGED <<record, files, seal, lock, pc, loc, expect, conf, starter, ops>>

-----------------------------------------------------------------------------
(* CoreRunner.resume: stage 2, and the recovery of interrupted runs.       *)

StageOne == {"extract", "save_extracted", "write_draft", "write_review",
             "write_template", "save_analyzed", "save_waiting"}

StageOneActive ==
    \E q \in Procs : pc[q] \in StageOne \/ (starter = q /\ starter # None)

\* load_run and the dispatch on status and phase.
Call(p, c, step) ==
    /\ At(p, "idle")
    /\ record # None
    /\ ops < MaxOps
    /\ Overlap \/ ~StageOneActive
    /\ Goto(p, step)
    /\ Keep(p, record)
    /\ conf' = [conf EXCEPT ![p] = c]
    /\ ops' = ops + 1
    /\ UNCHANGED <<record, files, yaml, seal, lock, starter>>

\* Mutant: an analysis is taken for interrupted while its review waits.
ResumeAnalysisAnyPhase(p, c) ==
    /\ Call(p, c, "write_draft")
    /\ record.status \in {"running", "waiting"} /\ record.phase \in {"analyze", "human_review"}
    /\ UNCHANGED expect

\* Mutant: whatever runs is taken for an analysis.
ResumeAnalysisRunning(p, c) ==
    /\ Call(p, c, "write_draft")
    /\ record.status = "running"
    /\ UNCHANGED expect

ResumeAnalysis(p, c) ==
    /\ Call(p, c, "write_draft")
    /\ record.status = "running" /\ record.phase = "analyze"
    /\ UNCHANGED expect

ResumeReview(p, c) ==
    /\ Call(p, c, "read_decisions")
    /\ record.status = "waiting" /\ record.phase = "human_review"
    /\ expect' = [expect EXCEPT ![p] = record]

\* decisions.yaml is read without the lock and checked against the review; what
\* was read stays in memory, whatever the reviewer or an analysis writes next.
ReadDecisions(p) ==
    /\ At(p, "read_decisions")
    /\ yaml # None
    /\ conf[p] = loc[p].config
    /\ files["review"] = loc[p].refs["review"]
    /\ yaml.review = loc[p].refs["review"]
    /\ Keep(p, Register(loc[p], "decisions", yaml))
    /\ Goto(p, "submit")
    /\ UNCHANGED <<record, files, yaml, seal, lock, expect, conf, starter, ops>>

\* The decisions read are stored as canonical JSON.
Submit(p) ==
    /\ At(p, "submit")
    /\ Write(p, "decisions", loc[p].refs["decisions"])
    /\ Goto(p, "save_decisions")
    /\ UNCHANGED <<record, yaml, seal, lock, expect, conf, starter, ops>>

ResumePromotion(p, c) ==
    /\ Call(p, c, "check_recovery")
    /\ \/ record.status = "failed" /\ record.phase = "verify"
       \/ record.status = "running" /\ record.phase = "rewrite"
    /\ UNCHANGED expect

\* _prepare_draft_recovery: the record loaded is compared again, and its
\* artifacts verified again, once the promotion lock is held.
CheckRecovery(p) ==
    /\ At(p, "check_recovery")
    /\ conf[p] = loc[p].config
    /\ loc[p].refs["decisions"] # None
    /\ Verified(loc[p])
    /\ expect' = [expect EXCEPT ![p] = loc[p]]
    /\ Goto(p, "promote")
    /\ UNCHANGED <<record, files, yaml, seal, lock, loc, conf, starter, ops>>

\* Mutant: save_run instead of save_run_if_current.
SaveDecisionsUnguarded(p) ==
    /\ At(p, "save_decisions")
    /\ Save(p, loc[p])
    /\ expect' = [expect EXCEPT ![p] = loc[p]]
    /\ Goto(p, "verify_inputs")
    /\ UNCHANGED <<files, yaml, seal, lock, conf, starter, ops>>

\* save_run_if_current under the identity captured at load.
SaveDecisions(p) ==
    /\ At(p, "save_decisions")
    /\ record = expect[p]
    /\ Save(p, loc[p])
    /\ expect' = [expect EXCEPT ![p] = loc[p]]
    /\ Goto(p, "verify_inputs")
    /\ UNCHANGED <<files, yaml, seal, lock, conf, starter, ops>>

\* Mutant: an approval is enough to promote.
VerifyInputsApproved(p) ==
    /\ At(p, "verify_inputs")
    /\ Verified(loc[p])
    /\ Goto(p, IF loc[p].refs["decisions"].approve THEN "promote" ELSE "save_unresolved")
    /\ UNCHANGED <<record, files, yaml, seal, lock, loc, expect, conf, starter, ops>>

VerifyInputs(p) ==
    /\ At(p, "verify_inputs")
    /\ Verified(loc[p])
    /\ Goto(p, IF Unresolved(loc[p].refs["decisions"]) = {} THEN "promote"
                                                           ELSE "save_unresolved")
    /\ UNCHANGED <<record, files, yaml, seal, lock, loc, expect, conf, starter, ops>>

SaveUnresolved(p) ==
    /\ At(p, "save_unresolved")
    /\ record = expect[p]
    /\ record' = [loc[p] EXCEPT !.unresolved = Unresolved(loc[p].refs["decisions"])]
    /\ Return(p)
    /\ UNCHANGED <<files, yaml, seal, ops>>

-----------------------------------------------------------------------------
(* The promotion block: locked_promotion around _finish.                   *)

\* Mutant: the identity has the state and the artifact keys, but no digests.
PromoteSameKeys(p) ==
    /\ At(p, "promote")
    /\ record.status = expect[p].status /\ record.phase = expect[p].phase
    /\ \A k \in Key : record.refs[k] = None <=> expect[p].refs[k] = None
    /\ conf[p] = record.config
    /\ lock' = p
    /\ Keep(p, [record EXCEPT !.status = "running", !.phase = "rewrite"])
    /\ Goto(p, "prepare")
    /\ UNCHANGED <<record, files, yaml, seal, expect, conf, starter, ops>>

\* Mutant: the identity is compared and the lock let go at once.
PromoteUnlocked(p) ==
    /\ At(p, "promote")
    /\ record = expect[p]
    /\ conf[p] = record.config
    /\ Keep(p, [record EXCEPT !.status = "running", !.phase = "rewrite"])
    /\ Goto(p, "prepare")
    /\ UNCHANGED <<record, files, yaml, seal, lock, expect, conf, starter, ops>>

Promote(p) ==
    /\ At(p, "promote")
    /\ record = expect[p]
    /\ conf[p] = record.config
    /\ lock' = p
    /\ Keep(p, [record EXCEPT !.status = "running", !.phase = "rewrite"])
    /\ Goto(p, "prepare")
    /\ UNCHANGED <<record, files, yaml, seal, expect, conf, starter, ops>>

\* Mutant: the promotion reads the editable file again.
DecisionsFromYaml(p) == IF yaml = None THEN loc[p].refs["decisions"] ELSE yaml

\* The decisions promoted are the registered ones, never the editable file.
Decisions(p) == loc[p].refs["decisions"]

\* Verify every input, reload the decisions, require the approval; the rewrite
\* plan and the figures written here are the same bytes on every attempt.
Prepare(p) ==
    /\ At(p, "prepare")
    /\ Verified(loc[p])
    /\ seal = None
    /\ Decisions(p).review = loc[p].refs["review"]
    /\ Decisions(p).approve
    /\ Save(p, [loc[p] EXCEPT !.unresolved = {}])
    /\ Goto(p, "write_final")
    /\ UNCHANGED <<files, yaml, seal, lock, expect, conf, starter, ops>>

WriteFinal(p, s) ==
    /\ At(p, "write_final")
    /\ Write(p, "final", [draft |-> loc[p].refs["draft"],
                          decisions |-> Decisions(p), stamp |-> s])
    /\ Goto(p, "write_audit")
    /\ UNCHANGED <<record, yaml, seal, lock, expect, conf, starter, ops>>

WriteAudit(p, outcome) ==
    /\ At(p, "write_audit")
    /\ Write(p, "audit", [outcome |-> outcome,
                          draft |-> loc[p].refs["final"].draft,
                          decisions |-> loc[p].refs["final"].decisions])
    /\ Goto(p, "save_verdict")
    /\ UNCHANGED <<record, yaml, seal, lock, expect, conf, starter, ops>>

SaveVerdict(p) ==
    /\ At(p, "save_verdict")
    /\ Save(p, [loc[p] EXCEPT
                  !.status = IF loc[p].refs["audit"].outcome = "pass" THEN "succeeded" ELSE "failed",
                  !.phase = "verify"])
    /\ Goto(p, "write_report")
    /\ UNCHANGED <<files, yaml, seal, lock, expect, conf, starter, ops>>

\* build_seal_manifest verifies the bytes of every registered artifact.
WriteSeal(p) ==
    /\ At(p, "write_seal")
    /\ Verified(loc[p])
    /\ seal = None
    /\ seal' = loc[p].refs
    /\ Goto(p, "save_sealed")
    /\ UNCHANGED <<record, files, yaml, lock, loc, expect, conf, starter, ops>>

SaveSealed(p) ==
    /\ At(p, "save_sealed")
    /\ record' = [loc[p] EXCEPT !.sealed = TRUE]
    /\ Return(p)
    /\ UNCHANGED <<files, yaml, seal, ops>>

-----------------------------------------------------------------------------
\* The process is killed at any point: nothing is saved on the way out.
Crash(p) ==
    /\ pc[p] # "idle"
    /\ Return(p)
    /\ UNCHANGED <<record, files, yaml, seal, ops>>

\* A call raises, which only a process that is running, and so is not waiting
\* for the run lock, can do; resume saves nothing either when it raises.
Raise(p) == lock \in {None, p} /\ Crash(p)

Stage1(p) ==
    \/ \E c \in Configs : Start(p, c)
    \/ Extract(p) \/ SaveExtracted(p)
    \/ \E a \in Attempts : WriteDraft(p, a)
    \/ WriteReview(p) \/ WriteTemplate(p) \/ SaveAnalyzed(p) \/ SaveWaiting(p)
    \/ StartFails(p)

Stage2(p) ==
    \/ \E c \in Configs : ResumeAnalysis(p, c) \/ ResumeReview(p, c) \/ ResumePromotion(p, c)
    \/ ReadDecisions(p) \/ CheckRecovery(p)
    \/ Submit(p) \/ SaveDecisions(p) \/ VerifyInputs(p) \/ SaveUnresolved(p)
    \/ Promote(p) \/ Prepare(p)
    \/ \E s \in Stamps : WriteFinal(p, s)
    \/ \E o \in {"pass", "fail"} : WriteAudit(p, o)
    \/ SaveVerdict(p) \/ WriteSeal(p) \/ SaveSealed(p)

Next ==
    \/ EditDecisions
    \/ \E p \in Procs :
          Stage1(p) \/ Stage2(p) \/ WriteReport(p) \/ SaveReport(p) \/ Crash(p)

Spec == Init /\ [][Next]_vars

\* A call that finds the lock free, or holds it, goes on to its next store call
\* or raises; nobody has to call, to crash or to edit the decisions.
Proceeds(p) ==
    /\ pc[p] # "idle"
    /\ Stage1(p) \/ Stage2(p) \/ WriteReport(p) \/ SaveReport(p) \/ Raise(p)

Fairness == \A p \in Procs : WF_vars(Proceeds(p))

FairSpec == Spec /\ Fairness

-----------------------------------------------------------------------------
(* Types.                                                                  *)

RefsOK(r) ==
    /\ r = [k \in Key |-> r[k]]
    /\ \A k \in Key : r[k] # None => r[k] \in Content(k)

Step == StageOne \cup
        {"idle", "write_report", "save_report", "read_decisions", "submit", "save_decisions",
         "verify_inputs", "save_unresolved", "check_recovery", "promote", "prepare",
         "write_final", "write_audit", "save_verdict", "write_seal", "save_sealed"}

RecordOK(r) ==
    /\ r = [status |-> r.status, phase |-> r.phase, config |-> r.config,
            refs |-> r.refs, unresolved |-> r.unresolved, sealed |-> r.sealed]
    /\ r.status \in {"running", "waiting", "succeeded", "failed"}
    /\ r.phase \in {"extract", "analyze", "human_review", "rewrite", "verify"}
    /\ r.config \in Configs
    /\ RefsOK(r.refs)
    /\ r.unresolved \subseteq Blocking \cup {"approve_rewrite"}
    /\ r.sealed \in BOOLEAN

\* Every variable holds what the code stores in it: the record is a RunRecord or
\* absent, every file has bytes of its own kind, a process that is inside a call
\* carries a record and the configuration of its runner.
TypeOK ==
    /\ record # None => RecordOK(record)
    /\ RefsOK(files)
    /\ yaml # None => yaml \in Bundle
    /\ seal # None => RefsOK(seal)
    /\ lock \in Procs \cup {None}
    /\ pc \in [Procs -> Step]
    /\ loc = [p \in Procs |-> loc[p]]
    /\ \A p \in Procs : pc[p] # "idle" => RecordOK(loc[p])
    /\ expect = [p \in Procs |-> expect[p]]
    /\ \A p \in Procs : expect[p] # None => RecordOK(expect[p])
    /\ conf \in [Procs -> Configs \cup {None}]
    /\ \A p \in Procs : pc[p] # "idle" => conf[p] \in Configs
    /\ starter \in Procs \cup {None}
    /\ ops \in 0 .. MaxOps

-----------------------------------------------------------------------------
(* Safety.                                                                 *)

Idle == \A p \in Procs : pc[p] = "idle"

\* A seal stands only on decisions that were approved, that leave no blocking
\* question open and that answer the review of the very draft that was sealed,
\* however the calls of resume that read, stored and promoted decisions overlap.
SealedDecisionsComplete ==
    seal # None =>
        /\ seal["decisions"] # None
        /\ seal["decisions"].approve
        /\ Open(seal["decisions"]) = {}
        /\ seal["decisions"].review = seal["review"]
        /\ seal["review"] = seal["draft"]

\* The sealed final document was derived from the sealed draft and the sealed
\* decisions, and the passing audit in the seal judged that document: outputs
\* of two promotion attempts are never mixed in one seal.
SealedAuditCoversFinal ==
    seal # None =>
        /\ seal["final"] # None /\ seal["audit"] # None
        /\ seal["final"].draft = seal["draft"]
        /\ seal["final"].decisions = seal["decisions"]
        /\ seal["audit"].outcome = "pass"
        /\ seal["audit"].draft = seal["final"].draft
        /\ seal["audit"].decisions = seal["final"].decisions

\* Once there is a seal, every sealed artifact has the bytes the manifest lists,
\* so the sealed-bundle loader can accept the bundle whoever still holds a
\* handle on the run: late writers, a second resume, a crashed promotion.
SealedBytesIntact ==
    seal # None => \A k \in Key : seal[k] # None => files[k] = seal[k]

\* Once a promotion was recorded the run never goes back to the reviewer and the
\* inputs it was approved with stay the registered ones: a resume that loaded
\* the record earlier cannot write its own decisions over it.
Inputs == {"source", "draft", "review", "decisions"}

PromotionKeepsInputs ==
    [][record # None /\ record.phase \in {"rewrite", "verify"} =>
          /\ record'.phase \in {"rewrite", "verify"}
          /\ \A k \in Inputs : record'.refs[k] = record.refs[k]]_vars

\* With stage 1 finished before resume is called, a sealed bundle and its record
\* agree: the record says succeeded and registers exactly the sealed artifacts.
SealedRecordAgrees ==
    seal # None => record.status = "succeeded" /\ record.refs = seal

\* While a run waits, the only registered bytes an interrupted or refused resume
\* can have left behind are those of the decisions, which the next one rewrites.
WaitingRunCanResume ==
    record # None /\ record.status = "waiting" /\ Idle =>
        \A k \in Key \ {"decisions"} :
            record.refs[k] # None => files[k] = record.refs[k]

\* A first promotion that is interrupted before its verdict leaves a run whose
\* registered artifacts still verify, so that resume can recover it.  The one
\* exception are the decisions: another resume, which will lose, may have
\* written its own over them before it compares the identity.
FirstInterruptionRecoverable ==
    record # None /\ Idle /\ record.status = "running" /\ record.phase = "rewrite"
        /\ record.refs["final"] = None
        => \A k \in Key \ {"decisions"} :
              record.refs[k] # None => files[k] = record.refs[k]

\* Every call of start and resume returns: no process waits for ever for the run
\* lock, and no promotion keeps it.
CallsReturn == \A p \in Procs : pc[p] # "idle" ~> pc[p] = "idle"

-----------------------------------------------------------------------------
(* What the documentation says, and the code does not keep.                *)

\* README.md:132, "Failed --> Rewrite: retry a failed verification run": when
\* nobody is working on it, a run whose verification failed can be retried.
FailedVerificationCanBeRetried ==
    record # None /\ Idle /\ record.status = "failed" /\ record.phase = "verify"
        => Verified(record)

\* README.md:130, "every promotion check passes; write seal": a run that nobody
\* works on and that succeeded is sealed.
SucceededRunIsSealed ==
    record # None /\ Idle /\ record.status = "succeeded" => seal # None

\* README.md:133, "Succeeded --> [*]": a run that succeeded stays succeeded.
SucceededIsFinal ==
    [][record # None /\ record.status = "succeeded" => record'.status = "succeeded"]_vars

\* The audit check recipe_configuration_unchanged, which every sealed audit
\* reports as true: the sealed draft was made under the recorded configuration.
SealedConfigurationUnchanged ==
    seal # None => seal["draft"].config = record.config
=============================================================================
