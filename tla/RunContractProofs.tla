------------------------- MODULE RunContractProofs -------------------------
(***************************************************************************)
(* RunQueue keeps the contract of RunContract, and its report follows the  *)
(* queue. Every action is first shown to be one of a few kinds of step of  *)
(* the report; the rest of the argument speaks of those kinds only.        *)
(***************************************************************************)
EXTENDS RunQueueProofs, SequenceTheorems

(* The issue in hand, if any, has no result yet. *)
Pending == (InHand \ {"publish"}) \cup {"issue"}

(* The issue in hand is given a result. *)
Appends(done) ==
    /\ k <= Len(q)
    /\ \E r \in IssueResult : /\ r.issue = cur /\ r.closed = done
                              /\ worked' = Append(worked, r)

-----------------------------------------------------------------------------
(* The kinds of step. *)

Goes == /\ pc \in Pending /\ pc' \in Pending
        /\ UNCHANGED <<k, q, worked, stop, closed>>
Records == /\ pc \in Pending /\ pc' = "issue" /\ k' = k + 1
           /\ Appends(FALSE) /\ UNCHANGED <<q, stop, closed>>
Halts == /\ pc \in Pending /\ pc' = "teardown" /\ stop'.kind \in StopKind \ {"none"}
         /\ UNCHANGED worked \/ Appends(FALSE)
         /\ UNCHANGED <<k, q, closed>>
Errs == /\ pc \in Pending \cup {"publish"} /\ pc' = "over" /\ stop'.kind = "Err"
        /\ UNCHANGED <<k, q, worked, closed>>
Closes == /\ pc = "close" /\ pc' = "publish"
          /\ Appends(TRUE) /\ closed' = closed \cup {cur}
          /\ UNCHANGED <<k, q, stop>>
Publishes == /\ pc = "publish" /\ pc' = "issue" /\ k' = k + 1
             /\ UNCHANGED <<q, worked, stop, closed>>
RunsOut == /\ pc = "issue" /\ k > Len(q) /\ pc' = "teardown"
           /\ UNCHANGED <<k, q, worked, stop, closed>>
TearsDown == /\ pc = "teardown" /\ pc' = "over"
             /\ UNCHANGED <<k, q, worked, stop, closed>>
Begins == /\ pc = "idle" /\ pc' = "issue" /\ k' = 1 /\ q' \in Queues
          /\ \A j \in 1 .. Len(q') : q'[j] \notin closed
          /\ worked' = <<>> /\ stop'.kind = "none" /\ UNCHANGED closed
Leaves == /\ pc # "idle" /\ pc' = "idle" /\ q' = <<>> /\ worked' = <<>>
          /\ stop'.kind = "none" /\ UNCHANGED closed
Idles == /\ UNCHANGED <<pc, k, q, worked, stop>>
         /\ closed' \cap Issues = closed \cap Issues

ReportStep == \/ Goes \/ Records \/ Halts \/ Errs \/ Closes \/ Publishes
              \/ RunsOut \/ TearsDown \/ Begins \/ Leaves \/ Idles

(* A pushed result is an open result of the issue in hand. *)
LEMMA PushAppends ==
  ASSUME cur \in Issues, k <= Len(q), NEW st \in ResultStatus, NEW sk \in SkipReason,
         Push(st, sk)
  PROVE  Appends(FALSE)
<1> DEFINE r == result(cur, st, sk, FALSE)
<1>1. r \in IssueResult /\ r.issue = cur /\ r.closed = FALSE
  BY DEF result, IssueResult
<1> QED BY <1>1 DEF Push, Appends

(* What the two ways of leaving an issue early do to the report's frame. *)
LEMMA StopHalts ==
  ASSUME NEW kind \in StopKind \ {"none"}, NEW n, EarlyStop(kind, n)
  PROVE  pc' = "teardown" /\ stop'.kind \in StopKind \ {"none"} /\ UNCHANGED k
  BY DEF EarlyStop, Reason

LEMMA FailErrs ==
  ASSUME EarlyFail
  PROVE  pc' = "over" /\ stop'.kind = "Err" /\ UNCHANGED k
  BY DEF EarlyFail, Reason

(* record_stop and limit_stop halt the run with a result for the issue. *)
LEMMA RecordHalts ==
  ASSUME cur \in Issues, k <= Len(q), pc \in Pending, record_stop \/ limit_stop,
         UNCHANGED <<q, closed>>
  PROVE  Halts
<1>1. Push("NonGreen", "none") /\ (EarlyStop("Stopped", cur) \/ EarlyStop("Limit", cur))
  BY DEF record_stop, limit_stop
<1>2. Appends(FALSE)
  BY <1>1, PushAppends DEF ResultStatus, SkipReason
<1>3. pc' = "teardown" /\ stop'.kind \in StopKind \ {"none"} /\ UNCHANGED k
  BY <1>1, StopHalts DEF StopKind
<1> QED BY <1>2, <1>3 DEF Halts

(* A non-green outcome halts the run with a result for the issue. *)
LEMMA NonGreenHalts ==
  ASSUME cur \in Issues, k <= Len(q), pc \in Pending, NEW o, NEW cut \in BOOLEAN,
         non_green(o, cut), UNCHANGED <<q, closed>>
  PROVE  Halts
<1>1. Appends(FALSE)
  BY PushAppends DEF non_green, ResultStatus, SkipReason
<1>2. pc' = "teardown" /\ stop'.kind \in StopKind \ {"none"} /\ UNCHANGED k
  BY StopHalts DEF non_green, non_green_stop, StopKind
<1> QED BY <1>1, <1>2 DEF Halts

(* A pushed result followed by the next issue. *)
LEMMA PushRecords ==
  ASSUME cur \in Issues, k <= Len(q), pc \in Pending, NEW st \in ResultStatus,
         NEW sk \in SkipReason, Push(st, sk), EarlyNext, UNCHANGED <<q, closed>>
  PROVE  Records
  BY PushAppends DEF Records, EarlyNext

(* While an issue is pending the position points into the queue. *)
LEMMA PendingCursor ==
  ASSUME TypeInv, pc \in InHand
  PROVE  cur \in Issues /\ k <= Len(q)
  BY CurIsIssue DEF TypeInv, TypeOK, Cursor

-----------------------------------------------------------------------------
(* Every action is a step of one of the kinds. *)

LEMMA preflightReports ==
  ASSUME TypeInv, preflight
  PROVE  ReportStep
<1>1. pc \in Pending /\ k <= Len(q) /\ UNCHANGED <<q, closed>>
  BY DEF preflight, frame, tracker, Pending
<1>2. cur \in Issues
  BY <1>1, CurIsIssue DEF TypeInv, TypeOK
<1>3. CASE pc' = "teardown"
  <2>1. UNCHANGED worked
    BY <1>3 DEF preflight, EarlyNext
  <2>2. stop'.kind \in StopKind \ {"none"} /\ UNCHANGED k
    BY <1>3, StopHalts DEF preflight, EarlyNext, StopKind
  <2> QED BY <1>1, <1>3, <2>1, <2>2 DEF Halts, ReportStep
<1>4. CASE pc' = "issue"
  <2>1. Push("Skipped", "HumanReturn") /\ EarlyNext
    BY <1>4 DEF preflight, EarlyStop
  <2> QED BY <1>1, <1>2, <2>1, PushRecords DEF ResultStatus, SkipReason, ReportStep
<1>5. CASE pc' = "prepare"
  <2>1. UNCHANGED <<k, worked, stop>>
    BY <1>5 DEF preflight, EarlyStop, EarlyNext
  <2> QED BY <1>1, <1>5, <2>1 DEF Goes, ReportStep, Pending, InHand, Live
<1>6. pc' \in {"teardown", "issue", "prepare"}
  BY DEF preflight, EarlyStop, EarlyNext
<1> QED BY <1>3, <1>4, <1>5, <1>6

LEMMA prepareReports ==
  ASSUME TypeInv, prepare
  PROVE  ReportStep
<1>1. pc \in Pending /\ pc \in InHand /\ UNCHANGED <<q, closed>>
  BY DEF prepare, frame, tracker, Pending, InHand, Live, Sessions
<1>2. cur \in Issues /\ k <= Len(q)
  BY <1>1, PendingCursor
<1>3. CASE EarlyFail /\ UNCHANGED worked
  BY <1>1, <1>3, FailErrs DEF Errs, ReportStep
<1>4. CASE EarlyNext /\ (Push("Skipped", "BlockedBy") \/ Push("Hitl", "none"))
  BY <1>1, <1>2, <1>4, PushRecords DEF ResultStatus, SkipReason, ReportStep
<1>5. CASE pc' = "plan" /\ UNCHANGED <<k, stop, worked>>
  BY <1>1, <1>5 DEF Goes, ReportStep, Pending, InHand, Live
<1> QED BY <1>3, <1>4, <1>5 DEF prepare, fail

LEMMA PlanWrittenReports ==
  ASSUME TypeInv, PlanWritten
  PROVE  ReportStep
<1>1. pc \in Pending /\ pc \in InHand /\ UNCHANGED <<q, closed>>
  BY DEF PlanWritten, frame, Pending, InHand, Live, Sessions
<1>2. cur \in Issues /\ k <= Len(q)
  BY <1>1, PendingCursor
<1>3. CASE record_stop
  BY <1>1, <1>2, <1>3, RecordHalts DEF ReportStep
<1>4. CASE EarlyNext /\ \E st \in {"NeedsSplit", "Infeasible", "Planned"} : Push(st, "none")
  BY <1>1, <1>2, <1>4, PushRecords DEF ResultStatus, SkipReason, ReportStep
<1>5. CASE pc' \in {"lint", "execute"} /\ UNCHANGED <<k, stop, worked>>
  BY <1>1, <1>5 DEF Goes, ReportStep, Pending, InHand, Live, Sessions
<1> QED BY <1>3, <1>4, <1>5 DEF PlanWritten

LEMMA wait_out_plan_limitReports ==
  ASSUME TypeInv, wait_out_plan_limit
  PROVE  ReportStep
<1>1. pc \in Pending /\ pc \in InHand /\ UNCHANGED <<q, closed>>
  BY DEF wait_out_plan_limit, frame, tracker, Pending, InHand, Live, Sessions
<1>2. cur \in Issues /\ k <= Len(q)
  BY <1>1, PendingCursor
<1>3. CASE record_stop \/ limit_stop
  BY <1>1, <1>2, <1>3, RecordHalts DEF ReportStep
<1>4. CASE pc' = "planwait" /\ UNCHANGED <<k, stop, worked>>
  BY <1>1, <1>4 DEF Goes, ReportStep, Pending, InHand, Live
<1> QED BY <1>3, <1>4 DEF wait_out_plan_limit

LEMMA PlanWaitCutReports ==
  ASSUME TypeInv, PlanWaitCut
  PROVE  ReportStep
<1>1. pc \in Pending /\ pc \in InHand /\ UNCHANGED <<q, closed>>
  BY DEF PlanWaitCut, frame, tracker, Pending, InHand, Live, Sessions
<1>2. cur \in Issues /\ k <= Len(q)
  BY <1>1, PendingCursor
<1>3. CASE record_stop
  BY <1>1, <1>2, <1>3, RecordHalts DEF ReportStep
<1>4. CASE EarlyStop("Deadline", NoIssue) /\ UNCHANGED worked
  BY <1>1, <1>4, StopHalts DEF Halts, ReportStep, StopKind
<1> QED BY <1>3, <1>4 DEF PlanWaitCut

LEMMA PlanErrorReports ==
  ASSUME TypeInv, PlanError
  PROVE  ReportStep
<1>1. pc \in Pending /\ pc \in InHand /\ UNCHANGED <<q, closed>>
  BY DEF PlanError, frame, tracker, Pending, InHand, Live, Sessions
<1>2. cur \in Issues /\ k <= Len(q)
  BY <1>1, PendingCursor
<1>3. CASE record_stop
  BY <1>1, <1>2, <1>3, RecordHalts DEF ReportStep
<1>4. CASE EarlyFail /\ UNCHANGED worked
  BY <1>1, <1>4, FailErrs DEF Errs, ReportStep
<1> QED BY <1>3, <1>4 DEF PlanError, fail

LEMMA ExecReturnReports ==
  ASSUME TypeInv, NEW o \in Outcomes, ExecReturn(o)
  PROVE  ReportStep
<1>1. pc \in Pending /\ pc \in InHand /\ UNCHANGED <<q, closed>>
  BY DEF ExecReturn, frame, tracker, Pending, InHand, Live, Sessions
<1>2. cur \in Issues /\ k <= Len(q)
  BY <1>1, PendingCursor
<1>3. CASE record_stop
  BY <1>1, <1>2, <1>3, RecordHalts DEF ReportStep
<1>4. CASE non_green(o, FALSE)
  BY <1>1, <1>2, <1>4, NonGreenHalts DEF ReportStep
<1>5. CASE pc' \in {"lint", "execwait"} /\ UNCHANGED <<k, stop, worked>>
  BY <1>1, <1>5 DEF Goes, ReportStep, Pending, InHand, Live
<1> QED BY <1>3, <1>4, <1>5 DEF ExecReturn

LEMMA ExecWaitCutReports ==
  ASSUME TypeInv, ExecWaitCut
  PROVE  ReportStep
<1>1. pc \in Pending /\ pc \in InHand /\ UNCHANGED <<q, closed>>
  BY DEF ExecWaitCut, frame, tracker, Pending, InHand, Live, Sessions
<1>2. cur \in Issues /\ k <= Len(q)
  BY <1>1, PendingCursor
<1> QED BY <1>1, <1>2, NonGreenHalts DEF ExecWaitCut, ReportStep

LEMMA ReturnReports ==
  ASSUME TypeInv, NEW o \in Outcomes, BounceReturn(o) \/ RepairReturn(o)
  PROVE  ReportStep
<1>1. pc \in Pending /\ pc \in InHand /\ UNCHANGED <<q, closed>>
  BY DEF BounceReturn, RepairReturn, frame, tracker, Pending, InHand, Live, Sessions
<1>2. cur \in Issues /\ k <= Len(q)
  BY <1>1, PendingCursor
<1>3. CASE limit_stop
  BY <1>1, <1>2, <1>3, RecordHalts DEF ReportStep
<1>4. CASE pc' \in {"resolve", "gate"} /\ UNCHANGED <<k, stop, worked>>
  BY <1>1, <1>4 DEF Goes, ReportStep, Pending, InHand, Live
<1> QED BY <1>3, <1>4 DEF BounceReturn, RepairReturn

LEMMA GateReportsStep ==
  ASSUME TypeInv,
         \/ \E g \in VerifyPlan : resolve_verify(g)
         \/ \E r \in {"passed", "failed", "spawn_failed", "cut"} : run_with_repairs(r)
  PROVE  ReportStep
<1>1. pc \in Pending /\ pc \in InHand /\ UNCHANGED <<q, closed>>
  BY DEF resolve_verify, run_with_repairs, frame, tracker, Pending, InHand, Live, Sessions
<1>2. cur \in Issues /\ k <= Len(q)
  BY <1>1, PendingCursor
<1>3. CASE VerifyFailed
  BY <1>1, <1>2, <1>3, PushRecords DEF VerifyFailed, ResultStatus, SkipReason, ReportStep
<1>4. CASE park_for_human
  BY <1>1, <1>2, <1>4, PushRecords DEF park_for_human, ResultStatus, SkipReason, ReportStep
<1>5. CASE pc' \in {"gate", "close", "repair"} /\ UNCHANGED <<k, stop, worked>>
  BY <1>1, <1>5 DEF Goes, ReportStep, Pending, InHand, Live, Sessions
<1> QED BY <1>3, <1>4, <1>5 DEF resolve_verify, run_with_repairs

LEMMA close_and_recordReports ==
  ASSUME TypeInv, close_and_record
  PROVE  ReportStep
<1>1. pc = "close" /\ pc \in Pending /\ pc \in InHand /\ UNCHANGED q
  BY DEF close_and_record, frame, Pending, InHand, Live, Sessions
<1>2. cur \in Issues /\ k <= Len(q)
  BY <1>1, PendingCursor
<1>3. CASE EarlyFail /\ UNCHANGED <<tracker, worked>>
  BY <1>1, <1>3, FailErrs DEF Errs, ReportStep, tracker
<1>4. CASE /\ closed' = closed \cup {cur} /\ pc' = "publish" /\ UNCHANGED <<k, stop>>
           /\ worked' = Append(worked, result(cur, "Done", "none", TRUE))
  <2> DEFINE r == result(cur, "Done", "none", TRUE)
  <2>1. r \in IssueResult /\ r.issue = cur /\ r.closed = TRUE
    BY <1>2 DEF result, IssueResult, ResultStatus, SkipReason
  <2>2. Appends(TRUE)
    BY <1>2, <1>4, <2>1 DEF Appends
  <2> QED BY <1>1, <1>4, <2>2 DEF Closes, ReportStep
<1> QED BY <1>3, <1>4 DEF close_and_record

LEMMA StepReports ==
  ASSUME TypeInv, Next
  PROVE  ReportStep
<1>1. CASE \/ Replan \/ Reexecute \/ protocol_gate
  <2>1. /\ pc \in {"planwait", "execwait", "lint"}
        /\ pc' \in {"plan", "execute", "resolve", "bounce"}
        /\ UNCHANGED <<k, q, worked, stop, closed>>
    BY <1>1 DEF Replan, Reexecute, protocol_gate, frame, tracker
  <2> QED BY <2>1 DEF Goes, ReportStep, Pending, InHand, Live, Sessions
<1>2. CASE ExecError
  <2>1. pc \in Pending /\ EarlyFail /\ UNCHANGED <<q, worked, closed>>
    BY <1>2 DEF ExecError, fail, frame, tracker, Pending, InHand, Live, Sessions
  <2> QED BY <2>1, FailErrs DEF Errs, ReportStep
<1>3. CASE publish_plan_record
  <2>1. pc = "publish" /\ UNCHANGED <<q, worked, closed>> /\ (EarlyNext \/ EarlyFail)
    BY <1>3 DEF publish_plan_record, frame, tracker
  <2> QED BY <2>1, FailErrs DEF EarlyNext, Publishes, Errs, ReportStep
<1>4. CASE QueueDone
  BY <1>4 DEF QueueDone, frame, tracker, RunsOut, ReportStep
<1>5. CASE teardown
  BY <1>5 DEF teardown, frame, tracker, TearsDown, ReportStep
<1>6. CASE Agent
  BY <1>6 DEF Agent, AgentCommits, AgentEdits, AgentWritesPlan, frame, tracker,
      Idles, ReportStep
<1>7. CASE request \/ DeadlinePasses \/ OperatorCleans \/ \E c \in Configs : StartFails(c)
  BY <1>7 DEF request, DeadlinePasses, OperatorCleans, StartFails, frame, tracker, Idles, ReportStep
<1>8. CASE \E n \in External : PersonCloses(n)
  BY <1>8, TicketAssumption DEF PersonCloses, frame, Idles, ReportStep
<1>9. CASE Exit
  BY <1>9 DEF Exit, Live, Sessions, NoStop, Reason, tracker, Leaves, ReportStep
<1>10. CASE \E c \in Configs, s \in Queues : Start(c, s)
  BY <1>10 DEF Start, NoStop, Reason, tracker, Begins, ReportStep
<1> QED BY <1>1, <1>2, <1>3, <1>4, <1>5, <1>6, <1>7, <1>8, <1>9, <1>10,
     preflightReports, prepareReports, PlanWrittenReports, wait_out_plan_limitReports,
     PlanWaitCutReports, PlanErrorReports, ExecReturnReports, ExecWaitCutReports,
     ReturnReports, GateReportsStep, close_and_recordReports
  DEF Next, Run, World

-----------------------------------------------------------------------------
(* The inductive invariant: how the report stands against the position in    *)
(* the queue. ReportFollowsQueue alone is not inductive, since it does not   *)
(* say where in the queue the loop stands while issues are worked.           *)
ReportInv ==
    /\ Len(worked) <= Len(q)
    /\ \A j \in 1 .. Len(worked) : worked[j].issue = q[j]
    /\ pc \in Pending => Len(worked) = k - 1 /\ stop.kind = "none"
    /\ pc = "publish" => Len(worked) = k /\ stop.kind = "none"
    /\ pc \in {"teardown", "over"} /\ stop.kind = "none" => Len(worked) = Len(q)

(* A result appended for the issue in hand extends the report along the queue. *)
LEMMA AppendsFollows ==
  ASSUME TypeInv, ReportInv, pc \in Pending, NEW done \in BOOLEAN, Appends(done),
         UNCHANGED q
  PROVE  /\ Len(worked') = k /\ Len(worked') <= Len(q')
         /\ \A j \in 1 .. Len(worked') : worked'[j].issue = q'[j]
<1>1. PICK r \in IssueResult : r.issue = cur /\ worked' = Append(worked, r)
  BY DEF Appends
<1>2. worked \in Seq(IssueResult) /\ k \in Nat \ {0} /\ Len(worked) = k - 1 /\ k <= Len(q)
  BY DEF TypeInv, TypeOK, ReportType, ProcessType, ReportInv, Appends
<1>3. Len(worked') = Len(worked) + 1 /\ Len(worked') = k /\ worked'[k] = r
  BY <1>1, <1>2
<1>4. \A j \in 1 .. Len(worked) : worked'[j] = worked[j]
  BY <1>1, <1>2
<1> QED BY <1>1, <1>2, <1>3, <1>4 DEF ReportInv, cur

LEMMA ReportKept ==
  ASSUME TypeInv, TypeInv', ReportInv, ReportStep
  PROVE  ReportInv'
<1> USE DEF TypeInv, TypeOK, ProcessType
<1>1. CASE Goes
  BY <1>1 DEF Goes, ReportInv, Pending, InHand, Live, Sessions
<1>2. CASE Records
  <2>1. /\ Len(worked') = k /\ Len(worked') <= Len(q')
        /\ \A j \in 1 .. Len(worked') : worked'[j].issue = q'[j]
    BY <1>2, AppendsFollows DEF Records
  <2>2. stop'.kind = "none" /\ k' = k + 1 /\ pc' = "issue"
    BY <1>2 DEF Records, ReportInv
  <2> QED BY <2>1, <2>2 DEF ReportInv
<1>3. CASE Halts
  BY <1>3, AppendsFollows DEF Halts, ReportInv, Pending, InHand
<1>4. CASE Errs
  BY <1>4 DEF Errs, ReportInv, Pending, InHand, Live, Sessions
<1>5. CASE Closes
  BY <1>5, AppendsFollows DEF Closes, ReportInv, Pending, InHand, Live, Sessions
<1>6. CASE Publishes
  BY <1>6 DEF Publishes, ReportInv, Pending, InHand
<1>7. CASE RunsOut
  BY <1>7 DEF RunsOut, ReportInv, Pending, InHand, FrameType
<1>8. CASE TearsDown
  BY <1>8 DEF TearsDown, ReportInv, Pending, InHand, Live, Sessions
<1>9. CASE Begins
  BY <1>9 DEF Begins, ReportInv, FrameType
<1>10. CASE Leaves
  BY <1>10 DEF Leaves, ReportInv, Pending, InHand, Live, Sessions
<1>11. CASE Idles
  BY <1>11 DEF Idles, ReportInv
<1> QED BY <1>1, <1>2, <1>3, <1>4, <1>5, <1>6, <1>7, <1>8, <1>9, <1>10, <1>11
  DEF ReportStep

LEMMA ReportInit == Init => ReportInv
  BY DEF Init, ReportInv, Pending, InHand, Live, Sessions, NoStop, Reason

LEMMA ReportNext == TypeInv /\ ReportInv /\ [Next]_vars => ReportInv'
<1> SUFFICES ASSUME TypeInv, ReportInv, [Next]_vars PROVE ReportInv'
  OBVIOUS
<1>1. CASE Next
  BY <1>1, StepType, StepReports, ReportKept
<1>2. CASE UNCHANGED vars
  BY <1>2 DEF vars, ReportInv
<1> QED BY <1>1, <1>2

(* The report of every run, over any queue and configuration and whatever    *)
(* fails, follows its queue: one result per issue in order, and one for      *)
(* every issue when the run ends for no reason (QueueRun::issue and the loop *)
(* of run_queue_with).                                                       *)
THEOREM ReportFollows == Spec => []ReportFollowsQueue
<1>1. Init => TypeInv /\ ReportInv
  BY InitType, ReportInit
<1>2. TypeInv /\ ReportInv /\ [Next]_vars => (TypeInv /\ ReportInv)'
  BY StepType, ReportNext
<1>3. ReportInv => ReportFollowsQueue
  BY DEF ReportInv, ReportFollowsQueue
<1> QED BY <1>1, <1>2, <1>3, PTL DEF Spec

-----------------------------------------------------------------------------
(* The contract.                                                             *)

Brief(r) == [issue |-> r.issue, closed |-> r.closed]

(* The summary of a report is a sequence of the same length. *)
LEMMA SummaryType ==
  ASSUME NEW w \in Seq(IssueResult)
  PROVE  Summary(w) \in Seq(Contract!Results) /\ Len(Summary(w)) = Len(w)
<1>1. Len(w) \in Nat /\ \A j \in 1 .. Len(w) : w[j] \in IssueResult
  OBVIOUS
<1>2. \A r \in IssueResult : [issue |-> r.issue, closed |-> r.closed] \in Contract!Results
  BY DEF IssueResult, Contract!Results
<1>3. Summary(w) \in [1 .. Len(w) -> Contract!Results]
  BY <1>1, <1>2 DEF Summary
<1> QED BY <1>1, <1>3, SeqDef, LenProperties

(* Summarising commutes with appending. *)
LEMMA SummaryAppend ==
  ASSUME NEW w \in Seq(IssueResult), NEW r \in IssueResult
  PROVE  /\ Summary(w) \in Seq(Contract!Results) /\ Len(Summary(w)) = Len(w)
         /\ Brief(r) \in Contract!Results
         /\ Summary(Append(w, r)) = Append(Summary(w), Brief(r))
<1>1. Brief(r) \in Contract!Results
  BY DEF Brief, IssueResult, Contract!Results
<1>2. Summary(w) \in Seq(Contract!Results) /\ Len(Summary(w)) = Len(w)
  BY SummaryType
<1>3. Append(w, r) \in Seq(IssueResult) /\ Len(Append(w, r)) = Len(w) + 1
  OBVIOUS
<1>4. /\ Summary(Append(w, r)) \in Seq(Contract!Results)
      /\ Len(Summary(Append(w, r))) = Len(w) + 1
  BY <1>3, SummaryType
<1>5. /\ Append(Summary(w), Brief(r)) \in Seq(Contract!Results)
      /\ Len(Append(Summary(w), Brief(r))) = Len(w) + 1
  BY <1>1, <1>2
<1>6. ASSUME NEW j \in 1 .. Len(w) + 1
      PROVE  Summary(Append(w, r))[j] = Append(Summary(w), Brief(r))[j]
  <2>1. CASE j = Len(w) + 1
    <3>1. Append(w, r)[j] = r
      BY <2>1
    <3>2. Append(Summary(w), Brief(r))[j] = Brief(r)
      BY <1>1, <1>2, <2>1
    <3> QED BY <1>3, <3>1, <3>2 DEF Summary, Brief
  <2>2. CASE j \in 1 .. Len(w)
    <3>1. Append(w, r)[j] = w[j]
      BY <2>2
    <3>2. Append(Summary(w), Brief(r))[j] = Summary(w)[j]
      BY <1>1, <1>2, <2>2
    <3> QED BY <1>3, <2>2, <3>1, <3>2 DEF Summary
  <2>3. Len(w) \in Nat
    OBVIOUS
  <2>4. j = Len(w) + 1 \/ j \in 1 .. Len(w)
    BY <2>3
  <2> QED BY <2>1, <2>2, <2>4
<1>7. Summary(Append(w, r)) = Append(Summary(w), Brief(r))
  BY <1>4, <1>5, <1>6
<1> QED BY <1>1, <1>2, <1>7

(* What a result appended for the issue in hand is to the contract. *)
LEMMA AppendsBrief ==
  ASSUME TypeInv, ReportInv, pc \in Pending, NEW done \in BOOLEAN, Appends(done)
  PROVE  \E b \in Contract!Results :
            /\ Contract!NextResult(b) /\ b.issue = cur /\ b.closed = done
            /\ Summary(worked)' = Append(Summary(worked), b)
<1>1. PICK r \in IssueResult : r.issue = cur /\ r.closed = done /\ worked' = Append(worked, r)
  BY DEF Appends
<1>2. worked \in Seq(IssueResult) /\ k \in Nat \ {0} /\ Len(worked) = k - 1 /\ k <= Len(q)
      /\ q \in Seq(Issues)
  BY DEF TypeInv, TypeOK, ReportType, ProcessType, FrameType, ReportInv, Appends
<1>3. Brief(r) \in Contract!Results /\ Len(Summary(worked)) = Len(worked)
  BY <1>2, SummaryAppend
<1>4. Summary(worked)' = Append(Summary(worked), Brief(r))
  BY <1>1, <1>2, SummaryAppend
<1>5. Contract!NextResult(Brief(r))
  BY <1>1, <1>2, <1>3 DEF Contract!NextResult, Brief, cur
<1>6. Brief(r).issue = cur /\ Brief(r).closed = done
  BY <1>1 DEF Brief
<1> QED BY <1>3, <1>4, <1>5, <1>6

(* Each kind of step is a step of the contract, or changes nothing it sees. *)
LEMMA KeepsStep ==
  ASSUME TypeInv, ReportInv, ReportStep
  PROVE  [Contract!Next]_(Contract!vars)
<1>1. CASE Goes
  BY <1>1 DEF Goes, Pending, InHand, Live, Sessions, Phase, Resting, Summary, Contract!vars
<1>2. CASE Records
  <2>1. PICK b \in Contract!Results :
            /\ Contract!NextResult(b) /\ b.closed = FALSE
            /\ Summary(worked)' = Append(Summary(worked), b)
    BY <1>2, AppendsBrief DEF Records
  <2>2. Phase = "running" /\ Phase' = "running" /\ stop.kind = "none"
    BY <1>2 DEF Records, ReportInv, Phase, Resting, Pending, InHand, Live, Sessions
  <2>3. Contract!Record(b)
    BY <1>2, <2>1, <2>2 DEF Records, Contract!Record
  <2> QED BY <2>3 DEF Contract!Next
<1>3. CASE Halts
  <2>1. \/ UNCHANGED Summary(worked)
        \/ \E b \in Contract!Results :
              /\ Contract!NextResult(b) /\ ~b.closed
              /\ Summary(worked)' = Append(Summary(worked), b)
    BY <1>3, AppendsBrief DEF Halts, Summary
  <2>2. Phase = "running" /\ Phase' = "running" /\ stop.kind = "none"
    BY <1>3 DEF Halts, ReportInv, Phase, Resting, Pending, InHand, Live, Sessions
  <2>3. Contract!Halt(stop'.kind)
    BY <1>3, <2>1, <2>2 DEF Halts, Contract!Halt
  <2> QED BY <1>3, <2>3 DEF Halts, Contract!Next
<1>4. CASE Errs
  <2>1. Phase = "running" /\ Phase' = "over" /\ stop.kind = "none"
    BY <1>4 DEF Errs, ReportInv, Phase, Resting, Pending, InHand, Live, Sessions
  <2>2. Contract!Fail
    BY <1>4, <2>1 DEF Errs, Contract!Fail, Summary
  <2> QED BY <2>2 DEF Contract!Next
<1>5. CASE Closes
  <2>1. PICK b \in Contract!Results :
            /\ Contract!NextResult(b) /\ b.issue = cur /\ b.closed = TRUE
            /\ Summary(worked)' = Append(Summary(worked), b)
    BY <1>5, AppendsBrief DEF Closes, Pending, InHand, Live
  <2>2. Phase = "running" /\ Phase' = "running" /\ stop.kind = "none"
    BY <1>5 DEF Closes, ReportInv, Phase, Resting, Pending, InHand, Live, Sessions
  <2>3. (closed \cap Issues)' = (closed \cap Issues) \cup {b.issue}
    BY <1>5, <2>1 DEF Closes, Contract!Results
  <2>4. Contract!Close(b)
    BY <1>5, <2>1, <2>2, <2>3 DEF Closes, Contract!Close
  <2> QED BY <2>4 DEF Contract!Next
<1>6. CASE Publishes
  BY <1>6 DEF Publishes, Phase, Resting, Summary, Contract!vars
<1>7. CASE RunsOut
  BY <1>7 DEF RunsOut, Phase, Resting, Summary, Contract!vars
<1>8. CASE TearsDown
  <2>1. Phase = "running" /\ Phase' = "over"
    BY <1>8 DEF TearsDown, Phase, Resting
  <2>2. stop.kind # "none" \/ Len(Summary(worked)) = Len(q)
    BY <1>8, SummaryType DEF TearsDown, ReportInv, TypeInv, TypeOK, ReportType
  <2>3. Contract!Finish
    BY <1>8, <2>1, <2>2 DEF TearsDown, Contract!Finish, Summary
  <2> QED BY <2>3 DEF Contract!Next
<1>9. CASE Begins
  <2>1. Phase = "idle" /\ Phase' = "running" /\ Summary(worked)' = <<>>
    BY <1>9 DEF Begins, Phase, Resting, Summary
  <2>2. Contract!Begin(q')
    BY <1>9, <2>1 DEF Begins, Contract!Begin
  <2> QED BY <1>9, <2>2 DEF Begins, Contract!Next
<1>10. CASE Leaves
  <2>1. Phase # "idle" /\ Phase' = "idle" /\ Summary(worked)' = <<>>
    BY <1>10 DEF Leaves, Phase, Resting, Summary
  <2>2. Contract!Leave
    BY <1>10, <2>1 DEF Leaves, Contract!Leave
  <2> QED BY <2>2 DEF Contract!Next
<1>11. CASE Idles
  BY <1>11 DEF Idles, Phase, Resting, Summary, Contract!vars
<1> QED BY <1>1, <1>2, <1>3, <1>4, <1>5, <1>6, <1>7, <1>8, <1>9, <1>10, <1>11
  DEF ReportStep

(* Every run of the queue loop is a run of the contract: the detailed         *)
(* specification, with all its phases, failures, stops and crashes,           *)
(* implements the abstract one.                                               *)
THEOREM ContractKept == Spec => KeepsContract
<1>1. Init => Contract!Init
  BY DEF Init, Contract!Init, Phase, Resting, Summary, NoStop, Reason
<1>2. Init => TypeInv /\ ReportInv
  BY InitType, ReportInit
<1>3. TypeInv /\ ReportInv /\ [Next]_vars => (TypeInv /\ ReportInv)'
  BY StepType, ReportNext
<1>4. TypeInv /\ ReportInv /\ [Next]_vars => [Contract!Next]_(Contract!vars)
  <2> SUFFICES ASSUME TypeInv, ReportInv, [Next]_vars
               PROVE  [Contract!Next]_(Contract!vars)
    OBVIOUS
  <2>1. CASE Next
    BY <2>1, StepReports, KeepsStep
  <2>2. CASE UNCHANGED vars
    BY <2>2 DEF vars, Contract!vars, Phase, Resting, Summary
  <2> QED BY <2>1, <2>2
<1> QED BY <1>1, <1>2, <1>3, <1>4, PTL DEF Spec, KeepsContract, Contract!Spec

-----------------------------------------------------------------------------
(* Closing.                                                                  *)

(* The queue lists an issue once, and an issue about to be closed is vouched *)
(* for.                                                                      *)
Distinct == \A i, j \in 1 .. Len(q) : q[i] = q[j] => i = j

VouchInv == /\ Distinct /\ ClosedWasVouched
            /\ pc = "close" => cur \in vouched

(* The kinds of step as the vouching sees them. *)
KeepsVouched == UNCHANGED vouched /\ (pc' # "close" \/ UNCHANGED <<pc, k, q>>)
Vouches  == /\ pc \in Pending /\ pc' = "close" /\ vouched' = vouched \cup {cur}
            /\ UNCHANGED <<k, q, worked>>
Spawns   == /\ pc \in Pending /\ pc \in InHand /\ pc' # "close"
            /\ vouched' = vouched \ {cur} /\ UNCHANGED <<k, q, worked>>
Forgets  == worked' = <<>> /\ pc' # "close"

VouchStep == KeepsVouched \/ Vouches \/ Spawns \/ Forgets

LEMMA StepVouches ==
  ASSUME Next
  PROVE  VouchStep
<1> USE DEF VouchStep, KeepsVouched
<1>1. CASE preflight \/ QueueDone \/ prepare
  BY <1>1 DEF preflight, QueueDone, prepare, EarlyStop, EarlyNext, EarlyFail, fail, history
<1>2. CASE PlanWritten
  <2>1. pc \in Pending /\ pc \in InHand /\ UNCHANGED q
    BY <1>2 DEF PlanWritten, frame, Pending, InHand, Live, Sessions
  <2>2. CASE UNCHANGED vouched /\ pc' # "close"
    BY <2>2
  <2>3. CASE Spawn /\ pc' = "execute" /\ UNCHANGED <<k, worked>>
    BY <2>1, <2>3 DEF Spawn, Spawns
  <2> QED BY <1>2, <2>2, <2>3 DEF PlanWritten, record_stop, EarlyStop, EarlyNext
<1>3. CASE wait_out_plan_limit \/ PlanWaitCut \/ Replan \/ PlanError
  BY <1>3 DEF wait_out_plan_limit, PlanWaitCut, Replan, PlanError, record_stop,
      limit_stop, EarlyStop, EarlyFail, fail, history
<1>4. CASE \E o \in Outcomes : ExecReturn(o) \/ BounceReturn(o) \/ RepairReturn(o)
  BY <1>4 DEF ExecReturn, BounceReturn, RepairReturn, record_stop, limit_stop,
      non_green, non_green_stop, EarlyStop, history
<1>5. CASE ExecWaitCut \/ ExecError
  BY <1>5 DEF ExecWaitCut, ExecError, non_green, non_green_stop, EarlyStop, EarlyFail,
      fail, history
<1>6. CASE Reexecute
  BY <1>6 DEF Reexecute, Spawn, Spawns, frame, Pending, InHand, Live
<1>7. CASE protocol_gate
  BY <1>7 DEF protocol_gate, Spawn, Spawns, frame, Pending, InHand, Live
<1>8. CASE \E g \in VerifyPlan : resolve_verify(g)
  BY <1>8 DEF resolve_verify, VerifyFailed, park_for_human, EarlyNext, Vouches, frame,
      Pending, InHand, Live
<1>9. CASE \E r \in {"passed", "failed", "spawn_failed", "cut"} : run_with_repairs(r)
  BY <1>9 DEF run_with_repairs, VerifyFailed, EarlyNext, Vouches, Spawn, Spawns, frame,
      Pending, InHand, Live
<1>10. CASE close_and_record \/ publish_plan_record \/ teardown
  BY <1>10 DEF close_and_record, publish_plan_record, teardown, EarlyNext, EarlyFail,
      history
<1>11. CASE Agent
  BY <1>11 DEF Agent, AgentCommits, AgentEdits, AgentWritesPlan, frame, history
<1>12. CASE World
  BY <1>12 DEF World, Start, StartFails, Exit, request, DeadlinePasses, OperatorCleans,
      PersonCloses, frame, history, Forgets
<1> QED BY <1>1, <1>2, <1>3, <1>4, <1>5, <1>6, <1>7, <1>8, <1>9, <1>10, <1>11, <1>12
  DEF Next, Run

(* The queue of a run never changes, and lists an issue once. *)
LEMMA DistinctKept ==
  ASSUME Distinct, ReportStep
  PROVE  Distinct'
<1>1. UNCHANGED q \/ q' \in Queues \/ q' = <<>>
  BY DEF ReportStep, Goes, Records, Halts, Errs, Closes, Publishes, RunsOut,
      TearsDown, Begins, Leaves, Idles
<1>2. CASE q' \in Queues
  BY <1>2, QueueAssumption DEF Distinct
<1> QED BY <1>1, <1>2 DEF Distinct

(* An issue already recorded is not the one in hand. *)
LEMMA RecordedElsewhere ==
  ASSUME TypeInv, ReportInv, Distinct, pc \in Pending, k <= Len(q),
         NEW j \in 1 .. Len(worked)
  PROVE  worked[j].issue # cur
<1>1. k \in Nat \ {0} /\ Len(worked) = k - 1 /\ Len(worked) \in Nat /\ q \in Seq(Issues)
  BY DEF TypeInv, TypeOK, ProcessType, FrameType, ReportType, ReportInv
<1>2. j \in 1 .. Len(q) /\ k \in 1 .. Len(q) /\ j # k
  BY <1>1
<1>3. worked[j].issue = q[j]
  BY DEF ReportInv
<1> QED BY <1>2, <1>3 DEF Distinct, cur

(* Every closed result of the new report was closed before, or is the one     *)
(* just closed.                                                               *)
LEMMA ClosedResults ==
  ASSUME TypeInv, ReportInv, ReportStep, NEW j \in 1 .. Len(worked'), worked'[j].closed
  PROVE  \/ j \in 1 .. Len(worked) /\ worked'[j] = worked[j]
         \/ Closes /\ worked'[j].issue = cur
<1>1. worked \in Seq(IssueResult) /\ Len(worked) \in Nat
  BY DEF TypeInv, TypeOK, ReportType
<1>2. CASE UNCHANGED worked
  BY <1>2
<1>3. CASE worked' = <<>>
  BY <1>3
<1>4. CASE Appends(FALSE)
  <2>1. PICK r \in IssueResult : r.closed = FALSE /\ worked' = Append(worked, r)
    BY <1>4 DEF Appends
  <2>2. CASE j = Len(worked) + 1
    BY <1>1, <2>1, <2>2
  <2>3. CASE j \in 1 .. Len(worked)
    BY <1>1, <2>1, <2>3
  <2> QED BY <1>1, <2>1, <2>2, <2>3
<1>5. CASE Closes
  <2>1. PICK r \in IssueResult : r.issue = cur /\ worked' = Append(worked, r)
    BY <1>5 DEF Closes, Appends
  <2>2. CASE j = Len(worked) + 1
    BY <1>1, <1>5, <2>1, <2>2
  <2>3. CASE j \in 1 .. Len(worked)
    BY <1>1, <2>1, <2>3
  <2> QED BY <1>1, <2>1, <2>2, <2>3
<1> QED BY <1>2, <1>3, <1>4, <1>5 DEF ReportStep, Goes, Records, Halts, Errs,
     Publishes, RunsOut, TearsDown, Begins, Leaves, Idles

LEMMA VouchKept ==
  ASSUME TypeInv, ReportInv, VouchInv, ReportStep, VouchStep
  PROVE  VouchInv'
<1>1. Distinct'
  BY DistinctKept DEF VouchInv
<1>2. (pc = "close" => cur \in vouched)'
  BY DEF VouchInv, VouchStep, KeepsVouched, Vouches, Spawns, Forgets, cur
<1>3. ClosedWasVouched'
  <2> SUFFICES ASSUME NEW j \in 1 .. Len(worked'), worked'[j].closed
               PROVE  worked'[j].issue \in vouched'
    BY DEF ClosedWasVouched
  <2>1. CASE j \in 1 .. Len(worked) /\ worked'[j] = worked[j]
    <3>1. worked[j].issue \in vouched
      BY <2>1 DEF VouchInv, ClosedWasVouched
    <3>2. CASE Spawns
      <4>1. k <= Len(q)
        BY <3>2 DEF Spawns, TypeInv, Cursor
      <4> QED BY <2>1, <3>1, <3>2, <4>1, RecordedElsewhere DEF Spawns, VouchInv
    <3>3. CASE Forgets
      BY <3>3 DEF Forgets
    <3> QED BY <2>1, <3>1, <3>2, <3>3 DEF VouchStep, KeepsVouched, Vouches
  <2>2. CASE Closes /\ worked'[j].issue = cur
    <3>1. cur \in vouched
      BY <2>2 DEF Closes, VouchInv
    <3>2. UNCHANGED vouched
      <4>1. worked \in Seq(IssueResult)
        BY DEF TypeInv, TypeOK, ReportType
      <4>2. Len(worked') = Len(worked) + 1 /\ Len(worked) \in Nat
        BY <2>2, <4>1 DEF Closes, Appends
      <4>3. worked' # worked /\ worked' # <<>>
        BY <4>1, <4>2
      <4>4. pc' = "publish"
        BY <2>2 DEF Closes
      <4> QED BY <4>3, <4>4 DEF VouchStep, KeepsVouched, Spawns, Forgets, Vouches
    <3> QED BY <2>2, <3>1, <3>2
  <2> QED BY <2>1, <2>2, ClosedResults
<1> QED BY <1>1, <1>2, <1>3 DEF VouchInv

LEMMA VouchNext == TypeInv /\ ReportInv /\ VouchInv /\ [Next]_vars => VouchInv'
<1> SUFFICES ASSUME TypeInv, ReportInv, VouchInv, [Next]_vars PROVE VouchInv'
  OBVIOUS
<1>1. CASE Next
  BY <1>1, StepReports, StepVouches, VouchKept
<1>2. CASE UNCHANGED vars
  BY <1>2 DEF vars, VouchInv, Distinct, ClosedWasVouched, cur
<1> QED BY <1>1, <1>2

(* No issue is ever closed on the word of a session: whatever bounces,        *)
(* resumes and repairs ran, the last of them was followed by an accepted gate *)
(* before close_and_record (verify_gate and run_with_repairs,                 *)
(* runner/phases/verify.rs).                                                  *)
THEOREM ClosedVouched == Spec => []ClosedWasVouched
<1>1. Init => TypeInv /\ ReportInv /\ VouchInv
  <2>1. Init => VouchInv
    BY DEF Init, VouchInv, Distinct, ClosedWasVouched
  <2> QED BY <2>1, InitType, ReportInit
<1>2. TypeInv /\ ReportInv /\ VouchInv /\ [Next]_vars
        => (TypeInv /\ ReportInv /\ VouchInv)'
  BY StepType, ReportNext, VouchNext
<1>3. VouchInv => ClosedWasVouched
  BY DEF VouchInv
<1> QED BY <1>1, <1>2, <1>3, PTL DEF Spec

=============================================================================
