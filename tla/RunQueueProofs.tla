--------------------------- MODULE RunQueueProofs ---------------------------
(***************************************************************************)
(* Theorems about RunQueue, for every set of issues, every queue, every    *)
(* configuration, every bound on the number of runs and every set of       *)
(* collaborators that may fail.                                            *)
(***************************************************************************)
EXTENDS RunQueue, TLAPS

-----------------------------------------------------------------------------
(* Type correctness.                                                       *)

(* While an issue is in hand the position points into the queue, and a     *)
(* process that exists has a run number.                                   *)
InHand == Live \ {"issue", "teardown"}

Cursor ==
    /\ pc \in InHand => k <= Len(q)
    /\ pc \in Live \cup {"over"} => run \in Runs

TypeInv == TypeOK /\ Cursor

(* The issue in hand is an issue. *)
LEMMA CurIsIssue ==
  ASSUME FrameType, ProcessType, k <= Len(q)
  PROVE  cur \in Issues
  BY DEF FrameType, ProcessType, cur

(* Pushing a result keeps the report well-typed. *)
LEMMA PushType ==
  ASSUME ReportType, cur \in Issues, NEW st \in ResultStatus, NEW sk \in SkipReason,
         Push(st, sk)
  PROVE  worked' \in Seq(IssueResult)
  BY DEF ReportType, Push, result, IssueResult

(* The three ways out of an issue leave a stop reason behind. *)
LEMMA EarlyType ==
  ASSUME stop \in StopReason
  PROVE  /\ EarlyNext => stop' \in StopReason
         /\ EarlyFail => stop' \in StopReason
         /\ \A kind \in StopKind, n \in Issues \cup {NoIssue} :
               EarlyStop(kind, n) => stop' \in StopReason
  BY DEF EarlyNext, EarlyFail, EarlyStop, Reason, StopReason, StopKind

(* A planner writes a plan file. *)
LEMMA WroteType ==
  ASSUME plan \in PlanFile, NEW i \in Issues
  PROVE  PlannerWrote(i) \subseteq PlanFile
<1>1. NoIssue \in Issues \cup {NoIssue} /\ i \in Issues \cup {NoIssue}
  OBVIOUS
<1>2. [plan EXCEPT !.trailer = i] \in PlanFile
  BY <1>1 DEF PlanFile
<1>3. [for : {i}, steps : {"open", "refusal", "bundle"}, trailer : {i, NoIssue}] \subseteq PlanFile
  BY <1>1 DEF PlanFile, Steps
<1> QED BY <1>2, <1>3 DEF PlannerWrote

(* The briefs that could not be removed are among those that lie there. *)
LEMMA RemoveBriefsType ==
  ASSUME briefs \subseteq {"protocol", "verify"}, oldBriefs \subseteq briefs, NEW bs, RemoveBriefs(bs)
  PROVE  briefs' \subseteq {"protocol", "verify"} /\ oldBriefs' \subseteq briefs'
  BY DEF RemoveBriefs

LEMMA WriteBriefType ==
  ASSUME briefs \subseteq {"protocol", "verify"}, oldBriefs \subseteq briefs,
         NEW b \in {"protocol", "verify"}, WriteBrief(b)
  PROVE  briefs' \subseteq {"protocol", "verify"} /\ oldBriefs' \subseteq briefs'
  BY DEF WriteBrief

(* restore and close_branch leave a well-typed repository. *)
LEMMA RestoreType ==
  ASSUME RepoType, FrameType, restore
  PROVE  RepoType'
  BY DEF RepoType, FrameType, restore, CheckoutForce, git

LEMMA CloseBranchType ==
  ASSUME RepoType, FrameType, NEW clean \in BOOLEAN, close_branch(clean)
  PROVE  RepoType'
  BY RestoreType DEF RepoType, FrameType, close_branch, CheckoutForce, git

(* Agent::plan starts from a plan file or from none. *)
LEMMA PlanCallType ==
  ASSUME plan \in PlanFile, oldPlan \in BOOLEAN, NEW i \in Issues, PlanCall(i)
  PROVE  plan' \in PlanFile /\ oldPlan' \in BOOLEAN
<1>1. NoPlan \in PlanFile
  BY DEF NoPlan, PlanFile
<1> QED BY <1>1 DEF PlanCall

LEMMA preflightType ==
  ASSUME TypeInv, preflight
  PROVE  TypeInv'
<1>1. cur \in Issues
  BY CurIsIssue DEF TypeInv, TypeOK, Cursor, InHand, Live, Sessions, preflight
<1>2. ReportType'
  BY <1>1, PushType, EarlyType DEF TypeInv, TypeOK, preflight, ResultStatus,
      SkipReason, StopKind, ReportType
<1>3. ProcessType' /\ Cursor'
  BY DEF TypeInv, TypeOK, ProcessType, FrameType, Cursor, frame, process,
      InHand, Live, Sessions, Resting, preflight, EarlyStop, EarlyNext
<1>4. FrameType' /\ TrackerType' /\ RepoType' /\ TagsType' /\ FilesType' /\
    HistoryType'
  BY DEF TypeInv, TypeOK, preflight, FrameType, TrackerType, RepoType,
      TagsType, FilesType, files, HistoryType, frame, tracker, git, history
<1> QED BY <1>2, <1>3, <1>4 DEF TypeInv, TypeOK

LEMMA QueueDoneType ==
  ASSUME TypeInv, QueueDone
  PROVE  TypeInv'
<1>1. ProcessType' /\ Cursor'
  BY DEF TypeInv, TypeOK, ProcessType, FrameType, Cursor, frame, process,
      InHand, Live, Sessions, Resting, QueueDone
<1>2. FrameType' /\ ReportType' /\ TrackerType' /\ RepoType' /\ TagsType' /\
    FilesType' /\ HistoryType'
  BY DEF TypeInv, TypeOK, QueueDone, FrameType, ReportType, TrackerType,
      RepoType, TagsType, FilesType, files, HistoryType, frame, tracker, git, history
<1> QED BY <1>1, <1>2 DEF TypeInv, TypeOK

LEMMA prepareType ==
  ASSUME TypeInv, prepare
  PROVE  TypeInv'
<1>1. cur \in Issues
  BY CurIsIssue DEF TypeInv, TypeOK, Cursor, InHand, Live, Sessions, prepare
<1>2. ReportType'
  BY <1>1, PushType, EarlyType DEF TypeInv, TypeOK, prepare, fail,
      ResultStatus, SkipReason, StopKind, ReportType
<1>3. ProcessType' /\ Cursor'
  BY DEF TypeInv, TypeOK, ProcessType, FrameType, Cursor, frame, process,
      InHand, Live, Sessions, Resting, prepare, EarlyNext, EarlyFail, fail,
      MAX_PLAN_LIMIT_RESUMES
<1>4. RepoType'
  BY RestoreType DEF TypeInv, TypeOK, prepare, fail, RepoType, git
<1>5. FilesType'
  <2>1. UNCHANGED <<plan, oldPlan>> \/ PlanCall(cur)
    BY DEF prepare
  <2>2. UNCHANGED <<briefs, oldBriefs>>
    BY DEF prepare
  <2>3. plan' \in PlanFile /\ oldPlan' \in BOOLEAN
    BY <1>1, <2>1, PlanCallType DEF TypeInv, TypeOK, FilesType, files
  <2> QED BY <2>2, <2>3 DEF TypeInv, TypeOK, FilesType, files
<1>6. HistoryType'
  BY DEF TypeInv, TypeOK, prepare, HistoryType, MAX_PLAN_LIMIT_RESUMES
<1>7. FrameType' /\ TrackerType' /\ TagsType'
  BY DEF TypeInv, TypeOK, prepare, FrameType, TrackerType, TagsType, frame,
      tracker
<1> QED BY <1>2, <1>3, <1>4, <1>5, <1>6, <1>7 DEF TypeInv, TypeOK

LEMMA PlanWrittenType ==
  ASSUME TypeInv, PlanWritten
  PROVE  TypeInv'
<1>1. cur \in Issues
  BY CurIsIssue DEF TypeInv, TypeOK, Cursor, InHand, Live, Sessions,
      PlanWritten
<1>2. ReportType'
  BY <1>1, PushType, EarlyType DEF TypeInv, TypeOK, PlanWritten, record_stop,
      ResultStatus, SkipReason, StopKind, ReportType
<1>3. ProcessType' /\ Cursor'
  <2>1. PICK p \in PlannerWrote(cur) : PlanWritten!2!(p)
    BY DEF PlanWritten
  <2>2. /\ pc' \in {"issue", "lint", "execute", "teardown"}
        /\ k' \in {k, k + 1} /\ (pc' \in {"lint", "execute"} => k' = k)
        /\ moved' \in BOOLEAN /\ streak' \in {streak, 0}
    BY <2>1 DEF TypeInv, TypeOK, ProcessType, record_stop, EarlyNext, EarlyStop, Spawn
  <2>3. UNCHANGED <<cfg, q, run, stopped, clock, attempt>> /\ pc = "plan"
    BY DEF PlanWritten, frame
  <2>4. streak' \in 0 .. MAX_PLAN_LIMIT_RESUMES + 1 /\ k' \in Nat \ {0}
    BY <2>2 DEF TypeInv, TypeOK, ProcessType, MAX_PLAN_LIMIT_RESUMES
  <2>5. ProcessType'
    BY <2>2, <2>3, <2>4 DEF TypeInv, TypeOK, ProcessType, Live, Sessions
  <2> QED BY <2>2, <2>3, <2>5 DEF TypeInv, Cursor, InHand, Live, Sessions
<1>4. TrackerType'
  BY <1>1 DEF TypeInv, TypeOK, PlanWritten, PostVerdict, TrackerType, Labels,
      Tickets
<1>5. FilesType'
  <2>1. PICK p \in PlannerWrote(cur) : PlanWritten!2!(p)
    BY DEF PlanWritten
  <2>2. plan' \in PlanFile /\ oldPlan' \in BOOLEAN
    BY <1>1, <2>1, WroteType DEF TypeInv, TypeOK, PlanOnDisk, FilesType
  <2>3. UNCHANGED <<briefs, oldBriefs>> \/ RemoveBriefs({"protocol", "verify"})
    BY <2>1 DEF ClearBriefs
  <2> QED BY <2>2, <2>3, RemoveBriefsType DEF TypeInv, TypeOK, FilesType
<1>6. HistoryType'
  BY <1>1 DEF TypeInv, TypeOK, PlanWritten, Spawn, HistoryType,
      MAX_PLAN_LIMIT_RESUMES
<1>7. FrameType' /\ RepoType' /\ TagsType'
  BY DEF TypeInv, TypeOK, PlanWritten, FrameType, RepoType, TagsType, frame,
      git
<1> QED BY <1>2, <1>3, <1>4, <1>5, <1>6, <1>7 DEF TypeInv, TypeOK

LEMMA wait_out_plan_limitType ==
  ASSUME TypeInv, wait_out_plan_limit
  PROVE  TypeInv'
<1>1. cur \in Issues
  BY CurIsIssue DEF TypeInv, TypeOK, Cursor, InHand, Live, Sessions,
      wait_out_plan_limit
<1>2. ReportType'
  BY <1>1, PushType, EarlyType DEF TypeInv, TypeOK, wait_out_plan_limit,
      record_stop, limit_stop, ResultStatus, SkipReason, StopKind, ReportType
<1>3. ProcessType' /\ Cursor'
  BY DEF TypeInv, TypeOK, ProcessType, FrameType, Cursor, frame, process,
      InHand, Live, Sessions, Resting, wait_out_plan_limit, record_stop,
      limit_stop, EarlyStop, Saturate, MAX_PLAN_LIMIT_RESUMES
<1>4. HistoryType'
  BY DEF TypeInv, TypeOK, wait_out_plan_limit, Saturate, HistoryType,
      MAX_PLAN_LIMIT_RESUMES
<1>5. FrameType' /\ TrackerType' /\ RepoType' /\ TagsType' /\ FilesType'
  BY DEF TypeInv, TypeOK, wait_out_plan_limit, FrameType, TrackerType,
      RepoType, TagsType, FilesType, files, frame, tracker, git
<1> QED BY <1>2, <1>3, <1>4, <1>5 DEF TypeInv, TypeOK

LEMMA PlanWaitCutType ==
  ASSUME TypeInv, PlanWaitCut
  PROVE  TypeInv'
<1>1. cur \in Issues
  BY CurIsIssue DEF TypeInv, TypeOK, Cursor, InHand, Live, Sessions,
      PlanWaitCut
<1>2. ReportType'
  BY <1>1, PushType, EarlyType DEF TypeInv, TypeOK, PlanWaitCut, record_stop,
      ResultStatus, SkipReason, StopKind, ReportType
<1>3. ProcessType' /\ Cursor'
  BY DEF TypeInv, TypeOK, ProcessType, FrameType, Cursor, frame, process,
      InHand, Live, Sessions, Resting, PlanWaitCut, record_stop, EarlyStop
<1>4. FrameType' /\ TrackerType' /\ RepoType' /\ TagsType' /\ FilesType' /\
    HistoryType'
  BY DEF TypeInv, TypeOK, PlanWaitCut, FrameType, TrackerType, RepoType,
      TagsType, FilesType, files, HistoryType, frame, tracker, git, history
<1> QED BY <1>2, <1>3, <1>4 DEF TypeInv, TypeOK

LEMMA ReplanType ==
  ASSUME TypeInv, Replan
  PROVE  TypeInv'
<1>1. cur \in Issues
  BY CurIsIssue DEF TypeInv, TypeOK, Cursor, InHand, Live, Sessions, Replan
<1>2. ProcessType' /\ Cursor'
  BY DEF TypeInv, TypeOK, ProcessType, FrameType, Cursor, frame, process,
      InHand, Live, Sessions, Resting, Replan
<1>3. FilesType'
  BY <1>1, PlanCallType DEF TypeInv, TypeOK, Replan, FilesType, files
<1>4. FrameType' /\ ReportType' /\ TrackerType' /\ RepoType' /\ TagsType' /\
    HistoryType'
  BY DEF TypeInv, TypeOK, Replan, FrameType, ReportType, TrackerType, RepoType,
      TagsType, HistoryType, frame, tracker, git, history
<1> QED BY <1>2, <1>3, <1>4 DEF TypeInv, TypeOK

LEMMA PlanErrorType ==
  ASSUME TypeInv, PlanError
  PROVE  TypeInv'
<1>1. cur \in Issues
  BY CurIsIssue DEF TypeInv, TypeOK, Cursor, InHand, Live, Sessions, PlanError
<1>2. ReportType'
  BY <1>1, PushType, EarlyType DEF TypeInv, TypeOK, PlanError, fail,
      record_stop, ResultStatus, SkipReason, StopKind, ReportType
<1>3. ProcessType' /\ Cursor'
  BY DEF TypeInv, TypeOK, ProcessType, FrameType, Cursor, frame, process,
      InHand, Live, Sessions, Resting, PlanError, fail, record_stop, EarlyStop,
      EarlyFail
<1>4. RepoType'
  BY RestoreType DEF TypeInv, TypeOK, PlanError, fail, RepoType, git
<1>5. FilesType'
  <2>1. PICK p \in {plan} \cup PlannerWrote(cur) : PlanOnDisk(p)
    BY DEF PlanError
  <2>2. p \in PlanFile
    BY <1>1, <2>1, WroteType DEF TypeInv, TypeOK, FilesType
  <2> QED BY <2>1, <2>2 DEF TypeInv, TypeOK, PlanError, PlanOnDisk, FilesType
<1>6. FrameType' /\ TrackerType' /\ TagsType' /\ HistoryType'
  BY DEF TypeInv, TypeOK, PlanError, FrameType, TrackerType, TagsType,
      HistoryType, frame, tracker, history
<1> QED BY <1>2, <1>3, <1>4, <1>5, <1>6 DEF TypeInv, TypeOK

LEMMA AgentCommitsType ==
  ASSUME TypeInv, AgentCommits
  PROVE  TypeInv'
<1>1. cur \in Issues
  BY CurIsIssue DEF TypeInv, TypeOK, Cursor, InHand, Live, Sessions,
      AgentCommits
<1>2. ProcessType' /\ Cursor'
  BY DEF TypeInv, TypeOK, ProcessType, FrameType, Cursor, frame, process,
      InHand, Live, Sessions, Resting, AgentCommits
<1>3. RepoType'
  BY <1>1 DEF TypeInv, TypeOK, AgentCommits, RepoType, Cursor, Commits, Live
<1>4. FrameType' /\ ReportType' /\ TrackerType' /\ TagsType' /\ FilesType' /\
    HistoryType'
  BY DEF TypeInv, TypeOK, AgentCommits, FrameType, ReportType, TrackerType,
      TagsType, FilesType, files, HistoryType, frame, tracker, history
<1> QED BY <1>2, <1>3, <1>4 DEF TypeInv, TypeOK

LEMMA AgentEditsType ==
  ASSUME TypeInv, AgentEdits
  PROVE  TypeInv'
<1>1. cur \in Issues
  BY CurIsIssue DEF TypeInv, TypeOK, Cursor, InHand, Live, Sessions, AgentEdits
<1>2. ProcessType' /\ Cursor'
  BY DEF TypeInv, TypeOK, ProcessType, FrameType, Cursor, frame, process,
      InHand, Live, Sessions, Resting, AgentEdits
<1>3. RepoType'
  BY <1>1 DEF TypeInv, TypeOK, AgentEdits, RepoType
<1>4. FrameType' /\ ReportType' /\ TrackerType' /\ TagsType' /\ FilesType' /\
    HistoryType'
  BY DEF TypeInv, TypeOK, AgentEdits, FrameType, ReportType, TrackerType,
      TagsType, FilesType, files, HistoryType, frame, tracker, history
<1> QED BY <1>2, <1>3, <1>4 DEF TypeInv, TypeOK

LEMMA AgentWritesPlanType ==
  ASSUME TypeInv, AgentWritesPlan
  PROVE  TypeInv'
<1>1. ProcessType' /\ Cursor'
  BY DEF TypeInv, TypeOK, ProcessType, FrameType, Cursor, frame, process,
      InHand, Live, Sessions, Resting, AgentWritesPlan
<1>2. FilesType'
  BY DEF TypeInv, TypeOK, AgentWritesPlan, FilesType, files, PlanFile, Steps
<1>3. FrameType' /\ ReportType' /\ TrackerType' /\ RepoType' /\ TagsType' /\
    HistoryType'
  BY DEF TypeInv, TypeOK, AgentWritesPlan, FrameType, ReportType, TrackerType,
      RepoType, TagsType, HistoryType, frame, tracker, git, history
<1> QED BY <1>1, <1>2, <1>3 DEF TypeInv, TypeOK

LEMMA ExecReturnType ==
  ASSUME TypeInv, NEW o \in Outcomes, ExecReturn(o)
  PROVE  TypeInv'
<1>1. cur \in Issues
  BY CurIsIssue DEF TypeInv, TypeOK, Cursor, InHand, Live, Sessions, ExecReturn
<1>2. ReportType'
  BY <1>1, PushType, EarlyType DEF TypeInv, TypeOK, ExecReturn, record_stop,
      non_green, non_green_stop, ResultStatus, SkipReason, StopKind, ReportType
<1>3. ProcessType' /\ Cursor'
  BY DEF TypeInv, TypeOK, ProcessType, FrameType, Cursor, frame, process,
      InHand, Live, Sessions, Resting, ExecReturn, record_stop, non_green,
      non_green_stop, EarlyStop, advance_streak, Saturate,
      MAX_PLAN_LIMIT_RESUMES, NO_COMMIT_CAP
<1>4. HistoryType'
  BY DEF TypeInv, TypeOK, ExecReturn, Saturate, HistoryType,
      MAX_PLAN_LIMIT_RESUMES, NO_COMMIT_CAP
<1>5. FrameType' /\ TrackerType' /\ RepoType' /\ TagsType' /\ FilesType'
  BY DEF TypeInv, TypeOK, ExecReturn, FrameType, TrackerType, RepoType,
      TagsType, FilesType, files, frame, tracker, git
<1> QED BY <1>2, <1>3, <1>4, <1>5 DEF TypeInv, TypeOK

LEMMA ExecWaitCutType ==
  ASSUME TypeInv, ExecWaitCut
  PROVE  TypeInv'
<1>1. cur \in Issues
  BY CurIsIssue DEF TypeInv, TypeOK, Cursor, InHand, Live, Sessions,
      ExecWaitCut
<1>2. ReportType'
  BY <1>1, PushType, EarlyType DEF TypeInv, TypeOK, ExecWaitCut, non_green,
      non_green_stop, ResultStatus, SkipReason, StopKind, ReportType
<1>3. ProcessType' /\ Cursor'
  BY DEF TypeInv, TypeOK, ProcessType, FrameType, Cursor, frame, process,
      InHand, Live, Sessions, Resting, ExecWaitCut, non_green, non_green_stop,
      EarlyStop
<1>4. FrameType' /\ TrackerType' /\ RepoType' /\ TagsType' /\ FilesType' /\
    HistoryType'
  BY DEF TypeInv, TypeOK, ExecWaitCut, FrameType, TrackerType, RepoType,
      TagsType, FilesType, files, HistoryType, frame, tracker, git, history
<1> QED BY <1>2, <1>3, <1>4 DEF TypeInv, TypeOK

LEMMA ReexecuteType ==
  ASSUME TypeInv, Reexecute
  PROVE  TypeInv'
<1>1. cur \in Issues
  BY CurIsIssue DEF TypeInv, TypeOK, Cursor, InHand, Live, Sessions, Reexecute
<1>2. ProcessType' /\ Cursor'
  BY DEF TypeInv, TypeOK, ProcessType, FrameType, Cursor, frame, process,
      InHand, Live, Sessions, Resting, Reexecute, Spawn
<1>3. HistoryType'
  BY <1>1 DEF TypeInv, TypeOK, Reexecute, Spawn, HistoryType
<1>4. FrameType' /\ ReportType' /\ TrackerType' /\ RepoType' /\ TagsType' /\
    FilesType'
  BY DEF TypeInv, TypeOK, Reexecute, FrameType, ReportType, TrackerType,
      RepoType, TagsType, FilesType, files, frame, tracker, git
<1> QED BY <1>2, <1>3, <1>4 DEF TypeInv, TypeOK

LEMMA ExecErrorType ==
  ASSUME TypeInv, ExecError
  PROVE  TypeInv'
<1>1. ReportType'
  BY EarlyType DEF TypeInv, TypeOK, ExecError, fail, ReportType
<1>2. ProcessType' /\ Cursor'
  BY DEF TypeInv, TypeOK, ProcessType, FrameType, Cursor, frame, process,
      InHand, Live, Sessions, Resting, ExecError, fail, EarlyFail
<1>3. RepoType'
  BY RestoreType DEF TypeInv, TypeOK, ExecError, fail, RepoType, git
<1>4. FrameType' /\ TrackerType' /\ TagsType' /\ FilesType' /\ HistoryType'
  BY DEF TypeInv, TypeOK, ExecError, FrameType, TrackerType, TagsType,
      FilesType, files, HistoryType, frame, tracker, history
<1> QED BY <1>1, <1>2, <1>3, <1>4 DEF TypeInv, TypeOK

LEMMA protocol_gateType ==
  ASSUME TypeInv, protocol_gate
  PROVE  TypeInv'
<1>1. cur \in Issues
  BY CurIsIssue DEF TypeInv, TypeOK, Cursor, InHand, Live, Sessions,
      protocol_gate
<1>2. ProcessType' /\ Cursor'
  BY DEF TypeInv, TypeOK, ProcessType, FrameType, Cursor, frame, process,
      InHand, Live, Sessions, Resting, protocol_gate, Spawn
<1>3. FilesType'
  <2>1. RemoveBriefs({"protocol"}) \/ WriteBrief("protocol")
    BY DEF protocol_gate
  <2> QED BY <2>1, RemoveBriefsType, WriteBriefType DEF TypeInv, TypeOK, protocol_gate, FilesType
<1>4. HistoryType'
  BY <1>1 DEF TypeInv, TypeOK, protocol_gate, Spawn, HistoryType
<1>5. FrameType' /\ ReportType' /\ TrackerType' /\ RepoType' /\ TagsType'
  BY DEF TypeInv, TypeOK, protocol_gate, FrameType, ReportType, TrackerType,
      RepoType, TagsType, frame, tracker, git
<1> QED BY <1>2, <1>3, <1>4, <1>5 DEF TypeInv, TypeOK

LEMMA BounceReturnType ==
  ASSUME TypeInv, NEW o \in Outcomes, BounceReturn(o)
  PROVE  TypeInv'
<1>1. cur \in Issues
  BY CurIsIssue DEF TypeInv, TypeOK, Cursor, InHand, Live, Sessions,
      BounceReturn
<1>2. ReportType'
  BY <1>1, PushType, EarlyType DEF TypeInv, TypeOK, BounceReturn, limit_stop,
      ResultStatus, SkipReason, StopKind, ReportType
<1>3. ProcessType' /\ Cursor'
  BY DEF TypeInv, TypeOK, ProcessType, FrameType, Cursor, frame, process,
      InHand, Live, Sessions, Resting, BounceReturn, limit_stop, EarlyStop
<1>4. FilesType'
  BY RemoveBriefsType DEF TypeInv, TypeOK, BounceReturn, FilesType
<1>5. FrameType' /\ TrackerType' /\ RepoType' /\ TagsType' /\ HistoryType'
  BY DEF TypeInv, TypeOK, BounceReturn, FrameType, TrackerType, RepoType,
      TagsType, HistoryType, frame, tracker, git, history
<1> QED BY <1>2, <1>3, <1>4, <1>5 DEF TypeInv, TypeOK

LEMMA resolve_verifyType ==
  ASSUME TypeInv, NEW g \in VerifyPlan, resolve_verify(g)
  PROVE  TypeInv'
<1>1. cur \in Issues
  BY CurIsIssue DEF TypeInv, TypeOK, Cursor, InHand, Live, Sessions,
      resolve_verify
<1>2. ReportType'
  BY <1>1, PushType, EarlyType DEF TypeInv, TypeOK, resolve_verify,
      VerifyFailed, park_for_human, ResultStatus, SkipReason, StopKind,
      ReportType
<1>3. ProcessType' /\ Cursor'
  BY DEF TypeInv, TypeOK, ProcessType, FrameType, Cursor, frame, process,
      InHand, Live, Sessions, Resting, resolve_verify, VerifyFailed,
      park_for_human, EarlyNext, VERIFY_MAX_REPAIRS
<1>4. TrackerType'
  BY <1>1 DEF TypeInv, TypeOK, resolve_verify, park_for_human, TrackerType,
      Labels, Tickets
<1>5. HistoryType'
  BY <1>1 DEF TypeInv, TypeOK, resolve_verify, HistoryType
<1>6. FrameType' /\ RepoType' /\ TagsType' /\ FilesType'
  BY DEF TypeInv, TypeOK, resolve_verify, FrameType, RepoType, TagsType,
      FilesType, files, frame, git
<1> QED BY <1>2, <1>3, <1>4, <1>5, <1>6 DEF TypeInv, TypeOK

LEMMA run_with_repairsType ==
  ASSUME TypeInv, NEW r \in {"passed", "failed", "spawn_failed", "cut"}, run_with_repairs(r)
  PROVE  TypeInv'
<1>1. cur \in Issues
  BY CurIsIssue DEF TypeInv, TypeOK, Cursor, InHand, Live, Sessions,
      run_with_repairs
<1>2. ReportType'
  BY <1>1, PushType, EarlyType DEF TypeInv, TypeOK, run_with_repairs,
      VerifyFailed, ResultStatus, SkipReason, StopKind, ReportType
<1>3. ProcessType' /\ Cursor'
  <2>1. /\ pc = "gate" /\ pc' \in {"close", "issue", "repair"}
        /\ k' \in {k, k + 1} /\ (pc' \in {"close", "repair"} => k' = k)
        /\ moved' \in BOOLEAN
    BY DEF TypeInv, TypeOK, ProcessType, run_with_repairs, VerifyFailed, EarlyNext, Spawn
  <2>2. attempt' \in 0 .. VERIFY_MAX_REPAIRS
    BY DEF TypeInv, TypeOK, ProcessType, run_with_repairs, RepairsSpent,
        VERIFY_MAX_REPAIRS
  <2>3. UNCHANGED <<cfg, q, run, stopped, clock, streak>>
    BY DEF run_with_repairs, frame
  <2>4. k' \in Nat \ {0}
    BY <2>1 DEF TypeInv, TypeOK, ProcessType
  <2>5. ProcessType'
    BY <2>1, <2>2, <2>3, <2>4 DEF TypeInv, TypeOK, ProcessType, Live, Sessions
  <2> QED BY <2>1, <2>3, <2>5 DEF TypeInv, Cursor, InHand, Live, Sessions
<1>4. FilesType'
  <2>1. \/ UNCHANGED <<briefs, oldBriefs>> \/ RemoveBriefs({"verify"}) \/ WriteBrief("verify")
    BY DEF run_with_repairs
  <2> QED BY <2>1, RemoveBriefsType, WriteBriefType DEF TypeInv, TypeOK, run_with_repairs, FilesType
<1>5. HistoryType'
  BY <1>1 DEF TypeInv, TypeOK, run_with_repairs, Spawn, HistoryType
<1>6. FrameType' /\ TrackerType' /\ RepoType' /\ TagsType'
  BY DEF TypeInv, TypeOK, run_with_repairs, FrameType, TrackerType, RepoType,
      TagsType, frame, tracker, git
<1> QED BY <1>2, <1>3, <1>4, <1>5, <1>6 DEF TypeInv, TypeOK

LEMMA RepairReturnType ==
  ASSUME TypeInv, NEW o \in Outcomes, RepairReturn(o)
  PROVE  TypeInv'
<1>1. cur \in Issues
  BY CurIsIssue DEF TypeInv, TypeOK, Cursor, InHand, Live, Sessions,
      RepairReturn
<1>2. ReportType'
  BY <1>1, PushType, EarlyType DEF TypeInv, TypeOK, RepairReturn, limit_stop,
      ResultStatus, SkipReason, StopKind, ReportType
<1>3. ProcessType' /\ Cursor'
  BY DEF TypeInv, TypeOK, ProcessType, FrameType, Cursor, frame, process,
      InHand, Live, Sessions, Resting, RepairReturn, limit_stop, EarlyStop
<1>4. FrameType' /\ TrackerType' /\ RepoType' /\ TagsType' /\ FilesType' /\
    HistoryType'
  BY DEF TypeInv, TypeOK, RepairReturn, FrameType, TrackerType, RepoType,
      TagsType, FilesType, files, HistoryType, frame, tracker, git, history
<1> QED BY <1>2, <1>3, <1>4 DEF TypeInv, TypeOK

LEMMA close_and_recordType ==
  ASSUME TypeInv, close_and_record
  PROVE  TypeInv'
<1>1. cur \in Issues
  BY CurIsIssue DEF TypeInv, TypeOK, Cursor, InHand, Live, Sessions,
      close_and_record
<1>2. ReportType'
  <2>1. result(cur, "Done", "none", TRUE) \in IssueResult
    BY <1>1 DEF result, IssueResult, ResultStatus, SkipReason
  <2>2. UNCHANGED worked \/ \E r \in IssueResult : worked' = Append(worked, r)
    BY <2>1 DEF close_and_record
  <2>3. worked' \in Seq(IssueResult)
    BY <2>1, <2>2 DEF TypeInv, TypeOK, ReportType
  <2>4. stop' \in StopReason
    BY EarlyType DEF TypeInv, TypeOK, ReportType, close_and_record
  <2> QED BY <2>3, <2>4 DEF ReportType
<1>3. ProcessType' /\ Cursor'
  BY DEF TypeInv, TypeOK, ProcessType, FrameType, Cursor, frame, process,
      InHand, Live, Sessions, Resting, close_and_record, EarlyFail
<1>4. TrackerType'
  <2>1. closed' \in {closed, closed \cup {cur}}
    BY DEF close_and_record, tracker
  <2>2. \/ UNCHANGED labels
        \/ labels' = [labels EXCEPT ![cur] = @ \cup {"needs-human-review"}]
    BY DEF close_and_record, tracker
  <2>3. closed' \subseteq Tickets
    BY <1>1, <2>1 DEF TypeInv, TypeOK, TrackerType, Tickets
  <2>4. labels' \in [Tickets -> SUBSET Labels]
    BY <1>1, <2>2 DEF TypeInv, TypeOK, TrackerType, Tickets, Labels
  <2> QED BY <2>3, <2>4 DEF TrackerType
<1>5. FrameType' /\ RepoType' /\ TagsType' /\ FilesType' /\ HistoryType'
  BY DEF TypeInv, TypeOK, close_and_record, FrameType, RepoType, TagsType,
      FilesType, files, HistoryType, frame, git, history
<1> QED BY <1>2, <1>3, <1>4, <1>5 DEF TypeInv, TypeOK

LEMMA publish_plan_recordType ==
  ASSUME TypeInv, publish_plan_record
  PROVE  TypeInv'
<1>1. ReportType'
  BY EarlyType DEF TypeInv, TypeOK, publish_plan_record, ReportType
<1>2. ProcessType' /\ Cursor'
  BY DEF TypeInv, TypeOK, ProcessType, FrameType, Cursor, frame, process,
      InHand, Live, Sessions, Resting, publish_plan_record, EarlyNext,
      EarlyFail
<1>3. FrameType' /\ TrackerType' /\ RepoType' /\ TagsType' /\ FilesType' /\
    HistoryType'
  BY DEF TypeInv, TypeOK, publish_plan_record, FrameType, TrackerType,
      RepoType, TagsType, FilesType, files, HistoryType, frame, tracker, git, history
<1> QED BY <1>1, <1>2, <1>3 DEF TypeInv, TypeOK

LEMMA teardownType ==
  ASSUME TypeInv, teardown
  PROVE  TypeInv'
<1>1. ProcessType' /\ Cursor'
  BY DEF TypeInv, TypeOK, ProcessType, FrameType, Cursor, frame, process,
      InHand, Live, Sessions, Resting, teardown
<1>2. RepoType'
  BY CloseBranchType DEF TypeInv, TypeOK, teardown
<1>3. TagsType'
  BY DEF TypeInv, TypeOK, teardown, drop_undo_tag, TagsType
<1>4. FrameType' /\ ReportType' /\ TrackerType' /\ FilesType' /\ HistoryType'
  BY DEF TypeInv, TypeOK, teardown, FrameType, ReportType, TrackerType,
      FilesType, files, HistoryType, frame, tracker, history
<1> QED BY <1>1, <1>2, <1>3, <1>4 DEF TypeInv, TypeOK

LEMMA requestType ==
  ASSUME TypeInv, request
  PROVE  TypeInv'
<1>1. ProcessType' /\ Cursor'
  BY DEF TypeInv, TypeOK, ProcessType, FrameType, Cursor, frame, process,
      InHand, Live, Sessions, Resting, request
<1>2. HistoryType'
  BY DEF TypeInv, TypeOK, request, HistoryType
<1>3. FrameType' /\ ReportType' /\ TrackerType' /\ RepoType' /\ TagsType' /\
    FilesType'
  BY DEF TypeInv, TypeOK, request, FrameType, ReportType, TrackerType,
      RepoType, TagsType, FilesType, files, frame, tracker, git
<1> QED BY <1>1, <1>2, <1>3 DEF TypeInv, TypeOK

LEMMA DeadlinePassesType ==
  ASSUME TypeInv, DeadlinePasses
  PROVE  TypeInv'
<1>1. ProcessType' /\ Cursor'
  BY DEF TypeInv, TypeOK, ProcessType, FrameType, Cursor, frame, process,
      InHand, Live, Sessions, Resting, DeadlinePasses
<1>2. FrameType' /\ ReportType' /\ TrackerType' /\ RepoType' /\ TagsType' /\
    FilesType' /\ HistoryType'
  BY DEF TypeInv, TypeOK, DeadlinePasses, FrameType, ReportType, TrackerType,
      RepoType, TagsType, FilesType, files, HistoryType, frame, tracker, git, history
<1> QED BY <1>1, <1>2 DEF TypeInv, TypeOK

LEMMA PersonClosesType ==
  ASSUME TypeInv, NEW n \in External, PersonCloses(n)
  PROVE  TypeInv'
<1>1. ProcessType' /\ Cursor'
  BY DEF TypeInv, TypeOK, ProcessType, FrameType, Cursor, frame, process,
      InHand, Live, Sessions, Resting, PersonCloses
<1>2. TrackerType'
  BY DEF TypeInv, TypeOK, PersonCloses, TrackerType, Tickets
<1>3. FrameType' /\ ReportType' /\ RepoType' /\ TagsType' /\ FilesType' /\
    HistoryType'
  BY DEF TypeInv, TypeOK, PersonCloses, FrameType, ReportType, RepoType,
      TagsType, FilesType, files, HistoryType, frame, git, history
<1> QED BY <1>1, <1>2, <1>3 DEF TypeInv, TypeOK

LEMMA OperatorCleansType ==
  ASSUME TypeInv, OperatorCleans
  PROVE  TypeInv'
<1>1. ProcessType' /\ Cursor'
  BY DEF TypeInv, TypeOK, ProcessType, FrameType, Cursor, frame, process,
      InHand, Live, Sessions, Resting, OperatorCleans
<1>2. RepoType'
  BY DEF TypeInv, TypeOK, OperatorCleans, RepoType
<1>3. FrameType' /\ ReportType' /\ TrackerType' /\ TagsType' /\ FilesType' /\
    HistoryType'
  BY DEF TypeInv, TypeOK, OperatorCleans, FrameType, ReportType, TrackerType,
      TagsType, FilesType, files, HistoryType, frame, tracker, history
<1> QED BY <1>1, <1>2, <1>3 DEF TypeInv, TypeOK

LEMMA StartType ==
  ASSUME TypeInv, NEW c \in Configs, NEW s \in Queues, Start(c, s)
  PROVE  TypeInv'
<1>1. ProcessType' /\ Cursor'
  <2>1. (pc \in Resting \cup Live)'
    BY DEF Live, Start
  <2>2. (k \in Nat \ {0} /\ streak \in 0 .. MAX_PLAN_LIMIT_RESUMES + 1)'
    BY DEF Live, Start, MAX_PLAN_LIMIT_RESUMES
  <2>3. (attempt \in 0 .. VERIFY_MAX_REPAIRS)'
    BY DEF Live, Start, VERIFY_MAX_REPAIRS
  <2>4. (stopped \in BOOLEAN /\ moved \in BOOLEAN)'
    BY DEF Live, Start
  <2>5. (clock \in {"none", "ahead", "passed"})'
    BY DEF Live, Start
  <2>6. Cursor'
    BY DEF Cursor, InHand, Live, Sessions, Start
  <2> QED BY <2>1, <2>2, <2>3, <2>4, <2>5, <2>6 DEF ProcessType
<1>2. FrameType'
  <2>1. cfg' \in ConfigType /\ q' \in Seq(Issues) /\ run' \in 0 .. MaxRuns
    BY ConfigAssumption, QueueAssumption, BoundAssumption
    DEF TypeInv, TypeOK, FrameType, Start, Runs
  <2>2. orig' \in Branches /\ start' \subseteq Commits
    BY DEF TypeInv, TypeOK, RepoType, Start, prepare_branch, CutBranch, Branches, Base
  <2> QED BY <2>1, <2>2 DEF FrameType
<1>3. RepoType'
  BY DEF TypeInv, TypeOK, RepoType, Start, prepare_branch, CutBranch, Branches, Base, Runs
<1>4. TagsType'
  BY DEF TypeInv, TypeOK, TagsType, Start
<1>5. ReportType'
  BY DEF TypeInv, TypeOK, ReportType, Start, NoStop, Reason, StopReason, StopKind
<1>6. HistoryType'
  BY DEF TypeInv, TypeOK, HistoryType, Start, MAX_PLAN_LIMIT_RESUMES
<1>7. TrackerType' /\ FilesType'
  BY DEF TypeInv, TypeOK, TrackerType, FilesType, files, Start, tracker
<1> QED BY <1>1, <1>2, <1>3, <1>4, <1>5, <1>6, <1>7 DEF TypeInv, TypeOK

LEMMA StartFailsType ==
  ASSUME TypeInv, NEW c \in Configs, StartFails(c)
  PROVE  TypeInv'
<1>1. ProcessType' /\ Cursor'
  BY DEF TypeInv, TypeOK, ProcessType, Cursor, InHand, Live, Sessions, StartFails, process
<1>2. FrameType'
  BY BoundAssumption DEF TypeInv, TypeOK, FrameType, StartFails, Runs
<1>3. RepoType'
  BY DEF TypeInv, TypeOK, RepoType, StartFails, CutBranch, Branches, Base, Runs
<1>4. ReportType' /\ TrackerType' /\ TagsType' /\ FilesType' /\ HistoryType'
  BY DEF TypeInv, TypeOK, ReportType, TrackerType, TagsType, FilesType, files, HistoryType,
      StartFails, tracker, history
<1> QED BY <1>1, <1>2, <1>3, <1>4 DEF TypeInv, TypeOK

LEMMA ExitType ==
  ASSUME TypeInv, Exit
  PROVE  TypeInv'
<1>1. ProcessType' /\ Cursor'
  <2>1. (pc \in Resting \cup Live)'
    BY DEF Resting, Exit
  <2>2. (k \in Nat \ {0} /\ streak \in 0 .. MAX_PLAN_LIMIT_RESUMES + 1)'
    BY DEF Resting, Exit, MAX_PLAN_LIMIT_RESUMES
  <2>3. (attempt \in 0 .. VERIFY_MAX_REPAIRS)'
    BY DEF Resting, Exit, VERIFY_MAX_REPAIRS
  <2>4. (stopped \in BOOLEAN /\ moved \in BOOLEAN)'
    BY DEF Resting, Exit
  <2>5. (clock \in {"none", "ahead", "passed"})'
    BY DEF Resting, Exit
  <2>6. Cursor'
    BY DEF Cursor, InHand, Live, Sessions, Exit
  <2> QED BY <2>1, <2>2, <2>3, <2>4, <2>5, <2>6 DEF ProcessType
<1>2. FrameType'
  BY DEF TypeInv, TypeOK, FrameType, Exit, AnyConfig, ConfigType, Branches, Base
<1>3. ReportType'
  BY DEF TypeInv, TypeOK, ReportType, Exit, NoStop, Reason, StopReason, StopKind
<1>4. HistoryType'
  BY DEF TypeInv, TypeOK, HistoryType, Exit, MAX_PLAN_LIMIT_RESUMES
<1>5. TrackerType' /\ RepoType' /\ TagsType' /\ FilesType'
  BY DEF TypeInv, TypeOK, TrackerType, RepoType, TagsType, FilesType, files, Exit,
      tracker, git
<1> QED BY <1>1, <1>2, <1>3, <1>4, <1>5 DEF TypeInv, TypeOK

(* The first state is well typed. *)
LEMMA InitType == Init => TypeInv
<1> SUFFICES ASSUME Init PROVE TypeInv
  OBVIOUS
<1>1. ProcessType /\ Cursor
  <2>1. (pc \in Resting \cup Live)
    BY DEF Resting, Init
  <2>2. (k \in Nat \ {0} /\ streak \in 0 .. MAX_PLAN_LIMIT_RESUMES + 1)
    BY DEF Resting, Init, MAX_PLAN_LIMIT_RESUMES
  <2>3. (attempt \in 0 .. VERIFY_MAX_REPAIRS)
    BY DEF Resting, Init, VERIFY_MAX_REPAIRS
  <2>4. (stopped \in BOOLEAN /\ moved \in BOOLEAN)
    BY DEF Resting, Init
  <2>5. (clock \in {"none", "ahead", "passed"})
    BY DEF Resting, Init
  <2>6. Cursor
    BY DEF Cursor, InHand, Live, Sessions, Init
  <2> QED BY <2>1, <2>2, <2>3, <2>4, <2>5, <2>6 DEF ProcessType
<1>2. FrameType
  BY BoundAssumption DEF Init, FrameType, AnyConfig, ConfigType, Branches, Base
<1>3. ReportType
  BY DEF Init, ReportType, NoStop, Reason, StopReason, StopKind
<1>4. TrackerType
  BY TicketAssumption DEF Init, TrackerType
<1>5. RepoType
  BY DEF Init, RepoType, Branches, Base
<1>6. TagsType /\ FilesType /\ HistoryType
  BY DEF Init, TagsType, FilesType, files, HistoryType, NoPlan, PlanFile,
      MAX_PLAN_LIMIT_RESUMES
<1> QED BY <1>1, <1>2, <1>3, <1>4, <1>5, <1>6 DEF TypeInv, TypeOK

(* Every step keeps the state well typed. *)
LEMMA StepType == TypeInv /\ [Next]_vars => TypeInv'
<1> SUFFICES ASSUME TypeInv, [Next]_vars PROVE TypeInv'
  OBVIOUS
<1>1. CASE Run
  BY <1>1, preflightType, QueueDoneType, prepareType, PlanWrittenType,
     wait_out_plan_limitType, PlanWaitCutType, ReplanType, PlanErrorType,
     ExecReturnType, BounceReturnType, RepairReturnType, ExecWaitCutType,
     ReexecuteType, ExecErrorType, protocol_gateType, resolve_verifyType,
     run_with_repairsType, close_and_recordType, publish_plan_recordType,
     teardownType
  DEF Run
<1>2. CASE Agent
  BY <1>2, AgentCommitsType, AgentEditsType, AgentWritesPlanType DEF Agent
<1>3. CASE World
  BY <1>3, StartType, StartFailsType, requestType, DeadlinePassesType, ExitType,
     OperatorCleansType, PersonClosesType
  DEF World
<1>4. CASE UNCHANGED vars
  BY <1>4 DEF vars, TypeInv, TypeOK, ProcessType, FrameType, ReportType,
      TrackerType, RepoType, TagsType, FilesType, files, HistoryType, Cursor
<1> QED BY <1>1, <1>2, <1>3, <1>4 DEF Next

(* The queue loop is type correct: in every run, after any crash, stop or    *)
(* failure, the process, the report, the tracker and the repository stay     *)
(* within their types; in particular the verify gate hands back at most      *)
(* VERIFY_MAX_REPAIRS repairs (run_with_repairs, runner/phases/verify.rs).   *)
THEOREM TypeCorrect == Spec => []TypeOK
<1>1. Init => TypeInv
  BY InitType
<1>2. TypeInv /\ [Next]_vars => TypeInv'
  BY StepType
<1>3. TypeInv => TypeOK
  BY DEF TypeInv
<1> QED BY <1>1, <1>2, <1>3, PTL DEF Spec

-----------------------------------------------------------------------------
(* What a session reads.                                                     *)

(* Where the loop works from the plan of the issue in hand. *)
Gates == Sessions \cup {"execwait", "lint", "resolve", "gate", "close"}

(* A trailer names the issue the plan was written for, but for an old plan    *)
(* that a later planner stamped.                                              *)
Stamped == plan.trailer \in {NoIssue, plan.for} \/ oldPlan

(* What a planner finds: nothing, its own issue's plan, or an old one.        *)
AtPlan == plan = NoPlan \/ plan.for = cur \/ oldPlan

(* SessionReadsItsOwn is not inductive: a brief must be gone before the gate  *)
(* that spawns the next session, and through a wait for a reset; and what the *)
(* planner finds must be accounted for.                                       *)
ReadInv ==
    /\ SessionReadsItsOwn /\ Stamped
    /\ pc \in {"execwait", "lint", "resolve"} => briefs \subseteq oldBriefs
    /\ pc = "gate" => briefs \subseteq {"verify"} \cup oldBriefs
    /\ pc = "plan" => AtPlan

(* A step to another gate of the same issue keeps the plan. *)
LEMMA PlanStays ==
  ASSUME PlanIsForTheIssue, pc \in Gates, UNCHANGED <<k, q, oldPlan>>, plan'.for = plan.for
  PROVE  PlanIsForTheIssue'
  BY DEF PlanIsForTheIssue, Gates, cur

(* Planning an issue starts from a file that is accounted for. *)
LEMMA PlanCallStamped ==
  ASSUME Stamped, PlanCall(cur), cur \in Issues, UNCHANGED <<k, q>>
  PROVE  Stamped' /\ AtPlan'
<1>1. cur # NoIssue
  BY TicketAssumption DEF Tickets
<1>2. CASE plan_is_finalized_for(cur) /\ UNCHANGED <<plan, oldPlan>>
  BY <1>1, <1>2 DEF Stamped, AtPlan, plan_is_finalized_for, cur
<1>3. CASE plan' = NoPlan
  BY <1>3 DEF Stamped, AtPlan, NoPlan
<1>4. CASE oldPlan' = TRUE
  BY <1>4 DEF Stamped, AtPlan
<1> QED BY <1>2, <1>3, <1>4 DEF PlanCall

(* So does what a planner leaves. *)
LEMMA PlanOnDiskStamped ==
  ASSUME FilesType, Stamped, AtPlan, cur \in Issues, NEW p \in PlannerWrote(cur), PlanOnDisk(p)
  PROVE  Stamped' /\ (p.for = cur \/ oldPlan')
<1>1. cur # NoIssue
  BY TicketAssumption DEF Tickets
<1>2. CASE plan_is_finalized_for(cur)
  <2>1. p = plan
    BY <1>2 DEF PlannerWrote
  <2> QED BY <1>1, <1>2, <2>1 DEF PlanOnDisk, Stamped, plan_is_finalized_for, FilesType
<1>3. CASE p \in [for : {cur}, steps : {"open", "refusal", "bundle"}, trailer : {cur, NoIssue}]
  BY <1>3 DEF PlanOnDisk, Stamped
<1>4. CASE plan # NoPlan /\ p \in {plan, [plan EXCEPT !.trailer = cur]}
  <2>1. p.for = plan.for /\ p.trailer \in {plan.trailer, cur}
    BY <1>4 DEF FilesType, PlanFile
  <2> QED BY <1>4, <2>1 DEF PlanOnDisk, Stamped, AtPlan, FilesType
<1> QED BY <1>2, <1>3, <1>4 DEF PlannerWrote

LEMMA StampedKept ==
  ASSUME TypeInv, ReadInv, Next
  PROVE  Stamped'
<1>0. Stamped /\ FilesType
  BY DEF ReadInv, TypeInv, TypeOK
<1>same. CASE UNCHANGED <<plan, oldPlan>>
  BY <1>0, <1>same DEF Stamped
<1>1. CASE PlanWritten \/ PlanError
  <2>1. AtPlan /\ cur \in Issues
    BY <1>1, CurIsIssue DEF PlanWritten, PlanError, ReadInv, TypeInv, TypeOK, Cursor, InHand, Live, Sessions
  <2>2. CASE \E p \in PlannerWrote(cur) : PlanOnDisk(p)
    BY <1>0, <2>1, <2>2, PlanOnDiskStamped
  <2>3. CASE PlanOnDisk(plan)
    BY <1>0, <2>1, <2>3, TicketAssumption DEF PlanOnDisk, Stamped, Tickets, FilesType
  <2> QED BY <1>1, <2>2, <2>3 DEF PlanWritten, PlanError
<1>2. CASE prepare \/ Replan
  <2>1. cur \in Issues
    BY <1>2, CurIsIssue DEF prepare, Replan, TypeInv, TypeOK, Cursor, InHand, Live, Sessions
  <2>2. (PlanCall(cur) /\ UNCHANGED <<k, q>>) \/ UNCHANGED <<plan, oldPlan>>
    BY <1>2 DEF prepare, Replan, frame
  <2> QED BY <1>0, <1>same, <2>1, <2>2, PlanCallStamped
<1>3. CASE Agent
  <2>1. CASE AgentWritesPlan
    <3>1. plan' \in {[plan EXCEPT !.steps = "checked"], [plan EXCEPT !.trailer = NoIssue]} /\ UNCHANGED oldPlan
      BY <2>1 DEF AgentWritesPlan
    <3>2. plan'.for = plan.for /\ plan'.trailer \in {plan.trailer, NoIssue}
      BY <1>0, <3>1 DEF FilesType, PlanFile
    <3> QED BY <1>0, <3>1, <3>2 DEF Stamped
  <2> QED BY <1>3, <1>same, <2>1 DEF Agent, AgentCommits, AgentEdits, files
<1>4. CASE World
  BY <1>4, <1>same DEF World, Start, StartFails, request, DeadlinePasses, Exit, OperatorCleans,
     PersonCloses, files
<1>5. CASE Run /\ ~(PlanWritten \/ PlanError \/ prepare \/ Replan)
  BY <1>5, <1>same DEF Run, preflight, QueueDone, wait_out_plan_limit, PlanWaitCut, ExecReturn,
     BounceReturn, RepairReturn, ExecWaitCut, Reexecute, ExecError, protocol_gate, resolve_verify,
     run_with_repairs, close_and_record, publish_plan_record, teardown, files
<1> QED BY <1>1, <1>2, <1>3, <1>4, <1>5 DEF Next

LEMMA ReadKept ==
  ASSUME TypeInv, ReadInv, Next
  PROVE  ReadInv'
<1> USE DEF frame, files
<1>0. PlanIsForTheIssue /\ BriefMatchesSession /\ Stamped'
  BY StampedKept DEF ReadInv, SessionReadsItsOwn
<1>out. CASE pc' \notin Gates \cup {"plan"}
  BY <1>0, <1>out DEF ReadInv, SessionReadsItsOwn, PlanIsForTheIssue, BriefMatchesSession, Gates, Sessions
<1>1. CASE PlanWritten
  <2>1. PICK p \in PlannerWrote(cur) : PlanWritten!2!(p)
    BY <1>1 DEF PlanWritten
  <2>2. p.for = cur \/ oldPlan'
    <3>1. AtPlan /\ Stamped /\ FilesType /\ cur \in Issues
      BY <1>1, CurIsIssue DEF PlanWritten, ReadInv, TypeInv, TypeOK, Cursor, InHand, Live, Sessions
    <3> QED BY <2>1, <3>1, PlanOnDiskStamped
  <2>3. CASE pc' \in {"lint", "execute"}
    <3>1. ClearBriefs /\ UNCHANGED <<k, q>> /\ plan' = p
      BY <1>1, <2>1, <2>3 DEF PlanWritten, PlanOnDisk, record_stop, EarlyStop, EarlyNext
    <3>2. briefs' \subseteq oldBriefs'
      BY <3>1 DEF ClearBriefs, RemoveBriefs, TypeInv, TypeOK, FilesType
    <3> QED
      BY <1>0, <2>2, <2>3, <3>1, <3>2
      DEF ReadInv, SessionReadsItsOwn, PlanIsForTheIssue, BriefMatchesSession, cur
  <2>4. pc' \in {"lint", "execute", "issue", "teardown"}
    BY <2>1 DEF record_stop, EarlyStop, EarlyNext
  <2> QED
    BY <1>out, <2>3, <2>4 DEF Gates, Sessions
<1>2. CASE prepare \/ Replan
  <2>1. cur \in Issues /\ Stamped
    BY <1>2, CurIsIssue DEF prepare, Replan, ReadInv, TypeInv, TypeOK, Cursor, InHand, Live, Sessions
  <2>2. \/ pc' \in {"issue", "over"}
        \/ pc' = "plan" /\ PlanCall(cur) /\ UNCHANGED <<k, q>>
    BY <1>2 DEF prepare, Replan, fail, EarlyNext, EarlyFail
  <2>3. CASE pc' = "plan" /\ PlanCall(cur) /\ UNCHANGED <<k, q>>
    <3>1. AtPlan'
      BY <2>1, <2>3, PlanCallStamped
    <3> QED
      BY <1>0, <2>3, <3>1 DEF ReadInv, SessionReadsItsOwn, PlanIsForTheIssue, BriefMatchesSession, Sessions
  <2> QED BY <1>out, <2>2, <2>3 DEF Gates, Sessions
<1>3. CASE \E o \in Outcomes : ExecReturn(o)
  <2>1. pc = "execute" /\ UNCHANGED <<q, plan, briefs, oldPlan, oldBriefs>>
        /\ (pc' \notin {"lint", "execwait"} => pc' = "teardown")
        /\ (pc' \in {"lint", "execwait"} => UNCHANGED k)
    BY <1>3 DEF ExecReturn, record_stop, non_green, non_green_stop, EarlyStop
  <2> QED
    BY <1>0, <1>out, <2>1, PlanStays DEF ReadInv, SessionReadsItsOwn, BriefMatchesSession, Gates, Sessions
<1>4. CASE \E o \in Outcomes : BounceReturn(o) \/ RepairReturn(o)
  <2>1. PICK o \in Outcomes : BounceReturn(o) \/ RepairReturn(o)
    BY <1>4
  <2>2. CASE pc' \in {"resolve", "gate"}
    <3>1. UNCHANGED <<k, q, plan, oldPlan>> /\ pc \in {"bounce", "repair"} /\
          ((pc = "bounce" /\ pc' = "resolve" /\ RemoveBriefs({"protocol"}))
           \/ (pc = "repair" /\ pc' = "gate" /\ UNCHANGED <<briefs, oldBriefs>>))
      BY <2>1, <2>2 DEF BounceReturn, RepairReturn, limit_stop, EarlyStop
    <3> QED
      BY <1>0, <3>1, PlanStays
      DEF ReadInv, SessionReadsItsOwn, BriefMatchesSession, RemoveBriefs, Gates, Sessions
  <2>3. pc' \in {"resolve", "gate", "teardown"}
    BY <2>1 DEF BounceReturn, RepairReturn, limit_stop, EarlyStop
  <2> QED
    BY <1>out, <2>2, <2>3 DEF Gates, Sessions
<1>5. CASE Reexecute
  <2>1. pc = "execwait" /\ pc' = "execute" /\ UNCHANGED <<k, q, plan, briefs, oldPlan, oldBriefs>>
    BY <1>5 DEF Reexecute
  <2> QED
    BY <1>0, <2>1, PlanStays DEF ReadInv, SessionReadsItsOwn, BriefMatchesSession, Gates, Sessions
<1>6. CASE protocol_gate
  <2>1. /\ pc = "lint" /\ UNCHANGED <<k, q, plan, oldPlan>>
        /\ \/ pc' = "resolve" /\ RemoveBriefs({"protocol"})
           \/ pc' = "bounce" /\ WriteBrief("protocol")
    BY <1>6 DEF protocol_gate
  <2> QED
    BY <1>0, <2>1, PlanStays
    DEF ReadInv, SessionReadsItsOwn, BriefMatchesSession, RemoveBriefs, WriteBrief, Gates, Sessions
<1>7. CASE \E g \in VerifyPlan : resolve_verify(g)
  <2>1. PICK g \in VerifyPlan : resolve_verify(g)
    BY <1>7
  <2>2. pc = "resolve" /\ UNCHANGED <<q, plan, briefs, oldPlan, oldBriefs>>
        /\ (pc' \notin {"gate", "close"} => pc' = "issue")
        /\ (pc' \in {"gate", "close"} => UNCHANGED k)
    BY <2>1 DEF resolve_verify, VerifyFailed, park_for_human, EarlyNext, VerifyPlan
  <2> QED
    BY <1>0, <1>out, <2>2, PlanStays DEF ReadInv, SessionReadsItsOwn, BriefMatchesSession, Gates, Sessions
<1>8. CASE \E r \in {"passed", "failed", "spawn_failed", "cut"} : run_with_repairs(r)
  <2>1. PICK r \in {"passed", "failed", "spawn_failed", "cut"} : run_with_repairs(r)
    BY <1>8
  <2>2. /\ pc = "gate" /\ UNCHANGED <<q, plan, oldPlan>>
        /\ (pc' \notin {"repair", "close"} => pc' = "issue")
        /\ (pc' = "close" => UNCHANGED k)
        /\ (pc' = "repair" => UNCHANGED k /\ WriteBrief("verify"))
    BY <2>1 DEF run_with_repairs, VerifyFailed, EarlyNext
  <2> QED
    BY <1>0, <1>out, <2>2, PlanStays
    DEF ReadInv, SessionReadsItsOwn, BriefMatchesSession, WriteBrief, Gates, Sessions
<1>9. CASE Agent
  <2>1. UNCHANGED <<pc, k, q, briefs, oldPlan, oldBriefs>> /\ plan'.for = plan.for /\ pc \in Sessions
    BY <1>9 DEF Agent, AgentCommits, AgentEdits, AgentWritesPlan, TypeInv, TypeOK, FilesType, PlanFile
  <2> QED
    BY <1>0, <1>out, <2>1, PlanStays DEF ReadInv, SessionReadsItsOwn, BriefMatchesSession, Gates, Sessions
<1>10. CASE UNCHANGED <<pc, k, q, plan, briefs, oldPlan, oldBriefs>>
  BY <1>0, <1>10 DEF ReadInv, SessionReadsItsOwn, BriefMatchesSession, PlanIsForTheIssue, AtPlan, cur
<1>11. CASE World
  BY <1>out, <1>10, <1>11 DEF World, Start, StartFails, request, DeadlinePasses, Exit, OperatorCleans,
     PersonCloses, Gates, Sessions
<1>12. CASE \/ preflight \/ QueueDone \/ wait_out_plan_limit \/ PlanWaitCut
            \/ PlanError \/ ExecWaitCut \/ ExecError \/ close_and_record \/ publish_plan_record \/ teardown
  <2>1. pc' \in {"issue", "prepare", "planwait", "publish", "teardown", "over"}
    BY <1>12 DEF preflight, QueueDone, wait_out_plan_limit, PlanWaitCut, PlanError,
       ExecWaitCut, ExecError, close_and_record, publish_plan_record, teardown, record_stop, limit_stop,
       non_green, non_green_stop, fail, EarlyStop, EarlyNext, EarlyFail
  <2> QED
    BY <1>out, <2>1 DEF Gates, Sessions
<1> QED
  BY <1>1, <1>2, <1>3, <1>4, <1>5, <1>6, <1>7, <1>8, <1>9, <1>11, <1>12 DEF Next, Run

LEMMA ReadNext == TypeInv /\ ReadInv /\ [Next]_vars => ReadInv'
<1> SUFFICES ASSUME TypeInv, ReadInv, [Next]_vars PROVE ReadInv'
  OBVIOUS
<1>1. CASE UNCHANGED vars
  BY <1>1 DEF vars, ReadInv, SessionReadsItsOwn, PlanIsForTheIssue, BriefMatchesSession, Stamped, AtPlan, cur
<1> QED
  BY <1>1, ReadKept

(* Whatever a killed run or an earlier issue left in .ralphy/, a session      *)
(* works from the plan of the issue in hand and reads the brief of its own    *)
(* gate only (execute_phase, runner/phases/execute.rs; plan_is_finalized_for, *)
(* ralphy-adapter-support/src/resume.rs), but for a plan or a brief that was  *)
(* to be removed and could not be (scaffold.rs, runner/artifacts.rs).         *)
THEOREM SessionAlwaysReadsItsOwn == Spec => []SessionReadsItsOwn
<1>1. Init => TypeInv /\ ReadInv
  BY InitType DEF Init, ReadInv, SessionReadsItsOwn, PlanIsForTheIssue, BriefMatchesSession, Sessions,
      Stamped, AtPlan, NoPlan
<1>2. TypeInv /\ ReadInv /\ [Next]_vars => (TypeInv /\ ReadInv)'
  BY StepType, ReadNext
<1>3. ReadInv => SessionReadsItsOwn
  BY DEF ReadInv
<1> QED BY <1>1, <1>2, <1>3, PTL DEF Spec

-----------------------------------------------------------------------------
(* The blocked-by gate.                                                      *)

(* The refs the gate is sure to see, and the steps behind it. *)
Refs(i) == Blockers[i] \cup (IF "tracker" \in Faults THEN {} ELSE SpecBlockers[i])
Past == Gates \cup {"plan", "planwait"}
Clear(i) == open_blockers(i, Refs(i)) = {}

(* An issue is worked on only behind the gate, which it passed when its       *)
(* blockers were closed.                                                      *)
BlockInv == (\A i \in ran : Clear(i)) /\ (pc \in Past => Clear(cur))

(* A ticket never opens again, so a gate that was passed stays passed. *)
LEMMA ClearStays ==
  ASSUME NEW i, Clear(i), closed \subseteq closed'
  PROVE  Clear(i)'
  BY DEF Clear, open_blockers, Refs

(* Fewer refs block on less. *)
LEMMA ClearOfMore ==
  ASSUME NEW i, NEW refs, Refs(i) \subseteq refs, open_blockers(i, refs) = {}
  PROVE  Clear(i)
  BY DEF Clear, open_blockers

LEMMA NothingOpens ==
  ASSUME Next
  PROVE  closed \subseteq closed'
<1> USE DEF tracker
<1>1. CASE Run
  BY <1>1 DEF Run, preflight, QueueDone, prepare, PlanWritten, wait_out_plan_limit, PlanWaitCut,
     Replan, PlanError, ExecReturn, BounceReturn, RepairReturn, ExecWaitCut, Reexecute, ExecError,
     protocol_gate, resolve_verify, run_with_repairs, close_and_record, publish_plan_record, teardown
<1>2. CASE Agent \/ World
  BY <1>2 DEF Agent, AgentCommits, AgentEdits, AgentWritesPlan, World, Start, StartFails, request,
     DeadlinePasses, Exit, OperatorCleans, PersonCloses
<1> QED
  BY <1>1, <1>2 DEF Next

(* A step stays where it was with the same issue, passes on behind the gate,  *)
(* or leaves; only behind the gate a session is spawned.                      *)
GateStep ==
    \/ UNCHANGED <<pc, k, q, ran>>
    \/ pc \in Past /\ pc' \in Past /\ UNCHANGED <<k, q>> /\ ran' \in {ran, ran \cup {cur}}
    \/ pc' \notin Past /\ ran' \in {ran, {}}

LEMMA StepGates ==
  ASSUME Next, ~prepare
  PROVE  GateStep
<1> USE DEF frame, history, GateStep, Past, Gates, Sessions, Spawn, EarlyStop, EarlyNext, EarlyFail,
            record_stop, limit_stop
<1>1. CASE preflight \/ QueueDone \/ PlanWaitCut \/ Replan \/ PlanError \/ wait_out_plan_limit
  BY <1>1 DEF preflight, QueueDone, PlanWaitCut, Replan, PlanError, wait_out_plan_limit, fail
<1>2. CASE PlanWritten
  BY <1>2 DEF PlanWritten
<1>3. CASE \E o \in Outcomes : ExecReturn(o) \/ BounceReturn(o) \/ RepairReturn(o)
  <2>1. PICK o \in Outcomes : ExecReturn(o) \/ BounceReturn(o) \/ RepairReturn(o)
    BY <1>3
  <2>2. CASE ExecReturn(o)
    <3>1. UNCHANGED <<q, ran>> /\ pc = "execute"
          /\ (pc' = "teardown" \/ (pc' \in {"lint", "execwait"} /\ UNCHANGED k))
      BY <2>2 DEF ExecReturn, non_green, non_green_stop
    <3> QED
      BY <3>1
  <2>3. CASE BounceReturn(o) \/ RepairReturn(o)
    BY <2>3 DEF BounceReturn, RepairReturn
  <2> QED
    BY <2>1, <2>2, <2>3
<1>4. CASE ExecWaitCut \/ Reexecute \/ ExecError \/ protocol_gate
  BY <1>4 DEF ExecWaitCut, Reexecute, ExecError, protocol_gate, non_green, non_green_stop, fail
<1>5. CASE \E g \in VerifyPlan : resolve_verify(g)
  BY <1>5 DEF resolve_verify, VerifyFailed, park_for_human
<1>6. CASE \E r \in {"passed", "failed", "spawn_failed", "cut"} : run_with_repairs(r)
  BY <1>6 DEF run_with_repairs, VerifyFailed
<1>7. CASE close_and_record \/ publish_plan_record \/ teardown
  BY <1>7 DEF close_and_record, publish_plan_record, teardown
<1>8. CASE Agent
  BY <1>8 DEF Agent, AgentCommits, AgentEdits, AgentWritesPlan
<1>9. CASE World
  BY <1>9 DEF World, Start, StartFails, request, DeadlinePasses, Exit, OperatorCleans, PersonCloses
<1> QED
  BY <1>1, <1>2, <1>3, <1>4, <1>5, <1>6, <1>7, <1>8, <1>9 DEF Next, Run

LEMMA BlockNext == TypeInv /\ BlockInv /\ [Next]_vars => BlockInv'
<1> SUFFICES ASSUME TypeInv, BlockInv, [Next]_vars PROVE BlockInv'
  OBVIOUS
<1>1. CASE UNCHANGED vars
  BY <1>1 DEF vars, BlockInv, Clear, open_blockers, Refs, cur
<1>2. CASE prepare
  <2>1. UNCHANGED <<q, ran, closed>>
    BY <1>2 DEF prepare, frame, tracker
  <2>2. CASE pc' = "plan"
    <3>1. UNCHANGED k /\ \E refs \in SeenRefs(cur) : open_blockers(cur, refs) = {}
      BY <1>2, <2>2 DEF prepare, EarlyNext, EarlyFail, fail
    <3>2. Clear(cur)
      BY <3>1, ClearOfMore DEF SeenRefs, Refs
    <3> QED
      BY <2>1, <3>1, <3>2 DEF BlockInv, Clear, open_blockers, Refs, cur
  <2>3. CASE pc' # "plan"
    BY <1>2, <2>1, <2>3
    DEF prepare, EarlyNext, EarlyFail, fail, BlockInv, Clear, open_blockers, Refs, Past, Gates, Sessions
  <2> QED
    BY <2>2, <2>3
<1>3. CASE Next /\ ~prepare
  <2>1. GateStep /\ closed \subseteq closed'
    BY <1>3, StepGates, NothingOpens
  <2>2. ASSUME NEW i \in ran' PROVE Clear(i)'
    BY <2>1, ClearStays DEF GateStep, BlockInv
  <2>3. ASSUME pc' \in Past PROVE Clear(cur)'
    <3>1. pc \in Past /\ UNCHANGED <<k, q>>
      BY <2>1, <2>3 DEF GateStep
    <3>2. Clear(cur)
      BY <3>1 DEF BlockInv
    <3>3. cur' = cur
      BY <3>1 DEF cur
    <3> DEFINE i == cur
    <3>4. Clear(i)'
      BY <2>1, <3>2, <3>3 DEF Clear, open_blockers, Refs
    <3> QED
      BY <3>3, <3>4 DEF Clear, open_blockers, Refs
  <2> QED
    BY <2>2, <2>3 DEF BlockInv
<1> QED
  BY <1>1, <1>2, <1>3

(* No executor works on an issue whose blockers are open: not after a failed  *)
(* fetch, not through a split blocker's children, and not over any resume,    *)
(* bounce or repair (open_blockers, runner/phases.rs).                        *)
THEOREM WorkedAreUnblocked == Spec => []WorkedIssuesUnblocked
<1>1. Init => TypeInv /\ BlockInv
  BY InitType DEF Init, BlockInv, Past, Gates, Sessions
<1>2. TypeInv /\ BlockInv /\ [Next]_vars => (TypeInv /\ BlockInv)'
  BY StepType, BlockNext
<1>3. BlockInv => WorkedIssuesUnblocked
  BY DEF BlockInv, WorkedIssuesUnblocked, Clear, Refs
<1> QED BY <1>1, <1>2, <1>3, PTL DEF Spec

-----------------------------------------------------------------------------
(* The run branch.                                                           *)

(* The branches the repository needs exist, none is of a run to come, and a   *)
(* run in New mode stands on its own branch, which is not the operator's.     *)
BranchInv ==
    /\ {Base, head, orig} \subseteq branches /\ branches \subseteq 0 .. run
    /\ pc \in Live /\ cfg.mode = "New" => head = run /\ orig # run
    /\ CommitsReachable

(* What a step does to the branches. *)
KeepsBranches ==
    /\ UNCHANGED <<head, branches, commits, run>>
    /\ \/ UNCHANGED <<cfg, orig>> /\ (pc' \in Live => pc \in Live)
       \/ pc' = "idle" /\ orig' = Base
CommitsToHead ==
    /\ pc \in Sessions /\ UNCHANGED <<pc, cfg, head, branches, orig, run>>
    /\ commits' = [commits EXCEPT ![head] = @ \cup {<<run, cur>>}]
HandsBack ==
    /\ pc \in Live /\ pc' = "over" /\ UNCHANGED <<commits, orig, run>> /\ head' \in {head, orig}
    /\ \/ UNCHANGED branches
       \/ cfg.mode = "New" /\ head' = orig /\ EmptyBranch /\ branches' = branches \ {run}
Prepares ==
    /\ pc = "idle" /\ run' = run + 1 /\ run' \in Runs
    /\ \/ pc' = "issue" /\ orig' = head
       \/ pc' = "idle" /\ UNCHANGED orig
    /\ \/ /\ head' = run + 1 /\ branches' = branches \cup {run + 1}
          /\ commits' = [commits EXCEPT ![run + 1] = commits[Base]]
       \/ UNCHANGED <<head, branches, commits>> /\ (pc' = "issue" => cfg'.mode # "New")
BranchStep == KeepsBranches \/ CommitsToHead \/ HandsBack \/ Prepares

LEMMA RestoreHandsBack ==
  ASSUME pc \in Live, pc' = "over", restore \/ (\E clean \in BOOLEAN : close_branch(clean)), UNCHANGED <<orig, run>>
  PROVE  HandsBack
  BY DEF restore, close_branch, CheckoutForce, git, HandsBack

LEMMA StepBranches ==
  ASSUME TypeInv, Next
  PROVE  BranchStep
<1> USE DEF frame, git
<1>1. CASE teardown
  <2>1. pc \in Live /\ pc' = "over" /\ UNCHANGED <<orig, run>> /\ close_branch(stop.kind = "none")
    BY <1>1 DEF teardown, Live
  <2>2. (stop.kind = "none") \in BOOLEAN
    OBVIOUS
  <2> QED
    BY <2>1, <2>2, RestoreHandsBack DEF BranchStep
<1>2. CASE prepare \/ PlanError \/ ExecError
  <2>1. pc \in Live /\ UNCHANGED <<cfg, orig, run>> /\ (fail \/ UNCHANGED git)
    BY <1>2 DEF prepare, PlanError, ExecError, Live, Sessions
  <2>2. CASE fail
    BY <2>1, <2>2, RestoreHandsBack DEF fail, EarlyFail, BranchStep
  <2> QED
    BY <2>1, <2>2 DEF BranchStep, KeepsBranches
<1>3. CASE Run /\ ~teardown /\ ~prepare /\ ~PlanError /\ ~ExecError
  <2>1. pc \in Live /\ UNCHANGED <<cfg, orig, run, head, branches, commits>>
    BY <1>3 DEF Run, preflight, QueueDone, PlanWritten, wait_out_plan_limit, PlanWaitCut, Replan,
       ExecReturn, BounceReturn, RepairReturn, ExecWaitCut, Reexecute, protocol_gate, resolve_verify,
       run_with_repairs, close_and_record, publish_plan_record, Live, Sessions
  <2> QED
    BY <2>1 DEF BranchStep, KeepsBranches
<1>4. CASE Agent
  BY <1>4 DEF Agent, AgentCommits, AgentEdits, AgentWritesPlan, BranchStep, KeepsBranches, CommitsToHead
<1>5. CASE \E c \in Configs, s \in Queues : Start(c, s)
  BY <1>5 DEF Start, prepare_branch, CutBranch, BranchStep, Prepares
<1>7. CASE \E c \in Configs : StartFails(c)
  BY <1>7 DEF StartFails, CutBranch, BranchStep, Prepares
<1>6. CASE request \/ DeadlinePasses \/ Exit \/ OperatorCleans \/ \E n \in External : PersonCloses(n)
  BY <1>6 DEF request, DeadlinePasses, Exit, OperatorCleans, PersonCloses, BranchStep, KeepsBranches, Live, Sessions
<1> QED
  BY <1>1, <1>2, <1>3, <1>4, <1>5, <1>6, <1>7 DEF Next, World

LEMMA BranchKept ==
  ASSUME TypeInv, BranchInv, BranchStep
  PROVE  BranchInv'
<1>1. /\ run \in Nat /\ head \in branches /\ orig \in branches /\ Base \in branches /\ Base = 0
      /\ branches \subseteq 0 .. run /\ branches \subseteq Branches
      /\ commits \in [Branches -> SUBSET Commits] /\ CommitsReachable
      /\ pc \in Live \cup {"over"} => run \in Runs
  BY BoundAssumption DEF BranchInv, TypeInv, TypeOK, RepoType, FrameType, Cursor, Base
<1> DEFINE All == UNION {commits[x] : x \in branches}
<1>2. \A b \in Branches : commits[b] \subseteq All
  BY <1>1 DEF CommitsReachable
<1>3. CASE KeepsBranches
  BY <1>1, <1>3 DEF KeepsBranches, BranchInv, CommitsReachable, Live, Sessions
<1>4. CASE CommitsToHead
  <2>1. \A b \in Branches : commits[b] \subseteq commits'[b]
    BY <1>1, <1>4 DEF CommitsToHead
  <2>2. \A b \in Branches : b # head => commits'[b] = commits[b]
    BY <1>1, <1>4 DEF CommitsToHead
  <2>3. All \subseteq UNION {commits'[x] : x \in branches}
    BY <1>1, <2>1
  <2>4. \A b \in Branches : commits'[b] \subseteq UNION {commits'[x] : x \in branches}
    BY <1>1, <1>2, <2>2, <2>3
  <2> QED
    BY <1>1, <1>4, <2>4 DEF CommitsToHead, BranchInv, CommitsReachable
<1>5. CASE HandsBack
  <2>1. CASE UNCHANGED branches
    BY <1>1, <1>5, <2>1 DEF HandsBack, BranchInv, CommitsReachable, Live, Sessions
  <2>2. CASE cfg.mode = "New" /\ head' = orig /\ EmptyBranch /\ branches' = branches \ {run}
    <3>1. run \in Runs /\ run # 0 /\ orig # run
      BY <1>1, <1>5, <2>2, BoundAssumption DEF HandsBack, BranchInv, Runs
    <3>2. {Base, head', orig} \subseteq branches'
      BY <1>1, <2>2, <3>1
    <3>3. All \subseteq UNION {commits[x] : x \in branches'}
      <4> SUFFICES ASSUME NEW x \in branches PROVE commits[x] \subseteq UNION {commits[y] : y \in branches'}
        OBVIOUS
      <4>1. CASE x = run
        BY <2>2, <3>2, <4>1 DEF EmptyBranch
      <4>2. CASE x # run
        BY <2>2, <4>2
      <4> QED
        BY <4>1, <4>2
    <3> QED
      BY <1>1, <1>2, <1>5, <2>2, <3>2, <3>3 DEF HandsBack, BranchInv, CommitsReachable, Live, Sessions
  <2> QED
    BY <1>5, <2>1, <2>2 DEF HandsBack
<1>6. CASE Prepares
  <2>1. /\ run' = run + 1 /\ orig' \in {head, orig} /\ pc' \in {"issue", "idle"}
        /\ run + 1 \in Branches /\ run + 1 # Base /\ run + 1 \notin branches /\ 0 .. run \subseteq 0 .. run + 1
    BY <1>1, <1>6 DEF Prepares, Branches
  <2>2. CASE UNCHANGED <<head, branches, commits>> /\ (pc' = "issue" => cfg'.mode # "New")
    BY <1>1, <2>1, <2>2 DEF BranchInv, CommitsReachable, Live, Sessions
  <2>3. CASE ~(UNCHANGED <<head, branches, commits>> /\ (pc' = "issue" => cfg'.mode # "New"))
    <3>1. /\ head' = run + 1 /\ branches' = branches \cup {run + 1}
          /\ commits' = [commits EXCEPT ![run + 1] = commits[Base]]
      BY <1>6, <2>3 DEF Prepares
    <3>2. \A b \in Branches : b # run + 1 => commits'[b] = commits[b]
      BY <1>1, <3>1
    <3>3. commits'[run + 1] = commits[Base]
      BY <1>1, <2>1, <3>1
    <3>4. All \subseteq UNION {commits'[x] : x \in branches'}
      BY <1>1, <2>1, <3>1, <3>2
    <3>5. \A b \in Branches : commits'[b] \subseteq UNION {commits'[x] : x \in branches'}
      BY <1>1, <1>2, <3>2, <3>3, <3>4
    <3>6. run + 1 \notin {head, orig}
      BY <1>1, <2>1
    <3> QED
      BY <1>1, <2>1, <3>1, <3>5, <3>6 DEF BranchInv, CommitsReachable
  <2> QED
    BY <2>2, <2>3
<1> QED
  BY <1>3, <1>4, <1>5, <1>6 DEF BranchStep

LEMMA BranchNext == TypeInv /\ BranchInv /\ [Next]_vars => BranchInv'
<1> SUFFICES ASSUME TypeInv, BranchInv, [Next]_vars PROVE BranchInv'
  OBVIOUS
<1>1. CASE UNCHANGED vars
  BY <1>1 DEF vars, BranchInv, CommitsReachable
<1> QED
  BY <1>1, StepBranches, BranchKept

LEMMA BranchInit == Init => BranchInv
  BY DEF Init, BranchInv, CommitsReachable, Live, Sessions, Branches, Base

(* Whatever branch a dry run, a failure or a clean end deletes, no commit of  *)
(* any run is lost: restore deletes a branch only when it adds nothing to the *)
(* base (restore and close_branch, runner.rs).                                *)
THEOREM CommitsStayReachable == Spec => []CommitsReachable
<1>1. TypeInv /\ BranchInv /\ [Next]_vars => (TypeInv /\ BranchInv)'
  BY StepType, BranchNext
<1>2. BranchInv => CommitsReachable
  BY DEF BranchInv
<1> QED BY <1>1, <1>2, InitType, BranchInit, PTL DEF Spec

LEMMA GrowsAlone ==
  ASSUME TypeInv, BranchInv, [Next]_vars, cfg.mode = "New", pc \in Live,
         NEW b \in Branches \ {run}
  PROVE  commits'[b] = commits[b]
<1>1. CASE UNCHANGED vars
  BY <1>1 DEF vars
<1>2. CASE Next
  <2>1. KeepsBranches \/ CommitsToHead \/ HandsBack
    BY <1>2, StepBranches DEF BranchStep, Prepares, Live, Sessions
  <2> QED
    BY <2>1 DEF KeepsBranches, CommitsToHead, HandsBack, BranchInv, TypeInv, TypeOK, RepoType
<1> QED
  BY <1>1, <1>2

(* In New mode a run writes to its own branch alone, over every interleaving  *)
(* of sessions, failures and kills (prepare_branch, CutBranch, runner/branch.rs).        *)
THEOREM OnlyTheRunBranchGrows == Spec => OnlyRunBranchGrows
<1>1. TypeInv /\ BranchInv /\ [Next]_vars => (TypeInv /\ BranchInv)'
  BY StepType, BranchNext
<1>2. TypeInv /\ BranchInv /\ [Next]_vars
        => [cfg.mode = "New" /\ pc \in Live
            => \A b \in Branches \ {run} : commits'[b] = commits[b]]_vars
  BY GrowsAlone
<1> QED BY <1>1, <1>2, InitType, BranchInit, PTL DEF Spec, OnlyRunBranchGrows

-----------------------------------------------------------------------------
(* The work in the tree.                                                     *)

(* Where a stop must not cost work. *)
Waits == {"plan", "planwait", "execute", "execwait"}

(* A stop that landed in a session or a wait is still there, or ended the run *)
(* with a reason; and a dry run has no session, so nothing of one in its tree.*)
StopInv ==
    /\ ~stopped => stopAt = "none"
    /\ stopAt \in Waits => \/ pc \in Waits \cup {"over"}
                           \/ pc = "teardown" /\ stop.kind # "none"
    /\ pc \in Live /\ cfg.dry => dirty \cap Issues = {} /\ pc \notin Gates

(* The edits of a session that a step may take out of the tree: only by the   *)
(* session's commit, by the operator, or by a checkout of a fatal error or of *)
(* a clean or dry end.                                                        *)
TreeStep ==
    \/ dirty \subseteq dirty'
    \/ pc \in Sessions \cup Resting
    \/ stop'.kind = "Err"
    \/ pc = "teardown" /\ (cfg.dry \/ stop.kind = "none")

LEMMA StepTree ==
  ASSUME Next
  PROVE  TreeStep
<1> USE DEF git, TreeStep
<1>1. CASE teardown
  BY <1>1 DEF teardown, close_branch
<1>2. CASE prepare \/ PlanError \/ ExecError
  BY <1>2 DEF prepare, PlanError, ExecError, fail, EarlyFail, Reason
<1>3. CASE Run /\ ~teardown /\ ~prepare /\ ~PlanError /\ ~ExecError
  BY <1>3 DEF Run, preflight, QueueDone, PlanWritten, wait_out_plan_limit, PlanWaitCut, Replan,
     ExecReturn, BounceReturn, RepairReturn, ExecWaitCut, Reexecute, protocol_gate, resolve_verify,
     run_with_repairs, close_and_record, publish_plan_record
<1>4. CASE Agent
  BY <1>4 DEF Agent, AgentCommits, AgentEdits, AgentWritesPlan
<1>5. CASE World
  BY <1>5 DEF World, Start, StartFails, request, DeadlinePasses, Exit, OperatorCleans, PersonCloses, prepare_branch, CutBranch, Resting
<1> QED
  BY <1>1, <1>2, <1>3, <1>4, <1>5 DEF Next

(* Where the loop goes once the flag is up. *)
LEMMA StopGoes ==
  ASSUME TypeInv, StopInv, Next
  PROVE  /\ ~stopped' => stopAt' = "none"
         /\ stopAt' \in Waits => \/ pc' \in Waits \cup {"over"}
                                 \/ pc' = "teardown" /\ stop'.kind # "none"
<1> USE DEF frame, history, Waits, EarlyStop, EarlyNext, EarlyFail, Reason
<1>1. CASE preflight \/ QueueDone \/ prepare \/ Replan \/ PlanError \/ PlanWaitCut
  BY <1>1 DEF preflight, QueueDone, prepare, Replan, PlanError, PlanWaitCut, Resumed, fail, record_stop, StopInv
<1>2. CASE wait_out_plan_limit \/ PlanWritten
  BY <1>2 DEF wait_out_plan_limit, PlanWritten, record_stop, limit_stop, StopInv
<1>3. CASE \E o \in Outcomes : ExecReturn(o)
  <2>1. PICK o \in Outcomes : ExecReturn(o)
    BY <1>3
  <2>2. UNCHANGED <<stopped, stopAt>> /\ pc = "execute"
    BY <2>1 DEF ExecReturn
  <2>3. CASE stopped
    BY <2>1, <2>2, <2>3 DEF ExecReturn, record_stop, non_green, non_green_stop, StopInv
  <2>4. CASE ~stopped
    BY <2>2, <2>4 DEF StopInv
  <2> QED
    BY <2>3, <2>4
<1>4. CASE \E o \in Outcomes : BounceReturn(o) \/ RepairReturn(o)
  BY <1>4 DEF BounceReturn, RepairReturn, StopInv
<1>5. CASE ExecWaitCut \/ Reexecute \/ ExecError
  BY <1>5 DEF ExecWaitCut, Reexecute, Resumed, ExecError, fail, non_green, non_green_stop, StopInv
<1>6. CASE protocol_gate \/ \E g \in VerifyPlan : resolve_verify(g)
  BY <1>6 DEF protocol_gate, resolve_verify, StopInv
<1>7. CASE \E r \in {"passed", "failed", "spawn_failed", "cut"} : run_with_repairs(r)
  BY <1>7 DEF run_with_repairs, GateReports, StopInv
<1>8. CASE close_and_record \/ publish_plan_record \/ teardown
  BY <1>8 DEF close_and_record, publish_plan_record, teardown, StopInv
<1>9. CASE Agent
  BY <1>9 DEF Agent, AgentCommits, AgentEdits, AgentWritesPlan, Sessions, StopInv
<1>10. CASE request
  BY <1>10 DEF request, StopInv
<1>11. CASE World /\ ~request
  BY <1>11 DEF World, Start, StartFails, DeadlinePasses, Exit, OperatorCleans, PersonCloses, Resting, StopInv
<1> QED
  BY <1>1, <1>2, <1>3, <1>4, <1>5, <1>6, <1>7, <1>8, <1>9, <1>10, <1>11 DEF Next, Run

(* A dry run leaves the tree alone and never reaches a gate. *)
LEMMA DryGoes ==
  ASSUME TypeInv, StopInv, Next, pc' \in Live, cfg'.dry
  PROVE  dirty' \cap Issues = {} /\ pc' \notin Gates
<1> USE DEF frame, git, Gates, Sessions, EarlyStop, EarlyNext, EarlyFail, record_stop, limit_stop
<1>1. CASE \E c \in Configs, s \in Queues : Start(c, s)
  BY <1>1, TicketAssumption DEF Start, prepare_branch, CutBranch, Tickets
<1>2. CASE ~\E c \in Configs, s \in Queues : Start(c, s)
  <2>1. CASE Exit
    BY <2>1 DEF Exit, Live
  <2>2. CASE ~Exit /\ World
    BY <1>2, <2>2 DEF World, StartFails, request, DeadlinePasses, OperatorCleans, PersonCloses, StopInv, Resting, Live
  <2>3. CASE Agent
    BY <2>3 DEF Agent, AgentCommits, AgentEdits, AgentWritesPlan, StopInv, Live
  <2>4. CASE Run
    <3>1. pc \in Live /\ cfg' = cfg
      BY <2>4 DEF Run, preflight, QueueDone, prepare, PlanWritten, wait_out_plan_limit, PlanWaitCut, Replan,
       PlanError, ExecReturn, BounceReturn, RepairReturn, ExecWaitCut, Reexecute, ExecError, protocol_gate,
       resolve_verify, run_with_repairs, close_and_record, publish_plan_record, teardown, Live
    <3>2. pc \notin Gates /\ dirty \cap Issues = {} /\ cfg.dry
      BY <3>1 DEF StopInv
    <3>3. CASE preflight \/ QueueDone \/ prepare \/ PlanWritten \/ wait_out_plan_limit \/ PlanWaitCut \/ Replan
               \/ PlanError \/ publish_plan_record
      BY <3>2, <3>3 DEF preflight, QueueDone, prepare, PlanWritten, wait_out_plan_limit, PlanWaitCut, Replan,
         PlanError, publish_plan_record, fail, Live
    <3>4. CASE teardown
      BY <3>4 DEF teardown, Live
    <3> QED
      BY <2>4, <3>2, <3>3, <3>4 DEF Run, ExecReturn, BounceReturn, RepairReturn, ExecWaitCut, Reexecute,
         ExecError, protocol_gate, resolve_verify, run_with_repairs, close_and_record
  <2> QED
    BY <2>1, <2>2, <2>3, <2>4 DEF Next
<1> QED
  BY <1>1, <1>2

LEMMA StopNext == TypeInv /\ StopInv /\ [Next]_vars => StopInv'
<1> SUFFICES ASSUME TypeInv, StopInv, [Next]_vars PROVE StopInv'
  OBVIOUS
<1>1. CASE UNCHANGED vars
  BY <1>1 DEF vars, StopInv
<1>2. CASE Next
  BY <1>2, StopGoes, DryGoes DEF StopInv
<1> QED
  BY <1>1, <1>2

LEMMA WorkKept ==
  ASSUME TypeInv, StopInv, [Next]_vars, (dirty \ dirty') \cap Issues # {}, stopAt \in Waits
  PROVE  pc \in Sessions \cup Resting \/ stop'.kind = "Err"
<1>1. CASE UNCHANGED vars
  BY <1>1 DEF vars
<1>2. CASE Next
  <2>1. CASE pc = "teardown" /\ (cfg.dry \/ stop.kind = "none")
    BY <2>1 DEF StopInv, Live, Waits
  <2> QED
    BY <1>2, <2>1, StepTree DEF TreeStep
<1> QED
  BY <1>1, <1>2

(* A stop that lands in a session or a wait costs no uncommitted work: what   *)
(* comes back with it ends the run with a reason, and an end with a reason    *)
(* checks nothing out (close_branch, runner.rs; ADR 0054 D5).                 *)
THEOREM StopAlwaysKeepsWork == Spec => StopKeepsWork
<1>1. Init => TypeInv /\ StopInv
  BY InitType DEF Init, StopInv, Waits, Live, Sessions
<1>2. TypeInv /\ StopInv /\ [Next]_vars => (TypeInv /\ StopInv)'
  BY StepType, StopNext
<1>3. TypeInv /\ StopInv /\ [Next]_vars
        => [ /\ (dirty \ dirty') \cap Issues # {}
             /\ stopAt \in {"plan", "planwait", "execute", "execwait"}
             => pc \in Sessions \cup Resting \/ stop'.kind = "Err" ]_vars
  BY WorkKept DEF Waits
<1> QED BY <1>1, <1>2, <1>3, PTL DEF Spec, StopKeepsWork

=============================================================================
