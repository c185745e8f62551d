------------------------------ MODULE RunQueue ------------------------------
(***************************************************************************)
(* One `ralphy run`: the queue loop of crates/ralphy-core/src/runner.rs,   *)
(* its per-issue phases (runner/queue_run.rs, runner/phases), the branch   *)
(* it prepares and hands back, and the files that outlive the process.     *)
(* The operator's stop, the run deadline, a killed process and the people  *)
(* who use the tracker are actions of their own, so they land between any  *)
(* two steps of the loop.                                                  *)
(***************************************************************************)
EXTENDS Integers, Sequences

CONSTANTS
    Issues,      \* the issues a queue may hold
    External,    \* tracker issues that only ever appear as blockers
    NoIssue,     \* "no issue": neither of the above
    Queues,      \* the queues a run may be handed, in order
    Blockers,    \* the `## Blocked by` refs of each issue's body
    SpecBlockers,\* the `## Blocked by` refs of its consolidated-spec comment
    Children,    \* the issues whose `## Parent` names a ticket
    InitLabels,  \* the labels of each ticket before the first run
    Configs,     \* the QueueConfigs (and the deadline) a run may be given
    MaxRuns,     \* bound: how many runs are started on the repository
    Faults       \* which collaborators may fail, and whether the process may die

Tickets  == Issues \cup External
Labels   == {"stop-before", "ready-for-human", "needs-split", "needs-human-review"}
Runs     == 1 .. MaxRuns
Base     == 0                 \* cfg.base_branch; a run branch is its run's number
Branches == {Base} \cup Runs
Commits  == Runs \X Issues    \* "run r committed work for issue i", however often

ConfigType ==
    [mode : {"New", "Current"}, dry : BOOLEAN, stopPlan : BOOLEAN,
     stopExec : BOOLEAN, requireGate : BOOLEAN, timed : BOOLEAN,
     forced : SUBSET Issues]

ASSUME TicketAssumption ==
    /\ NoIssue \notin Tickets
    /\ Issues \cap External = {}
    /\ Blockers \in [Issues -> SUBSET Tickets]
    /\ SpecBlockers \in [Issues -> SUBSET Tickets]
    /\ Children \in [Tickets -> SUBSET Tickets]
    /\ InitLabels \in [Tickets -> SUBSET Labels]

(* A queue is one page of distinct issues: the query lists an issue once. *)
ASSUME QueueAssumption ==
    /\ Queues \subseteq Seq(Issues)
    /\ \A s \in Queues : \A a, b \in 1 .. Len(s) : s[a] = s[b] => a = b

ASSUME ConfigAssumption == Configs \subseteq ConfigType

ASSUME BoundAssumption == MaxRuns \in Nat

ASSUME FaultAssumption == Faults \subseteq {"tracker", "git", "io", "agent", "crash"}

-----------------------------------------------------------------------------

VARIABLES
    \* the process
    pc,          \* where the loop stands
    cfg,         \* QueueConfig, with the presence of a deadline
    q, k,        \* the queue and the position of the issue being worked
    run,         \* the run's stamp, as a number; 0 before the first run
    stopped,     \* the process-global flag of crates/ralphy-core/src/stop.rs
    clock,       \* the deadline: "none", "ahead" or "passed"
    streak,      \* plan_limit_streak / no_commit_streak, saturated
    moved,       \* HEAD moved since the executor in flight was spawned
    attempt,     \* verify repairs handed back so far
    worked,      \* Vec<IssueResult>
    stop,        \* Option<StopReason>, or the fatal error the run returned
    \* the tracker
    closed, labels,
    \* the repository
    orig,        \* the branch the run started from
    start,       \* the commits of compare_ref
    head, branches, commits,
    dirty,       \* whose uncommitted tracked edits lie in the tree: an issue's
                 \* session's, or NoIssue for the run's own .gitignore edit
    tags,        \* the runs whose undo tag exists
    \* .ralphy/, which outlives the process
    plan,        \* plan.md
    briefs,      \* protocol-failure.md and verify-failure.md
    \* history, read by properties only
    vouched,     \* issues whose last session was followed by an accepted gate
    ran,         \* issues an executor session of this run worked on
    stopAt,      \* where the loop stood when the stop landed; "cut" once it
                 \* cut a command of the verify gate short
    oldPlan,     \* plan.md is one that could not be removed
    oldBriefs    \* the briefs that could not be removed

tracker == <<closed, labels>>
git     == <<head, branches, commits, dirty>>
frame   == <<cfg, q, run, orig, start>>
process == <<streak, moved, attempt>>
history == <<vouched, ran, stopAt>>
files   == <<plan, briefs, oldPlan, oldBriefs>>
vars == <<pc, cfg, q, k, run, stopped, clock, streak, moved, attempt, worked,
          stop, closed, labels, orig, start, head, branches, commits, dirty,
          tags, plan, briefs, vouched, ran, stopAt, oldPlan, oldBriefs>>

Resting  == {"idle", "over"}
Sessions == {"execute", "bounce", "repair"}   \* an executor child is running
Live     == {"issue", "prepare", "plan", "planwait", "execwait", "lint",
             "resolve", "gate", "close", "publish", "teardown"} \cup Sessions

cur == q[k]                       \* the issue being worked

-----------------------------------------------------------------------------
(* Results and stop reasons: runner/types.rs.                              *)

ResultStatus == {"Done", "Skipped", "Blocked", "Infeasible", "NeedsSplit",
                 "NonGreen", "Hitl", "Planned"}
SkipReason   == {"BlockedBy", "HumanReturn", "VerifyFailed", "none"}
IssueResult  == [issue : Issues, status : ResultStatus, skip : SkipReason,
                 closed : BOOLEAN]
StopKind     == {"none", "Deadline", "NonGreen", "StopBefore", "Limit",
                 "Stopped", "Err"}
StopReason   == [kind : StopKind, issue : Issues \cup {NoIssue}]

Reason(kind, n) == [kind |-> kind, issue |-> n]
NoStop == Reason("none", NoIssue)

result(i, status, skip, done) ==
    [issue |-> i, status |-> status, skip |-> skip, closed |-> done]

Push(status, skip) == worked' = Append(worked, result(cur, status, skip, FALSE))

(* Early::Next, Early::Stop and Early::Fail. A fatal error returns from    *)
(* run_queue_with at once: no tag is dropped and no branch closed.         *)
EarlyNext == pc' = "issue" /\ k' = k + 1 /\ UNCHANGED stop

MutantStopGoesOn(kind, n) ==               \* the loop is not broken out of
    pc' = "issue" /\ stop' = Reason(kind, n) /\ k' = k + 1

EarlyStop(kind, n) == pc' = "teardown" /\ stop' = Reason(kind, n) /\ UNCHANGED k
EarlyFail == pc' = "over" /\ stop' = Reason("Err", NoIssue) /\ UNCHANGED k

(* record_stop and limit_stop. *)
record_stop == Push("NonGreen", "none") /\ EarlyStop("Stopped", cur)
limit_stop  == Push("NonGreen", "none") /\ EarlyStop("Limit", cur)

-----------------------------------------------------------------------------
(* plan.md: the issue it was written for, the state of its checkboxes and  *)
(* the issue its trailer names, when the trailer is its last line.         *)

Steps == {"open", "checked", "refusal", "bundle"}
NoPlan == [for |-> NoIssue, steps |-> "absent", trailer |-> NoIssue]
PlanFile == [for : Issues \cup {NoIssue}, steps : Steps \cup {"absent"},
             trailer : Issues \cup {NoIssue}]

plan_is_finalized_for(i) == plan.trailer = i

(* Agent::plan begins: a finalized plan of this issue is kept, any other    *)
(* file is removed before the planner is spawned. A removal that fails is   *)
(* ignored.                                                                 *)
PlanCall(i) ==
    \/ plan_is_finalized_for(i) /\ UNCHANGED <<plan, oldPlan>>
    \/ ~plan_is_finalized_for(i) /\ plan' = NoPlan /\ oldPlan' = FALSE
    \/ /\ ~plan_is_finalized_for(i) /\ plan # NoPlan /\ "io" \in Faults
       /\ oldPlan' = TRUE /\ UNCHANGED plan

(* What lies on disk when Agent::plan returns a plan: the file resumed, or  *)
(* what the planner wrote, finalized or cut short. A planner checks no step. *)
(* A file that was not removed passes for the planner's, and a clean exit   *)
(* stamps the issue's trailer on it.                                        *)
PlannerWrote(i) ==
    IF plan_is_finalized_for(i) THEN {plan}
    ELSE [for : {i}, steps : {"open", "refusal", "bundle"}, trailer : {i, NoIssue}]
         \cup (IF plan = NoPlan THEN {} ELSE {plan, [plan EXCEPT !.trailer = i]})

(* The file now there: one the planner wrote is not an old one.             *)
PlanOnDisk(p) ==
    /\ plan' = p
    /\ oldPlan' = (oldPlan /\ ~(p.for = cur /\ p.trailer \in {cur, NoIssue}))

is_feasible(p) == p.steps = "open"
is_executed(p) == p.steps = "checked"

-----------------------------------------------------------------------------
(* The branch: runner/branch.rs and the restore/close of runner.rs.        *)

RunBranch == IF cfg.mode = "New" THEN run ELSE orig

(* checkout_force discards every uncommitted tracked change.               *)
CheckoutForce(b) == head' = b /\ dirty' = {}

MutantUnreadIsEmpty ==                     \* unwrap_or(0) on the count
    "git" \in Faults \/ commits[run] \subseteq commits[Base]

(* rev_list_count over base..branch; a failed count reads as not empty.    *)
EmptyBranch == commits[run] \subseteq commits[Base]

restore ==
    \/ cfg.mode = "Current" /\ UNCHANGED git
    \/ cfg.mode = "New" /\ "git" \in Faults /\ UNCHANGED git
    \/ /\ cfg.mode = "New"
       /\ CheckoutForce(orig)
       /\ \/ EmptyBranch /\ branches' = branches \ {run}
          \/ (~EmptyBranch \/ "git" \in Faults) /\ UNCHANGED branches
       /\ UNCHANGED commits

MutantCloseAlways(clean) ==                \* every end of a run is taken for clean
    \/ cfg.mode = "Current" /\ UNCHANGED git
    \/ cfg.mode = "New" /\ cfg.dry /\ restore
    \/ /\ cfg.mode = "New" /\ ~cfg.dry
       /\ CheckoutForce(orig) /\ UNCHANGED <<branches, commits>>

close_branch(clean) ==
    \/ cfg.mode = "Current" /\ UNCHANGED git
    \/ cfg.mode = "New" /\ cfg.dry /\ restore
    \/ /\ cfg.mode = "New" /\ ~cfg.dry /\ clean
       /\ \/ CheckoutForce(orig) /\ UNCHANGED <<branches, commits>>
          \/ "git" \in Faults /\ UNCHANGED git
    \/ cfg.mode = "New" /\ ~cfg.dry /\ ~clean /\ UNCHANGED git

fail == EarlyFail /\ restore

-----------------------------------------------------------------------------
(* prepare_branch refuses a tree that is not clean, leaving everything as   *)
(* it was; its .gitignore edit is uncommitted when the base lacks it.       *)
MutantNoCheckout(c) ==                     \* the new branch is cut, not checked out
    /\ dirty = {} /\ UNCHANGED head
    /\ IF c.mode = "New"
         THEN /\ branches' = branches \cup {run + 1}
              /\ commits' = [commits EXCEPT ![run + 1] = commits[Base]]
         ELSE UNCHANGED <<branches, commits>>
    /\ dirty' \in {{}, {NoIssue}}

CutBranch(c) ==
    /\ dirty = {}
    /\ IF c.mode = "New"
         THEN /\ head' = run + 1 /\ branches' = branches \cup {run + 1}
              /\ commits' = [commits EXCEPT ![run + 1] = commits[Base]]
         ELSE UNCHANGED <<head, branches, commits>>
    /\ dirty' \in {{}, {NoIssue}}

prepare_branch(c) ==
    /\ CutBranch(c) /\ orig' = head
    /\ start' = IF c.mode = "New" THEN commits[Base] ELSE commits[head]

(* A run begins over a queue of open issues, with a fresh QueueRun.         *)
Start(c, s) ==
    /\ pc = "idle" /\ run + 1 \in Runs
    /\ \A j \in 1 .. Len(s) : s[j] \notin closed
    /\ pc' = "issue" /\ cfg' = c /\ q' = s /\ k' = 1 /\ run' = run + 1
    /\ stopped' = FALSE /\ clock' = IF c.timed THEN "ahead" ELSE "none"
    /\ prepare_branch(c)
    /\ \/ tags' = tags \cup {run + 1}
       \/ "git" \in Faults /\ UNCHANGED tags
    /\ worked' = <<>> /\ stop' = NoStop
    /\ streak' = 0 /\ moved' = FALSE /\ attempt' = 0
    /\ vouched' = {} /\ ran' = {} /\ stopAt' = "none"
    /\ UNCHANGED <<tracker, files>>

(* The .gitignore edit fails behind the checkout: the process ends there,   *)
(* with no report and on the branch it cut.                                 *)
StartFails(c) ==
    /\ pc = "idle" /\ run + 1 \in Runs /\ "io" \in Faults
    /\ CutBranch(c) /\ run' = run + 1
    /\ UNCHANGED <<pc, cfg, q, k, stopped, clock, process, worked, stop, tracker,
                   orig, start, tags, files, history>>

(* The gates before an issue is touched, in the code's order. *)
HasStopBefore   == "stop-before" \in labels[cur] /\ cur \notin cfg.forced
HasHumanReturn  == "ready-for-human" \in labels[cur]

preflight ==
    /\ pc = "issue" /\ k <= Len(q)
    /\ \/ stopped /\ EarlyStop("Stopped", NoIssue) /\ UNCHANGED worked
       \/ /\ ~stopped /\ clock = "passed"
          /\ EarlyStop("Deadline", NoIssue) /\ UNCHANGED worked
       \/ /\ ~stopped /\ clock # "passed" /\ HasStopBefore
          /\ EarlyStop("StopBefore", cur) /\ UNCHANGED worked
       \/ /\ ~stopped /\ clock # "passed" /\ ~HasStopBefore /\ HasHumanReturn
          /\ Push("Skipped", "HumanReturn") /\ EarlyNext
       \/ /\ ~stopped /\ clock # "passed" /\ ~HasStopBefore /\ ~HasHumanReturn
          /\ pc' = "prepare" /\ UNCHANGED <<k, stop, worked>>
    /\ UNCHANGED <<frame, stopped, clock, process, tracker, git, tags,
                   files, history>>

(* The for loop runs out of issues. *)
QueueDone ==
    /\ pc = "issue" /\ k > Len(q)
    /\ pc' = "teardown"
    /\ UNCHANGED <<frame, k, stopped, clock, process, worked, stop, tracker, git,
                   tags, files, history>>

(* The blocked-by gate. A closed blocker that was split still blocks on its *)
(* open children; an issue never blocks itself.                             *)
open_blockers(i, refs) ==
    {n \in refs \ {i} : n \notin closed} \cup
    {n \in UNION {Children[m] : m \in (refs \ {i}) \cap closed} :
        n \notin closed /\ n # i}

is_human_gate(n) == "ready-for-human" \in labels[n]

(* The refs the gate sees: a failed comment fetch leaves the body's alone.  *)
MutantBodyRefsOnly(i) == {Blockers[i]}     \* the gate runs before the comments arrive

SeenRefs(i) ==
    {Blockers[i] \cup SpecBlockers[i]} \cup
    (IF "tracker" \in Faults THEN {Blockers[i]} ELSE {})

(* The human gates it sees: a failed label fetch reads as agent work.       *)
SeenHuman(open) ==
    IF "tracker" \in Faults THEN SUBSET {n \in open : is_human_gate(n)}
    ELSE {{n \in open : is_human_gate(n)}}

prepare ==
    /\ pc = "prepare"
    /\ \/ \E refs \in SeenRefs(cur) :
            LET open == open_blockers(cur, refs) IN
            \/ /\ open # {}
               /\ \E human \in SeenHuman(open) :
                    IF human = {} THEN Push("Skipped", "BlockedBy")
                                  ELSE Push("Hitl", "none")
               /\ EarlyNext /\ UNCHANGED <<git, plan, oldPlan, streak>>
            \/ /\ open = {}
               /\ pc' = "plan" /\ PlanCall(cur) /\ streak' = 0
               /\ UNCHANGED <<k, stop, worked, git>>
       \/ /\ {"tracker", "io"} \cap Faults # {}
          /\ fail /\ UNCHANGED <<worked, plan, oldPlan, streak>>
    /\ UNCHANGED <<frame, stopped, clock, moved, attempt, tracker, tags, briefs,
                   oldBriefs, vouched, ran, stopAt>>

-----------------------------------------------------------------------------
(* Planning: runner/phases/plan.rs and QueueRun::plan.                      *)

MAX_PLAN_LIMIT_RESUMES == 2

Saturate(n, cap) == IF n < cap THEN n + 1 ELSE n

(* An executor child is spawned for the current issue. *)
Spawn == moved' = FALSE /\ ran' = ran \cup {cur} /\ vouched' = vouched \ {cur}

(* clear_verify_failure, clear_protocol_failure: a brief that cannot be     *)
(* removed stays, with a warning.                                           *)
RemoveBriefs(bs) ==
    \E left \in (IF "io" \in Faults THEN SUBSET (briefs \cap bs) ELSE {{}}) :
        /\ briefs' = (briefs \ bs) \cup left
        /\ oldBriefs' = (oldBriefs \ bs) \cup left

(* Each issue starts with no repair brief on disk. *)
MutantClearVerifyOnly == RemoveBriefs({"verify"})   \* one of the two is forgotten

ClearBriefs == RemoveBriefs({"protocol", "verify"})

(* Agent::plan returned a plan. The verdict of a refusal is posted before   *)
(* QueueRun::plan looks at the operator's stop.                             *)
PostVerdict(p) ==
    \/ p.steps = "bundle" /\ labels' = [labels EXCEPT ![cur] = @ \cup {"needs-split"}]
    \/ (p.steps # "bundle" \/ "tracker" \in Faults) /\ UNCHANGED labels

PlanWritten ==
    /\ pc = "plan"
    /\ \E p \in PlannerWrote(cur) :
        /\ PlanOnDisk(p) /\ PostVerdict(p)
        /\ \/ /\ stopped
              /\ record_stop /\ UNCHANGED <<briefs, oldBriefs, moved, streak, vouched, ran>>
           \/ /\ ~stopped /\ p.steps \in {"refusal", "bundle"}
              /\ Push(IF p.steps = "bundle" THEN "NeedsSplit" ELSE "Infeasible", "none")
              /\ EarlyNext
              /\ UNCHANGED <<briefs, oldBriefs, moved, streak, vouched, ran>>
           \/ /\ ~stopped /\ p.steps \in {"open", "checked"} /\ cfg.dry
              /\ Push("Planned", "none") /\ EarlyNext
              /\ UNCHANGED <<briefs, oldBriefs, moved, streak, vouched, ran>>
           \/ /\ ~stopped /\ is_executed(p) /\ ~cfg.dry
              /\ pc' = "lint" /\ ClearBriefs
              /\ UNCHANGED <<k, stop, worked, moved, streak, vouched, ran>>
           \/ /\ ~stopped /\ is_feasible(p) /\ ~cfg.dry
              /\ pc' = "execute" /\ Spawn /\ ClearBriefs
              /\ streak' = 0
              /\ UNCHANGED <<k, stop, worked>>
    /\ UNCHANGED <<frame, stopped, clock, attempt, closed, git, tags, stopAt>>

(* A usage limit cut the planner, and there is no plan: stop the run, or    *)
(* wait for the reset.                                                      *)
wait_out_plan_limit ==
    /\ pc = "plan" /\ plan = NoPlan
    /\ \E synthetic \in BOOLEAN :
        LET n == Saturate(streak, MAX_PLAN_LIMIT_RESUMES + 1) IN
        /\ streak' = n
        /\ IF cfg.stopPlan \/ (~synthetic /\ n > MAX_PLAN_LIMIT_RESUMES)
             THEN IF stopped THEN record_stop ELSE limit_stop
             ELSE pc' = "planwait" /\ UNCHANGED <<k, stop, worked>>
    /\ UNCHANGED <<frame, stopped, clock, moved, attempt, tracker, git, tags, files,
                   vouched, ran, stopAt>>

(* WallClock::wait_for_reset. The stop, the deadline, and a reset that lies *)
(* beyond a deadline still ahead all read as DeadlinePassed.                *)
DeadlinePassed == stopped \/ clock \in {"ahead", "passed"}
MutantSleepsOn == clock # "passed"         \* the sleep does not look at the stop
Resumed        == ~stopped /\ clock # "passed"

PlanWaitCut ==
    /\ pc = "planwait" /\ DeadlinePassed
    /\ IF stopped THEN record_stop
                  ELSE EarlyStop("Deadline", NoIssue) /\ UNCHANGED worked
    /\ UNCHANGED <<frame, stopped, clock, process, tracker, git, tags,
                   files, history>>

Replan ==
    /\ pc = "planwait" /\ Resumed
    /\ pc' = "plan" /\ PlanCall(cur)
    /\ UNCHANGED <<frame, k, stopped, clock, process, worked, stop, tracker, git,
                   tags, briefs, oldBriefs, history>>

(* Agent::plan failed: a planner that left no usable plan, or one the       *)
(* operator's stop reaped.                                                  *)
PlanError ==
    /\ pc = "plan" /\ ~plan_is_finalized_for(cur)
    /\ stopped \/ "agent" \in Faults
    /\ \E p \in {plan} \cup PlannerWrote(cur) : PlanOnDisk(p)
    /\ IF stopped THEN record_stop /\ UNCHANGED git
                  ELSE fail /\ UNCHANGED worked
    /\ UNCHANGED <<frame, stopped, clock, process, tracker, tags, briefs, oldBriefs,
                   history>>

-----------------------------------------------------------------------------
(* Execution: runner/phases/execute.rs and QueueRun::execute.               *)

NO_COMMIT_CAP == 2
Limits   == {"LimitNoReset", "LimitAt"}     \* Outcome::Limit(None), Limit(Some(_))
Outcomes == {"Done", "Blocked", "Timeout", "Stuck"} \cup Limits

(* What an executor session does to the tree and to plan.md while it runs.  *)
AgentCommits ==
    /\ pc \in Sessions
    /\ commits' = [commits EXCEPT ![head] = @ \cup {<<run, cur>>}]
    /\ dirty' = {} /\ moved' = TRUE
    /\ UNCHANGED <<pc, frame, k, stopped, clock, streak, attempt, worked, stop,
                   tracker, head, branches, tags, files, history>>

AgentEdits ==
    /\ pc \in Sessions
    /\ dirty' = dirty \cup {cur}
    /\ UNCHANGED <<pc, frame, k, stopped, clock, process, worked, stop, tracker,
                   head, branches, commits, tags, files, history>>

AgentWritesPlan ==
    /\ pc \in Sessions
    /\ plan' \in {[plan EXCEPT !.steps = "checked"], [plan EXCEPT !.trailer = NoIssue]}
    /\ UNCHANGED <<pc, frame, k, stopped, clock, process, worked, stop, tracker,
                   git, tags, briefs, oldPlan, oldBriefs, history>>

(* The streak after one more execute; an unread SHA leaves it alone.        *)
advance_streak(read) ==
    IF ~read THEN streak
    ELSE IF moved THEN 0 ELSE Saturate(streak, NO_COMMIT_CAP)

non_green_stop(o, deadline_cut) ==
    IF stopped THEN EarlyStop("Stopped", cur)
    ELSE IF deadline_cut THEN EarlyStop("Deadline", NoIssue)
    ELSE IF o \in Limits THEN EarlyStop("Limit", cur)
    ELSE EarlyStop("NonGreen", cur)

non_green(o, deadline_cut) ==
    /\ Push(IF o = "Blocked" THEN "Blocked" ELSE "NonGreen", "none")
    /\ non_green_stop(o, deadline_cut)

(* One execute() returned; the stop is read before the resume decision.     *)
ExecReturn(o) ==
    /\ pc = "execute"
    /\ \E read \in (IF "git" \in Faults THEN BOOLEAN ELSE {TRUE}) :
        LET n == advance_streak(read) IN
        /\ streak' = n
        /\ \/ stopped /\ o = "Done" /\ record_stop
           \/ stopped /\ o # "Done" /\ non_green(o, FALSE)
           \/ /\ ~stopped /\ o = "Done"
              /\ pc' = "lint" /\ UNCHANGED <<k, stop, worked>>
           \/ /\ ~stopped /\ o \in Limits /\ ~cfg.stopExec
              /\ IF o = "LimitAt" /\ n >= NO_COMMIT_CAP
                   THEN non_green(o, FALSE)
                   ELSE pc' = "execwait" /\ UNCHANGED <<k, stop, worked>>
           \/ /\ ~stopped /\ o # "Done" /\ (o \notin Limits \/ cfg.stopExec)
              /\ non_green(o, FALSE)
    /\ UNCHANGED <<frame, stopped, clock, moved, attempt, tracker, git, tags, files,
                   vouched, ran, stopAt>>

ExecWaitCut ==
    /\ pc = "execwait" /\ DeadlinePassed
    /\ non_green("LimitAt", TRUE)
    /\ UNCHANGED <<frame, stopped, clock, process, tracker, git, tags,
                   files, history>>

(* The reset arrived: execute() again over the same plan.md, never plan().  *)
Reexecute ==
    /\ pc = "execwait" /\ Resumed
    /\ pc' = "execute" /\ Spawn
    /\ UNCHANGED <<frame, k, stopped, clock, streak, attempt, worked, stop, tracker,
                   git, tags, files, stopAt>>

(* execute() failed. A refused session (HooksUnproven) restores the repo;   *)
(* every other error leaves it as it is, a gate's included.                 *)
ExecError ==
    /\ pc \in Sessions /\ "agent" \in Faults
    /\ \/ pc = "execute" /\ fail
       \/ EarlyFail /\ UNCHANGED git
    /\ UNCHANGED <<frame, stopped, clock, process, worked, tracker, tags,
                   files, history>>

-----------------------------------------------------------------------------
(* The protocol gate: runner/phases/protocol.rs.                            *)

LintVerdicts == IF plan.steps = "checked" THEN BOOLEAN ELSE {FALSE}

(* Writing a brief is best-effort. *)
WriteBrief(b) ==
    \/ briefs' = briefs \cup {b} /\ oldBriefs' = oldBriefs \ {b}
    \/ "io" \in Faults /\ UNCHANGED <<briefs, oldBriefs>>

protocol_gate ==
    /\ pc = "lint"
    /\ \E passed \in LintVerdicts :
        IF passed
          THEN /\ pc' = "resolve" /\ RemoveBriefs({"protocol"})
               /\ UNCHANGED <<moved, vouched, ran>>
          ELSE pc' = "bounce" /\ WriteBrief("protocol") /\ Spawn
    /\ UNCHANGED <<frame, k, stopped, clock, streak, attempt, worked, stop, tracker,
                   git, tags, plan, oldPlan, stopAt>>

(* The one bounce came back. Whatever the second lint says is final.        *)
BounceReturn(o) ==
    /\ pc = "bounce"
    /\ RemoveBriefs({"protocol"})
    /\ IF o \in Limits THEN limit_stop
       ELSE pc' = "resolve" /\ UNCHANGED <<k, stop, worked>>
    /\ UNCHANGED <<frame, stopped, clock, process, tracker, git, tags, plan, oldPlan,
                   history>>

-----------------------------------------------------------------------------
(* The verify gate: runner/phases/verify.rs and QueueRun::verify.           *)

VERIFY_MAX_REPAIRS == 2
VerifyPlan == {"Run", "OptedOut", "Invalid", "NoGate"}

park_for_human ==
    /\ \/ labels' = [labels EXCEPT ![cur] = @ \cup {"ready-for-human"}]
       \/ "tracker" \in Faults /\ UNCHANGED labels
    /\ Push("Done", "none") /\ EarlyNext

MutantFailedUnrecorded == EarlyNext /\ UNCHANGED worked   \* the miss is not pushed

VerifyFailed == Push("Skipped", "VerifyFailed") /\ EarlyNext

MutantOneRepairMore == attempt > VERIFY_MAX_REPAIRS

RepairsSpent == attempt >= VERIFY_MAX_REPAIRS

resolve_verify(g) ==
    /\ pc = "resolve"
    /\ \/ /\ g = "Run" /\ pc' = "gate" /\ attempt' = 0
          /\ UNCHANGED <<k, stop, worked, labels, vouched>>
       \/ /\ g = "OptedOut" \/ (g = "NoGate" /\ ~cfg.requireGate)
          /\ pc' = "close" /\ vouched' = vouched \cup {cur}
          /\ UNCHANGED <<k, stop, worked, labels, attempt>>
       \/ g = "Invalid" /\ VerifyFailed /\ UNCHANGED <<labels, attempt, vouched>>
       \/ /\ g = "NoGate" /\ cfg.requireGate
          /\ park_for_human /\ UNCHANGED <<attempt, vouched>>
    /\ UNCHANGED <<frame, stopped, clock, streak, moved, closed, git, tags, files,
                   ran, stopAt>>

(* The gate's commands ended: they passed, one failed (or ran out of time), *)
(* one could not be spawned, or the operator's stop cut one short, which    *)
(* reads as a failure like any other.                                       *)
GateReports == {"passed", "failed", "spawn_failed"} \cup (IF stopped THEN {"cut"} ELSE {})

run_with_repairs(r) ==
    /\ pc = "gate" /\ r \in GateReports
    /\ \/ /\ r = "passed" /\ pc' = "close"
          /\ RemoveBriefs({"verify"}) /\ vouched' = vouched \cup {cur}
          /\ UNCHANGED <<k, stop, worked, attempt, moved, ran>>
       \/ /\ r = "spawn_failed" \/ (r # "passed" /\ RepairsSpent)
          /\ VerifyFailed /\ UNCHANGED <<briefs, oldBriefs, attempt, moved, vouched, ran>>
       \/ /\ r \in {"failed", "cut"} /\ ~RepairsSpent
          /\ attempt' = attempt + 1 /\ pc' = "repair"
          /\ WriteBrief("verify") /\ Spawn
          /\ UNCHANGED <<k, stop, worked>>
    /\ stopAt' = IF r = "cut" THEN "cut" ELSE stopAt
    /\ UNCHANGED <<frame, stopped, clock, streak, tracker, git, tags, plan, oldPlan>>

(* A repair came back: the gate decides, never the agent's word.            *)
MutantTrustsRepair(o) ==                   \* a repair's own Done closes the issue
    /\ pc = "repair"
    /\ IF o \in Limits THEN limit_stop
       ELSE pc' = (IF o = "Done" THEN "close" ELSE "gate") /\ UNCHANGED <<k, stop, worked>>
    /\ UNCHANGED <<frame, stopped, clock, process, tracker, git, tags, files,
                   history>>

RepairReturn(o) ==
    /\ pc = "repair"
    /\ IF o \in Limits THEN limit_stop
       ELSE pc' = "gate" /\ UNCHANGED <<k, stop, worked>>
    /\ UNCHANGED <<frame, stopped, clock, process, tracker, git, tags, files,
                   history>>

-----------------------------------------------------------------------------
(* The close: runner/phases/close.rs.                                       *)

close_and_record ==
    /\ pc = "close"
    /\ \/ /\ closed' = closed \cup {cur}
          /\ worked' = Append(worked, result(cur, "Done", "none", TRUE))
          /\ \/ labels' = [labels EXCEPT ![cur] = @ \cup {"needs-human-review"}]
             \/ UNCHANGED labels
          /\ pc' = "publish" /\ UNCHANGED <<k, stop>>
       \/ "tracker" \in Faults /\ EarlyFail /\ UNCHANGED <<tracker, worked>>
    /\ UNCHANGED <<frame, stopped, clock, process, git, tags, files, history>>

(* Evidence and handoff are posted after the close; an error is fatal.      *)
publish_plan_record ==
    /\ pc = "publish"
    /\ \/ EarlyNext
       \/ "tracker" \in Faults /\ EarlyFail
    /\ UNCHANGED <<frame, stopped, clock, process, worked, tracker, git, tags,
                   files, history>>

-----------------------------------------------------------------------------
(* The end of run_queue_with. A failed commit count reads as zero.          *)

Added == commits[RunBranch] \ start

drop_undo_tag ==
    \/ tags' = tags \ {run}
    \/ "git" \in Faults /\ UNCHANGED tags

teardown ==
    /\ pc = "teardown"
    /\ \/ (Added = {} \/ "git" \in Faults) /\ drop_undo_tag
       \/ Added # {} /\ UNCHANGED tags
    /\ close_branch(stop.kind = "none")
    /\ pc' = "over"
    /\ UNCHANGED <<frame, k, stopped, clock, process, worked, stop, tracker,
                   files, history>>

-----------------------------------------------------------------------------
(* The world around the run.                                                *)

(* stop::request: the flag goes up and never comes down in this process.    *)
request ==
    /\ pc \in Live /\ ~stopped
    /\ stopped' = TRUE /\ stopAt' = pc
    /\ UNCHANGED <<pc, frame, k, clock, process, worked, stop, tracker, git, tags,
                   files, vouched, ran>>

DeadlinePasses ==
    /\ pc \in Live /\ clock = "ahead"
    /\ clock' = "passed"
    /\ UNCHANGED <<pc, frame, k, stopped, process, worked, stop, tracker, git, tags,
                   files, history>>

(* The configuration of no run in particular. *)
AnyConfig == [mode |-> "Current", dry |-> TRUE, stopPlan |-> FALSE,
              stopExec |-> FALSE, requireGate |-> FALSE, timed |-> FALSE,
              forced |-> {}]

(* The process ends, after its report or killed anywhere before it: nothing  *)
(* it would have done next happens, and only the disk and the tracker stay.  *)
Exit ==
    /\ pc = "over" \/ (pc \in Live /\ "crash" \in Faults)
    /\ pc' = "idle" /\ cfg' = AnyConfig /\ q' = <<>> /\ k' = 1
    /\ stopped' = FALSE /\ clock' = "none"
    /\ streak' = 0 /\ moved' = FALSE /\ attempt' = 0 /\ worked' = <<>> /\ stop' = NoStop
    /\ orig' = Base /\ start' = {}
    /\ vouched' = {} /\ ran' = {} /\ stopAt' = "none"
    /\ UNCHANGED <<run, tracker, git, tags, files>>

(* A person closes a ticket that is not the run's to close.                 *)
PersonCloses(n) ==
    /\ n \notin closed
    /\ closed' = closed \cup {n}
    /\ UNCHANGED <<pc, frame, k, stopped, clock, process, worked, stop, labels, git,
                   tags, files, history>>

(* Between runs the operator commits, stashes or drops what lies in the tree. *)
OperatorCleans ==
    /\ pc \in Resting /\ dirty # {}
    /\ dirty' = {}
    /\ UNCHANGED <<pc, frame, k, stopped, clock, process, worked, stop, tracker,
                   head, branches, commits, tags, files, history>>

-----------------------------------------------------------------------------

Init ==
    /\ pc = "idle" /\ cfg = AnyConfig /\ q = <<>> /\ k = 1
    /\ stopped = FALSE /\ clock = "none"
    /\ streak = 0 /\ moved = FALSE /\ attempt = 0 /\ worked = <<>> /\ stop = NoStop
    /\ orig = Base /\ start = {}
    /\ vouched = {} /\ ran = {} /\ stopAt = "none"
    /\ run = 0 /\ closed = {} /\ labels = InitLabels
    /\ head = Base /\ branches = {Base}
    /\ commits = [b \in Branches |-> {}] /\ dirty = {} /\ tags = {}
    /\ plan = NoPlan /\ briefs = {} /\ oldPlan = FALSE /\ oldBriefs = {}

Agent == AgentCommits \/ AgentEdits \/ AgentWritesPlan

(* The steps the run itself takes, its children's returns included. *)
Run ==
    \/ preflight \/ QueueDone \/ prepare
    \/ PlanWritten \/ wait_out_plan_limit \/ PlanWaitCut \/ Replan \/ PlanError
    \/ \E o \in Outcomes : ExecReturn(o) \/ BounceReturn(o) \/ RepairReturn(o)
    \/ ExecWaitCut \/ Reexecute \/ ExecError
    \/ protocol_gate
    \/ \E g \in VerifyPlan : resolve_verify(g)
    \/ \E r \in {"passed", "failed", "spawn_failed", "cut"} : run_with_repairs(r)
    \/ close_and_record \/ publish_plan_record \/ teardown

World ==
    \/ \E c \in Configs, s \in Queues : Start(c, s)
    \/ \E c \in Configs : StartFails(c)
    \/ request \/ DeadlinePasses \/ Exit \/ OperatorCleans
    \/ \E n \in External : PersonCloses(n)

Next == Run \/ Agent \/ World

Spec == Init /\ [][Next]_vars

(* Once the flag is up the run keeps moving: the headless pump (500 ms), the *)
(* gate's wait (50 ms) and the reset wait (1 s) all poll it, so whatever the *)
(* run is waiting for returns.                                               *)
FairSpec == Spec /\ WF_vars(stopped /\ Run)

-----------------------------------------------------------------------------
(* Properties.                                                               *)

ProcessType ==
    /\ pc \in Resting \cup Live
    /\ k \in Nat \ {0}
    /\ stopped \in BOOLEAN /\ clock \in {"none", "ahead", "passed"}
    /\ streak \in 0 .. MAX_PLAN_LIMIT_RESUMES + 1 /\ moved \in BOOLEAN
    /\ attempt \in 0 .. VERIFY_MAX_REPAIRS
FrameType ==
    /\ cfg \in ConfigType /\ q \in Seq(Issues) /\ run \in 0 .. MaxRuns
    /\ orig \in Branches /\ start \subseteq Commits
ReportType  == worked \in Seq(IssueResult) /\ stop \in StopReason
TrackerType == closed \subseteq Tickets /\ labels \in [Tickets -> SUBSET Labels]
RepoType ==
    /\ head \in Branches /\ branches \subseteq Branches
    /\ commits \in [Branches -> SUBSET Commits]
    /\ dirty \subseteq Issues \cup {NoIssue}
TagsType    == tags \subseteq Runs
FilesType   ==
    /\ plan \in PlanFile /\ briefs \subseteq {"protocol", "verify"}
    /\ oldPlan \in BOOLEAN /\ oldBriefs \subseteq briefs
HistoryType ==
    /\ vouched \subseteq Issues /\ ran \subseteq Issues
    /\ stopAt \in Live \cup {"none", "cut"}

TypeOK == /\ ProcessType /\ FrameType /\ ReportType /\ TrackerType
          /\ RepoType /\ TagsType /\ FilesType /\ HistoryType

(* An issue the run closed was vouched for after the last executor session  *)
(* that touched it: the gate was seen passing, or there was no gate to run.  *)
(* The protocol bounce, the repairs and the resumes are all sessions that    *)
(* take an earlier acceptance back (verify_gate, runner/phases/verify.rs).   *)
ClosedWasVouched ==
    \A j \in 1 .. Len(worked) : worked[j].closed => worked[j].issue \in vouched

(* The report never skips, repeats or reorders an issue, and a run that ends *)
(* without a stop reason has one result for every issue it was handed: no    *)
(* Early path of QueueRun::issue forgets to record, or records twice.        *)
ReportFollowsQueue ==
    /\ Len(worked) <= Len(q)
    /\ \A j \in 1 .. Len(worked) : worked[j].issue = q[j]
    /\ pc = "over" /\ stop.kind = "none" => Len(worked) = Len(q)

(* A stop that lands while a planner, an executor or a reset wait is in      *)
(* flight never costs a session's uncommitted work, whatever limit, deadline *)
(* or verdict comes back with it: only a session that commits it, or the     *)
(* operator between runs, takes it away. A fatal error's restore is the one  *)
(* exception (docs/adr/0054 D5).                                             *)
StopKeepsWork ==
    [][ /\ (dirty \ dirty') \cap Issues # {}
        /\ stopAt \in {"plan", "planwait", "execute", "execwait"}
        => pc \in Sessions \cup Resting \/ stop'.kind = "Err" ]_vars

(* No executor ever worked on an issue whose blockers are open: children of  *)
(* a split blocker count, an issue never blocks itself, and a failed fetch   *)
(* may lose the refs of the comment but never those of the body.             *)
WorkedIssuesUnblocked ==
    \A i \in ran :
        open_blockers(i, Blockers[i] \cup
                         (IF "tracker" \in Faults THEN {} ELSE SpecBlockers[i])) = {}

(* Committed work is never lost: whatever branch restore deletes, each       *)
(* commit any run made stays on a branch that exists.                        *)
CommitsReachable ==
    \A b \in Branches : commits[b] \subseteq UNION {commits[x] : x \in branches}

(* In New mode a run adds commits to its own branch alone, and it is on that *)
(* branch whenever a session runs: the operator's branch and the base are    *)
(* never written (prepare_branch, runner/branch.rs).                         *)
OnlyRunBranchGrows ==
    [][ cfg.mode = "New" /\ pc \in Live
        => \A b \in Branches \ {run} : commits'[b] = commits[b] ]_vars

(* The plan an executor, a lint, a gate or a close works from was written    *)
(* for the issue in hand, also when plan.md survived an earlier, killed run  *)
(* (plan_is_finalized_for, ralphy-adapter-support/src/resume.rs), unless an  *)
(* old plan.md could not be removed (remove_stale_file ignores that).        *)
PlanIsForTheIssue ==
    pc \in Sessions \cup {"execwait", "lint", "resolve", "gate", "close"}
        => plan.for = cur \/ oldPlan

(* A session reads the brief of its own gate only: none on the first execute *)
(* or a resume, the protocol brief on the bounce, the verify brief on a      *)
(* repair, whatever an earlier issue or a killed run left behind             *)
(* (execute_phase, runner/phases/execute.rs), and besides it only a brief    *)
(* whose own removal failed (runner/artifacts.rs warns and goes on).         *)
BriefMatchesSession ==
    /\ pc = "execute" => briefs \subseteq oldBriefs
    /\ pc = "bounce"  => briefs \subseteq {"protocol"} \cup oldBriefs
    /\ pc = "repair"  => briefs \subseteq {"verify"} \cup oldBriefs

(* What a session reads in .ralphy/ is about the issue and the gate in hand, *)
(* over every way an earlier issue or a killed run leaves files there, but   *)
(* for a file that was to be removed and could not be.                       *)
SessionReadsItsOwn == PlanIsForTheIssue /\ BriefMatchesSession

(* An operator's stop ends the run, from wherever the loop stands: no wait,  *)
(* resume, repair or replan loop outlives it (docs/adr/0054 D3).             *)
StopEndsRun == stopped ~> pc \in Resting

-----------------------------------------------------------------------------
(* The contract: what RunContract calls a run, seen in this state.           *)

Phase == IF pc \in Resting THEN pc ELSE "running"

(* What the contract says of a result: its issue and whether it was closed.  *)
Summary(w) == [j \in 1 .. Len(w) |-> [issue |-> w[j].issue, closed |-> w[j].closed]]

Contract == INSTANCE RunContract WITH
    Reasons <- StopKind,
    phase <- Phase, queue <- q, report <- Summary(worked), reason <- stop.kind,
    done <- closed \cap Issues

(* The run keeps its contract with the reader of the report: one result per  *)
(* issue in queue order, closed on the tracker exactly when reported closed, *)
(* nothing recorded after the run halted (run_queue_with and QueueRun::issue, *)
(* with every early return of the phases).                                   *)
KeepsContract == Contract!Spec

-----------------------------------------------------------------------------
(* What the documentation says, and the code does not do.                    *)

(* runner/phases/plan.rs: a plan found executed "goes straight to the gates, *)
(* which decide whether the work holds", so an issue closed that way has its *)
(* work on the branch its close comment names.                               *)
ClosedWorkIsOnBranch ==
    \A j \in 1 .. Len(worked) :
        LET i == worked[j].issue
            HoldsWork(b) == \E r \in Runs : <<r, i>> \in commits[b]
        IN  worked[j].closed /\ i \notin ran /\ (\E b \in branches : HoldsWork(b))
                => HoldsWork(RunBranch)

=============================================================================
