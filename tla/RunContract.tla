---------------------------- MODULE RunContract ----------------------------
(***************************************************************************)
(* What a run promises the reader of its QueueReport, whatever happens      *)
(* inside: the queue is worked in order, each issue gets one result, an     *)
(* issue of the queue is closed on the tracker in the very step that        *)
(* reports it closed, nothing is recorded once the run has halted, and a    *)
(* run that ends for no reason has a result for every issue.                *)
(***************************************************************************)
EXTENDS Naturals, Sequences

CONSTANTS
    Issues,     \* the issues a queue may hold
    Queues,     \* the queues a run may be handed
    Reasons     \* why a run may halt; "none" while it has not

VARIABLES
    phase,      \* "idle", "running" or "over"
    queue, report, reason,
    done        \* the issues closed on the tracker

vars == <<phase, queue, report, reason, done>>

Results == [issue : Issues, closed : BOOLEAN]

(* The result of the next issue of the queue. *)
NextResult(r) ==
    Len(report) < Len(queue) /\ r.issue = queue[Len(report) + 1]

Begin(s) ==
    /\ phase = "idle" /\ \A j \in 1 .. Len(s) : s[j] \notin done
    /\ phase' = "running" /\ queue' = s /\ report' = <<>> /\ reason' = "none"
    /\ UNCHANGED done

Record(r) ==
    /\ phase = "running" /\ reason = "none" /\ NextResult(r) /\ ~r.closed
    /\ report' = Append(report, r)
    /\ UNCHANGED <<phase, queue, reason, done>>

Close(r) ==
    /\ phase = "running" /\ reason = "none" /\ NextResult(r) /\ r.closed
    /\ report' = Append(report, r) /\ done' = done \cup {r.issue}
    /\ UNCHANGED <<phase, queue, reason>>

(* The run halts for a reason, with or without a result for the issue in hand. *)
Halt(why) ==
    /\ phase = "running" /\ reason = "none" /\ why # "none"
    /\ reason' = why
    /\ \/ UNCHANGED report
       \/ \E r \in Results : NextResult(r) /\ ~r.closed /\ report' = Append(report, r)
    /\ UNCHANGED <<phase, queue, done>>

Finish ==
    /\ phase = "running" /\ (reason # "none" \/ Len(report) = Len(queue))
    /\ phase' = "over"
    /\ UNCHANGED <<queue, report, reason, done>>

(* A fatal error returns at once. *)
Fail ==
    /\ phase = "running" /\ reason = "none"
    /\ phase' = "over" /\ reason' = "Err"
    /\ UNCHANGED <<queue, report, done>>

(* The process is gone; the tracker stays. *)
Leave ==
    /\ phase # "idle"
    /\ phase' = "idle" /\ queue' = <<>> /\ report' = <<>> /\ reason' = "none"
    /\ UNCHANGED done

Init ==
    phase = "idle" /\ queue = <<>> /\ report = <<>> /\ reason = "none" /\ done = {}

Next ==
    \/ \E s \in Queues : Begin(s)
    \/ \E r \in Results : Record(r) \/ Close(r)
    \/ \E why \in Reasons : Halt(why)
    \/ Finish \/ Fail \/ Leave

Spec == Init /\ [][Next]_vars

=============================================================================
