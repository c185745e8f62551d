------------------------------ MODULE RunPresence ------------------------------
(***************************************************************************)
(* How the `ralphy' processes of one repository see each other: the        *)
(* presence lock `.ralphy/run.lock', the snapshot documents and the stop   *)
(* sentinels of `.ralphy/runstate/', each a file that several processes    *)
(* read and write with no lock of its own.                                 *)
(*                                                                         *)
(*   - a run process inspects the lock, takes it, starts its snapshot      *)
(*     worker, works, joins the worker and drops its two guards            *)
(*     (ralphy-cli/src/run.rs, run/lifecycle.rs, runlock.rs);              *)
(*   - the snapshot worker is a thread of that process: it publishes the   *)
(*     run's document and turns the run's sentinel into the process' stop  *)
(*     flag (delivery.rs, run/snapshot_engine.rs);                         *)
(*   - a reader lists the documents and sweeps those of dead processes:    *)
(*     `ralphy stop', which then writes a sentinel, and the daemon's       *)
(*     attention tick (ralphy-run-snapshot/src/read.rs, stop.rs).          *)
(*                                                                         *)
(* A `ralphy triage' is a run that leaves from "locked": it takes the lock *)
(* the same way and publishes no document.                                 *)
(***************************************************************************)
EXTENDS FiniteSets

CONSTANTS
    Runs,      \* the run processes, each with a runid of its own
    Sweepers,  \* the readers that only list, again and again
    Stops,     \* the `ralphy stop' invocations, one listing each
    Pids,      \* the process numbers of the machine
    NoPid,     \* no lock file; no process yet
    Torn,      \* a lock file truncated and not yet written
    NoRun,     \* no --runid
    PidReuse,  \* may the machine give the number of an ended run away again?
    Faults     \* which of AllFaults may happen

AllFaults == {"disk", "read", "spawn", "detach", "kill", "kill_reader"}

Readers == Sweepers \cup Stops

ASSUME PresenceAssumption ==
    /\ Pids \cap {NoPid, Torn} = {} /\ NoPid # Torn
    /\ NoRun \notin Runs
    /\ PidReuse \in BOOLEAN
    /\ Faults \subseteq AllFaults

VARIABLES
    run,       \* where each run process is
    pid,       \* its process number, kept after its end: the files name it
    others,    \* the numbers that unrelated living processes have
    work,      \* its snapshot worker
    flag,      \* the runs whose process-wide stop flag is up
    lock,      \* run.lock: NoPid, Torn, or the number written in it
    docs,      \* the runs that have a document in runstate/
    sentinels, \* the runs that have a sentinel in runstate/
    kept,      \* the runs whose run folder has the final snapshot
    scan,      \* where each reader is in its listing
    fate,      \* history: how the run came to its end
    overlap    \* history: the runs that lived beside another run

vars == <<run, pid, others, work, flag, lock, docs, sentinels, kept, scan, fate, overlap>>
files == <<lock, docs, sentinels, kept>>

\* The phases of a run process that are over, or not begun.
Over == {"skipped", "gone"}
Living == {"acquire", "write", "locked", "working", "joining",
           "keep", "drop_doc", "drop_stop", "unlock", "exit"}
Phases == {"new"} \cup Living \cup Over

\* From the write of run.lock to the drop of its guard.
Holding == {"locked", "working", "joining", "keep", "drop_doc", "drop_stop", "unlock"}

Fates == {"none", "joined", "spoiled", "detached", "killed"}

\* `call' is the publish that is under way, `final' the worker's copy of the
\* shutdown flag, `last' whether a document was ever written.
WorkerType == [at: {"none", "poll", "tick", "publish", "rename", "over"},
               call: {"start", "tick", "finish"}, final: BOOLEAN, last: BOOLEAN]

NoWorker == [at |-> "none", call |-> "start", final |-> FALSE, last |-> FALSE]

\* A worker that ended, or whose process did.
Ended(w) == [NoWorker EXCEPT !.at = "over", !.last = w.last]

\* `seen' is history: the documents that were there when the listing began.
ScanType == [at: {"idle", "visit", "check", "sweep_doc", "sweep_stop", "write", "done"},
             want: Runs \cup {NoRun}, todo: SUBSET Runs, doc: Runs \cup {NoRun},
             live: SUBSET Runs, unreadable: SUBSET Runs, seen: SUBSET Runs]

\* Where a reader has a document in hand.
AtDocument == {"check", "sweep_doc", "sweep_stop", "write"}

Idle == [at |-> "idle", want |-> NoRun, todo |-> {}, doc |-> NoRun, live |-> {},
         unreadable |-> {}, seen |-> {}]
Done == [Idle EXCEPT !.at = "done"]

TypeOK ==
    /\ run \in [Runs -> Phases]
    /\ pid \in [Runs -> Pids \cup {NoPid}]
    /\ others \subseteq Pids
    /\ work \in [Runs -> WorkerType]
    /\ flag \subseteq Runs
    /\ lock \in Pids \cup {NoPid, Torn}
    /\ docs \subseteq Runs /\ sentinels \subseteq Runs /\ kept \subseteq Runs
    /\ scan \in [Readers -> ScanType]
    /\ fate \in [Runs -> Fates]
    /\ overlap \subseteq Runs
    /\ \A r \in Runs : run[r] # "new" => pid[r] \in Pids
    /\ \A x \in Readers : scan[x].at \in AtDocument => scan[x].doc \in Runs

Init ==
    /\ run = [r \in Runs |-> "new"]
    /\ pid = [r \in Runs |-> NoPid]
    /\ others = {}
    /\ work = [r \in Runs |-> NoWorker]
    /\ flag = {}
    /\ lock = NoPid
    /\ docs = {} /\ sentinels = {} /\ kept = {}
    /\ scan = [x \in Readers |-> Idle]
    /\ fate = [r \in Runs |-> "none"]
    /\ overlap = {}

--------------------------------------------------------------------------------
(* The run process. *)

LivingRuns == {r \in Runs : run[r] \in Living}

\* pid_is_alive: the number belongs to some living process.
pid_is_alive(p) == p \in others \/ \E r \in LivingRuns : pid[r] = p

\* inspect, as the process with number p sees it: LockState::HeldAlive.
HeldAlive(p) == lock \in Pids /\ lock # p /\ pid_is_alive(lock)

\* The numbers the machine may give to a new process.
FreePids == {p \in Pids : /\ ~pid_is_alive(p)
                          /\ PidReuse \/ \A r \in Runs : pid[r] # p}

Goes(r, phase) == run' = [run EXCEPT ![r] = phase]

\* `ralphy run' starts and inspects the lock: --if-idle defers to a live one.
Invoke(r) ==
    /\ run[r] = "new"
    /\ \E p \in FreePids, if_idle \in BOOLEAN :
         /\ pid' = [pid EXCEPT ![r] = p]
         /\ IF if_idle /\ HeldAlive(p)
              THEN Goes(r, "skipped") /\ UNCHANGED overlap
              ELSE /\ Goes(r, "acquire")
                   /\ overlap' = IF LivingRuns = {} THEN overlap
                                 ELSE overlap \cup LivingRuns \cup {r}
    /\ UNCHANGED <<others, work, flag, files, scan, fate>>

\* runlock::acquire is one fs::write: the file is truncated, then written.
\* A failure ends the run with no guard in place.
AcquireOpen(r) ==
    /\ run[r] = "acquire"
    /\ \/ lock' = Torn /\ Goes(r, "write")
       \/ "disk" \in Faults /\ Goes(r, "gone") /\ UNCHANGED lock
    /\ UNCHANGED <<pid, others, work, flag, docs, sentinels, kept, scan, fate, overlap>>

AcquireWrite(r) ==
    /\ run[r] = "write"
    /\ \/ lock' = pid[r] /\ Goes(r, "locked")
       \/ "disk" \in Faults /\ Goes(r, "gone") /\ UNCHANGED lock
    /\ UNCHANGED <<pid, others, work, flag, docs, sentinels, kept, scan, fate, overlap>>

\* An error before the workers start (the queue build, an effort level): the
\* `?' drops the guards.
EarlyExit(r) ==
    /\ run[r] = "locked"
    /\ Goes(r, "keep")
    /\ UNCHANGED <<pid, others, work, flag, files, scan, fate, overlap>>

\* start_delivery, for the snapshot worker. A failed spawn leaves the run
\* without one.
StartDelivery(r) ==
    /\ run[r] = "locked"
    /\ Goes(r, "working")
    /\ \/ work' = [work EXCEPT ![r].at = "publish"]
       \/ "spawn" \in Faults /\ UNCHANGED work
    /\ UNCHANGED <<pid, others, flag, files, scan, fate, overlap>>

\* The queue is over, for whatever reason: finalize_run signals the shutdown.
Finish(r) ==
    /\ run[r] = "working"
    /\ Goes(r, "joining")
    /\ UNCHANGED <<pid, others, work, flag, files, scan, fate, overlap>>

\* The guards drop before the worker is joined.
MutantJoin(r) ==
    /\ run[r] = "joining"
    /\ fate' = [fate EXCEPT ![r] = "joined"]
    /\ Goes(r, "keep")
    /\ UNCHANGED <<pid, others, work, flag, files, scan, overlap>>

\* shutdown_within: the worker ends in time, or is left behind.
Join(r) ==
    /\ run[r] = "joining"
    /\ \/ work[r].at \in {"none", "over"} /\ fate' = [fate EXCEPT ![r] = "joined"]
       \/ /\ "detach" \in Faults /\ work[r].at \notin {"none", "over"}
          /\ fate' = [fate EXCEPT ![r] = "detached"]
    /\ Goes(r, "keep")
    /\ UNCHANGED <<pid, others, work, flag, files, scan, overlap>>

\* run.lock goes first: the two guards are declared in the other order.
MutantKeepFinal(r) ==
    /\ run[r] = "keep"
    /\ Goes(r, "drop_doc")
    /\ docs' = docs \ {r} /\ kept' = IF r \in docs THEN kept \cup {r} ELSE kept
    /\ lock' = NoPid
    /\ UNCHANGED <<pid, others, work, flag, sentinels, scan, fate, overlap>>

\* The drop of SnapshotGuard: the document is moved to the run folder, what
\* may still be there is removed, and so is the sentinel. No error is returned.
KeepFinal(r) ==
    /\ run[r] = "keep"
    /\ Goes(r, "drop_doc")
    /\ \/ /\ docs' = docs \ {r} /\ kept' = IF r \in docs THEN kept \cup {r} ELSE kept
          /\ UNCHANGED fate
       \/ "disk" \in Faults /\ fate' = [fate EXCEPT ![r] = "spoiled"] /\ UNCHANGED <<docs, kept>>
    /\ UNCHANGED <<pid, others, work, flag, lock, sentinels, scan, overlap>>

DropDocument(r) ==
    /\ run[r] = "drop_doc"
    /\ Goes(r, "drop_stop")
    /\ \/ docs' = docs \ {r}
       \/ "disk" \in Faults /\ UNCHANGED docs
    /\ UNCHANGED <<pid, others, work, flag, lock, sentinels, kept, scan, fate, overlap>>

DropSentinel(r) ==
    /\ run[r] = "drop_stop"
    /\ Goes(r, "unlock")
    /\ \/ sentinels' = sentinels \ {r}
       \/ "disk" \in Faults /\ UNCHANGED sentinels
    /\ UNCHANGED <<pid, others, work, flag, lock, docs, kept, scan, fate, overlap>>

\* The drop of RunLockGuard removes run.lock, whoever's number is in it.
Unlock(r) ==
    /\ run[r] = "unlock"
    /\ Goes(r, "exit")
    /\ \/ lock' = NoPid
       \/ "disk" \in Faults /\ UNCHANGED lock
    /\ UNCHANGED <<pid, others, work, flag, docs, sentinels, kept, scan, fate, overlap>>

\* The process is gone, and its threads with it.
Dies(r) == Goes(r, "gone") /\ work' = [work EXCEPT ![r] = Ended(@)]

Exit(r) ==
    /\ run[r] = "exit"
    /\ Dies(r)
    /\ UNCHANGED <<pid, others, flag, files, scan, fate, overlap>>

\* A crash, a kill, a reboot: there is no signal handler.
Kill(r) ==
    /\ "kill" \in Faults
    /\ run[r] \in Living
    /\ Dies(r)
    /\ fate' = [fate EXCEPT ![r] = "killed"]
    /\ UNCHANGED <<pid, others, flag, files, scan, overlap>>

\* Another program takes a free number; how long it lives does not matter here.
OtherStarts(p) ==
    /\ PidReuse /\ p \in FreePids
    /\ others' = others \cup {p}
    /\ UNCHANGED <<run, pid, work, flag, files, scan, fate, overlap>>

Teardown(r) == Join(r) \/ KeepFinal(r) \/ DropDocument(r) \/ DropSentinel(r) \/ Unlock(r) \/ Exit(r)

RunStep(r) == \/ Invoke(r) \/ AcquireOpen(r) \/ AcquireWrite(r) \/ EarlyExit(r)
              \/ StartDelivery(r) \/ Finish(r) \/ Teardown(r) \/ Kill(r)

--------------------------------------------------------------------------------
(* The snapshot worker: run_delivery_worker over SnapshotEngine. *)

HasWorker(r, at) == run[r] \in Living /\ work[r].at = at

\* The worker after the publish that is under way.
AfterPublish(w) ==
    IF w.call = "finish" THEN Ended(w)
    ELSE IF w.call = "tick" /\ w.final THEN [w EXCEPT !.at = "publish", !.call = "finish"]
    ELSE [w EXCEPT !.at = "poll", !.call = "tick"]

\* The head of the loop: the shutdown flag is read, then the ring is drained.
Drain(r) ==
    /\ HasWorker(r, "poll")
    /\ work' = [work EXCEPT ![r].at = "tick", ![r].final = (run[r] # "working")]
    /\ UNCHANGED <<run, pid, others, flag, files, scan, fate, overlap>>

\* The sentinel is only looked for until the first document is out.
MutantOnTick(r) ==
    /\ HasWorker(r, "tick")
    /\ flag' = IF r \in sentinels /\ ~work[r].last THEN flag \cup {r} ELSE flag
    /\ work' = [work EXCEPT ![r].at = "publish"]
    /\ UNCHANGED <<run, pid, others, files, scan, fate, overlap>>

\* on_tick: the run's own sentinel raises the process' flag, for good.
OnTick(r) ==
    /\ HasWorker(r, "tick")
    /\ flag' = IF r \in sentinels THEN flag \cup {r} ELSE flag
    /\ work' = [work EXCEPT ![r].at = "publish"]
    /\ UNCHANGED <<run, pid, others, files, scan, fate, overlap>>

\* publish: nothing to write, or the temporary file of write_atomic is
\* written; a failure is retried at the next tick.
Publish(r) ==
    /\ HasWorker(r, "publish")
    /\ \/ /\ work[r].call # "start" /\ work[r].last
          /\ work' = [work EXCEPT ![r] = AfterPublish(@)]
       \/ work' = [work EXCEPT ![r].at = "rename"]
       \/ "disk" \in Faults /\ work' = [work EXCEPT ![r] = AfterPublish(@)]
    /\ UNCHANGED <<run, pid, others, flag, files, scan, fate, overlap>>

\* ... and renamed over the document.
Rename(r) ==
    /\ HasWorker(r, "rename")
    /\ \/ /\ docs' = docs \cup {r}
          /\ work' = [work EXCEPT ![r] = AfterPublish([@ EXCEPT !.last = TRUE])]
       \/ "disk" \in Faults /\ work' = [work EXCEPT ![r] = AfterPublish(@)] /\ UNCHANGED docs
    /\ UNCHANGED <<run, pid, others, flag, lock, sentinels, kept, scan, fate, overlap>>

WorkerStep(r) == Drain(r) \/ OnTick(r) \/ Publish(r) \/ Rename(r)

--------------------------------------------------------------------------------
(* The readers: list_runs, and `ralphy stop' over it. *)

Reads(x, at) == x \in Readers /\ scan[x].at = at

\* What only a stop goes on to use.
Noted(x, S) == IF x \in Stops THEN S ELSE {}

\* list_runs opens the directory; a stop may name its run with --runid. A
\* directory that cannot be read is one entry of `unreadable', for all of them.
Begin(x) ==
    /\ Reads(x, "idle")
    /\ \E want \in IF x \in Stops THEN Runs \cup {NoRun} ELSE {NoRun},
          opens \in IF "read" \in Faults THEN BOOLEAN ELSE {TRUE} :
         scan' = [scan EXCEPT ![x] =
                    [Idle EXCEPT !.at = "visit", !.want = want, !.seen = Noted(x, docs),
                                 !.todo = IF opens THEN docs ELSE {},
                                 !.unreadable = IF opens THEN {} ELSE Noted(x, docs)]]
    /\ UNCHANGED <<run, pid, others, work, flag, files, fate, overlap>>

\* A document that is gone by now is looked up all the same.
MutantVisit(x) ==
    /\ Reads(x, "visit")
    /\ \E r \in scan[x].todo :
         scan' = [scan EXCEPT ![x].todo = @ \ {r}, ![x].at = "check",
                              ![x].doc = IF r \in docs THEN r ELSE NoRun]
    /\ UNCHANGED <<run, pid, others, work, flag, files, fate, overlap>>

\* visit: the next document is read, or is gone by now. One that is there but
\* cannot be read or parsed goes to `unreadable' and stays on disk.
Visit(x) ==
    /\ Reads(x, "visit")
    /\ \E r \in scan[x].todo :
         \/ scan' = [scan EXCEPT ![x].todo = @ \ {r},
                                 ![x].at = IF r \in docs THEN "check" ELSE "visit",
                                 ![x].doc = IF r \in docs THEN r ELSE NoRun]
         \/ /\ "read" \in Faults /\ r \in docs
            /\ scan' = [scan EXCEPT ![x].todo = @ \ {r},
                                    ![x].unreadable = @ \cup Noted(x, {r})]
    /\ UNCHANGED <<run, pid, others, work, flag, files, fate, overlap>>

\* The document goes into the listing. What the daemon does with its own is
\* not part of this module.
Listed(x) ==
    [scan EXCEPT ![x].at = "visit", ![x].doc = NoRun,
                 ![x].live = @ \cup Noted(x, {scan[x].doc})]

\* A reader that takes a process that holds no lock for a dead one.
MutantCheckAlive(x) ==
    /\ Reads(x, "check")
    /\ scan' = IF pid[scan[x].doc] = lock
                 THEN Listed(x)
                 ELSE [scan EXCEPT ![x].at = "sweep_doc"]
    /\ UNCHANGED <<run, pid, others, work, flag, files, fate, overlap>>

\* ... its process is looked up: alive, or an orphan to sweep.
CheckAlive(x) ==
    /\ Reads(x, "check")
    /\ scan' = IF pid_is_alive(pid[scan[x].doc])
                 THEN Listed(x)
                 ELSE [scan EXCEPT ![x].at = "sweep_doc"]
    /\ UNCHANGED <<run, pid, others, work, flag, files, fate, overlap>>

\* The orphan is only left out of the listing.
MutantSweepDocument(x) ==
    /\ Reads(x, "sweep_doc")
    /\ scan' = [scan EXCEPT ![x].at = "sweep_stop"]
    /\ UNCHANGED <<run, pid, others, work, flag, lock, docs, sentinels, kept, fate, overlap>>

\* remove_swept, of the document and then of the sentinel.
SweepDocument(x) ==
    /\ Reads(x, "sweep_doc")
    /\ \/ docs' = docs \ {scan[x].doc}
       \/ "disk" \in Faults /\ UNCHANGED docs
    /\ scan' = [scan EXCEPT ![x].at = "sweep_stop"]
    /\ UNCHANGED <<run, pid, others, work, flag, lock, sentinels, kept, fate, overlap>>

SweepSentinel(x) ==
    /\ Reads(x, "sweep_stop")
    /\ \/ sentinels' = sentinels \ {scan[x].doc}
       \/ "disk" \in Faults /\ UNCHANGED sentinels
    /\ scan' = [scan EXCEPT ![x].at = "visit", ![x].doc = NoRun]
    /\ UNCHANGED <<run, pid, others, work, flag, lock, docs, kept, fate, overlap>>

\* With several runs live, the first of the listing.
MutantChooseTarget(live, want) ==
    IF want = NoRun THEN live ELSE live \cap {want}

\* The targets choose_target may return: none, or the one run.
choose_target(live, want) ==
    IF want = NoRun THEN {r \in live : live = {r}} ELSE live \cap {want}

\* The end of the listing. A stop goes on to write its sentinel, or exits:
\* nothing live, an ambiguous listing, a --runid that is not live.
EndListing(x) ==
    /\ Reads(x, "visit") /\ scan[x].todo = {}
    /\ \/ x \in Sweepers /\ scan' = [scan EXCEPT ![x] = Idle]
       \/ /\ x \in Stops
          /\ \E r \in choose_target(scan[x].live, scan[x].want) :
               scan' = [scan EXCEPT ![x].at = "write", ![x].doc = r]
       \/ /\ x \in Stops /\ choose_target(scan[x].live, scan[x].want) = {}
          /\ scan' = [scan EXCEPT ![x] = Done]
    /\ UNCHANGED <<run, pid, others, work, flag, files, fate, overlap>>

WriteSentinel(x) ==
    /\ Reads(x, "write")
    /\ \/ sentinels' = sentinels \cup {scan[x].doc}
       \/ "disk" \in Faults /\ UNCHANGED sentinels
    /\ scan' = [scan EXCEPT ![x] = Done]
    /\ UNCHANGED <<run, pid, others, work, flag, lock, docs, kept, fate, overlap>>

\* A reader dies in the middle of its listing; the daemon is started again.
KillReader(x) ==
    /\ "kill_reader" \in Faults
    /\ x \in Readers /\ scan[x].at \notin {"idle", "done"}
    /\ scan' = [scan EXCEPT ![x] = IF x \in Stops THEN Done ELSE Idle]
    /\ UNCHANGED <<run, pid, others, work, flag, files, fate, overlap>>

ReaderStep(x) == \/ Begin(x) \/ Visit(x) \/ CheckAlive(x) \/ SweepDocument(x)
                 \/ SweepSentinel(x) \/ EndListing(x) \/ WriteSentinel(x)

--------------------------------------------------------------------------------

Next ==
    \/ \E r \in Runs : RunStep(r) \/ WorkerStep(r)
    \/ \E x \in Readers : ReaderStep(x) \/ KillReader(x)
    \/ \E p \in Pids : OtherStarts(p)

Spec == Init /\ [][Next]_vars

\* The worker polls every 250 ms; a run whose flag is up ends (RunQueue's
\* StopEndsRun), and a run that ends goes through its teardown; a stop command
\* and the daemon's tick run to their end, the tick again and again.
Fairness ==
    /\ \A r \in Runs : /\ WF_vars(WorkerStep(r))
                       /\ WF_vars(r \in flag /\ Finish(r))
                       /\ WF_vars(Teardown(r))
    /\ \A x \in Readers : WF_vars(ReaderStep(x))

FairSpec == Spec /\ Fairness

--------------------------------------------------------------------------------
(* Properties. *)

\* A run that is at work and has published its document is in the directory
\* for every reader: list_runs sweeps by the number it read a moment ago, and
\* may never take the document of a process that still runs.
LiveDocumentStays ==
    \A r \in Runs : run[r] \in {"working", "joining"} /\ work[r].last => r \in docs

\* `ralphy stop' with no --runid refuses to guess: when it settles on a run,
\* every other run it could have meant, listed when it began, is no longer at
\* work, whatever happened during the listing. The one exception is a run whose
\* document could not be read or parsed: choose_target counts listing.live
\* alone, so the stop settles as if that run were not there (stop.rs, `stop').
StopIsUnambiguous ==
    \A x \in Stops : scan[x].at = "write" /\ scan[x].want = NoRun =>
        \A r \in scan[x].seen :
            run[r] = "working" => r = scan[x].doc \/ r \in scan[x].unreadable

\* A run that ended on its own, whose worker was joined and whose guard could
\* move the document, left the panel: its document is not in the directory
\* (run.rs: the guard drops after the worker is joined, on every path), and its
\* run folder keeps it.
EndedRunLeftThePanel ==
    \A r \in Runs : run[r] = "gone" /\ fate[r] = "joined" =>
        r \notin docs /\ (work[r].last => r \in kept)

\* A run that shared the repository with no other is what `run.lock' says, from
\* the acquire to the drop of the guard, whatever earlier runs left in the file.
LoneRunHoldsLock ==
    \A r \in Runs : run[r] \in Holding /\ r \notin overlap => lock = pid[r]

\* A sentinel reaches its run: a run at work whose sentinel is in the directory
\* stops working, through the worker's tick and the process' flag.
StopReachesRun ==
    \A r \in Runs : (run[r] = "working" /\ r \in sentinels) ~> run[r] # "working"

\* The document of a run that is over does not stay: the guard removed it, or
\* the sweep of a reader does, be it of a killed run or of a worker that wrote
\* after it was detached. One that can never be read or parsed is left on disk
\* on purpose, so this is for documents that can ("read" is not in Faults).
OrphanDocumentGoes ==
    \A r \in Runs : run[r] = "gone" ~> r \notin docs

================================================================================
