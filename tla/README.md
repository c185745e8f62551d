# Verification of ralphy

TLA+ models of ralphy's core, checked with TLC on small instances and, for the
properties that matter most, proved with TLAPS for every value of the
constants. Paths below are relative to the repository root; `PROJECT.json`
maps every definition to the lines it models and lists the hazards each
property is aimed at.

## 1. The system

`ralphy run` takes a queue of tracker issues and works them one after the other
on a git branch, with a coding agent as a child process. Around it stand an
operator (who presses stop, closes tickets, cleans the tree), the tracker
(GitHub issues), git, the file system, a daemon with a browser workbench, and
other `ralphy` commands in the same repository.

| Component | State it keeps | Operations | What makes it correct |
|---|---|---|---|
| **Queue runner** (`ralphy-core/src/runner.rs`, `runner/*`) | position in the queue, results, stop reason, limit streaks, repair attempts | preflight, prepare, plan, execute with limit resumes, protocol gate and bounce, verify gate and repairs, close, teardown | every issue reported once and in order; nothing closed that no gate vouched for; work never lost; a stop always ends the run |
| **Branch and undo tag** (`runner/branch.rs`, `runner.rs`) | HEAD, run branch, tag, uncommitted edits | prepare, restore, close, drop tag | only the run branch grows; no commit becomes unreachable; a dry run leaves no trace |
| **Run artifacts** (`.ralphy/plan.md`, the two repair briefs) | files that outlive a killed run | write, finalize, resume, clear | a leftover never misleads the next session |
| **Stop flag** (`ralphy-core/src/stop.rs`) | one process-wide boolean | request, read | the stop wins over whatever comes back with it |
| **Run lock** (`ralphy-cli/src/runlock.rs`) | `.ralphy/run.lock` | inspect, acquire, drop | it tells whether a run is there |
| **Snapshot documents and stop channel** (`ralphy-run-snapshot`, `ralphy-cli/src/run/snapshot_engine.rs`, `delivery.rs`, `stop.rs`) | one document and one sentinel per run in `.ralphy/runstate/`, a worker thread per run | publish, tick, join or detach, list, sweep, stop | a run at work is visible; a dead one disappears; a stop reaches the run it names and no other |
| Vendor adapters (`ralphy-agent-*`, `ralphy-adapter-support`) | a child process, its transcript, idle and budget timers | spawn, pump, classify, kill | one Outcome per session, never a false Done |
| Queue building, triage, schedule (`ralphy-cli/src/run.rs`, `triage*`, `schedule*`) | none between invocations | query, filter, order, label | each open issue listed once |
| **Terminal sessions** (`ralphy-daemon/src/session/*`, `routes/ws_session/*`) | session list, writer slot, watchers, window claims, the issued ids (a file), kept output of each session | launch, attach, take over, watch, detach, close, retire, restart | one writer per session, one session per window; everybody on a session hears of its end |
| **Terminal stream** (`session/manager/kept.rs`, `ws_session/outbound.rs`, `assets/ui/wb-console-*.ts`) | byte ring, screen, broadcast queue; on the page the terminal and its byte count | publish, resize, replay, resync, drain, resume | a terminal shows the output without gap or repeat, at the size it was written for |
| **Desk** (`desk/*`, `routes/api_desk*`, `assets/ui/wb-desk-*.ts`) | `desk.toml` with revision and generation, the version history, the last number of each tab; on the page the desk it took and its unsent changes | change, flush, resend, read, restore, new desk, reload | no change lost or applied twice; nothing crosses a restore; pages converge |
| **Attention and notifier** (`attention/*`, `telegram_state.rs`, `peer/telegram_claim.rs`) | open requests, done marks (on the desk), dismissals (a file), sent ids, claim | wait, finish a turn, mark, dismiss, tick, send, claim, restart | an operator who is away is told of each request, once |
| Daemon: auth, pairing and tunnel, uploads, watch, read-only routes | small tables and files | log in, revoke, pair, list | see section 6 |
| Workbench UI, pricing, usage scan, release check, Telegram client, pty, process utilities | rendering, tables, thin I/O | - | unit-testable, out of scope |

**Interactions.** The runner calls the adapter, the tracker and git
synchronously, but an agent child, the operator's stop, the deadline and people
on the tracker act at any moment in between. The processes of one repository
share nothing but files: the lock, the documents and the sentinels, which each
process reads and writes with no lock of its own. The snapshot worker is a
thread of the run; it turns the sentinel into the stop flag the runner polls.
A page talks to its daemon over one socket that carries a channel per console
and the pushes (`desk.dirty`), and over plain requests for the desk; either may
be lost and opened again at any moment. Daemons of a fleet read one another's
attention lists and claim one another's Telegram messages by requests that may
fail.

**What is hard.** A stop, a limit, a deadline and a verdict that come back
together; seven phases with three kinds of early exit each; collaborators that
fail half-way through a cleanup; a process killed between any two writes and
the next run over its leftovers; a reader that sweeps by what it read two steps
ago; process numbers that are given away again; a worker detached after its
join timed out; an attach that races the end of its session; a page that
reconnects with a byte count from before a resize; batches of changes resent,
late and in flight over a restore; a slow send among the ticks of two daemons
that each may be the sender.

## 2. Modules

| Module | Role |
|---|---|
| `RunQueue` | one `ralphy run` after another on a repository: runner, branch, artifacts, stop flag, tracker |
| `RunContract` | abstract specification: what a run promises the reader of its report |
| `RunPresence` | several processes on one repository: lock, documents, sentinels, snapshot workers, readers |
| `SessionSlots` | the daemon's sessions: list, writer slots, watchers, window claims, ids over restarts |
| `SessionStream` | the output of one session on its way to one page: ring, screen, broadcast, bridge, terminal link |
| `Desk` | the desk's write route, history and restore, and the pages that edit it |
| `Attention` | requests, done marks, dismissals, the Telegram sender and the claim between daemons |
| `MCRunQueue`, `MCRunPresence`, `MCSessionSlots`, `MCSessionStream`, `MCDesk`, `MCAttention` | instances for TLC |
| `RunQueueProofs`, `RunContractProofs`, `RunPresenceProofs`, `SessionSlotsProofs`, `SessionStreamProofs`, `DeskProofs`, `DeskBatchProofs`, `AttentionProofs` | theorems |

### RunQueue and the code

`pc` is where `QueueRun::issue` stands; the other process variables are the
locals of `run_queue_with` and of the phases. One action is one step between
two points at which something else may happen: a call of the agent, a wait, a
gate, a call of the tracker. `EarlyNext`, `EarlyStop` and `EarlyFail` are the
three variants of `Early`.

| Code | Actions |
|---|---|
| `run_queue_with`, `prepare_branch` | `Start`, `StartFails`, `QueueDone`, `teardown` (`close_branch`, `restore`, `drop_undo_tag`) |
| `QueueRun::preflight`, `prepare` | `preflight`, `prepare` (blocked-by gate with split children and human gates) |
| plan phase | `PlanWritten`, `wait_out_plan_limit`, `PlanWaitCut`, `Replan`, `PlanError` |
| execute phase | `ExecReturn`, `ExecWaitCut`, `Reexecute`, `ExecError` |
| protocol gate | `protocol_gate`, `BounceReturn` |
| verify gate | `resolve_verify`, `run_with_repairs`, `RepairReturn` |
| close | `close_and_record`, `publish_plan_record` |
| the agent child | `AgentCommits`, `AgentEdits`, `AgentWritesPlan` |
| the world | `request` (stop), `DeadlinePasses`, `Exit` (normal end or kill), `PersonCloses`, `OperatorCleans` |

Abstractions. A commit is "run r worked on issue i", so only which branches
hold it matters. A plan is the issue it was written for, the state of its
boxes and its trailer. An adapter is any sequence of commits, edits and plan
writes that ends with any Outcome. The deadline is none, ahead or passed. Who
else closes tickets closes only tickets outside the queue. Usage accounting,
events and the wording of comments are left out. The limit streaks are
saturated one past their cap, where the code's counters stop mattering.
`vouched`, `ran` and `stopAt` are history variables, read by properties only.

`Faults` names the collaborators that may fail, each at every call of theirs
that the code handles: `"tracker"`, `"git"`, `"io"`, `"agent"`, and `"crash"`
for a kill of the process. With `"io"` the removal of a file fails too, which the
code only warns about (`artifacts.rs:35`, `:67`) or ignores (`remove_stale_file`,
`scaffold.rs:65`): the old brief, or another issue's plan that the test for
`plan.md` then takes for the planner's, stays. `oldPlan` and `oldBriefs` are
history variables that remember such files.

### RunPresence and the code

`run[r]` is where process r stands between `Invoke` (start and `inspect`) and
`Exit`; `fs::write` of the lock is two steps, truncate and write, and each
removal of the guards' drops is a step of its own. `work[r]` is
`run_delivery_worker` over `SnapshotEngine`: `Drain` (read the shutdown flag,
drain the ring), `OnTick` (look for the sentinel), `Publish` and `Rename` (the
two halves of `write_atomic`). A reader is `list_runs`: `Begin` opens the
directory, `Visit` reads a document, `CheckAlive` looks its process up,
`SweepDocument` and `SweepSentinel` remove an orphan's files, `EndListing`
returns; a stop command goes on to `WriteSentinel`. A document that is there but
cannot be read or parsed, and a directory that cannot be opened, are outcomes of
`Begin` and `Visit` (`read.rs:95`, `:113`): such a document goes to `unreadable`,
is not swept, and is not among the `live` ones a stop chooses from (`stop.rs:57`).

Abstractions. A document is its presence and its process number. The directory
is read in one step. Temporary files of `write_atomic` are not tracked. Run ids
are never reused. `ralphy triage` is a run that leaves from `"locked"`. The
unwinding of a panic is not modelled. `Faults`: `"disk"` (any write or removal
fails), `"read"` (a read does), `"spawn"` (the worker thread cannot be
started), `"detach"` (the join times out), `"kill"`, `"kill_reader"`. With
`PidReuse` the number of an ended run may go to a later run or to another
program.

### SessionSlots and the code

A socket is one open of a console channel; it is also the eviction token it
registers and the gate it creates. `map` is `SessionManager.sessions`, `sess`
the sessions in the order of their birth. Each action is one critical section,
so two sockets interleave as two tasks of the daemon do.

| Code | Actions |
|---|---|
| `attach_as`, `watch` (`ws_session/reattach.rs`) | `Reattach`, `ReattachAsWatcher`, over `Verdict` (free, own, superseded, busy), `Claim`, `Watch` |
| `claim_record`, `join.rs`, `console_launch.rs`, `agent_launch.rs` | `Launch`, `Acquire`, `FindLive`, `Join`, `JoinWatch`, `Reserve`, `Spawn`, `SpawnFails`, `AttachFresh`, `HoldAs`, `Cancel` |
| `RecordClaim::drop` | `Unlock`, `Forget` (the reference count and the removal are one step under the map's lock) |
| `close`, `retire`, `evict_all` | `Close`, `Retire` |
| the bridge's end, `AttachGuard::drop` | `End`, `Leave`, `Drop` |
| `IdSeq` | `Reserve`, `Restart` |

Abstractions. A token's `Notify` is the reason it carries (`fired`): the permit
it stores makes a fire that comes before the wait the same as one after it.
What a child prints, and who may type, are left to `SessionStream`. `evictor`
is a history variable.

### SessionStream and the code

One page and one session. A byte is its position, so a terminal is a sequence
of positions, a screen snapshot at count n is what bytes 1..n paint, and a gap
or a repeat is visible. Receivers of a broadcast do not affect one another: the
other clients are a resize, a take-over or a close at any time.

| Code | Actions |
|---|---|
| `KeptOutput`, `publish`, `resize`, the pump | `Publish`, `Resize`, `ChildExits`, `Close` |
| `replay_and_subscribe`, `open`, `resync`, the bridge's loop | `Attach`, `ReadOutput` (over `Receive`), `SendSize`, `HandOn`, `TakeEvict` |
| `announce_end`, `drain`, `send_queued` | `Flushed`, `Drain`, `DrainTimeout`, `SendEnd`, `EndTimeout` |
| `connect`, `takeOpen`, the frame queue | `Connect`, `Read`, `ReplayLost`, `Notice` |
| `closed`, `reconnectDecision`, `reconnectNow`, `takeOver` | `ChannelClosed`, `SocketLost`, `Refused`, `ReconnectNow`, `TakeOver` |

`TakenOver` is another client's attach. Chunks are one byte, as every length
enters only through counts. The frame codec and its compression are left out,
but for a replay that does not decode (`ReplayLost`). Left out are the end reason
of a daemon that shuts down (`channel.rs:190`; here the socket is simply lost),
and, of a refused or superseded open, the `session-end` told before the close and
the peer gate's hold: the page of the model may try again where the real one has
been told not to, so it does more than the code, never less. `wroteAt`, `lost`
and `cut` are history variables.

### Desk and the code

`desk`, `file`, `seqs` and `versions` are the daemon's; the write route is one
step under `DESK_WRITE` whose outcomes (`PutRoute`) are: unreadable, from
before a restore, already taken, no change, not saved, saved without its
version, saved. A page of another build (`build`) may find its batch refused as
one the daemon cannot read (400, 422), which drops it; when it learns of the
other build it reloads, or it holds its changes: nothing is sent and nothing is
scheduled. A page is `createSync` with its flush: the desk it took, the pending
changes on top, at most one batch on the wire. Requests the page gave up stay
in `stray` and may land later; reads are answered in any order.

| Code | Actions |
|---|---|
| `desk_put_route`, `desk_get_route` | `DeskPutRoute`, `DeskPutRefused`, `DeskGetRoute`, `LandStray`, `LandLast` |
| `desk_history_restore_route`, `desk_new_route` | `DeskHistoryRestoreRoute`, `DeskNewRoute`, `StartNewDesk` |
| `emitDesk`, `flushDesk`, `flushed`, `flushDeskOnClose` | `Emit`, `FlushDesk`, `Flushed`, `Close` |
| `ingestDesk`, `reloadDesk`, the connection store | `Open`, `Ingest`, `ReadFails`, `OnPush`, `StopHearing`, `FirstOpen`, `HearAgain` |
| `onBuildSkew` | `ReloadForBuild`, `HoldDesk` |
| the world | `Disconnect`, `Damage`, `Restart` |

The generation of a restore or of a new desk is the wall clock
(`history.rs:129`, `api_desk.rs:354`): any reading in `1..MaxGen`, which need not
be above the one before. A new desk moves the damaged file aside and then saves;
when the save fails, or the daemon dies in between, no file is left and the desk
reads as one of revision and generation 0 (`store.rs:30`). `fellBack` records that a
restore or a new desk left a generation that is not above its predecessor:
`SameRevSameDesk`, `NoWriteAcrossRestore` and `Converges` are about behaviours in
which that did not happen, because in the others they do not hold. A restore
prunes to the caps of each kind (`Pruned`), and a create of a window may go past
its cap by `Slack`. A batch counts as a change when one of its changes altered
the desk it met (`Alters`), also if they undo one another.

A record has a place and a session; names, locks, colours and times are left
out. Two places differ by more than `MOVE_MIN_PX`. A behaviour is shorter than
`COALESCE_MS`, except that the version it starts with is older, so both sides of
the coalescing rule occur. `author`, `applied`, `again`, `forgot`, `missed`,
`wayBack`, `refused` and `fellBack` are history variables. The 409 for a body without
`changes` cannot come from the modelled page.

### Attention and the code

A tick is one `tick_once`: fire the marks, list, read the peers, tell. A tick with
marks to fire is two steps, because it awaits the desk write that clears them
(`done.rs:131`): a turn, or a mark set anew, may come in between. The send
it starts runs beside later ticks, one message after the other. The clocks are
flags: a request is `aged` once it is `DELAY` old, a claim holds until it lapses.
A request id is `console:<sid>` or `done:<sid>:<turn>`, so ids are reused exactly
where the code reuses them.

| Code | Actions |
|---|---|
| `AgentStatus` (the vendor's status file) | `AgentWorks`, `AgentWaits`, `TurnEnds`, `AgentRests` (a `done` that is not counted, from a wait for one) |
| `tick_once`, `done::fire`, `Notifier::tick_at` | `Tick` (`TickWith`, or `TickOpens` and then `TickClears`), `TickUpset` (peers that do not answer or whose descriptor cannot be read, a desk that cannot be read or written) |
| `deliver`, `Sender::finish` | `Deliver`, `DeliverOff`, `DeliverFails` |
| `dismiss_local`, `put_done_mark`, `PresenceBoard` | `Dismiss`, `Mark`, `Presence` |
| `claim_once`, `claim_route`, `CLAIM_HOLDS` | `ClaimRounds`, `Lapse` |
| the world | `OpenConsole`, `CloseConsole`, `BotChanges`, `Ages`, `Restart` |

A message whose answer is lost reached the operator and stays due
(`DeliverFails`). A peer whose descriptor cannot be read is neither listed nor
unanswered, so its sent ids are forgotten (`Notify`, `telegram.rs:254`). The id
last issued is in memory (`last`) and in a file (`idFile`); a write that fails is
logged and the console opens all the same, and a restart that cannot read the
file starts again at 1 (`id_seq.rs:18`, `:50`).

The requests of runs and of issues are left out: they are read from the run
documents at each list. `told`, `history` and `asks` are history variables; only
they tell two waits of one console apart. `Faults` names what may go wrong:
`"peer"` (no answer), `"store"` (an unreadable descriptor), `"desk"`, `"ids"` (the
record of ids is not written, or not readable), `"send"`, `"bot"`, `"claim"`,
`"restart"`.

## 3. Runs

| Run | Checks | What it shows |
|---|---|---|
| `queue` | `ClosedWasVouched`, `ReportFollowsQueue`, `WorkedIssuesUnblocked`, `StopKeepsWork`, `StopEndsRun` | one run over two issues, the stop and the deadline landing anywhere; a stop ends the run from every phase |
| `faults` | `TypeOK`, `CommitsReachable`, `KeepsContract` | dry runs and limits with failing collaborators and a kill anywhere; the wait for the reset of a plan limit included, that of an execution limit is in `queue` only |
| `crash` | `SessionReadsItsOwn`, `OnlyRunBranchGrows` | two runs, the first killed anywhere, removals failing: plan and briefs mislead no session but where their own removal failed; only the run's branch grows |
| `presence` | `TypeOK`, `LiveDocumentStays`, `StopIsUnambiguous`, `LoneRunHoldsLock`, `EndedRunLeftThePanel` | two runs and a stop command that lists and sweeps, under every fault but a detach |
| `presence_live` | `StopReachesRun`, `OrphanDocumentGoes` | a sentinel ends its run; no document outlives its run for good, a detached worker's late write included |
| `slots` | `TypeOK`, `SlotIsTheWriter`, `NobodyOrphaned`, `LateSocketLoses`, `OneSessionPerRecord`, `ReattachReachesItsSession`, `EverySocketSettles` | three sockets of two tabs, three sessions of one window, a restart: whatever the order of launches, attaches, ends and drops |
| `stream` | `CountMatchesTerminal`, `OutputBeforeEnd`, `ResumeAtOneSize`, `CatchesUp`, `EndReleases` | one page through lags, trimmed rings, resizes, broken screens, take-overs and lost sockets |
| `desk` | `TypeOK`, `AppliedOnce`, `AckedIsApplied`, `SameRevSameDesk`, `RestoreUndoable`, `NoWriteAcrossRestore`, `Converges` | two pages on one desk with one fault, restore or restart anywhere |
| `attention` | `OneMessageEach`, `NothingOpensHidden`, `EveryRequestIsTold`, `MarkedTurnOpens` | two daemons, one console, one fault anywhere |
| `resumed_plan`, `lost_replay`, `waits_again` | one property each, violated | the findings below |

**Bounds.** Two issues are enough for order, for a blocker and its dependent,
and for the leftovers of one issue to meet another; in `queue` and `faults` the
second issue is blocked by the first, by itself and (through its spec comment
or a split) by a person's ticket, so every branch of the blocked-by gate is
taken. `MaxRuns` is 1 except where a second run meets the first one's
leftovers. Between them the three runs' configurations cover New and Current
mode, dry runs, both stop-on-limit flags, a required gate, a deadline and a
forced issue; `crash` has one configuration of each mode, both ending at a limit. In
`presence` two runs and two process numbers give the overlap, the stale lock
and the reused number, and the stop's listing sweeps as the daemon's does. In
`presence_live` one run, one sweeper and two stops, three listings at once,
suffice, because sentinels
and documents of different runs never meet; there numbers are not reused,
since a document whose number lives on in another program is, by design,
listed for as long as that program lives. In `slots` two sockets of one tab
with different attempt numbers and one of another tab give every verdict of a
claim, and three sessions are enough for an id that would be issued again after
a restart. In `stream` a ring of two bytes, a broadcast of one and a wire of one
over three bytes make each of them overflow. In `desk` two tabs, two changes and
one upset reach a resend, a stray batch, a restore under a page in flight and a
closing page; more tabs only add readers. With `MaxGen = 1` and one upset a
behaviour has one restore or one new desk, whose generation rises unless the save
of the new desk fails; a clock that was set back needs two, so it, and a restore
that prunes, are in the proofs only. `Slack = 1` over a cap of one lets one window
go past the cap; `clear` of a selected worktree is not among the changes. The run
has 672,759 states. In `attention` two daemons that are
each other's peers are the whole of the claim's mutual rule, two sessions are
needed for an id to come back after a restart, and two stops for a wait that
follows a wait. One fault anywhere, of any kind `Faults` names, is the bound of
each behaviour.

**Deadlock.** `presence_live` checks for it: a sweeper lists for ever, so no
reachable state may block it. The others may stop, when their runs, sessions,
changes or sockets are used up, and switch the check off; that nobody waits for
ever is what `StopEndsRun`, `EverySocketSettles`, `CatchesUp`, `EndReleases` and
`Converges` say.

**Symmetry.** `crash` swaps the two issues and `presence` permutes runs and
process numbers: neither instance tells them apart, and neither run checks
liveness.

**Fairness.** `RunQueue!FairSpec` asks that the run keeps moving once the flag
is up, and nothing before: the headless pump (500 ms), the gate's wait (50 ms)
and the reset wait (1 s) all poll the flag and return, so a child that never
answers cannot hold a stopped run. Nothing is asked of the agent or of people.
`RunPresence!Fairness` asks for the worker's 250 ms tick, the end of a run
whose flag is up (which is `StopEndsRun`), the teardown of a run that ended,
and that a reader finishes its listing and the daemon's tick starts another.
No fairness is assumed of starting runs, of kills, or of a run that ends by
itself.
`SessionSlots!FairSpec` asks that the daemon's tasks take the steps they can and
that building a launch ends (it waits on a version query with a limit);
`SessionStream!FairSpec` that the bridge's task runs, its timers fire and its
`select!`, which picks among ready arms at random, takes an arm that is ready
again and again (strong fairness); the page and the child owe nothing.
`Desk!FairSpec` asks that the browser's timers and callbacks run and the daemon
answers; a stray request need not land. `Attention!FairSpec` asks for the tick,
the clock, the claim round, and that a send ends, which the transport's timeout
gives.

## 4. Theorems

TLAPS checks them for every set of issues, runs, readers and process numbers,
every queue of distinct issues, configuration, bound and set of faults, and for
every set of sockets, tabs, attempts and window records. The assumptions are the
named `ASSUME`s of `RunQueue`, `RunPresence` and `SessionSlots`: typing of the
constants, "no issue", "no process" and "no socket" being none, and that a queue
lists an issue once. Those of `SessionStream`, `Desk` and `Attention` type their
constants in the same way: what a page emits is one of the forms of `DeskChange`,
the cap of the history is at least two and that of the tabs' numbers at least one.

| Theorem | States | Inductive invariant |
|---|---|---|
| `RunQueueProofs!TypeCorrect` | `Spec => []TypeOK`, the repair budget included | `TypeInv == TypeOK /\ Cursor`: with an issue in hand the cursor is inside the queue, without which `q[k]` has no type |
| `RunQueueProofs!SessionAlwaysReadsItsOwn` | `Spec => []SessionReadsItsOwn` | `ReadInv`: the briefs are gone, or were to be removed and could not be, before the gate that spawns the next session, and through a wait; a plan's trailer names the issue it is for, unless it is such a leftover |
| `RunQueueProofs!WorkedAreUnblocked` | `Spec => []WorkedIssuesUnblocked` | `BlockInv`: behind the gate the issue in hand is clear of its blockers; a ticket never opens again |
| `RunQueueProofs!CommitsStayReachable`, `OnlyTheRunBranchGrows` | `Spec => []CommitsReachable`, `Spec => OnlyRunBranchGrows` | `BranchInv`: base, HEAD and the operator's branch exist, no branch of a run to come does, and a run in New mode stands on its own branch, which is not the operator's |
| `RunQueueProofs!StopAlwaysKeepsWork` | `Spec => StopKeepsWork` | `StopInv`: a stop that landed in a session or a wait is still there or has ended the run with a reason; a dry run has no session's edits |
| `RunContractProofs!ReportFollows` | `Spec => []ReportFollowsQueue` | `ReportInv`: how long the report is at each phase |
| `RunContractProofs!ContractKept` | `Spec => KeepsContract`, a refinement of `RunContract` | `TypeInv` and `ReportInv`; the report maps to (issue, closed) pairs |
| `RunContractProofs!ClosedVouched` | `Spec => []ClosedWasVouched` | `VouchInv`: the queue has no duplicate, and at the close the issue in hand is vouched for |
| `RunPresenceProofs!TypeCorrect` | `Spec => []TypeOK` | itself |
| `RunPresenceProofs!DocumentKept` | `Spec => []LiveDocumentStays` | `DocumentInv`: a worker is born after the lock, a document was written by a worker, what a reader sweeps belongs to a process that is over |
| `RunPresenceProofs!StopUnambiguous` | `Spec => []StopIsUnambiguous` | `Accounted`: a document seen at the start is still to visit, in hand, listed, unreadable, or of a run no longer at work |
| `RunPresenceProofs!LoneLock` | `Spec => []LoneRunHoldsLock` | `Crowd`: two living runs are both in `overlap` |
| `RunPresenceProofs!LeftThePanel` | `Spec => []EndedRunLeftThePanel` | `Joined`: what each step of the teardown has already removed |
| `SessionSlotsProofs!SlotsTypeCorrect` | `Spec => []TypeOK` | `TypeInv`: which steps of an open have an id, a gate, a session in hand (`InHand`), and that the list names only sessions that were born (`Listing`) |
| `SessionSlotsProofs!SlotIsAlwaysTheWriters`, `NobodyIsEverOrphaned` | `Spec => []SlotIsTheWriter`, `Spec => []NobodyOrphaned` | `SeatInv`: a session's slot and watchers are the sockets that have a role there; and `IdInv`: a listed session is listed under its own id, an issued id is nobody else's, so that a spawn hides no session that has an audience |
| `SessionSlotsProofs!LateSocketAlwaysLoses` | `Spec => []LateSocketLoses` | itself, with `TypeInv` |
| `SessionSlotsProofs!OneSessionPerRecordAlways` | `Spec => []OneSessionPerRecord` | `GateInv`: launches of a record share the gate the table names and its lock lets one in (`OneInside`); and `OneInv`: what a launch found while deciding is still what there is |
| `SessionSlotsProofs!ReattachAlwaysReachesItsSession` | `Spec => []ReattachReachesItsSession` | `ReachInv`: with every issue recorded no two sessions ever born share an id; and `WantInv` |
| `SessionStreamProofs!StreamTypeCorrect` | `Spec => []TypeOK` | `IInv`, below |
| `SessionStreamProofs!StreamExactlyOnce`, `StreamEndsWithOutput`, `StreamResumesAtOneSize` | `Spec => []CountMatchesTerminal`, `Spec => []OutputBeforeEnd`, `Spec => []ResumeAtOneSize` | `IInv == TypeOK /\ Channel /\ Bridge /\ Sized /\ Stream /\ CountMatchesTerminal`: what the frames between the bridge and the page add up to (`Stream`), which frames may be there at each stage of the channel, where the ring and the broadcast stand |
| `DeskProofs!DeskTypeCorrect` | `Spec => []TypeOK`, the caps of the history and of the tabs' numbers included | `IInv == Shape /\ Held /\ Way`; `Shape` types the wires too, and bounds every generation by `MaxGen` |
| `DeskProofs!DeskOnePerRev` | `Spec => []SameRevSameDesk` | `Held`: while generations rise, whatever desk a page, an answer or a read holds is at or behind the stored one in (generation, revision), and is the stored one when it is level with it |
| `DeskProofs!DeskRestoreUndoable` | `Spec => []RestoreUndoable` | `Way`: the replaced layout is a before-restore version at most `since` places from the end of the history |
| `DeskBatchProofs!DeskRestoreHolds` | `Spec => NoWriteAcrossRestore` | `CopyInv == IInv /\ Silence /\ OneCopy /\ Bases`: a number names one change wherever its copies are, and while generations rise the one a change was made on lies between that of the page or body that holds it and the stored one |
| `DeskBatchProofs!DeskDropsNothing` | `Spec => []AckedIsApplied` | `SendInv == IInv /\ Silence /\ Senders /\ HasIt`: a body under a page's own number is its batch in flight, and was applied if the daemon remembers the number or answered; a batch the daemon refused as unreadable is among `refused` |
| `DeskBatchProofs!DeskAppliesOnce` | `MaxTabs <= TabCap => (Spec => []AppliedOnce)` | `OnceInv`: `Senders`, and per tab `Parted` (two bodies under different numbers share no change, except with a closing batch) and `Counted` (what is under a number the daemon does not know was not applied) |
| `AttentionProofs!AttentionTypeCorrect` | `Spec => []TypeOK` | `Shape`: with it, that a console's session is one its daemon handed out (`Counted`) |
| `AttentionProofs!AttentionTellsOnce` | `Spec => []OneMessageEach` | `Remembered`: what a daemon knows it delivered about a listed request is among its sent ids, and it has nothing to send that it knows it delivered; with `OpenIds` and `MessageIds`: an old message is about no session to come, at a daemon whose ids did not start again (`Sound`) |
| `AttentionProofs!AttentionHidesOnlySeen` | `Spec => []NothingOpensHidden` | `DismissedIds`: a dismissed request of a running session is still among the open ones, so that a later turn cannot open it, again at a `Sound` daemon |

In `RunContractProofs` every action is first shown to be one of eleven shapes of
step as far as the report is concerned (`StepReports`): the invariant and the
refinement are then argued over the shapes, once each. `RunPresenceProofs`
separates, in the same way, what the worker and the readers leave alone
(`WorkerFrame`, `ReaderFrame`) from the steps that matter. `SessionSlotsProofs`
states what each action does to the one socket and the one session it touches
(the lemmas `...Does`), and from these that every step is quiet, a claim, a
watch, or one of six actions (`Shapes`); `IdInv`, `SeatInv` and `ReachInv` are
argued over the shapes.

`SessionStreamProofs` is about what is on its way: the frames on the wire
followed by those in the outbox are one sequence, and it must lead (`Leads`), stage
by stage, from where the page stands to where the bridge stands. A frame that
leaves the wire moves the page's end of that path by what the page does with it, a
frame that enters the outbox moves the bridge's end; so `CountMatchesTerminal`,
`OutputBeforeEnd` and `ResumeAtOneSize` follow from one relation between the two
ends, whatever is between them.

`DeskProofs` needs induction over a batch: `Apply` and `Others` are recursive
functions over the positions of a sequence. As the library's induction theorems
cannot be instantiated, the two facts that are needed (a recursive function on
0..n is what its equation says: `Recursion`; a set of numbers that holds 0 and is
closed under successor is all of 0..n: `Counting`) are proved from the
well-foundedness of < on Nat, which has a set as its parameter. The rest is one lemma
for each thing a step may do to a page, a body or the history (`OutcomeIs`, `TakeIs`,
`FlushedIs`, `PushIs`), and one step of the proof per action.

`DeskBatchProofs` follows the copies of a batch: at the page, on the wire,
given up by the page but still on its way, or in a closing page's last request.
Every step is one of six shapes as far as these are concerned (`BatchStep`,
shown in `NextActs`): nothing moves (`Idles`), a page makes a change (`Emits`),
sends a batch (`Sends`), goes (`Goes`) or hears that its batch arrived
(`Clears`), or a body reaches the daemon (`Lands`). The three invariants are
argued over the shapes. `DeskAppliesOnce` alone has a hypothesis.
`TabSeqs::record` forgets the oldest of more than `TAB_SEQS` tabs
(`api_desk.rs:57`), and a copy of a batch that was still on its way is then
applied again: with `TabCap = 1` and two documents TLC violates `AppliedOnce`.
The hypothesis says that no more documents open than numbers are remembered, 64
in the code.

**Only model-checked.** The liveness properties `StopEndsRun`, `StopReachesRun`,
`OrphanDocumentGoes`, `CatchesUp`, `EndReleases`, `EverySocketSettles`,
`Converges`, `EveryRequestIsTold` and `MarkedTurnOpens`, which are out of the
prover's reach.

## 5. Findings

Places where the code does something else than its own comments or documents
say. Three are runs that TLC ends with a counterexample.

- `resumed_plan`: a plan.md found fully checked skips the executor, although the
  work may be on the branch of an earlier, killed run; the gate then judges, and
  the issue is closed over, a branch without the work.
- `lost_replay`: the page takes the byte count from `session-open`, before the
  replay that paints those bytes. If the channel is left in between, it
  reconnects with that count and the daemon resumes after bytes the terminal
  never showed; the hole stays until something forgets the count.
- `waits_again`: the sender forgets a sent id at the first tick that does not
  find it open, and every wait of a console has the same id. A console that is
  answered and waits again between two ticks, or during a slow send, is not
  messaged for the second wait.

Others were met on the way and are in the models, but have no run of their own.

- ADR 0054:194 says the run is already unwinding when a verify command the stop
  cut short is folded. The cut reads as a gate failure: repairs are spawned, and
  on the last issue the run ends with no stop reason. `StopEndsRun` still holds.
- ADR 0030:41 exempts synthetic resets from the no-progress cap. The streak
  counts them, so the first scheduled limit after one abandons the issue.
- `docs/scheduling.md:10` says each run holds the lock for its lifetime. Of two
  overlapping runs the second overwrites it and the first to end removes it under
  the other; `LoneRunHoldsLock` is what is left.
- `runlock.rs:13` says a crash never silences a schedule. If the killed run's
  number went to another program, `--if-idle` stands back for that program.
- Run artifacts: when the planner leaves no plan and the removal of an older one
  failed, the older one, of whatever issue, is taken for the planner's
  (`scaffold.rs:96`, `:104`); a brief that cannot be removed is read by the next
  session. `SessionReadsItsOwn` leaves out such files and no others.
- `ralphy stop` with no run id counts the documents it could read. With two runs, one
  of whose documents is unreadable for a moment, it settles on the other without
  being told which (`stop.rs:57`).
- Desk: a closing page sends the batch it still waits for again under a higher
  number, so a batch that had landed is applied twice (`AppliedOnce` states the
  exception). The first open of a page's socket reads nothing, and a failed
  re-read is not retried, so a write at that moment is missed until the next push
  (`Converges` leaves such pages out). A new desk starts again at revision 1, and
  `take` does not compare an older generation, so a slow read from before it is
  taken, though `desk.rs:155` says a slow read never puts an older desk on screen.
  A new desk whose save fails leaves revision and generation 0. The comment at
  `api_desk.rs:351` says a page that read the unreadable desk reloads instead of
  writing into the new one; after such a failure any page passes the check of the
  generation and writes into it, and pages that showed a higher revision take the new
  desk for stale. The same follows from a restore under a clock that was set back.
  A page held over a build skew keeps its changes until it reloads, and a batch the
  daemon cannot read is dropped.
  A restart forgets the tabs' numbers, so a resend applies again, as documented;
  so does a late copy of a batch of a tab that 64 other tabs have written after.
- Attention: a mark set after a turn ended and before the tick fires for that
  past turn, though `done.rs:1` speaks of the next one. A desk that cannot be
  read at the tick loses the turn, though `done.rs:80` says each marked turn end
  opens its request; one
  that cannot be written keeps the mark, which fires again. A mark the operator
  sets while the tick clears the one before is wiped with it (`MarkedTurnOpens`
  names both losses). A send whose answer was lost is sent again, and so is a request
  of a peer whose descriptor could not be read at a tick between
  (`telegram_state.rs:11` says "One request is one message"; `OneMessageEach` leaves
  out what the sender could not know). When the record of issued ids is lost they
  start again at 1, and a request named by one that was dismissed opens hidden. A
  handover between two senders, or a restart of one, can
  tell a request twice: `OneMessageEach` is about one life of one daemon. The
  mutual rule of the claim covers pairs only.

## 6. What is not modelled, and the plan

- **Outcome classifier and headless pump** (`ralphy-adapter-support`,
  `ralphy-agent-*`). The runner's model takes an adapter as anything that ends
  with any Outcome, so nothing in `RunQueue` depends on it; which transcript
  yields which Outcome is a table over vendor texts, and unit-tested as one.
- **Queue building, triage and scheduling**: the queue is a parameter of
  `RunQueue`.
- **Authentication** (epoch, cookie, throttle): each operation is one step on one
  table under one lock.
- **Fleet pairing, tunnel and nudge**: request handlers and a relay of bytes; the
  one protocol among daemons with state on both sides, the claim, is in
  `Attention`.
- **The rest of the daemon and of the workbench**: read-only routes, uploads,
  file watch, rendering. **Pricing, usage scan, release check, Telegram client,
  pty, process utilities**: tables, parsers and thin I/O.
- Of the modelled components: the content of run documents and the delivery ring
  (`RunPresence`); input to a terminal, frame coding, the preparation of a launch
  (`SessionSlots`, `SessionStream`); the fields of a record that no property tells
  apart (`Desk`); requests of runs and issues (`Attention`).

The plan has left, in this order: the delivery ring and the snapshot projection;
the headless pump (idle watchdog, budget, early kill and exit racing each other)
as a refinement of the arbitrary adapter.
