----------------------------- MODULE SessionSlots -----------------------------
(***************************************************************************)
(* The daemon's live terminal sessions and the sockets that open them      *)
(* (session/manager.rs with its modules, routes/ws_session): the session   *)
(* list, the single writer slot of each session, its watchers, the claim a *)
(* launch holds on its window record, the ids across restarts, and the     *)
(* eviction that tells every attached socket why it ended.                 *)
(*                                                                         *)
(* A socket is one open of a console channel: a launch or a reattach.  It  *)
(* is also the identity of the eviction token it registers and of the gate *)
(* it creates.  A session is named by the order of its birth, `b`; its id  *)
(* is what the daemon issued.  Every step below is one critical section of *)
(* the code, so the steps of two sockets interleave as two threads do.     *)
(***************************************************************************)
EXTENDS Integers, FiniteSets

CONSTANTS Sockets, Records,
          HolderOf,      \* the tab each socket belongs to, or None
          AttemptOf,     \* the attempt number of each socket's claim, or None
          MaxSessions,   \* bound: the sessions ever spawned
          MaxRestarts,   \* bound: the restarts of the daemon
          Recorded,      \* whether a use of the id file succeeds: TRUE, FALSE or either
          None

ASSUME SlotsAssumption ==
    /\ AttemptOf \in [Sockets -> Nat \cup {None}] /\ HolderOf \in [Sockets -> STRING \cup {None}]
    /\ Recorded \in SUBSET BOOLEAN /\ Recorded # {}
    /\ MaxSessions \in Nat /\ MaxRestarts \in Nat
    /\ None \notin Sockets \cup Records \cup Nat
    /\ None \notin {"taken-over", "child-exited"}

Births == 1 .. MaxSessions
Ids == 1 .. MaxSessions

VARIABLES
    restarts,   \* how often the daemon was started again
    last,       \* IdSeq.last
    file,       \* the id the sequence's file records
    map,        \* SessionManager.sessions: id -> birth, 0 when absent
    sess,       \* the sessions, by birth
    born,       \* how many there have been
    records,    \* SessionManager.records: the gate of a record, if any
    locked,     \* the gate's lock: the socket that holds it
    sock,       \* the sockets
    fired,      \* the eviction token of each socket: the reason it carries
    evictor     \* history: who took each evicted socket's slot without a take-over

vars == <<restarts, last, file, map, sess, born, records, locked, sock, fired,
          evictor>>
issuing == <<last, file>>
living == <<map, sess, born>>
gating == <<records, locked>>
ends == <<fired, evictor>>

Reasons == {"taken-over", "child-exited"}
NoWriter == [token |-> None, named |-> FALSE]
Unborn == [id |-> 0, record |-> None, slot |-> NoWriter, watchers |-> {}, child |-> "none"]
Idle == [at |-> "idle", record |-> None, gate |-> None, role |-> "none", b |-> 0, id |-> 0,
         want |-> 0]

Init ==
    /\ restarts = 0 /\ last = 0 /\ file = 0 /\ born = 0
    /\ map = [i \in Ids |-> 0]
    /\ sess = [b \in Births |-> Unborn]
    /\ records = [r \in Records |-> None]
    /\ locked = [s \in Sockets |-> None]
    /\ sock = [s \in Sockets |-> Idle]
    /\ fired = [s \in Sockets |-> None]
    /\ evictor = [s \in Sockets |-> None]

-----------------------------------------------------------------------------
(* The writer slot. *)

HolderIn(slot) == IF slot.named THEN HolderOf[slot.token] ELSE None
At(s, step) == sock[s].at = step

\* attach_as, the outcome of a claim of session b by s.
Own(s, slot) == HolderOf[s] # None /\ HolderIn(slot) = HolderOf[s]

Older(s, t) ==
    /\ AttemptOf[s] # None /\ AttemptOf[t] # None
    /\ AttemptOf[s] < AttemptOf[t]

MutantVerdict(s, b, takeover) ==
    LET slot == sess[b].slot IN
    IF slot.token = None \/ takeover \/ Own(s, slot) THEN "ok" ELSE "busy"

Verdict(s, b, takeover) ==
    LET slot == sess[b].slot IN
    IF slot.token = None \/ takeover THEN "ok"
    ELSE IF Own(s, slot)
         THEN IF Older(s, slot.token) THEN "superseded" ELSE "ok"
         ELSE "busy"

\* The incumbent's token is fired and the slot is the claimant's.
Claim(s, b, named, takeover) ==
    LET old == sess[b].slot.token IN
    /\ sess' = [sess EXCEPT ![b].slot = [token |-> s, named |-> named]]
    /\ fired' = IF old = None THEN fired ELSE [fired EXCEPT ![old] = "taken-over"]
    /\ evictor' = IF old = None \/ takeover THEN evictor ELSE [evictor EXCEPT ![old] = s]

MutantWatch(s, b) ==
    /\ sess' = [sess EXCEPT ![b].watchers = @ \cup {sess[b].slot.token}]
    /\ UNCHANGED ends

\* watch: the token joins the list under the same lock.
Watch(s, b) ==
    /\ sess' = [sess EXCEPT ![b].watchers = @ \cup {s}]
    /\ UNCHANGED ends

\* The next step of a socket's open, and the role it got.
Goes(s, step) == sock' = [sock EXCEPT ![s].at = step]
GoesAs(s, step, role, b) ==
    sock' = [sock EXCEPT ![s].at = step, ![s].role = role, ![s].b = b]

-----------------------------------------------------------------------------
(* A reattach: the page names the session it saw as birth `want`. *)

Reattach(s, want, takeover) ==
    /\ At(s, "idle") /\ want <= born
    /\ LET b == map[sess[want].id]
           verdict == IF b = 0 THEN "unknown" ELSE Verdict(s, b, takeover) IN
         IF verdict = "ok"
         THEN /\ Claim(s, b, TRUE, takeover)
              /\ sock' = [sock EXCEPT ![s].at = "bridge", ![s].role = "writer",
                                      ![s].b = b, ![s].want = want]
         ELSE Goes(s, "over") /\ UNCHANGED <<sess, ends>>
    /\ UNCHANGED <<restarts, issuing, map, born, gating>>

ReattachAsWatcher(s, want) ==
    /\ At(s, "idle") /\ want <= born
    /\ LET b == map[sess[want].id] IN
         IF b # 0
         THEN /\ Watch(s, b)
              /\ sock' = [sock EXCEPT ![s].at = "bridge", ![s].role = "watcher",
                                      ![s].b = b, ![s].want = want]
         ELSE Goes(s, "over") /\ UNCHANGED <<sess, ends>>
    /\ UNCHANGED <<restarts, issuing, map, born, gating>>

-----------------------------------------------------------------------------
(* A launch for a window record. *)

\* claim_record: clone the record's gate, or make one.
Launch(s, r) ==
    /\ At(s, "idle")
    /\ LET g == IF records[r] = None THEN s ELSE records[r] IN
         /\ records' = [records EXCEPT ![r] = g]
         /\ sock' = [sock EXCEPT ![s].at = "wait", ![s].record = r, ![s].gate = g]
    /\ UNCHANGED <<restarts, issuing, living, locked, ends>>

Acquire(s) ==
    /\ At(s, "wait") /\ locked[sock[s].gate] = None
    /\ locked' = [locked EXCEPT ![sock[s].gate] = s]
    /\ Goes(s, "find")
    /\ UNCHANGED <<restarts, issuing, living, records, ends>>

\* RecordClaim::live.
FindLive(s) ==
    /\ At(s, "find")
    /\ \/ \E i \in Ids : /\ map[i] # 0 /\ sess[map[i]].record = sock[s].record
                         /\ sock' = [sock EXCEPT ![s].at = "join", ![s].id = i]
       \/ /\ \A i \in Ids : map[i] # 0 => sess[map[i]].record # sock[s].record
          /\ Goes(s, "reserve")
    /\ UNCHANGED <<restarts, issuing, living, gating, ends>>

\* join: as the writer, else as a watcher; a late claim is refused; a session
\* that ended meanwhile sends the launch on to spawn.
Join(s) ==
    /\ At(s, "join")
    /\ LET b == map[sock[s].id]
           verdict == IF b = 0 THEN "unknown" ELSE Verdict(s, b, FALSE) IN
         CASE verdict = "ok" -> Claim(s, b, TRUE, FALSE) /\ GoesAs(s, "unlock", "writer", b)
           [] verdict = "busy" -> Goes(s, "joinwatch") /\ UNCHANGED <<sess, ends>>
           [] verdict = "superseded" -> Goes(s, "unlock") /\ UNCHANGED <<sess, ends>>
           [] verdict = "unknown" -> Goes(s, "reserve") /\ UNCHANGED <<sess, ends>>
    /\ UNCHANGED <<restarts, issuing, map, born, gating>>

JoinWatch(s) ==
    /\ At(s, "joinwatch")
    /\ LET b == map[sock[s].id] IN
         IF b = 0 THEN Goes(s, "reserve") /\ UNCHANGED <<sess, ends>>
         ELSE Watch(s, b) /\ GoesAs(s, "unlock", "watcher", b)
    /\ UNCHANGED <<restarts, issuing, map, born, gating>>

MutantReserve(s) ==
    /\ At(s, "reserve") /\ last < MaxSessions
    /\ last' = last + 1
    /\ file' = last
    /\ sock' = [sock EXCEPT ![s].at = "build", ![s].id = last + 1]
    /\ UNCHANGED <<restarts, living, gating, ends>>

\* IdSeq::next; a failed write is logged, not fatal.
Reserve(s) ==
    /\ At(s, "reserve") /\ last < MaxSessions
    /\ last' = last + 1
    /\ \E ok \in Recorded : file' = IF ok THEN last + 1 ELSE file
    /\ sock' = [sock EXCEPT ![s].at = "build", ![s].id = last + 1]
    /\ UNCHANGED <<restarts, living, gating, ends>>

\* The spec is built off the worker, then the child is spawned and the session
\* inserted; or one of them fails and the launch is refused.
Spawn(s) ==
    /\ At(s, "build") /\ born < MaxSessions
    /\ born' = born + 1
    /\ sess' = [sess EXCEPT ![born + 1] =
                  [Unborn EXCEPT !.id = sock[s].id, !.record = sock[s].record, !.child = "runs"]]
    /\ map' = [map EXCEPT ![sock[s].id] = born + 1]
    /\ GoesAs(s, "fresh", "none", born + 1)
    /\ UNCHANGED <<restarts, issuing, gating, ends>>

SpawnFails(s) ==
    /\ At(s, "build") /\ Goes(s, "unlock")
    /\ UNCHANGED <<restarts, issuing, living, gating, ends>>

\* The spawn's own attach: with take-over, without a holder.
AttachFresh(s) ==
    /\ At(s, "fresh")
    /\ LET b == map[sock[s].id] IN
         IF b = 0 THEN Goes(s, "unlock") /\ UNCHANGED <<sess, ends>>
         ELSE Claim(s, b, FALSE, TRUE) /\ GoesAs(s, "name", "writer", b)
    /\ UNCHANGED <<restarts, issuing, map, born, gating>>

\* hold_as: only while the slot is still this attachment's.
HoldAs(s) ==
    /\ At(s, "name")
    /\ sess' = IF sess[sock[s].b].slot.token = s /\ HolderOf[s] # None
               THEN [sess EXCEPT ![sock[s].b].slot.named = TRUE] ELSE sess
    /\ Goes(s, "unlock")
    /\ UNCHANGED <<restarts, issuing, map, born, gating, ends>>

\* Drop of a RecordClaim: the lock is released, then the gate is forgotten when
\* nobody else holds a reference to it.
Unlock(s) ==
    /\ At(s, "unlock")
    /\ locked' = [locked EXCEPT ![sock[s].gate] = None]
    /\ Goes(s, "forget")
    /\ UNCHANGED <<restarts, issuing, living, records, ends>>

Over == [Idle EXCEPT !.at = "over"]
References(g) == {s \in Sockets : sock[s].gate = g}

MutantForget(s) ==
    /\ At(s, "forget")
    /\ records' = [records EXCEPT ![sock[s].record] = None]
    /\ sock' = [sock EXCEPT ![s] = IF @.role = "none" THEN Over
                                   ELSE [@ EXCEPT !.gate = None, !.at = "bridge"]]
    /\ UNCHANGED <<restarts, issuing, living, locked, ends>>

Forget(s) ==
    /\ At(s, "forget")
    /\ records' = IF References(sock[s].gate) = {s}
                  THEN [records EXCEPT ![sock[s].record] = None] ELSE records
    /\ sock' = [sock EXCEPT ![s] = IF @.role = "none" THEN Over
                                   ELSE [@ EXCEPT !.gate = None, !.at = "bridge"]]
    /\ UNCHANGED <<restarts, issuing, living, locked, ends>>

\* The page closes the channel while its launch awaits: the task is stopped, its
\* reference to the gate goes, and a claim it already holds is dropped.
Cancel(s) ==
    /\ \/ At(s, "wait") /\ sock' = [sock EXCEPT ![s] = Over]
       \/ At(s, "build") /\ Goes(s, "unlock")
    /\ UNCHANGED <<restarts, issuing, living, gating, ends>>

-----------------------------------------------------------------------------
(* The bridge and the end of a session. *)

\* evict_all: the writer's token and every watcher's.
Registered(b) == ({sess[b].slot.token} \cup sess[b].watchers) \ {None}
EvictAll(b) ==
    /\ fired' = [s \in Sockets |-> IF s \in Registered(b) THEN "child-exited" ELSE fired[s]]
    /\ UNCHANGED evictor

MutantClose(b) ==
    /\ sess[b].child = "runs" /\ map[sess[b].id] = b
    /\ map' = [map EXCEPT ![sess[b].id] = 0]
    /\ sess' = [sess EXCEPT ![b].child = "closed"]
    /\ fired' = IF sess[b].slot.token = None THEN fired
                ELSE [fired EXCEPT ![sess[b].slot.token] = "child-exited"]
    /\ UNCHANGED <<restarts, issuing, born, gating, sock, evictor>>

\* close and retire, each under one `sessions` guard: the session leaves the
\* list and everybody on it is told.
Close(b) ==
    /\ sess[b].child = "runs" /\ map[sess[b].id] = b
    /\ map' = [map EXCEPT ![sess[b].id] = 0]
    /\ sess' = [sess EXCEPT ![b].child = "closed"]
    /\ EvictAll(b)
    /\ UNCHANGED <<restarts, issuing, born, gating, sock>>

Retire(b) ==
    /\ sess[b].child \in {"runs", "closed"}
    /\ map' = IF map[sess[b].id] = b THEN [map EXCEPT ![sess[b].id] = 0] ELSE map
    /\ sess' = [sess EXCEPT ![b].child = "gone"]
    /\ EvictAll(b)
    /\ UNCHANGED <<restarts, issuing, born, gating, sock>>

\* The bridge's loop ends on its token.  The end is announced, or the end window
\* runs out, with the attachment still held.
End(s) ==
    /\ At(s, "bridge")
    /\ fired[s] # None
    /\ Goes(s, "drop")
    /\ UNCHANGED <<restarts, issuing, living, gating, ends>>

\* The page leaves, or the daemon shuts down and every bridge ends.
Leave(s) ==
    /\ At(s, "bridge") /\ Goes(s, "drop")
    /\ UNCHANGED <<restarts, issuing, living, gating, ends>>

\* The attachment and its token are gone.
Gone(s) ==
    /\ sock' = [sock EXCEPT ![s] = Over]
    /\ fired' = [fired EXCEPT ![s] = None]
    /\ evictor' = [evictor EXCEPT ![s] = None]

MutantDrop(s) ==
    /\ At(s, "drop")
    /\ sess' = IF sock[s].role = "writer"
               THEN [sess EXCEPT ![sock[s].b].slot = NoWriter]
               ELSE [sess EXCEPT ![sock[s].b].watchers = @ \ {s}]
    /\ Gone(s)
    /\ UNCHANGED <<restarts, issuing, map, born, gating>>

\* AttachGuard::drop: only its own token leaves the slot or the list.
Drop(s) ==
    /\ At(s, "drop")
    /\ sess' = IF sock[s].role = "watcher"
               THEN [sess EXCEPT ![sock[s].b].watchers = @ \ {s}]
               ELSE IF sess[sock[s].b].slot.token = s
                    THEN [sess EXCEPT ![sock[s].b].slot = NoWriter] ELSE sess
    /\ Gone(s)
    /\ UNCHANGED <<restarts, issuing, map, born, gating>>

\* The daemon dies, at any moment, and a new one starts: IdSeq::continuing reads
\* the recorded id, or starts at 0 when it cannot, and nothing else of the old
\* daemon is left.
Restart ==
    /\ restarts < MaxRestarts
    /\ restarts' = restarts + 1
    /\ \E ok \in Recorded : last' = IF ok THEN file ELSE 0
    /\ UNCHANGED file
    /\ map' = [i \in Ids |-> 0]
    /\ sess' = [b \in Births |->
                  [sess[b] EXCEPT !.child = IF @ = "none" THEN @ ELSE "gone",
                                  !.slot = NoWriter, !.watchers = {}]]
    /\ records' = [r \in Records |-> None] /\ locked' = [s \in Sockets |-> None]
    /\ sock' = [s \in Sockets |->
                  IF At(s, "idle") THEN sock[s] ELSE Over]
    /\ fired' = [s \in Sockets |-> None] /\ evictor' = [s \in Sockets |-> None]
    /\ UNCHANGED born

Step(s) ==
    \/ Acquire(s) \/ FindLive(s) \/ Join(s) \/ JoinWatch(s) \/ Reserve(s)
    \/ AttachFresh(s) \/ HoldAs(s) \/ Unlock(s) \/ Forget(s) \/ End(s) \/ Drop(s)

Built(s) == Spawn(s) \/ SpawnFails(s)

Next ==
    \/ \E s \in Sockets :
         \/ Step(s) \/ Built(s) \/ Cancel(s) \/ Leave(s)
         \/ \E want \in Births : ReattachAsWatcher(s, want)
         \/ \E want \in Births, takeover \in BOOLEAN : Reattach(s, want, takeover)
         \/ \E r \in Records : Launch(s, r)
    \/ \E b \in Births : Close(b) \/ Retire(b)
    \/ Restart

Spec == Init /\ [][Next]_vars

\* The daemon's runtime never idles while a socket's task has a step to take,
\* and the build of a spec ends (it waits on `claude --version` up to a read
\* limit).  No child has to exit and no page to act.
FairSpec == Spec /\ WF_vars(\E s \in Sockets : Step(s) \/ Built(s))

-----------------------------------------------------------------------------
(* What is checked. *)

Steps == {"idle", "wait", "find", "join", "joinwatch", "reserve", "build", "fresh",
          "name", "unlock", "forget", "bridge", "drop", "over"}
Opt(S) == S \cup {None}
Count == 0 .. MaxSessions
Slot == [token : Opt(Sockets), named : BOOLEAN]
SessionType ==
    [id : Count, record : Opt(Records), slot : Slot, watchers : SUBSET Sockets,
     child : {"none", "runs", "closed", "gone"}]
SocketType ==
    [at : Steps, record : Opt(Records), gate : Opt(Sockets),
     role : {"none", "writer", "watcher"}, b : Count, id : Count, want : Count]

\* The shape of the state.
TypeOK ==
    /\ restarts \in 0 .. MaxRestarts
    /\ last \in Count /\ file \in Count /\ born \in Count
    /\ map \in [Ids -> Count]
    /\ sess \in [Births -> SessionType]
    /\ records \in [Records -> Opt(Sockets)] /\ locked \in [Sockets -> Opt(Sockets)]
    /\ sock \in [Sockets -> SocketType]
    /\ fired \in [Sockets -> Opt(Reasons)]
    /\ evictor \in [Sockets -> Opt(Sockets)]

Holds(s, role) == sock[s].role = role /\ sock[s].at # "over"
Live(b) == map[sess[b].id] = b

\* "The single-writer policy makes this race-free" (attachment.rs:83): a writer
\* that was not told to stop is the one the slot names, so of two sockets that
\* may feed one child at most one has not been evicted. And a busy slot has an
\* owner that will release it: no launch, take-over, guard drop or cancel leaves
\* a slot to a socket that is gone, which would answer Busy for the rest of the
\* session's life.
SlotIsTheWriter ==
    /\ \A s \in Sockets : Holds(s, "writer") /\ fired[s] = None =>
           sess[sock[s].b].slot.token = s
    /\ \A b \in Births : LET s == sess[b].slot.token IN
           s # None => Holds(s, "writer") /\ sock[s].b = b

\* REGISTRATION INVARIANT (manager.rs:336): once a session has left the list,
\* everybody attached to it has been fired, however the attach raced the end.
NobodyOrphaned ==
    \A s \in Sockets :
        (Holds(s, "writer") \/ Holds(s, "watcher")) /\ ~Live(sock[s].b) => fired[s] # None

\* ADR-0079 D7: without a take-over, a socket loses its slot to another socket
\* of its own tab only when that one is not older, whatever order the launches
\* and reattaches of the tab arrive in.
LateSocketLoses ==
    \A s \in Sockets : evictor[s] # None =>
        HolderOf[s] = HolderOf[evictor[s]] /\ ~Older(evictor[s], s)

\* Two pages that load one desk start each console once: a window record never
\* has two live sessions (ADR-0050, record.rs:1).
OneSessionPerRecord ==
    \A i, j \in Ids : i # j /\ map[i] # 0 /\ map[j] # 0 =>
        sess[map[i]].record # sess[map[j]].record

\* A page that reattaches by an id reaches the session it knew under that id,
\* across a restart of the daemon, when every issued id was recorded.
ReattachReachesItsSession ==
    \A s \in Sockets : Recorded = {TRUE} /\ sock[s].want # 0 => sock[s].b = sock[s].want

\* Every open settles, and no bridge parks on a session that ended: a launch
\* that waits for another launch of its record is served, refused or stopped,
\* and in the end a socket rests only on a session that is still in the list.
EverySocketSettles ==
    <>[](\A s \in Sockets : \/ sock[s].at \in {"idle", "over"}
                            \/ At(s, "bridge") /\ Live(sock[s].b))
=============================================================================
