-------------------------------- MODULE Desk --------------------------------
(* The desk: one layout of consoles, fences, note cards and selected         *)
(* worktrees, stored by the daemon and edited by several pages at once.      *)
(*                                                                           *)
(* The daemon applies numbered batches of changes under one lock             *)
(* (src/crates/ralphy-daemon/src/routes/api_desk.rs, desk/apply), keeps a    *)
(* history of layouts (desk/history.rs) and restores one on request          *)
(* (routes/api_desk/history.rs). A page holds the last desk it took, its     *)
(* unanswered changes on top of it, and at most one batch on the wire        *)
(* (assets/ui/wb-desk-sync.ts, wb-desk-flush.ts, wb-desk.ts).                *)
(*                                                                           *)
(* A request whose connection the page gave up may still land; a batch may   *)
(* be sent again; reads may be answered out of order; pushes are lost with   *)
(* the socket or dropped by a hidden tab; the daemon may restart.            *)
(*                                                                           *)
(* Two places are further apart than MOVE_MIN_PX. Names, locks and times are *)
(* data no property tells apart; the changes a page emits by itself (a name  *)
(* for an unnamed console, the record of a console that still runs) are Emit *)
(* steps like the operator's.                                                *)
EXTENDS Integers, Sequences, FiniteSets, SequencesExt

CONSTANTS
    MaxTabs,        \* bound: documents that open; a reload is a new document
    OpenAtStart,    \* how many of them have read the first desk already
    FirstLayout,    \* the layout an earlier batch stored
    Records,        \* record ids: windows, fences and note cards
    KindOf,         \* [Records -> {"window", "fence", "note"}]
    MaxOf,          \* DESK_MAX, FENCE_MAX, NOTE_MAX: the cap of a kind
    Slack,          \* DESK_CREATE_SLACK: windows a create may add past the cap
    Places,         \* rectangles
    Sessions,       \* sessions a console may run
    Trees,          \* worktrees of the one project
    ActsOf,         \* per tab, the changes its page may emit
    MaxActs,        \* bound: changes emitted in all
    MaxUpsets,      \* bound: faults, restarts, restores and closed sockets
    MaxReads,       \* bound: reads of one page on the wire
    MaxGen,         \* bound: readings of the clock, in their order, that a
                    \* restore or a new desk may take as its generation
    TabCap,         \* TAB_SEQS: tabs whose last number is remembered
    HistoryMax,     \* HISTORY_MAX: versions kept
    Absent, NoTree, NoSession, Keep, None

Kinds == {"window", "fence", "note"}
Tabs  == 1..MaxTabs     \* in the order they open: an id is drawn at random

ASSUME BoundsAssumption ==
    /\ MaxTabs \in Nat /\ OpenAtStart \in 0..MaxTabs /\ MaxActs \in Nat /\ MaxUpsets \in Nat /\ MaxReads \in Nat \ {0}
    /\ MaxGen \in Nat \ {0} /\ Slack \in Nat
    /\ TabCap \in Nat \ {0} /\ HistoryMax \in Nat \ {0, 1}
    /\ KindOf \in [Records -> Kinds] /\ MaxOf \in [Kinds -> Nat]
    /\ NoTree \notin Trees /\ NoSession \notin Sessions
    /\ Keep \notin Places \cup Sessions \cup {NoSession}

VARIABLES
    desk,       \* desk.toml: [rev, gen, recs, pick]
    file,       \* "ok", or "damaged" when it cannot be parsed
    seqs,       \* TabSeqs, newest first
    versions,   \* the desk history, oldest first
    page,       \* per tab: what createSync and the flush hold
    put,        \* per tab: the batch on the wire and its answer
    stray,      \* batches whose page gave up the connection; they may still land
    last,       \* per tab: the closing batch
    reads,      \* per tab: [asked, answers] of the reads on the wire
    hears,      \* per tab: its push socket, "first" before it ever opened,
                \* "open", or "down": lost, or the tab hidden
    dirty,      \* tabs a desk.dirty push is on its way to
    build,      \* per tab: its page is of the "same" build as the daemon, of
                \* an "other" one, or knows that and is "held": sends nothing
    upsets,     \* faults so far
    \* History, read by the properties only:
    author,     \* the tab that emitted each change
    applied,    \* how often each change was applied
    again,      \* changes a closing page sent a second time
    forgot,     \* the daemon restarted
    missed,     \* tabs with no desk.dirty or no answer for the desk of now
    wayBack,    \* the layout the last restore replaced, and appends since
    refused,    \* changes a page dropped because the daemon cannot read them
    fellBack    \* a restore or a new desk left a generation that is not above
                \* the one before it

daemon == <<desk, file, seqs, versions>>
wires  == <<put, stray, last, reads>>
ghosts == <<author, applied, again, forgot, missed, wayBack, refused, fellBack>>
vars   == <<daemon, page, wires, hears, dirty, build, upsets, ghosts>>

Recs     == [place : Places, session : Sessions \cup {NoSession}]
Layouts  == [recs : [Records -> Recs \cup {Absent}], pick : Trees \cup {NoTree}]
Empty    == [recs |-> [r \in Records |-> Absent], pick |-> NoTree]
Layout(d) == [recs |-> d.recs, pick |-> d.pick]
Numbers  == 1..MaxActs
Ats      == -1..MaxGen      \* generations; -1 before a page has one
Acts     == UNION {ActsOf[t] : t \in Tabs}
Changes  == [n : Numbers, base : Ats, act : Acts]

(* DeskChange, of a window, fence or note card, or of the selected worktree. *)
ActForms ==
    [op : {"create"}, id : Records, place : Places, session : Sessions \cup {NoSession}]
    \cup [op : {"set"}, id : Records, place : Places \cup {Keep},
          session : Sessions \cup {NoSession, Keep}]
    \cup [op : {"remove"}, id : Records] \cup [op : {"checkout", "clear"}, name : Trees]

ASSUME DataAssumption ==
    /\ FirstLayout \in Layouts /\ \A t \in Tabs : ActsOf[t] \subseteq ActForms
    /\ None \notin Tabs /\ None \notin [tab : Tabs, seq : Nat, gen : Ats, changes : Seq(Changes)]
-----------------------------------------------------------------------------
(* desk::apply: one change onto a layout.                                     *)

Has(d, r) == d.recs[r] # Absent

Kept(v, old) == IF v = Keep THEN old ELSE v

OfKind(recs, k) == {x \in Records : recs[x] # Absent /\ KindOf[x] = k}

(* Only a window has slack over the cap: a running console that lost its     *)
(* record must get one back.                                                 *)
Room(d, r) ==
    Cardinality(OfKind(d.recs, KindOf[r]))
        < MaxOf[KindOf[r]] + (IF KindOf[r] = "window" THEN Slack ELSE 0)

(* A create of a record that exists brings news of a window's session only;  *)
(* one over the cap is refused alone.                                        *)
Create(d, c) ==
    IF Has(d, c.id)
    THEN IF KindOf[c.id] = "window" THEN [d EXCEPT !.recs[c.id].session = c.session] ELSE d
    ELSE IF Room(d, c.id)
         THEN [d EXCEPT !.recs[c.id] = [place |-> c.place, session |-> c.session]]
         ELSE d

(* A set of a record that is gone does not bring it back.                    *)
Set(d, c) ==
    IF Has(d, c.id)
    THEN [d EXCEPT !.recs[c.id] = [place   |-> Kept(c.place, @.place),
                                   session |-> Kept(c.session, @.session)]]
    ELSE d

(* A clear takes effect only while the name it saw is still selected.        *)
ApplyOne(d, c) ==
    CASE c.op = "create"   -> Create(d, c)
      [] c.op = "set"      -> Set(d, c)
      [] c.op = "remove"   -> [d EXCEPT !.recs[c.id] = Absent]
      [] c.op = "checkout" -> [d EXCEPT !.pick = c.name]
      [] c.op = "clear"    -> IF d.pick = c.name THEN [d EXCEPT !.pick = NoTree] ELSE d

(* The changes of a batch, in order.                                         *)
Apply(d, changes) ==
    LET after[k \in 0..Len(changes)] ==
            IF k = 0 THEN d ELSE ApplyOne(after[k - 1], changes[k].act)
    IN  after[Len(changes)]

(* A change of the batch did something when its turn came.                   *)
Alters(d, changes) ==
    \E k \in DOMAIN changes :
        Apply(d, SubSeq(changes, 1, k)) # Apply(d, SubSeq(changes, 1, k - 1))
-----------------------------------------------------------------------------
(* desk::history: what a write does to the versions.                         *)

SameLayout(a, b) ==
    /\ a.pick = b.pick
    /\ \A r \in Records :
        /\ Has(a, r) <=> Has(b, r)
        /\ Has(a, r) => a.recs[r].place = b.recs[r].place

Version(reason, d) == [reason |-> reason, desk |-> Layout(d), young |-> TRUE]

(* append, then prune to the newest HistoryMax.                              *)
Append1(vs, v) ==
    LET all == Append(vs, v)
    IN  IF Len(all) > HistoryMax THEN Tail(all) ELSE all

MutantOverwrites(vs) == vs # <<>> /\ Last(vs).young

(* A change within COALESCE_MS of the newest version's first goes into it,   *)
(* but never into the way back of a restore. A behaviour is less than that   *)
(* long; only the version it starts with is older.                           *)
Overwrites(vs) == vs # <<>> /\ Last(vs).reason # "before-restore" /\ Last(vs).young

(* The newest version no longer differs from the one under it.               *)
Undoes(vs, after) ==
    /\ Last(vs).reason = "change"
    /\ Len(vs) > 1 /\ SameLayout(vs[Len(vs) - 1].desk, after)

(* The versions after a write from before to after.                          *)
Capture(vs, before, after) ==
    LET held == vs # <<>> /\ SameLayout(Last(vs).desk, before)
        kept == ~held /\ before.recs # Empty.recs /\ ~SameLayout(before, after)
        base == IF kept THEN Append1(vs, Version("change", before)) ELSE vs
    IN  IF vs # <<>> /\ SameLayout(Last(vs).desk, after) THEN vs
        ELSE IF Overwrites(vs)
             THEN IF Undoes(vs, after) THEN Front(vs)
                  ELSE [vs EXCEPT ![Len(vs)].desk = Layout(after)]
             ELSE Append1(base, Version("change", after))

(* history::restore: the version's places, the running consoles' sessions.   *)
Onto(d, v, r) ==
    LET same == {c \in Records : /\ Has(d, c) /\ ~Has(v, c) /\ KindOf[c] = KindOf[r]
                                 /\ d.recs[c].session = v.recs[r].session
                                 /\ d.recs[c].session # NoSession}
    IN  IF ~Has(d, r) /\ same # {} THEN CHOOSE c \in same : TRUE ELSE r

Restored(d, v) ==
    [r \in Records |->
        LET from == {x \in Records : Has(v, x) /\ Onto(d, v, x) = r}
            x    == CHOOSE y \in from : TRUE
        IN  IF from # {}
            THEN [place   |-> v.recs[x].place,
                  session |-> IF Has(d, r) THEN d.recs[r].session ELSE v.recs[x].session]
            ELSE IF Has(d, r) /\ KindOf[r] = "window" /\ d.recs[r].session # NoSession
                 THEN d.recs[r] ELSE Absent]

(* prune, prune_fences, prune_notes: over its cap a kind keeps every window  *)
(* that runs and, of the others, as many as fit. Which are the newest is     *)
(* data.                                                                     *)
Pruned(d, recs) ==
    LET runs == {r \in Records : /\ KindOf[r] = "window" /\ Has(d, r)
                                 /\ d.recs[r].session # NoSession}
        Fits(keep, k) ==
            LET all == OfKind(recs, k)
                few == Cardinality(all \cap runs)
            IN  IF Cardinality(all) <= MaxOf[k] THEN all \subseteq keep
                ELSE /\ all \cap runs \subseteq keep
                     /\ Cardinality(all \cap keep) = IF few > MaxOf[k] THEN few ELSE MaxOf[k]
    IN  {[r \in Records |-> IF r \in keep THEN recs[r] ELSE Absent] :
            keep \in {x \in SUBSET Records : \A k \in Kinds : Fits(x, k)}}
-----------------------------------------------------------------------------
(* PUT /api/desk.                                                            *)

(* The body a page sends, and the answer it may hear.                        *)
Body(t, seq, gen, changes) == [tab |-> t, seq |-> seq, gen |-> gen, changes |-> changes]
Heard(kind)   == [kind |-> kind, desk |-> None]
HeardDesk(d)  == [kind |-> "ok", desk |-> d]

IsOld(b) == \E i \in DOMAIN seqs : seqs[i].tab = b.tab /\ b.seq <= seqs[i].seq

MutantRecord(b) ==
    LET all == <<[tab |-> b.tab, seq |-> b.seq]>> \o seqs
    IN  SubSeq(all, 1, IF Len(all) > TabCap THEN TabCap ELSE Len(all))

(* The entries of the other tabs, in order (retain).                         *)
Others(tab) ==
    LET kept[k \in 0..Len(seqs)] ==
            IF k = 0 THEN <<>>
            ELSE IF seqs[k].tab # tab THEN Append(kept[k - 1], seqs[k]) ELSE kept[k - 1]
    IN  kept[Len(seqs)]

(* The number is the tab's newest, and only TAB_SEQS tabs are remembered.    *)
Record(b) ==
    LET all == <<[tab |-> b.tab, seq |-> b.seq]>> \o Others(b.tab)
    IN  SubSeq(all, 1, IF Len(all) > TabCap THEN TabCap ELSE Len(all))

Stays(reply) ==
    [desk |-> desk, seqs |-> seqs, versions |-> versions,
     reply |-> reply, changed |-> FALSE, fault |-> 0, changes |-> <<>>]

MutantUnsaved(b) == [Stays(Heard("failed")) EXCEPT !.seqs = Record(b), !.fault = 1]

(* The save failed: nothing is recorded, so the page's resend applies.       *)
Unsaved(b) == [Stays(Heard("failed")) EXCEPT !.fault = 1]

MutantChanged(b, d, vs, fault) ==
    [desk |-> [d EXCEPT !.rev = desk.rev], seqs |-> Record(b), versions |-> vs,
     reply |-> HeardDesk([d EXCEPT !.rev = desk.rev]),
     changed |-> TRUE, fault |-> fault, changes |-> b.changes]

(* The desk was written: rev rises, the history is captured (or its write    *)
(* failed, with a warning), the number is recorded, the others are told.     *)
Changed(b, d, vs, fault) ==
    [desk |-> d, seqs |-> Record(b), versions |-> vs, reply |-> HeardDesk(d),
     changed |-> TRUE, fault |-> fault, changes |-> b.changes]

MutantFresh(b) == b.gen >= desk.gen

(* A body is applied when it is not from before a restore and not a number   *)
(* the tab already sent.                                                     *)
Fresh(b) == b.gen >= desk.gen /\ ~IsOld(b)

(* What the daemon may do with a body, as one step under DESK_WRITE.         *)
PutRoute(b) ==
    LET after == [Apply(desk, b.changes) EXCEPT !.rev = desk.rev + 1]
    IN  IF file = "damaged"  THEN {Stays(Heard("unreadable"))}
        ELSE IF b.gen < desk.gen THEN {Stays(Heard("restored"))}
        ELSE IF ~Fresh(b)    THEN {Stays(HeardDesk(desk))}
        ELSE IF ~Alters(desk, b.changes) THEN {[Stays(HeardDesk(desk)) EXCEPT !.seqs = Record(b),
                                                                  !.changes = b.changes]}
        ELSE {Unsaved(b), Changed(b, after, versions, 1),
              Changed(b, after, Capture(versions, desk, after), 0)}

OpenTabs == {t \in Tabs : page[t].phase \in {"loading", "ready", "failed"}}

MutantPush(t) == dirty \cup {x \in OpenTabs \cap {t} : hears[x] = "open"}

(* The pushes a write of tab t (None: a restore) sends: to every page whose  *)
(* socket is up. The writer's own page and a hidden one drop theirs.         *)
Push(t) == dirty \cup {x \in OpenTabs \ {t} : hears[x] = "open"}

(* A page whose socket never opened yet hears nothing of the write, and its  *)
(* first open does not read again.                                           *)
Unheard(t) == missed \cup {x \in OpenTabs \ {t} : hears[x] = "first"}

Upset(k) == upsets + k <= MaxUpsets /\ upsets' = upsets + k

Land(b, o) ==
    /\ Upset(o.fault)
    /\ desk' = o.desk /\ seqs' = o.seqs /\ versions' = o.versions
    /\ dirty' = IF o.changed THEN Push(b.tab) ELSE dirty
    /\ applied' = [n \in Numbers |->
                    applied[n] + Cardinality({i \in DOMAIN o.changes : o.changes[i].n = n})]
    /\ missed' = IF o.changed THEN Unheard(b.tab) ELSE missed
    /\ wayBack' = [wayBack EXCEPT !.since = @ + (IF o.versions # versions THEN 2 ELSE 0)]
    /\ UNCHANGED <<file, build, author, again, forgot, refused, fellBack>>
-----------------------------------------------------------------------------
(* The page (createSync and the flush around it).                            *)

NewPage == [phase |-> "new", rev |-> -1, gen |-> -1, server |-> Empty, pending |-> <<>>,
            seq |-> 0, inflight |-> 0, loaded |-> FALSE]

(* reloadForRestoredDesk: the document goes, and with the sink held it sends *)
(* nothing more.                                                             *)
Gone    == [NewPage EXCEPT !.phase = "gone"]
OldPage == [NewPage EXCEPT !.phase = "ready", !.rev = 1, !.gen = 0, !.loaded = TRUE,
                           !.server = FirstLayout]
NoReads == [asked |-> 0, answers |-> {}]
Idle    == [at |-> "idle", body |-> None, reply |-> None]

View(p) == Apply(p.server, p.pending)

MutantTake(p, d) ==
    IF d.rev < p.rev /\ d.gen = p.gen THEN p
    ELSE [p EXCEPT !.rev = d.rev, !.gen = d.gen, !.server = Layout(d),
                   !.phase = "ready"]

(* take: a desk restored since reloads the page, an older one is ignored.    *)
Take(p, d) ==
    IF p.gen # -1 /\ d.gen > p.gen THEN Gone
    ELSE IF d.rev < p.rev THEN p
    ELSE [p EXCEPT !.rev = d.rev, !.gen = d.gen, !.server = Layout(d),
                   !.phase = "ready"]

(* acked, dropped: the batch in flight leaves the pending changes.           *)
Acked(p) == [p EXCEPT !.pending = SubSeq(@, p.inflight + 1, Len(@)), !.inflight = 0]

InFlight(t) == {page[t].pending[i].n : i \in 1..page[t].inflight}

(* fail: the daemon cannot read its desk; changes queue.                     *)
Failed(p) == [p EXCEPT !.phase = "failed", !.loaded = FALSE]

(* The ghost missed, after the page took desk d: it caught up, or d is from  *)
(* before a new desk it already held, whose rev started again at 1.          *)
Caught(t, d) ==
    IF d.rev = desk.rev /\ d.gen = desk.gen /\ file = "ok" THEN missed \ {t}
    ELSE IF d.gen < page[t].gen THEN missed \cup {t}
    ELSE missed

(* The page becomes p. A document that goes leaves its batch on the wire.    *)
Become(t, p) ==
    /\ page' = [page EXCEPT ![t] = p]
    /\ dirty' = IF p = Gone THEN dirty \ {t} ELSE dirty
    /\ hears' = IF p = Gone THEN [hears EXCEPT ![t] = "open"] ELSE hears
    /\ stray' = IF p = Gone /\ put[t].at = "going" THEN stray \cup {put[t].body} ELSE stray

Ask(t) == [reads EXCEPT ![t].asked = @ + 1]

CanAsk(t) == reads[t].asked + Cardinality(reads[t].answers) < MaxReads

(* A document opens and reads the desk.                                      *)
Open(t) ==
    /\ page[t].phase = "new" /\ \A x \in 1..(t - 1) : page[x].phase # "new"
    /\ page' = [page EXCEPT ![t].phase = "loading"]
    /\ reads' = Ask(t)
    /\ UNCHANGED <<daemon, put, stray, last, hears, dirty, build, upsets, ghosts>>

(* GET /api/desk, which takes no lock.                                       *)
DeskGetRoute(t) ==
    /\ reads[t].asked > 0
    /\ LET a == IF file = "ok" THEN HeardDesk(desk) ELSE Heard("unreadable")
       IN  reads' = [reads EXCEPT ![t] = [asked |-> @.asked - 1, answers |-> @.answers \cup {a}]]
    /\ UNCHANGED <<daemon, page, put, stray, last, hears, dirty, build, upsets, ghosts>>

(* One answer reaches the page; answers of several reads arrive in any order.*)
Ingest(t) ==
    \E a \in reads[t].answers :
        LET q == Take(page[t], a.desk)
            p == IF a.kind # "ok" THEN Failed(page[t])
                 ELSE IF q = Gone THEN Gone
                 ELSE [q EXCEPT !.loaded = @ \/ a.desk.rev >= page[t].rev]
        IN  /\ Become(t, p)
            /\ reads' = IF p = Gone THEN [reads EXCEPT ![t] = NoReads]
                        ELSE [reads EXCEPT ![t].answers = @ \ {a}]
            /\ put' = IF p = Gone THEN [put EXCEPT ![t] = Idle] ELSE put
            /\ missed' = IF a.kind = "ok" THEN Caught(t, a.desk) ELSE missed \cup {t}
            /\ UNCHANGED <<daemon, last, build, upsets, author, applied, again, forgot, wayBack,
                           refused, fellBack>>

(* A read that got no desk leaves the page as it was; nothing asks again     *)
(* before the next push, except for the read a page boots with.              *)
ReadFails(t) ==
    /\ reads[t].asked > 0 /\ page[t].phase # "loading"
    /\ Upset(1)
    /\ reads' = [reads EXCEPT ![t].asked = @ - 1]
    /\ missed' = missed \cup {t}
    /\ UNCHANGED <<daemon, page, put, stray, last, hears, dirty, build, author, applied, again,
                   forgot, wayBack, refused, fellBack>>

(* A desk.dirty push arrives, and a visible page reads again.                *)
OnPush(t) ==
    /\ t \in dirty /\ CanAsk(t)
    /\ dirty' = dirty \ {t}
    /\ reads' = IF hears[t] = "open" THEN Ask(t) ELSE reads
    /\ UNCHANGED <<daemon, page, put, stray, last, hears, build, upsets, ghosts>>

(* The page socket is lost with the pushes on it, or the tab is hidden.      *)
StopHearing(t) ==
    /\ t \in OpenTabs /\ hears[t] = "open"
    /\ Upset(1)
    /\ hears' = [hears EXCEPT ![t] = "down"]
    /\ dirty' = dirty \ {t}
    /\ UNCHANGED <<daemon, page, wires, build, ghosts>>

(* The socket opens for the first time and reads nothing: the boot did.      *)
FirstOpen(t) ==
    /\ t \in OpenTabs /\ hears[t] = "first"
    /\ hears' = [hears EXCEPT ![t] = "open"]
    /\ UNCHANGED <<daemon, page, wires, dirty, build, upsets, ghosts>>

(* The socket opened again or the tab is shown: the page reads again.        *)
HearAgain(t) ==
    /\ t \in OpenTabs /\ hears[t] = "down" /\ CanAsk(t)
    /\ hears' = [hears EXCEPT ![t] = "open"]
    /\ reads' = Ask(t)
    /\ UNCHANGED <<daemon, page, put, stray, last, dirty, build, upsets, ghosts>>

(* emitDesk: one change; a clear names the tree the view shows.              *)
Emit(t) ==
    \E c \in ActsOf[t], n \in Numbers :
        /\ t \in OpenTabs
        /\ author[n] = None /\ \A m \in 1..(n - 1) : author[m] # None
        /\ c.op = "clear" => View(page[t]).pick = c.name
        /\ page' = [page EXCEPT ![t].pending =
                        Append(@, [n |-> n, base |-> page[t].gen, act |-> c])]
        /\ author' = [author EXCEPT ![n] = t]
        /\ UNCHANGED <<daemon, wires, hears, dirty, build, upsets, applied, again, forgot, missed,
                       wayBack, refused, fellBack>>

(* flushDesk: the batch in flight again under its number, else every pending *)
(* change as a new batch. A held page sends nothing and schedules nothing;   *)
(* the number it draws is never used.                                        *)
FlushDesk(t) ==
    /\ page[t].phase = "ready" /\ put[t].at = "idle" /\ page[t].pending # <<>>
    /\ build[t] # "held"
    /\ LET fresh == page[t].inflight = 0
           p == IF fresh THEN [page[t] EXCEPT !.seq = @ + 1, !.inflight = Len(page[t].pending)]
                ELSE page[t]
       IN  /\ page' = [page EXCEPT ![t] = p]
           /\ put' = [put EXCEPT ![t] =
                [at |-> "going", reply |-> None,
                 body |-> Body(t, p.seq, p.gen, SubSeq(p.pending, 1, p.inflight))]]
    /\ UNCHANGED <<daemon, stray, last, reads, hears, dirty, build, upsets, ghosts>>

(* The batch reaches the daemon.                                             *)
DeskPutRoute(t) ==
    /\ put[t].at = "going"
    /\ \E o \in PutRoute(put[t].body) :
        /\ Land(put[t].body, o)
        /\ put' = [put EXCEPT ![t] = [@ EXCEPT !.at = "answered", !.reply = o.reply]]
    /\ UNCHANGED <<page, stray, last, reads, hears>>

(* A daemon of another build than the page cannot read the body (400, 422).  *)
DeskPutRefused(t) ==
    /\ put[t].at = "going" /\ build[t] # "same"
    /\ put' = [put EXCEPT ![t] = [@ EXCEPT !.at = "answered", !.reply = Heard("refused")]]
    /\ UNCHANGED <<daemon, page, stray, last, reads, hears, dirty, build, upsets, ghosts>>

(* The connection fails: the body may still land, or only its answer is lost.*)
Disconnect(t) ==
    /\ put[t].at \in {"going", "answered"} /\ put[t].reply # Heard("network")
    /\ Upset(1)
    /\ stray' = IF put[t].at = "going" THEN stray \cup {put[t].body} ELSE stray
    /\ put' = [put EXCEPT ![t] = [@ EXCEPT !.at = "answered", !.reply = Heard("network")]]
    /\ UNCHANGED <<daemon, page, last, reads, hears, dirty, build, ghosts>>

(* flushed: the page reads the answer. A network failure and a 5xx keep the  *)
(* batch for a resend; a 409 reloads the page or stops its sending; a 400 or *)
(* a 422 drops the batch.                                                    *)
Flushed(t) ==
    /\ put[t].at = "answered"
    /\ LET a == put[t].reply
           p == CASE a.kind = "ok"         -> Take(Acked(page[t]), a.desk)
                  [] a.kind = "refused"    -> Acked(page[t])
                  [] a.kind = "restored"   -> Gone
                  [] a.kind = "unreadable" -> Failed(page[t])
                  [] a.kind \in {"network", "failed"} -> page[t]
       IN  /\ Become(t, p)
           /\ reads' = IF p = Gone THEN [reads EXCEPT ![t] = NoReads] ELSE reads
           /\ missed' = CASE a.kind = "ok"         -> Caught(t, a.desk)
                          [] a.kind = "unreadable" -> missed \cup {t}
                          [] OTHER                 -> missed
           /\ refused' = IF a.kind = "refused" THEN refused \cup InFlight(t) ELSE refused
    /\ put' = [put EXCEPT ![t] = Idle]
    /\ UNCHANGED <<daemon, last, build, upsets, author, applied, again, forgot, wayBack, fellBack>>

(* A body nobody waits for lands; it need not.                               *)
LandStray(b) ==
    /\ stray' = stray \ {b}
    /\ \E o \in PutRoute(b) : Land(b, o)
    /\ UNCHANGED <<page, put, last, reads, hears>>

(* closingBatch: every pending change under a higher number.                 *)
ClosingBatch(t) == Body(t, page[t].seq + 1, page[t].gen, page[t].pending)

(* The document goes (pagehide). If it is not held its last batch outlives   *)
(* it, unchained; a batch on the wire is on its own.                         *)
Leave(t, held) ==
    /\ t \in OpenTabs
    /\ LET sends == ~held /\ page[t].phase = "ready" /\ page[t].loaded /\ page[t].pending # <<>>
       IN  /\ last' = IF sends THEN [last EXCEPT ![t] = ClosingBatch(t)] ELSE last
           /\ again' = IF sends THEN again \cup InFlight(t) ELSE again
    /\ Become(t, Gone)
    /\ put' = [put EXCEPT ![t] = Idle]
    /\ reads' = [reads EXCEPT ![t] = NoReads]
    /\ missed' = missed \ {t}
    /\ UNCHANGED <<daemon, build, author, applied, forgot, wayBack, refused, fellBack>>

(* The operator closes the tab.                                              *)
Close(t) == Upset(1) /\ Leave(t, build[t] = "held")

(* onBuildSkew: a page that heard of the daemon's other build lets its       *)
(* changes go and reloads.                                                   *)
ReloadForBuild(t) == build[t] # "same" /\ Leave(t, FALSE) /\ UNCHANGED upsets

(* onBuildSkew: with unsaved work, or hidden, it holds its changes instead.  *)
HoldDesk(t) ==
    /\ t \in OpenTabs /\ build[t] = "other"
    /\ build' = [build EXCEPT ![t] = "held"]
    /\ UNCHANGED <<daemon, page, wires, hears, dirty, upsets, ghosts>>

(* The keepalive request lands; it need not.                                 *)
LandLast(t) ==
    /\ last[t] # None
    /\ last' = [last EXCEPT ![t] = None]
    /\ \E o \in PutRoute(last[t]) : Land(last[t], o)
    /\ UNCHANGED <<page, put, stray, reads, hears>>

(* POST /api/desk/history: the current desk becomes a version first; then    *)
(* the version's desk is written, pruned to the caps, with the time of the   *)
(* day as its generation. A failed save keeps the extra version and nothing  *)
(* else.                                                                     *)
DeskHistoryRestoreRoute ==
    /\ file = "ok"
    /\ Upset(1)
    /\ \E i \in DOMAIN versions, now \in 1..MaxGen :
        LET saved == Append1(versions, Version("before-restore", desk))
        IN  \/ \E recs \in Pruned(desk, Restored(desk, versions[i].desk)) :
                LET d == [rev |-> desk.rev + 1, gen |-> now, recs |-> recs, pick |-> desk.pick]
                IN  /\ desk' = d
                    /\ versions' \in {saved, Append1(saved, Version("restore", d))}
                    /\ dirty' = Push(None) /\ missed' = Unheard(None)
                    /\ wayBack' = [desk |-> Layout(desk), since |-> Len(versions') - Len(saved) + 1]
                    /\ fellBack' = (fellBack \/ now <= desk.gen)
            \/ /\ versions' = saved
               /\ wayBack' = [wayBack EXCEPT !.since = @ + 1]
               /\ UNCHANGED <<desk, dirty, missed, fellBack>>
    /\ UNCHANGED <<file, seqs, page, wires, hears, build, author, applied, again, forgot, refused>>

(* desk.toml is damaged outside the daemon.                                  *)
Damage ==
    /\ file = "ok"
    /\ Upset(1)
    /\ file' = "damaged"
    /\ UNCHANGED <<desk, seqs, versions, page, wires, hears, dirty, build, ghosts>>

(* POST /api/desk/new, from a page that shows the failure: the damaged file  *)
(* is moved aside, an empty desk takes its place with the time of the day as *)
(* its generation, and the page reads it. When the save fails, or the daemon *)
(* dies before it, no file is left: the desk reads as one of rev and         *)
(* generation 0, nobody is told, and the page stays as it was.               *)
DeskNewRoute(t) ==
    /\ file = "damaged" /\ page[t].phase = "failed" /\ CanAsk(t)
    /\ file' = "ok"
    /\ \/ \E now \in 1..MaxGen :
            /\ desk' = [rev |-> 1, gen |-> now, recs |-> Empty.recs, pick |-> NoTree]
            /\ dirty' = Push(None) /\ missed' = Unheard(None)
            /\ reads' = Ask(t)
            /\ fellBack' = (fellBack \/ now <= desk.gen)
       \/ /\ desk' = [rev |-> 0, gen |-> 0, recs |-> Empty.recs, pick |-> NoTree]
          /\ fellBack' = TRUE
          /\ UNCHANGED <<dirty, missed, reads>>
    /\ UNCHANGED <<seqs, versions, page, put, stray, last, hears, build, upsets, author, applied,
                   again, forgot, wayBack, refused>>

(* The same from a page that does not know the desk reads again (409         *)
(* "readable"): it reads it.                                                 *)
StartNewDesk(t) ==
    /\ file = "ok" /\ page[t].phase = "failed" /\ reads[t] = NoReads
    /\ reads' = Ask(t)
    /\ UNCHANGED <<daemon, page, put, stray, last, hears, dirty, build, upsets, ghosts>>

(* The daemon restarts, perhaps with another build: the numbers are          *)
(* forgotten, the sockets fall.                                              *)
Restart ==
    /\ Upset(1)
    /\ seqs' = <<>>
    /\ forgot' = TRUE
    /\ hears' = [t \in Tabs |-> IF t \in OpenTabs /\ hears[t] = "open" THEN "down" ELSE hears[t]]
    /\ dirty' = {}
    /\ build' \in {build, [t \in Tabs |-> IF t \in OpenTabs /\ build[t] = "same" THEN "other"
                                          ELSE build[t]]}
    /\ UNCHANGED <<desk, file, versions, page, wires, author, applied, again, missed, wayBack,
                   refused, fellBack>>
-----------------------------------------------------------------------------
Init ==
    /\ desk = [rev |-> 1, gen |-> 0, recs |-> FirstLayout.recs, pick |-> FirstLayout.pick]
    /\ file = "ok" /\ seqs = <<>>
    /\ versions = <<[Version("change", FirstLayout) EXCEPT !.young = FALSE]>>
    /\ page = [t \in Tabs |-> IF t <= OpenAtStart THEN OldPage ELSE NewPage]
    /\ put = [t \in Tabs |-> Idle]
    /\ stray = {} /\ last = [t \in Tabs |-> None]
    /\ reads = [t \in Tabs |-> NoReads]
    /\ hears = [t \in Tabs |-> IF t <= OpenAtStart THEN "open" ELSE "first"] /\ dirty = {}
    /\ build = [t \in Tabs |-> "same"]
    /\ upsets = 0
    /\ author = [n \in Numbers |-> None] /\ applied = [n \in Numbers |-> 0]
    /\ again = {} /\ forgot = FALSE /\ missed = {}
    /\ wayBack = [desk |-> None, since |-> 0] /\ refused = {} /\ fellBack = FALSE

PageStep(t) ==
    \/ Open(t) \/ FirstOpen(t) \/ Ingest(t) \/ OnPush(t) \/ HearAgain(t)
    \/ FlushDesk(t) \/ Flushed(t) \/ Emit(t) \/ HoldDesk(t) \/ ReloadForBuild(t) \/ StartNewDesk(t)

DaemonStep(t) == DeskGetRoute(t) \/ DeskPutRoute(t) \/ DeskPutRefused(t) \/ LandLast(t) \/ DeskNewRoute(t)

FaultStep(t) == ReadFails(t) \/ StopHearing(t) \/ Disconnect(t) \/ Close(t)

Next ==
    \/ \E t \in Tabs : PageStep(t) \/ DaemonStep(t) \/ FaultStep(t)
    \/ \E b \in stray : LandStray(b)
    \/ DeskHistoryRestoreRoute \/ Damage \/ Restart

Spec == Init /\ [][Next]_vars

(* The browser's timers and callbacks run and the daemon answers. Nothing    *)
(* else is promised: an act, a restore or a fault need not happen, and a     *)
(* stray body need not land.                                                 *)
Runs(t) ==
    \/ FirstOpen(t) \/ Ingest(t) \/ OnPush(t) \/ HearAgain(t) \/ FlushDesk(t) \/ Flushed(t)
    \/ DeskGetRoute(t) \/ DeskPutRoute(t)

FairSpec == Spec /\ WF_vars(\E t \in Tabs : Runs(t))
-----------------------------------------------------------------------------
BodyType == [tab : Tabs, seq : Nat, gen : Ats, changes : Seq(Changes)]
IsDesk(d) == d.rev \in Nat /\ d.gen \in Nat /\ Layout(d) \in Layouts

(* The desk, the pages and the wires hold what their types say; the history  *)
(* and the list of tab numbers keep their caps (HISTORY_MAX, TAB_SEQS), with *)
(* one number per tab.                                                       *)
TypeOK ==
    /\ IsDesk(desk) /\ file \in {"ok", "damaged"}
    /\ seqs \in Seq([tab : Tabs, seq : Nat]) /\ Len(seqs) <= TabCap
    /\ \A i, j \in DOMAIN seqs : seqs[i].tab = seqs[j].tab => i = j
    /\ versions \in Seq([reason : {"change", "before-restore", "restore"}, desk : Layouts, young : BOOLEAN])
    /\ Len(versions) <= HistoryMax
    /\ \A t \in Tabs :
        /\ page[t].phase \in {"new", "loading", "ready", "failed", "gone"}
        /\ page[t].rev \in Nat \cup {-1} /\ page[t].gen \in Ats
        /\ page[t].server \in Layouts /\ page[t].pending \in Seq(Changes)
        /\ page[t].inflight \in 0..Len(page[t].pending)
        /\ page[t].phase = "ready" => page[t].gen >= 0
        /\ put[t].at \in {"idle", "going", "answered"}
        /\ put[t].at # "idle" => put[t].body \in BodyType
        /\ last[t] \in BodyType \cup {None}
        /\ \A a \in reads[t].answers : a.kind \in {"ok", "unreadable"}
        /\ hears[t] \in {"first", "open", "down"} /\ build[t] \in {"same", "other", "held"}
    /\ stray \subseteq BodyType /\ dirty \subseteq Tabs /\ missed \subseteq Tabs

(* A change is applied once, however often its batch is resent and however   *)
(* late a copy of it lands (TabSeqs). The two exceptions the code makes: a   *)
(* restart forgets the numbers, and a closing page sends the batch it still  *)
(* waits for a second time under a new number.                               *)
AppliedOnce ==
    ~forgot => \A n \in Numbers : applied[n] <= IF n \in again THEN 2 ELSE 1

(* A change a live page no longer holds as pending has been applied: a lost  *)
(* answer, a failed save or a resend never drops an act of the operator. The *)
(* one exception the code makes is a batch of a page of another build that   *)
(* the daemon cannot read (400, 422).                                        *)
AckedIsApplied ==
    \A n \in Numbers \ refused :
        LET t == author[n]
        IN  t # None /\ page[t].phase # "gone"
            /\ (\A i \in DOMAIN page[t].pending : page[t].pending[i].n # n)
            => applied[n] > 0

(* Two desks with the same generation and rev are the same desk, wherever    *)
(* they are held: the staleness check of take rests on it. This and the two  *)
(* properties that follow from it hold as long as every restore and every    *)
(* new desk raises the generation, which the code does not ensure: it is the *)
(* wall clock, and a new desk whose save fails has generation and rev 0.     *)
SameRevSameDesk ==
    ~fellBack => \A t \in Tabs :
        page[t].rev = desk.rev /\ page[t].gen = desk.gen /\ file = "ok"
        => page[t].server = Layout(desk)

(* The layout a restore replaced stays in the history as a before-restore    *)
(* version until newer versions push it out: no later change is written into *)
(* it and no undo deletes it.                                                *)
RestoreUndoable ==
    wayBack.desk # None /\ wayBack.since < HistoryMax
    => \E i \in DOMAIN versions :
        versions[i].reason = "before-restore" /\ versions[i].desk = wayBack.desk

(* A change made on the desk of one generation is never applied to the desk  *)
(* of a later one: a page from before a restore, or its stray batch, cannot  *)
(* write over the restored layout, while generations rise.                   *)
NoWriteAcrossRestore ==
    [][~fellBack => \A n \in Numbers : applied'[n] > applied[n] =>
        \A b \in stray \cup {put[t].body : t \in Tabs} \cup {last[t] : t \in Tabs} :
            b # None => \A i \in DOMAIN b.changes :
                b.changes[i].n = n => b.changes[i].base \in {-1, desk.gen}]_vars

(* Once the acts and the faults end, every open page shows the stored desk   *)
(* and holds no unsent change, whatever was lost, hidden or out of order on  *)
(* the way, while generations rise. Left out are a page that missed the last *)
(* write (a read of it failed, its socket had not opened yet, or an answer   *)
(* from before a new desk came after that desk and passed the check of rev)  *)
(* and the changes of a page that holds them back, being of another build.   *)
Settled(t) ==
    t \in OpenTabs /\ page[t].phase = "ready" /\ t \notin missed
    => /\ page[t].pending = <<>> \/ build[t] = "held"
       /\ page[t].server = Layout(desk)
Converges == <>[](file = "ok" /\ ~fellBack => \A t \in Tabs : Settled(t))
=============================================================================
