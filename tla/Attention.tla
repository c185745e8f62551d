------------------------------- MODULE Attention -------------------------------
(***************************************************************************)
(* The attention list and its Telegram messages (attention.rs with its     *)
(* modules, telegram_state.rs, peer/telegram_claim.rs, routes/             *)
(* api_attention.rs, routes/api_telegram.rs, docs/adr/0085): the requests  *)
(* the consoles of each daemon open, the "tell me when it is done" mark,   *)
(* the dismissals, the sender that tells an operator who is away, and the  *)
(* claim by which one daemon of a fleet sends for the others.              *)
(*                                                                         *)
(* A tick is one run of tick_once.  A send runs beside the ticks, one      *)
(* message after the other.  The two clocks are flags: a request is `aged` *)
(* once it is DELAY old, and a claim holds until it lapses.                *)
(***************************************************************************)
EXTENDS Integers, FiniteSets

CONSTANTS Daemons,
          Rank,         \* the order of the daemon ids
          PeersOf,      \* the daemons in the peers folder of each daemon
          Records,      \* the console windows of the desks
          Home,         \* the daemon of each window
          Pages,        \* the daemons whose pages the operator uses
          FirstBots,    \* the daemons that start with a bot
          MaxSessions,  \* bound: the sessions a daemon ever starts
          MaxStops,     \* bound: the times the agent of a window waits or ends a turn
          MaxFaults,    \* bound: the faults and restarts of a behaviour
          Faults        \* which of them may happen

ASSUME AttentionAssumption ==
    /\ Rank \in [Daemons -> Nat] /\ PeersOf \in [Daemons -> SUBSET Daemons]
    /\ Home \in [Records -> Daemons]
    /\ Pages \subseteq Daemons /\ FirstBots \subseteq Daemons
    /\ MaxSessions \in Nat /\ MaxStops \in Nat /\ MaxFaults \in Nat

VARIABLES
    console,    \* the session of each window: its id, agent state and counts
    last,       \* IdSeq.last of each daemon
    idFile,     \* ... and what its file has of it
    aged,       \* the requests that are at least DELAY old
    mark,       \* DeskRecord.done_mark, which the desk file keeps
    marks,      \* Marks: the turns each tick looked at, the open requests, and
                \* those the tick under way opens while it clears their marks
    dismissed,  \* the dismissals, which their file keeps
    present,    \* the daemons at whose pages the operator is present
    bots,       \* the daemons whose config has a bot
    claimed,    \* the daemons on which the claim of a main holds
    sender,     \* Sender: the ids sent, and what the send in flight has to send
    faults,     \* how many faults there were
    stops,      \* how often the agent of each window waited or ended a turn
    told,       \* history: the messages that reached the operator
    history,    \* history: what each daemon delivered, in which of it it cannot
                \* be sure of, and delivered again; what opened hidden; the
                \* daemons whose ids started again
    asks        \* history: the windows whose mark asks for the next turn, the
                \* done requests owed to it, and those of them that are lost

vars == <<console, last, idFile, aged, mark, marks, dismissed, present, bots, claimed,
          sender, faults, stops, told, history, asks>>

Agents == {"none", "working", "waiting", "done"}
Stops == 0 .. MaxStops
(* The id of a request: console:<sid> when `turn` is 0, else done:<sid>:<turn>. *)
(* The window stands for the daemon id that prefixes a peer's request.          *)
ReqId == [of : Records, sid : 1 .. MaxSessions, turn : Stops]
(* A message is about one opening of its request, the `wait`th of the console.   *)
(* The code keeps only the ids: nothing below but the history reads `wait`.      *)
Message == [id : ReqId, wait : Stops]

Here(d) == {r \in Records : Home[r] = d}
Gone == [sid |-> 0, agent |-> "none", waits |-> 0, turns |-> 0]
NoMarks == [handled |-> {}, open |-> {}, firing |-> {}]
NoSends == [sent |-> {}, todo |-> {}]

Waiting(r) == [of |-> r, sid |-> console[r].sid, turn |-> 0]
MutantDone(r, n) == [of |-> r, sid |-> console[r].sid, turn |-> 1]
Done(r, n) == [of |-> r, sid |-> console[r].sid, turn |-> n]

(* attention::list: the consoles that wait, then the finished turns of the   *)
(* marked consoles that still run, without the dismissed ones.               *)
ListOf(d, open) ==
    ({Waiting(r) : r \in {x \in Here(d) : console[x].agent = "waiting"}}
        \cup {i \in open : i.sid = console[i.of].sid})
      \ dismissed[d]

Requests(d) == ListOf(d, marks[d].open)

MessageOf(i) == [id |-> i, wait |-> IF i.turn = 0 THEN console[i.of].waits ELSE 0]

Init ==
    /\ console = [r \in Records |-> Gone]
    /\ last = [d \in Daemons |-> 0] /\ idFile = last
    /\ aged = {} /\ mark = [r \in Records |-> FALSE]
    /\ marks = [d \in Daemons |-> NoMarks]
    /\ dismissed = [d \in Daemons |-> {}]
    /\ present = {} /\ bots = FirstBots
    /\ claimed = {}
    /\ sender = [d \in Daemons |-> NoSends]
    /\ faults = 0 /\ stops = [r \in Records |-> 0] /\ told = {}
    /\ history = [got |-> [d \in Daemons |-> {}], twice |-> [d \in Daemons |-> {}],
                  unsure |-> [d \in Daemons |-> {}], hidden |-> {}, reissued |-> {}]
    /\ asks = [on |-> {}, owed |-> {}, lost |-> {}]

Fault(f) == f \in Faults /\ faults < MaxFaults /\ faults' = faults + 1
NoFault == UNCHANGED faults

-----------------------------------------------------------------------------
(* The consoles.                                                            *)

(* The history keeps what is about an opening only while it lasts.          *)
Forget(over) ==
    /\ told' = told \ over
    /\ history' = [history EXCEPT !.got = [d \in Daemons |-> @[d] \ over],
                                  !.twice = [d \in Daemons |-> @[d] \ over],
                                  !.unsure = [d \in Daemons |-> @[d] \ over]]

(* The requests of the windows in `S` are owed no longer.                   *)
Settled(a, S) == [a EXCEPT !.owed = {i \in @ : i.of \notin S},
                           !.lost = {i \in @ : i.of \notin S}]

ids == <<last, idFile>>
consoles == <<console, ids, aged, stops>>
telling == <<sender, told>>
fleet == <<present, bots, claimed>>
asking == <<mark, marks, dismissed>>
ghosts == <<history, asks>>

(* The operator opens the console of a window: a session with the next id,  *)
(* which is recorded; a failed write of it is only logged.                  *)
OpenConsole(r) ==
    LET d == Home[r] IN
    /\ console[r].sid = 0 /\ last[d] < MaxSessions
    /\ last' = [last EXCEPT ![d] = @ + 1]
    /\ \/ idFile' = [idFile EXCEPT ![d] = last[d] + 1] /\ NoFault
       \/ Fault("ids") /\ UNCHANGED idFile
    /\ console' = [console EXCEPT ![r] = [Gone EXCEPT !.sid = last[d] + 1, !.agent = "done"]]
    /\ UNCHANGED <<aged, stops, asking, fleet, telling, ghosts>>

CloseConsole(r) ==
    /\ console[r].sid # 0
    /\ console' = [console EXCEPT ![r] = Gone]
    /\ aged' = {i \in aged : i.of # r}
    /\ Forget({m \in Message : m.id.of = r}) /\ asks' = Settled(asks, {r})
    /\ UNCHANGED <<ids, stops, asking, fleet, sender, faults>>

(* What the agent waited for is over. *)
WaitOver(r) ==
    /\ aged' = aged \ {Waiting(r)}
    /\ Forget({m \in Message : m.id = Waiting(r)})

(* The agent works: a new turn, or the operator answered what it waited for. *)
AgentWorks(r) ==
    /\ console[r].agent \in {"waiting", "done"}
    /\ console' = [console EXCEPT ![r].agent = "working"]
    /\ WaitOver(r)
    /\ UNCHANGED <<ids, stops, asking, fleet, sender, faults, asks>>

AgentWaits(r) ==
    /\ console[r].agent \in {"working", "done"} /\ stops[r] < MaxStops
    /\ console' = [console EXCEPT ![r].agent = "waiting", ![r].waits = @ + 1]
    /\ stops' = [stops EXCEPT ![r] = @ + 1]
    /\ UNCHANGED <<ids, aged, asking, fleet, telling, faults, ghosts>>

(* count_turn_ends: a `done` of a turn's end right after a `working`.        *)
TurnEnds(r) ==
    /\ console[r].agent = "working" /\ stops[r] < MaxStops
    /\ console' = [console EXCEPT ![r].agent = "done", ![r].turns = @ + 1]
    /\ stops' = [stops EXCEPT ![r] = @ + 1]
    /\ asks' = [asks EXCEPT !.owed =
           IF r \in asks.on THEN @ \cup {Done(r, console[r].turns + 1)} ELSE @]
    /\ UNCHANGED <<ids, aged, asking, fleet, telling, faults, history>>

(* A `done` that is not counted: an interrupt, a session that starts anew,   *)
(* a turn that ends straight from a wait, a wait that gives a `done` back.   *)
AgentRests(r) ==
    /\ console[r].agent \in {"working", "waiting"}
    /\ console' = [console EXCEPT ![r].agent = "done"]
    /\ WaitOver(r)
    /\ UNCHANGED <<ids, stops, asking, fleet, sender, faults, asks>>

(* DELAY passes since the request opened.                                    *)
Ages(i) ==
    /\ i \in UNION {Requests(d) : d \in Daemons} /\ i \notin aged
    /\ aged' = aged \cup {i}
    /\ UNCHANGED <<console, ids, stops, asking, fleet, telling, faults, ghosts>>

(* The operator turns "tell me when it is done" on or off, on the desk.      *)
Mark(r) ==
    /\ mark' = [mark EXCEPT ![r] = ~@]
    /\ asks' = [Settled(asks, {r}) EXCEPT !.on = IF mark[r] THEN @ \ {r} ELSE @ \cup {r}]
    /\ UNCHANGED <<consoles, marks, dismissed, fleet, telling, faults, history>>

(* dismiss_local, of a request that may be hidden: its line is appended.     *)
Dismiss(d, i) ==
    /\ i \in Requests(d) /\ i.turn # 0
    /\ dismissed' = [dismissed EXCEPT ![d] = @ \cup {i}]
    /\ UNCHANGED <<consoles, mark, marks, fleet, telling, faults, ghosts>>

-----------------------------------------------------------------------------
(* The tick.                                                                 *)

(* Notifier::landed: the send in flight has ended.                           *)
Landed(d) == sender[d].todo = {}

(* Notifier::sends: no claim holds on the daemon, and its config has a bot.  *)
Sends(d) == d \notin claimed /\ d \in bots

MutantKeeps(d, all, silent) == {m \in sender[d].sent : m.id \in all}

(* Sender::next_with: the ids it keeps, `all` being the requests that are    *)
(* open and `silent` the peers that did not answer.                          *)
Keeps(d, all, silent) ==
    {m \in sender[d].sent : m.id \in all \/ Home[m.id.of] \in silent}

(* telegram::due.                                                            *)
Due(all, sent, there) == IF there THEN {} ELSE {i \in all : i \in aged /\ \A m \in sent : m.id # i}

(* Notifier::tick_at, with the list `own`, the peers in `silent` that did    *)
(* not answer, and those in `unread` whose descriptor could not be read: they *)
(* are not asked, and not among the unanswered either.                       *)
Notify(d, own, silent, unread) ==
    LET peers == PeersOf[d] \ (silent \cup unread)
        all == own \cup UNION {Requests(p) : p \in peers}
        sent == Keeps(d, all, silent)
        there == present \cap ({d} \cup peers) # {}
        unknown == {m \in sender[d].sent \ sent : Home[m.id.of] \in unread}
    IN IF Landed(d) /\ Sends(d)
       THEN /\ sender' = [sender EXCEPT ![d] =
                   [sent |-> sent, todo |-> {MessageOf(i) : i \in Due(all, sent, there)}]]
            /\ history' = [history EXCEPT !.unsure[d] = @ \cup unknown]
       ELSE UNCHANGED <<sender, history>>

(* A tick that some peers miss.                                              *)
SomeMissed(silent, unread) ==
    \/ silent # {} /\ unread = {} /\ Fault("peer")
    \/ silent = {} /\ unread # {} /\ Fault("store")

(* Marks::fresh: the finished turns of the running consoles the tick did not *)
(* look at before.  A console that left takes its count and requests along.  *)
Ended(d) == {r \in Here(d) : console[r].turns > 0}
MutantFresh(d) == {r \in Ended(d) : marks[d].handled = {}}
Fresh(d) ==
    {r \in Ended(d) : \A h \in marks[d].handled :
                         h.sid = console[r].sid => console[r].turns > h.count}
StillOpen(d) == {i \in marks[d].open : i.of \in Ended(d) /\ console[i.of].sid = i.sid}

Handled(d) == {[sid |-> console[r].sid, count |-> console[r].turns] : r \in Ended(d)}

(* tick_once.  It looks at the fresh turns and reads the desk: `fires` are   *)
(* those whose window has the mark.  Then it writes the desk to clear those  *)
(* marks, waits for that, and only then lists and sends.                     *)
Fires(d) == {r \in Fresh(d) : mark[r]}
Looks(d, fires) ==
    /\ marks[d].firing = {}
    /\ marks' = [marks EXCEPT ![d] =
           [handled |-> Handled(d), open |-> StillOpen(d),
            firing |-> {Done(r, console[r].turns) : r \in fires}]]

(* A tick with no request to open. *)
TickWith(d, silent, unread) ==
    /\ Fires(d) = {} /\ Looks(d, {})
    /\ Notify(d, ListOf(d, StillOpen(d)), silent, unread)
    /\ UNCHANGED <<consoles, mark, dismissed, fleet, told, asks>>

(* done::fire up to the write of the desk: the requests are made. *)
TickOpens(d) ==
    /\ Fires(d) # {} /\ Looks(d, Fires(d))
    /\ asks' = [Settled(asks, Fires(d)) EXCEPT !.on = @ \ Fires(d)]
    /\ history' = [history EXCEPT
           !.hidden = @ \cup {i \in dismissed[d] : \E r \in Fires(d) : i = Done(r, console[r].turns)}]
    /\ UNCHANGED <<consoles, mark, dismissed, fleet, telling, faults>>

(* A desk that cannot be read opens no request, and the turns count as       *)
(* looked at.                                                                *)
TickNoDesk(d) ==
    /\ Fires(d) # {} /\ Looks(d, {}) /\ Fault("desk")
    /\ Notify(d, ListOf(d, StillOpen(d)), {}, {})
    /\ asks' = [asks EXCEPT !.lost = @ \cup {i \in asks.owed : i.of \in Fires(d)}]
    /\ UNCHANGED <<consoles, mark, dismissed, fleet, told>>

(* The rest of the tick, once the desk took the write (`clears`) or did not. *)
(* It clears the mark whether or not the operator set it anew meanwhile.     *)
TickClears(d, clears, silent, unread) ==
    LET firing == marks[d].firing
        over == {i.of : i \in firing}
        open == marks[d].open \cup firing
    IN
    /\ firing # {}
    /\ mark' = [r \in Records |-> mark[r] /\ ~(clears /\ r \in over)]
    /\ marks' = [marks EXCEPT ![d].open = open, ![d].firing = {}]
    /\ Notify(d, ListOf(d, open), silent, unread)
    /\ asks' = [asks EXCEPT
           !.on = IF clears THEN @ \ over ELSE @ \cup {r \in over : mark[r]},
           !.lost = IF clears THEN @ \cup {i \in asks.owed : i.of \in over} ELSE @]
    /\ UNCHANGED <<consoles, dismissed, fleet, told>>

Tick(d) ==
    \/ NoFault /\ TickWith(d, {}, {})
    \/ TickOpens(d)
    \/ NoFault /\ TickClears(d, TRUE, {}, {})

TickUpset(d) ==
    \/ TickNoDesk(d)
    \/ Fault("desk") /\ TickClears(d, FALSE, {}, {})
    \/ \E silent, unread \in SUBSET PeersOf[d] :
          /\ SomeMissed(silent, unread)
          /\ TickWith(d, silent, unread) \/ TickClears(d, TRUE, silent, unread)

-----------------------------------------------------------------------------
(* The send in flight: deliver, one message after the other.  What it did is *)
(* read only when it ended (Sender::finish at the tick), so a message is     *)
(* kept as sent at once.                                                     *)

(* A message of `d` reaches the operator; it may not know so of those in     *)
(* `unknown`.                                                                *)
Reaches(d, m, unknown) ==
    /\ told' = told \cup {m}
    /\ history' = [history EXCEPT !.got[d] = @ \cup {m},
           !.twice[d] = IF m \in history.got[d] \ history.unsure[d] THEN @ \cup {m} ELSE @,
           !.unsure[d] = (@ \ {m}) \cup unknown]

Deliver(d) ==
    \E m \in sender[d].todo :
      /\ sender' = [sender EXCEPT ![d].todo = @ \ {m}, ![d].sent = @ \cup {m}]
      /\ Reaches(d, m, {})
      /\ UNCHANGED <<consoles, asking, fleet, faults, asks>>

(* deliver reads the config first: a bot that is gone by then sends nothing, *)
(* and the messages stay due.                                                *)
DeliverOff(d) ==
    /\ sender[d].todo # {} /\ d \notin bots
    /\ sender' = [sender EXCEPT ![d].todo = {}]
    /\ UNCHANGED <<consoles, asking, fleet, told, faults, ghosts>>

MutantDeliverFails(d) ==
    /\ Fault("send")
    /\ \E m \in sender[d].todo :
         sender' = [sender EXCEPT ![d].todo = @ \ {m}, ![d].sent = @ \cup {m}]
    /\ UNCHANGED <<consoles, asking, fleet, told, ghosts>>

(* The send fails: before the message went out, or with its answer lost.     *)
(* Either way it stays due.                                                  *)
DeliverFails(d) ==
    /\ Fault("send")
    /\ \E m \in sender[d].todo :
         /\ sender' = [sender EXCEPT ![d].todo = @ \ {m}]
         /\ Reaches(d, m, {m}) \/ UNCHANGED <<told, history>>
    /\ UNCHANGED <<consoles, asking, fleet, asks>>

-----------------------------------------------------------------------------
(* The fleet: presence, the bot, and the claim.                              *)

Presence(d) ==
    /\ d \in Pages
    /\ present' = IF d \in present THEN present \ {d} ELSE present \cup {d}
    /\ UNCHANGED <<consoles, asking, bots, claimed, telling, faults, ghosts>>

BotChanges(d) ==
    /\ Fault("bot")
    /\ bots' = IF d \in bots THEN bots \ {d} ELSE bots \cup {d}
    /\ UNCHANGED <<consoles, asking, present, claimed, telling, ghosts>>

(* mutual_and_first: `p` is itself the main of `d`.                          *)
MutualFirst(p, d) == Rank[p] < Rank[d] /\ p \in bots /\ d \in PeersOf[p]

(* claim_once, once a minute at each daemon: one that sends claims each of   *)
(* its peers, and claim_route answers there.  The rounds of the daemons in   *)
(* `at` overlap: each checks whether it sends before the claims arrive.      *)
Claims(d, p) == p \in PeersOf[d] /\ Sends(d) /\ ~MutualFirst(p, d)
ClaimRounds(at) ==
    /\ claimed' = claimed \cup {p \in Daemons : \E d \in at : Claims(d, p)}
    /\ UNCHANGED <<consoles, asking, present, bots, telling, faults, ghosts>>

(* CLAIM_HOLDS passes with no new claim: no daemon that sends claims `p`, or *)
(* three claims in a row were lost.                                          *)
Lapse(p) ==
    /\ p \in claimed /\ claimed' = claimed \ {p}
    /\ \/ NoFault /\ ~\E d \in Daemons : Claims(d, p)
       \/ Fault("claim")
    /\ UNCHANGED <<consoles, asking, present, bots, telling, ghosts>>

(* A daemon restarts: its consoles end, and only its files stay.  Its ids go *)
(* on from the record, or from 0 when that cannot be read.                   *)
Restart(d) ==
    /\ Fault("restart")
    /\ \E n \in {idFile[d]} \cup (IF "ids" \in Faults THEN {0} ELSE {}) :
         /\ last' = [last EXCEPT ![d] = n]
         /\ history' = [history EXCEPT
                !.got     = [x \in Daemons |-> {m \in @[x] : x # d /\ Home[m.id.of] # d}],
                !.twice   = [x \in Daemons |-> {m \in @[x] : x # d /\ Home[m.id.of] # d}],
                !.unsure  = [x \in Daemons |-> {m \in @[x] : x # d /\ Home[m.id.of] # d}],
                !.reissued = IF n < last[d] THEN @ \cup {d} ELSE @]
    /\ console' = [r \in Records |-> IF Home[r] = d THEN Gone ELSE console[r]]
    /\ aged' = {i \in aged : Home[i.of] # d}
    /\ marks' = [marks EXCEPT ![d] = NoMarks]
    /\ present' = present \ {d}
    /\ claimed' = claimed \ {d}
    /\ sender' = [sender EXCEPT ![d] = NoSends]
    /\ told' = {m \in told : Home[m.id.of] # d}
    /\ asks' = [Settled(asks, Here(d)) EXCEPT !.on = {r \in Records : mark[r]}]
    /\ UNCHANGED <<idFile, stops, mark, dismissed, bots>>

-----------------------------------------------------------------------------
Operator ==
    \/ \E r \in Records : OpenConsole(r) \/ CloseConsole(r) \/ Mark(r)
    \/ \E d \in Daemons : Presence(d) \/ BotChanges(d) \/ \E i \in Requests(d) : Dismiss(d, i)

Agent == \E r \in Records : AgentWorks(r) \/ AgentWaits(r) \/ TurnEnds(r) \/ AgentRests(r)

Clock == \E d \in Daemons : Lapse(d) \/ \E i \in Requests(d) : Ages(i)

Daemon(d) == Tick(d) \/ Deliver(d) \/ DeliverOff(d)

Upset == \E d \in Daemons : TickUpset(d) \/ DeliverFails(d) \/ Restart(d)

Next ==
    \/ Operator \/ Agent \/ Clock \/ Upset
    \/ \E d \in Daemons : Daemon(d)
    \/ \E at \in SUBSET Daemons \ {{}} : ClaimRounds(at)

Spec == Init /\ [][Next]_vars

(* The daemons, their clocks and their claim rounds go on: the tick is due   *)
(* every 3 s and the round every minute, and a send in flight ends, for the  *)
(* transport has its own timeout.                                            *)
Goes ==
    \/ \E d \in Daemons : Daemon(d) \/ ClaimRounds({d}) \/ Lapse(d)
    \/ \E d \in Daemons : \E i \in Requests(d) : Ages(i)

FairSpec == Spec /\ WF_vars(Goes)

-----------------------------------------------------------------------------
(* Properties.                                                               *)

TypeOK ==
    /\ console \in [Records -> [sid : 0 .. MaxSessions, agent : Agents,
                                waits : Stops, turns : Stops]]
    /\ {last, idFile} \subseteq [Daemons -> 0 .. MaxSessions] /\ aged \subseteq ReqId
    /\ mark \in [Records -> BOOLEAN]
    /\ marks \in [Daemons -> [handled : SUBSET [sid : 1 .. MaxSessions, count : Stops],
                              open : SUBSET ReqId, firing : SUBSET ReqId]]
    /\ dismissed \in [Daemons -> SUBSET ReqId]
    /\ present \subseteq Daemons /\ bots \subseteq Daemons
    /\ claimed \subseteq Daemons
    /\ sender \in [Daemons -> [sent : SUBSET Message, todo : SUBSET Message]]
    /\ faults \in 0 .. MaxFaults /\ stops \in [Records -> Stops] /\ told \subseteq Message

(* "One request is one message" (telegram_state.rs:11), for each daemon: in  *)
(* one life a daemon delivers no opening of a request twice, over slow       *)
(* sends, peers that miss a tick and claims that come and go.  It does when  *)
(* it could not know of the first (`unsure`): the answer to the send was     *)
(* lost (telegram.rs, deliver), or the descriptor of the request's daemon    *)
(* could not be read at a tick, which forgets its ids (next_with keeps those *)
(* of the `unanswered` only); and when the ids of that daemon started again, *)
(* so that two sessions share one.                                           *)
OneMessageEach ==
    \A d \in Daemons : \A m \in history.twice[d] : Home[m.id.of] \in history.reissued

(* A dismissal hides only what the operator saw: no finished turn opens with *)
(* an id that was dismissed before, also after a restart of the daemon,      *)
(* unless the record of the ids issued was lost and they started again       *)
(* (id_seq.rs, continuing and next).                                         *)
NothingOpensHidden == \A i \in history.hidden : Home[i.of] \in history.reissued

(* What waits for an operator who is away, and can be sent by some daemon.   *)
Sendable(r) == \E d \in bots : d = Home[r] \/ Home[r] \in PeersOf[d]
Untold(i) == MessageOf(i) \notin told /\ Sendable(i.of) /\ present = {}

(* A console that waits again, or a new one with a number issued anew,       *)
(* before a tick of the sender saw the old request gone: its id is still     *)
(* among those sent by the daemon that would send it.                        *)
Masked(i) ==
    \E d \in Daemons : /\ Sends(d) /\ (d = Home[i.of] \/ Home[i.of] \in PeersOf[d])
                       /\ \E m \in sender[d].sent :
                             m.id = i /\ (m # MessageOf(i) \/ Home[i.of] \in history.reissued)

(* An operator who stays away is told of every request that stays open, by   *)
(* whichever daemon has a bot, whatever claims, failed sends, unanswered     *)
(* peers and restarts came before.                                           *)
EveryRequestIsTold ==
    []<>(\A d \in Daemons : \A i \in Requests(d) : Untold(i) => Masked(i))

(* "an id no longer in requests is forgotten, so a console that waits again  *)
(* later is sent again" (telegram.rs:243).                                   *)
EveryWaitIsTold ==
    []<>(\A d \in Daemons : \A i \in Requests(d) : ~Untold(i))

(* A turn that ends while the mark of its window asks for it opens its       *)
(* request, unless the operator touches the mark or the console ends first.  *)
(* Two ways it is lost: the tick that looks at the turn cannot read the desk *)
(* (fire returns, and the turn counts as handled), or the operator set the   *)
(* mark anew while the tick cleared the one before, which wipes it.          *)
MarkedTurnOpens == []<>(asks.owed \subseteq asks.lost)
=============================================================================
