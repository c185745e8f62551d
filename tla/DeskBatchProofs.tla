--------------------------- MODULE DeskBatchProofs ---------------------------
(***************************************************************************)
(* Theorems about the batches of Desk, for any number of tabs, changes and  *)
(* faults: no change crosses a restore, none is dropped, and none is        *)
(* applied twice.                                                           *)
(***************************************************************************)
EXTENDS DeskProofs

(* The bodies on a wire: at a page that waits for the answer, or given up.   *)
Wired == (stray \cup {put[t].body : t \in Tabs}) \ {None}

(* The bodies that may still land.                                           *)
Bodies == Wired \cup ({last[t] : t \in Tabs} \ {None})

Live(t) == page[t].phase # "gone"

(* The daemon answered the batch on the wire: it has it.                     *)
Acknowledged(t) == put[t].at = "answered" /\ put[t].reply.kind = "ok"

(* A document that went waits for nothing.                                   *)
Silent(t) == ~Live(t) => put[t] = Idle /\ reads[t] = NoReads /\ t \notin dirty
Silence == \A t \in Tabs : Silent(t)

-----------------------------------------------------------------------------
(* What a step does to the batches.                                          *)

(* Tab x stays, on a desk of no later generation, with its batch in flight.  *)
Stands(x) ==
    /\ page'[x].seq = page[x].seq /\ page'[x].inflight = page[x].inflight
    /\ page'[x].phase = "gone" <=> page[x].phase = "gone"
    /\ page[x].gen = -1 \/ (page'[x].gen # -1 /\ page'[x].gen <= page[x].gen)

(* Nothing new is on the wire of tab x, and no answer to it.                 *)
Waits(x) ==
    /\ put'[x].at # "idle" => put[x].at # "idle" /\ put'[x].body = put[x].body
    /\ Acknowledged(x)' => Acknowledged(x)

Aside(x) == Stands(x) /\ Waits(x) /\ page'[x].pending = page[x].pending

(* No batch moves; a restart forgets the numbers.                            *)
Idles ==
    /\ \A x \in Tabs : Aside(x)
    /\ Wired' \subseteq Wired /\ last' = last
    /\ (seqs' = seqs /\ forgot' = forgot) \/ (seqs' = <<>> /\ forgot' = TRUE)
    /\ (fellBack => fellBack') /\ (fellBack' \/ desk.gen <= desk'.gen)
    /\ UNCHANGED <<author, applied, again, refused>>

(* Tab t makes change c.                                                     *)
Emits(t, c) ==
    /\ author[c.n] = None /\ author' = [author EXCEPT ![c.n] = t]
    /\ Live(t) /\ c.base = page[t].gen
    /\ \A x \in Tabs : Stands(x) /\ Waits(x) /\ (x # t => page'[x].pending = page[x].pending)
    /\ page'[t].pending = Append(page[t].pending, c)
    /\ Wired' \subseteq Wired
    /\ UNCHANGED <<last, seqs, forgot, desk, applied, again, refused, fellBack>>

(* Tab t puts body b on the wire: its batch in flight again, or a new one.   *)
Sends(t, b) ==
    /\ Live(t) /\ page'[t].phase # "gone" /\ put[t].at = "idle"
    /\ page'[t].pending = page[t].pending /\ page'[t].gen = page[t].gen
    /\ page'[t].inflight \in 1..Len(page[t].pending)
    /\ \/ page[t].inflight = 0 /\ page'[t].seq = page[t].seq + 1
       \/ page[t].inflight > 0 /\ page'[t].seq = page[t].seq /\ page'[t].inflight = page[t].inflight
    /\ b = Body(t, page'[t].seq, page[t].gen, SubSeq(page[t].pending, 1, page'[t].inflight))
    /\ put'[t].body = b /\ put'[t].at = "going"
    /\ \A x \in Tabs \ {t} : Aside(x)
    /\ Wired' \subseteq Wired \cup {b}
    /\ UNCHANGED <<last, seqs, forgot, desk, author, applied, again, refused, fellBack>>

(* The document of tab t goes, with a closing batch or without.              *)
Goes(t) ==
    /\ Live(t) /\ page'[t] = Gone /\ put'[t] = Idle
    /\ \A x \in Tabs \ {t} : Aside(x)
    /\ Wired' \subseteq Wired
    /\ \/ last' = last /\ again' = again
       \/ /\ last' = [last EXCEPT ![t] = ClosingBatch(t)]
          /\ again' = again \cup {page[t].pending[i].n : i \in 1..page[t].inflight}
    /\ UNCHANGED <<seqs, forgot, desk, author, applied, refused, fellBack>>

(* Tab t hears that its batch arrived, or that nobody can read it.           *)
Clears(t) ==
    /\ \/ Acknowledged(t) /\ refused' = refused
       \/ refused' = refused \cup {page[t].pending[i].n : i \in 1..page[t].inflight}
    /\ put'[t] = Idle
    /\ page'[t].seq = page[t].seq /\ page'[t].inflight = 0
    /\ page'[t].pending = SubSeq(page[t].pending, page[t].inflight + 1, Len(page[t].pending))
    /\ page[t].gen = -1 \/ (page'[t].gen # -1 /\ page'[t].gen <= page[t].gen)
    /\ Live(t) /\ page'[t].phase # "gone"
    /\ \A x \in Tabs \ {t} : Aside(x)
    /\ Wired' \subseteq Wired
    /\ UNCHANGED <<last, seqs, forgot, desk, author, applied, again, fellBack>>

(* Body b reaches the daemon, which applies its changes or has them.         *)
Lands(b, o) ==
    /\ b \in Bodies /\ page' = page
    /\ \/ seqs' = seqs /\ applied' = applied /\ (o.reply.kind = "ok" => IsOld(b))
       \/ /\ seqs' = Record(b) /\ Fresh(b)
          /\ applied' = [n \in Numbers |->
                applied[n] + Cardinality({i \in DOMAIN b.changes : b.changes[i].n = n})]
    /\ \A x \in Tabs :
        /\ put'[x].at # "idle" => put[x].at # "idle" /\ put'[x].body = put[x].body
        /\ Acknowledged(x)' => Acknowledged(x)
                               \/ (put[x].at # "idle" /\ put[x].body = b /\ o.reply.kind = "ok")
        /\ last'[x] = last[x] \/ (last'[x] = None /\ last[x] = b)
    /\ Wired' \subseteq Wired
    /\ desk'.gen = desk.gen
    /\ UNCHANGED <<author, again, forgot, refused, fellBack>>

BatchStep ==
    \/ Idles
    \/ \E t \in Tabs, c \in Changes : Emits(t, c)
    \/ \E t \in Tabs, b \in BodyType : Sends(t, b)
    \/ \E t \in Tabs : Goes(t) \/ Clears(t)
    \/ \E b \in BodyType : \E o \in PutRoute(b) : Lands(b, o)

LEMMA WiredIn ==
  ASSUME NEW S, stray' \subseteq S, \A t \in Tabs : put'[t].body \in S \cup {None}
  PROVE  Wired' \subseteq S
  BY DEF Wired

LEMMA WiredAre ==
  ASSUME Shape
  PROVE  /\ Wired \subseteq BodyType /\ Bodies \subseteq BodyType /\ stray \subseteq Wired
         /\ \A t \in Tabs : put[t].body \in Wired \cup {None} /\ last[t] \in Bodies \cup {None}
         /\ \A t \in Tabs : put[t].at # "idle" => put[t].body \in Wired
<1>1. stray \subseteq BodyType /\ None \notin BodyType /\ last \in [Tabs -> BodyType \cup {None}]
  BY WireFields, NoneIsNoBody
<1>2. ASSUME NEW t \in Tabs
      PROVE  put[t].body \in BodyType \cup {None} /\ (put[t].at # "idle" => put[t].body \in BodyType)
  <2>1. put[t] \in PutType
    BY WireFields
  <2> QED
    BY <2>1, PutFields DEF Idle
<1> QED
  BY <1>1, <1>2 DEF Wired, Bodies

(* Where nothing of the batches changed.                                     *)
LEMMA Unmoved ==
  ASSUME Shape, NEW x \in Tabs, page'[x] = page[x], put'[x] = put[x]
  PROVE  Aside(x)
<1>1. page[x] \in PageType
  BY DEF Shape, PageShape
<1>2. page[x].gen \in Int
  BY <1>1, PageFields, BoundsAssumption
<1> QED
  BY <1>2 DEF Aside, Stands, Waits, Acknowledged

LEMMA AllUnmoved ==
  ASSUME Shape, UNCHANGED <<page, put, stray>>
  PROVE  (\A x \in Tabs : Aside(x)) /\ Wired' \subseteq Wired
  BY Unmoved, WiredAre DEF Wired

LEMMA IdlesActs ==
  ASSUME Shape, UNCHANGED <<page, put, stray, last, author, applied, again, refused>>,
         fellBack => fellBack', fellBack' \/ desk.gen <= desk'.gen,
         (seqs' = seqs /\ forgot' = forgot) \/ (seqs' = <<>> /\ forgot' = TRUE)
  PROVE  BatchStep
  BY AllUnmoved DEF Idles, BatchStep

(* The reads and pushes of a page that is there.                             *)
LEMMA SilenceKept ==
  ASSUME Silence, NEW t \in Tabs, Live(t), UNCHANGED <<page, put>>,
         \A x \in Tabs \ {t} : reads'[x] = reads[x] /\ (x \in dirty' => x \in dirty)
  PROVE  Silence'
  BY DEF Silence, Silent, Live

LEMMA StepFacts ==
  ASSUME IInv
  PROVE  /\ Shape /\ Held /\ desk \in DeskType /\ desk.gen \in Nat /\ desk.gen <= desk.gen
         /\ \A t \in Tabs : page[t] \in PageType /\ PageOK(page[t]) /\ put[t] \in PutType
                            /\ reads[t] \in ReadType /\ page[t].pending \in Seq(Changes)
         /\ page \in [Tabs -> PageType] /\ reads \in [Tabs -> ReadType]
         /\ put \in [Tabs -> PutType] /\ last \in [Tabs -> BodyType \cup {None}] /\ dirty \subseteq Tabs
<1>1. Shape /\ Held /\ desk \in DeskType /\ desk.gen \in Nat
  BY DeskFields, BoundsAssumption DEF IInv, Shape, DaemonShape
<1>2. ASSUME NEW t \in Tabs
      PROVE  page[t] \in PageType /\ PageOK(page[t]) /\ put[t] \in PutType
             /\ reads[t] \in ReadType /\ page[t].pending \in Seq(Changes)
  <2>1. page[t] \in PageType /\ PageOK(page[t])
    BY <1>1 DEF Shape, PageShape
  <2> QED
    BY <1>1, <2>1, WireFields, PageFields
<1>3. page \in [Tabs -> PageType]
  BY <1>1 DEF Shape, PageShape
<1> QED
  BY <1>1, <1>2, <1>3, WireFields

LEMMA OpenActs ==
  ASSUME IInv, Silence, NEW t \in Tabs, Open(t)
  PROVE  Silence' /\ BatchStep
<1>1. page[t].phase = "new" /\ page' = [page EXCEPT ![t].phase = "loading"] /\ reads' = Ask(t)
      /\ UNCHANGED <<daemon, put, stray, last, hears, dirty, build, upsets, ghosts>>
  BY DEF Open
<1>2. /\ page'[t].seq = page[t].seq /\ page'[t].inflight = page[t].inflight
      /\ page'[t].phase = "loading" /\ page'[t].gen = page[t].gen
      /\ page'[t].pending = page[t].pending /\ page[t].gen \in Int
      /\ \A x \in Tabs \ {t} : page'[x] = page[x]
  BY <1>1, StepFacts, PageFields, BoundsAssumption DEF PageType
<1>3. Aside(t)
  BY <1>1, <1>2 DEF Aside, Stands, Waits, Acknowledged
<1>4. \A x \in Tabs \ {t} : Aside(x)
  BY <1>1, <1>2, StepFacts, Unmoved
<1>5. Wired' \subseteq Wired
  BY <1>1 DEF Wired
<1>6. \A x \in Tabs \ {t} : reads'[x] = reads[x]
  BY <1>1, StepFacts DEF Ask
<1>7. Silence'
  BY <1>1, <1>2, <1>6 DEF Silence, Silent, Live
<1>8. Idles
  BY <1>1, <1>3, <1>4, <1>5, StepFacts DEF Idles, daemon, ghosts
<1> QED
  BY <1>7, <1>8 DEF BatchStep

LEMMA DeskGetRouteActs ==
  ASSUME IInv, Silence, NEW t \in Tabs, DeskGetRoute(t)
  PROVE  Silence' /\ BatchStep
<1>1. /\ reads[t].asked > 0 /\ UNCHANGED <<daemon, page, put, stray, last, dirty, ghosts>>
      /\ \A x \in Tabs \ {t} : reads'[x] = reads[x]
  BY StepFacts DEF DeskGetRoute
<1>2. Live(t)
  BY <1>1 DEF Silence, Silent, NoReads
<1>3. Silence'
  BY <1>1, <1>2, SilenceKept
<1>4. BatchStep
  BY <1>1, StepFacts, IdlesActs DEF daemon, ghosts
<1> QED
  BY <1>3, <1>4

LEMMA ReadFailsActs ==
  ASSUME IInv, Silence, NEW t \in Tabs, ReadFails(t)
  PROVE  Silence' /\ BatchStep
<1>1. /\ reads[t].asked > 0
      /\ UNCHANGED <<daemon, page, put, stray, last, dirty, author, applied, again, forgot, refused, fellBack>>
      /\ \A x \in Tabs \ {t} : reads'[x] = reads[x]
  BY StepFacts DEF ReadFails
<1>2. Live(t)
  BY <1>1 DEF Silence, Silent, NoReads
<1>3. Silence'
  BY <1>1, <1>2, SilenceKept
<1>4. BatchStep
  BY <1>1, StepFacts, IdlesActs DEF daemon
<1> QED
  BY <1>3, <1>4

LEMMA OnPushActs ==
  ASSUME IInv, Silence, NEW t \in Tabs, OnPush(t)
  PROVE  Silence' /\ BatchStep
<1>1. /\ t \in dirty /\ dirty' = dirty \ {t}
      /\ UNCHANGED <<daemon, page, put, stray, last, ghosts>>
      /\ \A x \in Tabs \ {t} : reads'[x] = reads[x]
  BY StepFacts DEF OnPush, Ask
<1>2. Live(t)
  BY <1>1 DEF Silence, Silent
<1>3. Silence'
  BY <1>1, <1>2, SilenceKept
<1>4. BatchStep
  BY <1>1, StepFacts, IdlesActs DEF daemon, ghosts
<1> QED
  BY <1>3, <1>4

(* A socket that opens or closes.                                            *)
LEMMA HearsActs ==
  ASSUME IInv, Silence, NEW t \in Tabs, FirstOpen(t) \/ StopHearing(t) \/ HearAgain(t)
  PROVE  Silence' /\ BatchStep
<1>1. /\ t \in OpenTabs /\ dirty' \subseteq dirty
      /\ UNCHANGED <<daemon, page, put, stray, last, ghosts>>
      /\ \A x \in Tabs \ {t} : reads'[x] = reads[x]
  <2>1. CASE FirstOpen(t) \/ StopHearing(t)
    BY <2>1 DEF FirstOpen, StopHearing, wires
  <2>2. CASE HearAgain(t)
    BY <2>2, StepFacts DEF HearAgain, Ask
  <2> QED
    BY <2>1, <2>2
<1>2. Live(t)
  BY <1>1 DEF OpenTabs, Live
<1>3. Silence'
  BY <1>1, <1>2, SilenceKept
<1>4. BatchStep
  BY <1>1, StepFacts, IdlesActs DEF daemon, ghosts
<1> QED
  BY <1>3, <1>4

LEMMA PushLive ==
  ASSUME Silence, UNCHANGED <<page, put, reads>>, NEW z,
         dirty' = Push(z) \/ dirty' \subseteq dirty
  PROVE  Silence'
  BY DEF Silence, Silent, Live, Push, OpenTabs

(* A restore, a damage and a restart leave the batches alone.                *)
LEMMA DaemonActs ==
  ASSUME IInv, Silence, DeskHistoryRestoreRoute \/ Damage \/ Restart \/ UNCHANGED vars
  PROVE  Silence' /\ BatchStep
<1>1. CASE DeskHistoryRestoreRoute
  <2>1. /\ UNCHANGED <<seqs, page, put, stray, last, reads, author, applied, again, forgot, refused>>
        /\ dirty' = Push(None) \/ dirty' \subseteq dirty
        /\ \/ \E now \in 1..MaxGen : desk'.gen = now /\ fellBack' = (fellBack \/ now <= desk.gen)
           \/ desk' = desk /\ fellBack' = fellBack
    <3>1. PICK i \in DOMAIN versions, now \in 1..MaxGen :
            \/ \E recs \in Pruned(desk, Restored(desk, versions[i].desk)) :
                 /\ desk' = [rev |-> desk.rev + 1, gen |-> now, recs |-> recs, pick |-> desk.pick]
                 /\ dirty' = Push(None) /\ fellBack' = (fellBack \/ now <= desk.gen)
            \/ UNCHANGED <<desk, dirty, fellBack>>
      BY <1>1 DEF DeskHistoryRestoreRoute
    <3>2. UNCHANGED <<seqs, page, put, stray, last, reads, author, applied, again, forgot, refused>>
      BY <1>1 DEF DeskHistoryRestoreRoute, wires
    <3>3. CASE UNCHANGED <<desk, dirty, fellBack>>
      BY <3>2, <3>3
    <3>4. ASSUME NEW recs, dirty' = Push(None), fellBack' = (fellBack \/ now <= desk.gen),
                 desk' = [rev |-> desk.rev + 1, gen |-> now, recs |-> recs, pick |-> desk.pick]
          PROVE  desk'.gen = now /\ dirty' = Push(None) /\ fellBack' = (fellBack \/ now <= desk.gen)
      BY <3>4
    <3> QED
      BY <3>1, <3>2, <3>3, <3>4
  <2>2. (fellBack => fellBack') /\ (fellBack' \/ desk.gen <= desk'.gen)
    <3>1. CASE desk' = desk /\ fellBack' = fellBack
      BY <3>1, StepFacts
    <3>2. ASSUME NEW now \in 1..MaxGen, desk'.gen = now, fellBack' = (fellBack \/ now <= desk.gen)
          PROVE  (fellBack => fellBack') /\ (fellBack' \/ desk.gen <= desk'.gen)
      <4>1. now <= desk.gen \/ desk.gen <= now
        BY StepFacts, BoundsAssumption
      <4> QED
        BY <3>2, <4>1
    <3> QED
      BY <2>1, <3>1, <3>2
  <2> QED
    BY <2>1, <2>2, StepFacts, PushLive, IdlesActs
<1>2. CASE Damage
  <2>1. UNCHANGED <<desk, seqs, page, put, stray, last, reads, dirty, author, applied, again, forgot,
                    refused, fellBack>>
    BY <1>2 DEF Damage, wires, ghosts
  <2> QED
    BY <2>1, StepFacts, PushLive, IdlesActs
<1>3. CASE Restart
  <2>1. /\ UNCHANGED <<desk, page, put, stray, last, reads, author, applied, again, refused, fellBack>>
        /\ seqs' = <<>> /\ dirty' \subseteq dirty
    BY <1>3 DEF Restart, wires
  <2>2. forgot' = TRUE
    BY <1>3 DEF Restart
  <2> QED
    BY <2>1, <2>2, StepFacts, PushLive, IdlesActs
<1>4. CASE UNCHANGED vars
  <2>1. UNCHANGED <<desk, seqs, page, put, stray, last, reads, dirty, author, applied, again, forgot,
                    refused, fellBack>>
    BY <1>4 DEF vars, daemon, wires, ghosts
  <2> QED
    BY <2>1, StepFacts, PushLive, IdlesActs
<1> QED
  BY <1>1, <1>2, <1>3, <1>4

(* So does a new desk, which reads as a later one or marks the fall-back.    *)
LEMMA DeskNewRouteActs ==
  ASSUME IInv, Silence, NEW t \in Tabs, DeskNewRoute(t)
  PROVE  Silence' /\ BatchStep
<1>1. /\ page[t].phase = "failed"
      /\ UNCHANGED <<seqs, page, put, stray, last, author, applied, again, forgot, refused>>
      /\ dirty' = Push(None) \/ dirty' = dirty
      /\ reads' = Ask(t) \/ reads' = reads
      /\ \/ \E now \in 1..MaxGen : desk'.gen = now /\ fellBack' = (fellBack \/ now <= desk.gen)
         \/ fellBack' = TRUE
  BY DEF DeskNewRoute
<1>2. (fellBack => fellBack') /\ (fellBack' \/ desk.gen <= desk'.gen)
  <2>1. ASSUME NEW now \in 1..MaxGen, desk'.gen = now, fellBack' = (fellBack \/ now <= desk.gen)
        PROVE  (fellBack => fellBack') /\ (fellBack' \/ desk.gen <= desk'.gen)
    <3>1. now <= desk.gen \/ desk.gen <= now
      BY StepFacts, BoundsAssumption
    <3> QED
      BY <2>1, <3>1
  <2> QED
    BY <1>1, <2>1
<1>3. Live(t) /\ \A x \in Tabs \ {t} : reads'[x] = reads[x]
  BY <1>1, StepFacts DEF Live, Ask
<1>4. \A x \in Tabs : x \in dirty' => x \in dirty \/ Live(x)
  BY <1>1 DEF Push, OpenTabs, Live
<1>5. Silence'
  BY <1>1, <1>3, <1>4 DEF Silence, Silent, Live
<1>6. BatchStep
  BY <1>1, <1>2, StepFacts, IdlesActs
<1> QED
  BY <1>5, <1>6

(* A page that asks for a new desk while the old one reads.                  *)
LEMMA StartNewDeskActs ==
  ASSUME IInv, Silence, NEW t \in Tabs, StartNewDesk(t)
  PROVE  Silence' /\ BatchStep
<1>1. /\ page[t].phase = "failed" /\ UNCHANGED <<daemon, page, put, stray, last, dirty, ghosts>>
      /\ \A x \in Tabs \ {t} : reads'[x] = reads[x]
  BY StepFacts DEF StartNewDesk, Ask
<1>2. Live(t)
  BY <1>1 DEF Live
<1>3. Silence'
  BY <1>1, <1>2, SilenceKept
<1>4. BatchStep
  BY <1>1, StepFacts, IdlesActs DEF daemon, ghosts
<1> QED
  BY <1>3, <1>4

LEMMA HoldDeskActs ==
  ASSUME IInv, Silence, NEW t \in Tabs, HoldDesk(t)
  PROVE  Silence' /\ BatchStep
<1>1. UNCHANGED <<desk, seqs, page, put, stray, last, reads, dirty, author, applied, again, forgot,
                  refused, fellBack>>
  BY DEF HoldDesk, daemon, wires, ghosts
<1> QED
  BY <1>1, StepFacts, PushLive, IdlesActs

(* A connection that fails puts the body on no other wire than its own; a    *)
(* daemon that cannot read it only answers.                                  *)
LEMMA FailsActs ==
  ASSUME IInv, Silence, NEW t \in Tabs, NEW k \in {"network", "refused"},
         put[t].at # "idle", put' = [put EXCEPT ![t] = [@ EXCEPT !.at = "answered", !.reply = Heard(k)]],
         stray' \subseteq stray \cup {put[t].body}, UNCHANGED <<daemon, page, last, reads, dirty, ghosts>>
  PROVE  Silence' /\ BatchStep
<1> DEFINE u == [put[t] EXCEPT !.at = "answered", !.reply = Heard(k)]
<1>1. /\ put[t].at # "idle" /\ put' = [put EXCEPT ![t] = u]
      /\ stray' \subseteq stray \cup {put[t].body}
      /\ UNCHANGED <<daemon, page, last, reads, dirty, ghosts>>
  OBVIOUS
<1>2. u \in PutType /\ u.at = "answered" /\ u.body = put[t].body /\ u.reply.kind # "ok"
  <2>1. Heard(k) \in Replies /\ Heard(k).kind # "ok"
    BY HeardIs
  <2>2. put[t] \in PutType
    BY StepFacts
  <2> QED
    BY <1>1, <2>1, <2>2, AnsweredPut
<1> HIDE DEF u
<1>3. put'[t] = u /\ \A x \in Tabs \ {t} : put'[x] = put[x]
  BY <1>1, <1>2, StepFacts, PutMoves
<1>4. Live(t)
  BY <1>1, StepFacts, PutFields DEF Silence, Silent
<1>5. Silence'
  BY <1>1, <1>3, <1>4 DEF Silence, Silent, Live
<1>6. \A x \in Tabs \ {t} : Aside(x)
  BY <1>1, <1>3, StepFacts, Unmoved
<1>7. Aside(t)
  <2>1. page[t].gen \in Int
    BY StepFacts, PageFields, BoundsAssumption
  <2>2. put'[t].body = put[t].body /\ ~Acknowledged(t)'
    BY <1>2, <1>3 DEF Acknowledged
  <2>3. Waits(t)
    BY <1>1, <2>2 DEF Waits
  <2> QED
    BY <1>1, <2>1, <2>3 DEF Aside, Stands
<1>8. Wired' \subseteq Wired
  <2>1. stray' \subseteq Wired
    BY <1>1, StepFacts, WiredAre
  <2>2. \A x \in Tabs : put'[x].body \in Wired \cup {None}
    BY <1>2, <1>3, StepFacts, WiredAre
  <2> QED
    BY <2>1, <2>2, WiredIn
<1>9. Idles
  BY <1>1, <1>6, <1>7, <1>8, StepFacts DEF Idles, daemon, ghosts
<1> QED
  BY <1>5, <1>9 DEF BatchStep

LEMMA DisconnectActs ==
  ASSUME IInv, Silence, NEW t \in Tabs, Disconnect(t)
  PROVE  Silence' /\ BatchStep
<1>1. /\ put[t].at # "idle" /\ put' = [put EXCEPT ![t] = [@ EXCEPT !.at = "answered", !.reply = Heard("network")]]
      /\ stray' \subseteq stray \cup {put[t].body} /\ UNCHANGED <<daemon, page, last, reads, dirty, ghosts>>
  BY DEF Disconnect
<1> QED
  BY <1>1, FailsActs

LEMMA DeskPutRefusedActs ==
  ASSUME IInv, Silence, NEW t \in Tabs, DeskPutRefused(t)
  PROVE  Silence' /\ BatchStep
<1>1. /\ put[t].at # "idle" /\ put' = [put EXCEPT ![t] = [@ EXCEPT !.at = "answered", !.reply = Heard("refused")]]
      /\ stray' \subseteq stray \cup {put[t].body} /\ UNCHANGED <<daemon, page, last, reads, dirty, ghosts>>
  BY DEF DeskPutRefused
<1> QED
  BY <1>1, FailsActs

LEMMA EmitActs ==
  ASSUME IInv, Silence, NEW t \in Tabs, Emit(t)
  PROVE  Silence' /\ BatchStep
<1>1. PICK c \in Changes, p \in PageType :
         /\ author[c.n] = None /\ c.base = page[t].gen /\ author' = [author EXCEPT ![c.n] = t]
         /\ page[t].phase \in {"loading", "ready", "failed"}
         /\ page' = [page EXCEPT ![t] = p] /\ PageOK(p) /\ p.pending = Append(page[t].pending, c)
         /\ p.phase = page[t].phase /\ p.gen = page[t].gen /\ p.rev = page[t].rev
         /\ p.server = page[t].server /\ p.seq = page[t].seq /\ p.inflight = page[t].inflight
         /\ UNCHANGED <<daemon, wires, hears, dirty, build, upsets, applied, again, forgot, missed, wayBack, fellBack>>
  BY StepFacts, EmitIs
<1>2. page'[t] = p /\ \A x \in Tabs \ {t} : page'[x] = page[x]
  BY <1>1, StepFacts
<1>3. UNCHANGED <<put, stray, last, reads, dirty, seqs, forgot, desk, applied, again, refused, fellBack>>
  <2>1. refused' = refused
    BY DEF Emit
  <2> QED
    BY <1>1, <2>1 DEF wires, daemon
<1>4. Silence'
  BY <1>1, <1>2, <1>3 DEF Silence, Silent, Live
<1>5. \A x \in Tabs \ {t} : Aside(x)
  BY <1>2, <1>3, StepFacts, Unmoved
<1>6. Stands(t) /\ Waits(t)
  <2>1. page[t].gen \in Int
    BY StepFacts, PageFields, BoundsAssumption
  <2> QED
    BY <1>1, <1>2, <1>3, <2>1 DEF Stands, Waits, Acknowledged
<1>7. Wired' \subseteq Wired
  BY <1>3 DEF Wired
<1>8. Emits(t, c)
  BY <1>1, <1>2, <1>3, <1>5, <1>6, <1>7 DEF Emits, Aside, Live
<1> QED
  BY <1>4, <1>8 DEF BatchStep

LEMMA FlushDeskActs ==
  ASSUME IInv, Silence, NEW t \in Tabs, FlushDesk(t)
  PROVE  Silence' /\ BatchStep
<1>1. PICK p \in PageType, b \in BodyType :
         /\ page[t].phase = "ready" /\ put[t].at = "idle"
         /\ page' = [page EXCEPT ![t] = p] /\ PageOK(p) /\ p.inflight > 0
         /\ p.pending = page[t].pending /\ p.phase = page[t].phase /\ p.gen = page[t].gen
         /\ p.rev = page[t].rev /\ p.server = page[t].server
         /\ \/ page[t].inflight = 0 /\ p.seq = page[t].seq + 1 /\ p.inflight = Len(p.pending)
            \/ page[t].inflight # 0 /\ p.seq = page[t].seq /\ p.inflight = page[t].inflight
         /\ b = Body(t, p.seq, p.gen, SubSeq(p.pending, 1, p.inflight))
         /\ put' = [put EXCEPT ![t] = [at |-> "going", reply |-> None, body |-> b]]
         /\ UNCHANGED <<daemon, stray, last, reads, hears, dirty, build, upsets, ghosts>>
  BY StepFacts, FlushIs
<1>2. page'[t] = p /\ \A x \in Tabs \ {t} : page'[x] = page[x]
  BY <1>1, StepFacts
<1>3. put'[t].body = b /\ put'[t].at = "going" /\ \A x \in Tabs \ {t} : put'[x] = put[x]
  BY <1>1, StepFacts
<1>4. UNCHANGED <<stray, last, reads, dirty, seqs, forgot, desk, author, applied, again, refused, fellBack>>
  BY <1>1 DEF daemon, ghosts
<1>5. Silence'
  BY <1>1, <1>2, <1>3, <1>4 DEF Silence, Silent, Live
<1>6. \A x \in Tabs \ {t} : Aside(x)
  BY <1>2, <1>3, StepFacts, Unmoved
<1>7. Wired' \subseteq Wired \cup {b}
  <2>1. stray' \subseteq Wired \cup {b} /\ \A x \in Tabs : put'[x].body \in Wired \cup {b} \cup {None}
    BY <1>3, <1>4, StepFacts, WiredAre
  <2> QED
    BY <2>1, WiredIn
<1>8. page[t].inflight \in Nat /\ p.inflight \in 1..Len(page[t].pending)
  BY <1>1, StepFacts, PageFields DEF PageOK
<1>9. page[t].inflight # 0 => page[t].inflight > 0
  BY <1>8
<1>10. Sends(t, b)
  BY <1>1, <1>2, <1>3, <1>4, <1>6, <1>7, <1>8, <1>9 DEF Sends, Live
<1> QED
  BY <1>5, <1>10 DEF BatchStep

(* A page that goes takes nothing from the wire but its own.                 *)
LEMMA GoesActs ==
  ASSUME IInv, Silence, NEW t \in Tabs, Live(t), Become(t, Gone),
         put' = [put EXCEPT ![t] = Idle], reads' = [reads EXCEPT ![t] = NoReads],
         \/ last' = last /\ again' = again
         \/ /\ last' = [last EXCEPT ![t] = ClosingBatch(t)]
            /\ again' = again \cup {page[t].pending[i].n : i \in 1..page[t].inflight},
         UNCHANGED <<seqs, forgot, desk, author, applied, refused, fellBack>>
  PROVE  Silence' /\ BatchStep
<1>1. /\ page'[t] = Gone /\ put'[t] = Idle /\ reads'[t] = NoReads
      /\ dirty' = dirty \ {t} /\ stray' \subseteq stray \cup (IF put[t].at = "going" THEN {put[t].body} ELSE {})
      /\ \A x \in Tabs \ {t} : page'[x] = page[x] /\ put'[x] = put[x] /\ reads'[x] = reads[x]
  BY StepFacts DEF Become
<1>2. Silence'
  BY <1>1 DEF Silence, Silent, Live
<1>3. \A x \in Tabs \ {t} : Aside(x)
  BY <1>1, StepFacts, Unmoved
<1>4. Wired' \subseteq Wired
  <2>1. stray' \subseteq Wired
    BY <1>1, StepFacts, WiredAre
  <2>2. \A x \in Tabs : put'[x].body \in Wired \cup {None}
    <3>1. put'[t].body = None
      BY <1>1 DEF Idle
    <3> QED
      BY <1>1, <3>1, StepFacts, WiredAre
  <2> QED
    BY <2>1, <2>2, WiredIn
<1>5. Goes(t)
  BY <1>1, <1>3, <1>4 DEF Goes
<1> QED
  BY <1>2, <1>5 DEF BatchStep

(* A page that takes an answer and stays holds what it held.                 *)
LEMMA CarriesOn ==
  ASSUME IInv, NEW t \in Tabs, Live(t), NEW p \in PageType, p # Gone, Carries(p, page[t]), Become(t, p)
  PROVE  /\ Stands(t) /\ page'[t].pending = page[t].pending /\ page'[t].phase # "gone"
         /\ stray' = stray /\ dirty' = dirty /\ \A x \in Tabs \ {t} : page'[x] = page[x]
<1>1. page'[t] = p /\ stray' = stray /\ dirty' = dirty /\ \A x \in Tabs \ {t} : page'[x] = page[x]
  BY StepFacts DEF Become
<1>2. p.phase # "gone" /\ page[t].phase # "gone"
  BY DEF Carries, Live
<1> QED
  BY <1>1, <1>2 DEF Carries, Stands

LEMMA IngestActs ==
  ASSUME IInv, Silence, NEW t \in Tabs, Ingest(t)
  PROVE  Silence' /\ BatchStep
<1>1. PICK a \in reads[t].answers, p \in PageType :
         /\ PageOK(p) /\ PageHeld(desk, p) /\ Carries(p, page[t]) /\ Become(t, p)
         /\ reads' = IF p = Gone THEN [reads EXCEPT ![t] = NoReads]
                     ELSE [reads EXCEPT ![t].answers = @ \ {a}]
         /\ put' = IF p = Gone THEN [put EXCEPT ![t] = Idle] ELSE put
         /\ missed' \subseteq Tabs
         /\ UNCHANGED <<daemon, last, build, upsets, author, applied, again, forgot, wayBack, fellBack>>
  BY StepFacts, IngestIs
<1>2. Live(t)
  BY <1>1 DEF Silence, Silent, NoReads
<1>3. UNCHANGED <<last, again, seqs, forgot, desk, author, applied, refused, fellBack>>
  <2>1. refused' = refused
    BY DEF Ingest
  <2> QED
    BY <1>1, <2>1 DEF daemon
<1>4. CASE p = Gone
  BY <1>1, <1>2, <1>3, <1>4, GoesActs
<1>5. CASE p # Gone
  <2>1. /\ Stands(t) /\ page'[t].pending = page[t].pending /\ page'[t].phase # "gone"
        /\ stray' = stray /\ dirty' = dirty /\ \A x \in Tabs \ {t} : page'[x] = page[x]
    BY <1>1, <1>2, <1>5, CarriesOn
  <2>2. put' = put /\ \A x \in Tabs \ {t} : reads'[x] = reads[x]
    BY <1>1, <1>5, StepFacts
  <2>3. Silence'
    BY <2>1, <2>2 DEF Silence, Silent, Live
  <2>4. Aside(t)
    BY <2>1, <2>2 DEF Aside, Waits, Acknowledged
  <2>5. \A x \in Tabs \ {t} : Aside(x)
    BY <2>1, <2>2, StepFacts, Unmoved
  <2>6. Wired' \subseteq Wired
    BY <2>1, <2>2 DEF Wired
  <2>7. Idles
    BY <1>3, <2>4, <2>5, <2>6, StepFacts DEF Idles
  <2> QED
    BY <2>3, <2>7 DEF BatchStep
<1> QED
  BY <1>4, <1>5

LEMMA FlushedActs ==
  ASSUME IInv, Silence, NEW t \in Tabs, Flushed(t)
  PROVE  Silence' /\ BatchStep
<1>1. PICK p \in PageType :
         /\ PageOK(p) /\ PageHeld(desk, p) /\ Carries(p, Answered(t)) /\ Become(t, p)
         /\ put[t].at = "answered" /\ put' = [put EXCEPT ![t] = Idle]
         /\ reads' = IF p = Gone THEN [reads EXCEPT ![t] = NoReads] ELSE reads
         /\ missed' \subseteq Tabs
         /\ UNCHANGED <<daemon, last, build, upsets, author, applied, again, forgot, wayBack, fellBack>>
  BY StepFacts, FlushedIs
<1>2. Live(t)
  BY <1>1, StepFacts, PutFields DEF Silence, Silent
<1>3. UNCHANGED <<last, again, seqs, forgot, desk, author, applied, fellBack>>
  BY <1>1 DEF daemon
<1>6. refused' = IF put[t].reply.kind = "refused" THEN refused \cup InFlight(t) ELSE refused
  BY DEF Flushed
<1>4. CASE p = Gone
  <2>1. put[t].reply.kind # "refused"
    <3> SUFFICES ASSUME put[t].reply.kind = "refused" PROVE FALSE
      OBVIOUS
    <3>1. page' = [page EXCEPT ![t] = Acked(page[t])]
      BY DEF Flushed, Become
    <3>2. Acked(page[t]) = Gone
      BY <1>1, <1>4, <3>1, StepFacts DEF Become
    <3> QED
      BY <1>2, <3>2, StepFacts, AckedIs DEF Live, Gone, NewPage
  <2> QED
    BY <1>1, <1>2, <1>3, <1>4, <1>6, <2>1, GoesActs
<1>5. CASE p # Gone
  <2>1. page'[t] = p /\ stray' = stray /\ dirty' = dirty /\ reads' = reads
        /\ put'[t] = Idle /\ \A x \in Tabs \ {t} : page'[x] = page[x] /\ put'[x] = put[x]
    BY <1>1, <1>5, StepFacts DEF Become
  <2>2. Answered(t).phase # "gone"
    BY <1>2, StepFacts, AckedIs DEF Answered, Live
  <2>3. p.phase # "gone"
    BY <1>1, <1>5, <2>2 DEF Carries
  <2>4. Silence'
    BY <1>2, <2>1, <2>3 DEF Silence, Silent, Live
  <2>5. \A x \in Tabs \ {t} : Aside(x)
    BY <2>1, StepFacts, Unmoved
  <2>6. Wired' \subseteq Wired
    <3>1. stray' \subseteq Wired /\ \A x \in Tabs : put'[x].body \in Wired \cup {None}
      BY <2>1, StepFacts, WiredAre DEF Idle
    <3> QED
      BY <3>1, WiredIn
  <2>7. CASE put[t].reply.kind \in {"ok", "refused"}
    <3>1. \/ Acknowledged(t) /\ refused' = refused
          \/ refused' = refused \cup {page[t].pending[i].n : i \in 1..page[t].inflight}
      BY <1>1, <1>6, <2>7 DEF Acknowledged, InFlight
    <3>2. Clears(t)
      BY <1>1, <1>2, <1>3, <1>5, <2>1, <2>3, <2>5, <2>6, <2>7, <3>1, StepFacts, AckedIs
      DEF Clears, Carries, Answered
    <3> QED
      BY <2>4, <3>2 DEF BatchStep
  <2>8. CASE put[t].reply.kind \notin {"ok", "refused"}
    <3>1. Carries(p, page[t])
      BY <1>1, <2>8 DEF Answered
    <3>2. Stands(t) /\ page'[t].pending = page[t].pending
      BY <1>1, <1>2, <1>5, <3>1, CarriesOn
    <3>3. Waits(t)
      BY <2>1 DEF Waits, Acknowledged, Idle
    <3>4. Idles
      BY <1>3, <1>6, <2>5, <2>8, <2>6, <3>2, <3>3, StepFacts DEF Idles, Aside
    <3> QED
      BY <2>4, <3>4 DEF BatchStep
  <2> QED
    BY <2>7, <2>8
<1> QED
  BY <1>4, <1>5

LEMMA LeavesAct ==
  ASSUME IInv, Silence, NEW t \in Tabs, NEW held, Leave(t, held)
  PROVE  Silence' /\ BatchStep
<1>1. /\ t \in OpenTabs /\ Become(t, Gone) /\ put' = [put EXCEPT ![t] = Idle]
      /\ reads' = [reads EXCEPT ![t] = NoReads]
      /\ UNCHANGED <<daemon, author, applied, forgot, refused, fellBack>>
      /\ \/ last' = last /\ again' = again
         \/ /\ last' = [last EXCEPT ![t] = ClosingBatch(t)]
            /\ again' = again \cup {page[t].pending[i].n : i \in 1..page[t].inflight}
  BY DEF Leave, InFlight
<1>2. Live(t) /\ UNCHANGED <<seqs, forgot, desk, author, applied, refused, fellBack>>
  BY <1>1 DEF OpenTabs, Live, daemon
<1> QED
  BY <1>1, <1>2, GoesActs

(* What landing does, wherever the body was.                                 *)
LEMMA LandActs ==
  ASSUME IInv, Silence, NEW b \in BodyType, NEW o \in PutRoute(b), Land(b, o), b \in Bodies, page' = page,
         reads' = reads, stray' \subseteq stray,
         \A x \in Tabs :
            /\ put'[x].at # "idle" => put[x].at # "idle"
            /\ put'[x].body = put[x].body /\ (put[x] = Idle => put'[x] = Idle)
            /\ Acknowledged(x)' => Acknowledged(x)
                                   \/ (put[x].at # "idle" /\ put[x].body = b /\ o.reply.kind = "ok")
            /\ last'[x] = last[x] \/ (last'[x] = None /\ last[x] = b)
  PROVE  Silence' /\ BatchStep
<1>1. /\ desk' = o.desk /\ seqs' = o.seqs /\ dirty' = (IF o.changed THEN Push(b.tab) ELSE dirty)
      /\ applied' = [n \in Numbers |->
                     applied[n] + Cardinality({i \in DOMAIN o.changes : o.changes[i].n = n})]
      /\ UNCHANGED <<author, again, forgot, refused, fellBack>>
  BY DEF Land
<1>2. DaemonShape
  BY DEF IInv, Shape
<1>3. /\ o.desk.gen = desk.gen
      /\ \/ o.changes = <<>> /\ o.seqs = seqs /\ (o.reply.kind = "ok" => IsOld(b))
         \/ o.changes = b.changes /\ o.seqs = Record(b) /\ Fresh(b)
  BY <1>2, OutcomeIs
<1>4. Silence'
  BY <1>1 DEF Silence, Silent, Live, Push, OpenTabs
<1>5. o.changes = <<>> => applied' = applied
  <2> SUFFICES ASSUME o.changes = <<>>, NEW n \in Numbers PROVE applied'[n] = applied[n]
    BY <1>1, StepFacts, GhostFields
  <2>1. {i \in DOMAIN o.changes : o.changes[i].n = n} = {}
    OBVIOUS
  <2>2. applied[n] \in Nat
    BY StepFacts, GhostFields
  <2> QED
    BY <1>1, <2>1, <2>2, FS_EmptySet
<1>6. Wired' \subseteq Wired
  BY StepFacts, WiredAre DEF Wired
<1>7. Lands(b, o)
  BY <1>1, <1>3, <1>5, <1>6 DEF Lands
<1> QED
  BY <1>4, <1>7 DEF BatchStep

LEMMA DeskPutRouteActs ==
  ASSUME IInv, Silence, NEW t \in Tabs, DeskPutRoute(t)
  PROVE  Silence' /\ BatchStep
<1> DEFINE b == put[t].body
<1>1. PICK o \in PutRoute(b) :
         /\ Land(b, o)
         /\ put' = [put EXCEPT ![t] = [@ EXCEPT !.at = "answered", !.reply = o.reply]]
  BY DEF DeskPutRoute
<1>2. put[t].at = "going" /\ UNCHANGED <<page, stray, last, reads>>
  BY DEF DeskPutRoute
<1>3. b \in BodyType /\ b \in Bodies
  BY <1>2, StepFacts, PutFields, WiredAre DEF Bodies
<1> DEFINE u == [put[t] EXCEPT !.at = "answered", !.reply = o.reply]
<1>4. o.reply \in Replies
  BY <1>3, OutcomeIs DEF IInv, Shape
<1>5. u \in PutType /\ u.at = "answered" /\ u.body = b /\ u.reply = o.reply
  BY <1>2, <1>4, StepFacts, AnsweredPut
<1> HIDE DEF u
<1>6. put'[t] = u /\ \A x \in Tabs \ {t} : put'[x] = put[x]
  BY <1>1, StepFacts DEF u
<1>7. put[t] # Idle
  BY <1>2 DEF Idle
<1> HIDE DEF b
<1>8. ASSUME NEW x \in Tabs
      PROVE  /\ put'[x].at # "idle" => put[x].at # "idle"
             /\ put'[x].body = put[x].body /\ (put[x] = Idle => put'[x] = Idle)
             /\ Acknowledged(x)' => Acknowledged(x)
                                    \/ (put[x].at # "idle" /\ put[x].body = b /\ o.reply.kind = "ok")
             /\ last'[x] = last[x] \/ (last'[x] = None /\ last[x] = b)
  <2>1. CASE x = t
    BY <1>2, <1>5, <1>6, <1>7, <2>1 DEF Acknowledged, b
  <2>2. CASE x # t
    BY <1>2, <1>6, <2>2 DEF Acknowledged
  <2> QED
    BY <2>1, <2>2
<1> QED
  BY <1>1, <1>2, <1>3, <1>8, LandActs

LEMMA LandStrayActs ==
  ASSUME IInv, Silence, NEW b \in stray, LandStray(b)
  PROVE  Silence' /\ BatchStep
<1>1. PICK o \in PutRoute(b) : Land(b, o)
  BY DEF LandStray
<1>2. stray' \subseteq stray /\ UNCHANGED <<page, put, last, reads>>
  BY DEF LandStray
<1>3. b \in BodyType /\ b \in Bodies
  BY StepFacts, WiredAre DEF Bodies
<1> QED
  BY <1>1, <1>2, <1>3, LandActs DEF Acknowledged

LEMMA LandLastActs ==
  ASSUME IInv, Silence, NEW t \in Tabs, LandLast(t)
  PROVE  Silence' /\ BatchStep
<1> DEFINE b == last[t]
<1>1. PICK o \in PutRoute(b) : Land(b, o)
  BY DEF LandLast
<1>2. b # None /\ last' = [last EXCEPT ![t] = None] /\ UNCHANGED <<page, put, stray, reads>>
  BY DEF LandLast
<1>3. b \in BodyType /\ b \in Bodies
  BY <1>2, StepFacts, WiredAre
<1>4. \A x \in Tabs : last'[x] = last[x] \/ (last'[x] = None /\ last[x] = b)
  BY <1>2, StepFacts
<1> HIDE DEF b
<1> QED
  BY <1>1, <1>2, <1>3, <1>4, LandActs DEF Acknowledged

LEMMA NextActs ==
  ASSUME IInv, Silence, [Next]_vars
  PROVE  Silence' /\ BatchStep
<1>1. ASSUME NEW t \in Tabs, PageStep(t) PROVE Silence' /\ BatchStep
  BY <1>1, OpenActs, HearsActs, IngestActs, OnPushActs, FlushDeskActs, FlushedActs, EmitActs,
     HoldDeskActs, StartNewDeskActs, LeavesAct DEF PageStep, ReloadForBuild
<1>2. ASSUME NEW t \in Tabs, DaemonStep(t) PROVE Silence' /\ BatchStep
  BY <1>2, DeskGetRouteActs, DeskPutRouteActs, DeskPutRefusedActs, LandLastActs, DeskNewRouteActs DEF DaemonStep
<1>3. ASSUME NEW t \in Tabs, FaultStep(t) PROVE Silence' /\ BatchStep
  BY <1>3, ReadFailsActs, HearsActs, DisconnectActs, LeavesAct DEF FaultStep, Close
<1> QED
  BY <1>1, <1>2, <1>3, LandStrayActs, DaemonActs DEF Next

-----------------------------------------------------------------------------
(* Where the copies of a change are, and which desk it was made on.          *)

AtPage(t, c) == \E i \in DOMAIN page[t].pending : c = page[t].pending[i]
InBody(b, c) == \E i \in DOMAIN b.changes : c = b.changes[i]
Copy(c) == (\E b \in Bodies : InBody(b, c)) \/ \E t \in Tabs : AtPage(t, c)

(* A number names one change, which some tab made.                           *)
OneCopy ==
    /\ \A c, d \in Changes : Copy(c) /\ Copy(d) /\ c.n = d.n => c = d
    /\ \A c \in Changes : Copy(c) => author[c.n] # None

(* A change was made on the desk of a generation no older than the one its   *)
(* body or its page names, and no later than the stored one, while           *)
(* generations rise.                                                         *)
MadeOn(c, gen) == c.base = -1 \/ (gen # -1 /\ gen <= c.base /\ c.base <= desk.gen)

Bases ==
    ~fellBack =>
        /\ \A b \in Bodies : \A c \in Changes : InBody(b, c) => MadeOn(c, b.gen)
        /\ \A t \in Tabs : \A c \in Changes : AtPage(t, c) => MadeOn(c, page[t].gen)

(* A step in which no tab makes a change: the changes in a new body waited   *)
(* at the page that sends it.                                                *)
Copies ==
    /\ author' = author /\ (fellBack => fellBack') /\ (fellBack' \/ desk.gen <= desk'.gen)
    /\ \A b \in Bodies' :
        b \in Bodies \/ \E t \in Tabs : b.gen = page[t].gen /\ \A c \in Changes : InBody(b, c) => AtPage(t, c)
    /\ \A t \in Tabs : \A c \in Changes :
        AtPage(t, c)' => /\ AtPage(t, c)
                         /\ page[t].gen = -1 \/ (page'[t].gen # -1 /\ page'[t].gen <= page[t].gen)

(* The part of it about a tab the step leaves aside.                         *)
LEMMA AsideCopies ==
  ASSUME NEW t \in Tabs, Aside(t), NEW c \in Changes, AtPage(t, c)'
  PROVE  AtPage(t, c) /\ (page[t].gen = -1 \/ (page'[t].gen # -1 /\ page'[t].gen <= page[t].gen))
  BY DEF Aside, Stands, AtPage

LEMMA SentBody ==
  ASSUME NEW t, NEW b, Sends(t, b)
  PROVE  /\ b.tab = t /\ b.seq = page'[t].seq /\ b.gen = page[t].gen
         /\ b.changes = SubSeq(page[t].pending, 1, page'[t].inflight)
<1>1. b = Body(t, page'[t].seq, page[t].gen, SubSeq(page[t].pending, 1, page'[t].inflight))
  BY DEF Sends
<1> QED
  BY <1>1 DEF Body

LEMMA BodiesFewer ==
  ASSUME Shape, Wired' \subseteq Wired, \A x \in Tabs : last'[x] \in {last[x], None}
  PROVE  Bodies' \subseteq Bodies
  BY DEF Bodies

(* What is in the first k of what waits at a page waits there.               *)
LEMMA SubSeqOf ==
  ASSUME NEW t \in Tabs, page[t].pending \in Seq(Changes), NEW k \in Nat, NEW s \in Seq(Changes),
         s = SubSeq(page[t].pending, 1, k), k <= Len(page[t].pending)
  PROVE  /\ Len(s) = k /\ DOMAIN s = 1..k /\ 1..k \subseteq DOMAIN page[t].pending
         /\ \A i \in 1..k : s[i] = page[t].pending[i]
  OBVIOUS

LEMMA GoneHolds == Gone.pending = <<>> /\ Gone.inflight = 0 /\ Gone.seq = 0 /\ Gone.phase = "gone"
  BY DEF Gone, NewPage

LEMMA CopiesIs ==
  ASSUME IInv, BatchStep
  PROVE  Copies \/ \E t \in Tabs, c \in Changes : Emits(t, c)
<1>1. CASE Idles
  <2>1. Bodies' \subseteq Bodies
    BY <1>1, StepFacts, BodiesFewer DEF Idles
  <2> QED
    BY <1>1, <2>1, AsideCopies DEF Idles, Copies
<1>2. ASSUME NEW t \in Tabs, NEW b \in BodyType, Sends(t, b) PROVE Copies
  <2>1. Bodies' \subseteq Bodies \cup {b}
    BY <1>2 DEF Sends, Bodies
  <2>2. b.gen = page[t].gen /\ b.changes = SubSeq(page[t].pending, 1, page'[t].inflight)
    BY <1>2, SentBody
  <2>3. page[t].pending \in Seq(Changes) /\ page[t].inflight \in Nat /\ page[t].gen \in Int
    BY StepFacts, PageFields, BoundsAssumption
  <2>7. page'[t].inflight \in Nat /\ page'[t].inflight <= Len(page[t].pending)
    BY <1>2, <2>3 DEF Sends
  <2>4. ASSUME NEW c \in Changes, InBody(b, c) PROVE AtPage(t, c)
    <3>1. PICK i \in DOMAIN b.changes : c = b.changes[i]
      BY <2>4 DEF InBody
    <3>2. b.changes \in Seq(Changes)
      BY BodyFields
    <3>3. i \in DOMAIN page[t].pending /\ c = page[t].pending[i]
      BY <1>2, <2>2, <2>3, <2>7, <3>1, <3>2, SubSeqOf
    <3> QED
      BY <3>3 DEF AtPage
  <2>5. ASSUME NEW c \in Changes, AtPage(t, c)'
        PROVE  AtPage(t, c) /\ (page[t].gen = -1 \/ (page'[t].gen # -1 /\ page'[t].gen <= page[t].gen))
    BY <1>2, <2>3, <2>5 DEF AtPage, Sends
  <2>6. author' = author /\ (fellBack => fellBack') /\ (fellBack' \/ desk.gen <= desk'.gen)
    BY <1>2, StepFacts DEF Sends
  <2> QED
    BY <1>2, <2>1, <2>2, <2>4, <2>5, <2>6, AsideCopies DEF Sends, Copies
<1>3. ASSUME NEW t \in Tabs, Goes(t) PROVE Copies
  <2>1. \A b \in Bodies' : b \in Bodies \/ b = ClosingBatch(t)
    BY <1>3, StepFacts DEF Goes, Bodies
  <2>2. ClosingBatch(t).gen = page[t].gen /\ \A c \in Changes : InBody(ClosingBatch(t), c) => AtPage(t, c)
    BY DEF ClosingBatch, Body, InBody, AtPage
  <2>3. ASSUME NEW c \in Changes, AtPage(t, c)' PROVE FALSE
    BY <1>3, <2>3, GoneHolds DEF AtPage, Goes
  <2> QED
    BY <1>3, <2>1, <2>2, <2>3, AsideCopies, StepFacts DEF Goes, Copies
<1>4. ASSUME NEW t \in Tabs, Clears(t) PROVE Copies
  <2>1. Bodies' \subseteq Bodies
    BY <1>4, StepFacts, BodiesFewer DEF Clears
  <2>2. ASSUME NEW c \in Changes, AtPage(t, c)' PROVE AtPage(t, c)
    <3> DEFINE s == page[t].pending
               k == page[t].inflight + 1
    <3>1. s \in Seq(Changes) /\ k \in Nat /\ k >= 1
      BY StepFacts, PageFields
    <3>2. page'[t].pending = SubSeq(s, k, Len(s))
      BY <1>4 DEF Clears
    <3> HIDE DEF s, k
    <3>3. PICK i \in DOMAIN SubSeq(s, k, Len(s)) : c = SubSeq(s, k, Len(s))[i]
      BY <2>2, <3>2 DEF AtPage
    <3>4. i \in 1..(Len(s) - k + 1) /\ c = s[k + i - 1] /\ k + i - 1 \in 1..Len(s)
      BY <3>1, <3>3
    <3> QED
      BY <3>1, <3>4 DEF AtPage, s
  <2> QED
    BY <1>4, <2>1, <2>2, AsideCopies, StepFacts DEF Clears, Copies
<1>5. ASSUME NEW b \in BodyType, NEW o \in PutRoute(b), Lands(b, o) PROVE Copies
  <2>1. Bodies' \subseteq Bodies
    BY <1>5, StepFacts, BodiesFewer DEF Lands
  <2>2. page' = page /\ author' = author /\ fellBack' = fellBack /\ desk.gen <= desk'.gen
    BY <1>5, StepFacts DEF Lands
  <2>3. \A t \in Tabs : page[t].gen \in Int
    BY StepFacts, PageFields, BoundsAssumption
  <2> QED
    BY <2>1, <2>2, <2>3 DEF Copies, AtPage
<1> QED
  BY <1>1, <1>2, <1>3, <1>4, <1>5 DEF BatchStep

LEMMA CopiesOld ==
  ASSUME Copies, NEW c \in Changes, Copy(c)'
  PROVE  Copy(c)
<1>1. CASE \E b \in Bodies' : InBody(b, c)
  BY <1>1 DEF Copies, Copy
<1>2. CASE \E t \in Tabs : AtPage(t, c)'
  BY <1>2 DEF Copies, Copy
<1> QED
  BY <1>1, <1>2 DEF Copy, InBody

LEMMA CopiesKeeps ==
  ASSUME IInv, IInv', OneCopy, Bases, Copies
  PROVE  OneCopy' /\ Bases'
<1>1. OneCopy'
  <2>1. \A c, d \in Changes : Copy(c)' /\ Copy(d)' /\ c.n = d.n => c = d
    BY CopiesOld DEF OneCopy
  <2>2. \A c \in Changes : Copy(c)' => author'[c.n] # None
    BY CopiesOld DEF OneCopy, Copies
  <2> QED
    BY <2>1, <2>2 DEF OneCopy
<1>2. ASSUME ~fellBack' PROVE Bases'
  <2>1. ~fellBack /\ ~fellBack' /\ desk.gen <= desk'.gen
    BY <1>2 DEF Copies
  <2>2. desk.gen \in Nat /\ desk'.gen \in Nat /\ desk.gen <= desk'.gen
    BY <2>1, DeskFields, BoundsAssumption DEF Copies, IInv, Shape, DaemonShape
  <2>3. ASSUME NEW c \in Changes, NEW gen \in Int, MadeOn(c, gen) PROVE MadeOn(c, gen)'
    <3>1. c.base \in Int
      BY ActIs, BoundsAssumption DEF Ats
    <3> QED
      BY <2>2, <2>3, <3>1 DEF MadeOn
  <2>4. ASSUME NEW t \in Tabs PROVE page[t].gen \in Int
    BY StepFacts, PageFields, BoundsAssumption
  <2>5. ASSUME NEW b \in Bodies', NEW c \in Changes, InBody(b, c) PROVE MadeOn(c, b.gen)'
    <3>1. CASE b \in Bodies
      <4>1. MadeOn(c, b.gen)
        BY <2>5, <3>1, <2>1 DEF Bases
      <4>2. b.gen \in Int
        BY <3>1, StepFacts, WiredAre, BodyFields, BoundsAssumption DEF Ats
      <4> QED
        BY <2>3, <4>1, <4>2
    <3>2. CASE \E t \in Tabs : b.gen = page[t].gen /\ AtPage(t, c)
      <4>1. PICK t \in Tabs : b.gen = page[t].gen /\ AtPage(t, c)
        BY <3>2
      <4>2. MadeOn(c, page[t].gen)
        BY <4>1, <2>1 DEF Bases
      <4> QED
        BY <2>3, <2>4, <4>1, <4>2
    <3> QED
      BY <2>5, <3>1, <3>2 DEF Copies
  <2>6. ASSUME NEW t \in Tabs, NEW c \in Changes, AtPage(t, c)' PROVE MadeOn(c, page[t].gen)'
    <3>1. AtPage(t, c) /\ (page[t].gen = -1 \/ (page'[t].gen # -1 /\ page'[t].gen <= page[t].gen))
      BY <2>6 DEF Copies
    <3>2. MadeOn(c, page[t].gen)
      BY <3>1, <2>1 DEF Bases
    <3>3. page'[t].gen \in Int /\ page[t].gen \in Int /\ c.base \in Int
      <4>1. page'[t] \in PageType
        BY DEF IInv, Shape, PageShape
      <4> QED
        BY <2>4, <4>1, PageFields, ActIs, BoundsAssumption DEF Ats
    <3> QED
      BY <2>2, <3>1, <3>2, <3>3 DEF MadeOn
  <2> QED
    BY <2>5, <2>6 DEF Bases, InBody
<1> QED
  BY <1>1, <1>2 DEF Bases

LEMMA EmitsKeeps ==
  ASSUME IInv, IInv', OneCopy, Bases, NEW t \in Tabs, NEW e \in Changes, Emits(t, e)
  PROVE  OneCopy' /\ Bases'
<1>1. Bodies' \subseteq Bodies
  BY StepFacts, BodiesFewer DEF Emits
<1>2. ASSUME NEW x \in Tabs, NEW c \in Changes, AtPage(x, c)' PROVE AtPage(x, c) \/ (x = t /\ c = e)
  <2>1. CASE x # t
    BY <1>2, <2>1 DEF Emits, AtPage
  <2>2. CASE x = t
    <3>1. page'[t].pending = Append(page[t].pending, e) /\ page[t].pending \in Seq(Changes)
      BY StepFacts DEF Emits
    <3> QED
      BY <1>2, <2>2, <3>1, AppendProperties DEF AtPage
  <2> QED
    BY <2>1, <2>2
<1>3. ASSUME NEW c \in Changes, Copy(c)' PROVE Copy(c) \/ c = e
  <2>1. CASE \E b \in Bodies' : InBody(b, c)
    BY <1>1, <2>1 DEF Copy
  <2>2. CASE \E x \in Tabs : AtPage(x, c)'
    BY <1>2, <2>2 DEF Copy
  <2> QED
    BY <1>3, <2>1, <2>2 DEF Copy, InBody
<1>4. ~Copy(e) /\ \A c \in Changes : Copy(c) => c.n # e.n
  BY DEF OneCopy, Emits
<1>5. OneCopy'
  <2>1. \A c, d \in Changes : Copy(c)' /\ Copy(d)' /\ c.n = d.n => c = d
    BY <1>3, <1>4 DEF OneCopy
  <2>2. t # None /\ author \in [Numbers -> Tabs \cup {None}] /\ e.n \in Numbers
    BY StepFacts, GhostFields, DataAssumption, ActIs
  <2>3. \A c \in Changes : c.n \in Numbers
    BY ActIs
  <2>4. \A c \in Changes : Copy(c)' => author'[c.n] # None
    BY <1>3, <2>2, <2>3 DEF OneCopy, Emits
  <2> QED
    BY <2>1, <2>4 DEF OneCopy
<1>6. desk' = desk /\ fellBack' = fellBack
  BY DEF Emits
<1>7. ASSUME ~fellBack, NEW x \in Tabs, NEW c \in Changes, AtPage(x, c)' PROVE MadeOn(c, page[x].gen)'
  <2>1. page'[x].gen \in Int /\ page[x].gen \in Int /\ desk.gen \in Int /\ c.base \in Int
    <3>1. page[x].gen \in Int /\ desk.gen \in Int /\ c.base \in Int
      BY StepFacts, PageFields, ActIs, BoundsAssumption DEF Ats
    <3>2. page'[x] \in PageType
      BY DEF IInv, Shape, PageShape
    <3> QED
      BY <3>1, <3>2, PageFields, BoundsAssumption
  <2>2. page[x].gen = -1 \/ (page'[x].gen # -1 /\ page'[x].gen <= page[x].gen)
    BY DEF Emits, Stands
  <2>3. CASE AtPage(x, c)
    <3>1. MadeOn(c, page[x].gen)
      BY <1>7, <2>3 DEF Bases
    <3> QED
      BY <1>6, <2>1, <2>2, <3>1 DEF MadeOn
  <2>4. CASE x = t /\ c = e
    <3>1. c.base = page[t].gen /\ page[t].gen <= desk.gen
      <4>1. PageHeld(desk, page[t])
        BY StepFacts DEF Held
      <4> QED
        BY <1>7, <2>1, <2>4, <4>1 DEF PageHeld, Was, Emits
    <3> QED
      BY <1>6, <2>1, <2>2, <2>4, <3>1 DEF MadeOn
  <2> QED
    BY <1>2, <1>7, <2>3, <2>4
<1>8. Bases'
  <2>1. ASSUME ~fellBack, NEW b \in Bodies', NEW c \in Changes, InBody(b, c) PROVE MadeOn(c, b.gen)'
    BY <1>1, <1>6, <2>1 DEF Bases, MadeOn
  <2> QED
    BY <1>6, <1>7, <2>1 DEF Bases, InBody
<1> QED
  BY <1>5, <1>8

LEMMA FirstBatches == Init => Silence /\ Bodies = {} /\ \A t \in Tabs : page[t].pending = <<>> /\ page[t].inflight = 0
<1> SUFFICES ASSUME Init PROVE Silence /\ Bodies = {} /\ \A t \in Tabs : page[t].pending = <<>> /\ page[t].inflight = 0
  OBVIOUS
<1>1. /\ put = [t \in Tabs |-> Idle] /\ stray = {} /\ last = [t \in Tabs |-> None]
      /\ page = [t \in Tabs |-> IF t <= OpenAtStart THEN OldPage ELSE NewPage]
  BY DEF Init
<1>2. Bodies = {}
  BY <1>1 DEF Bodies, Wired, Idle
<1>3. /\ NewPage.pending = <<>> /\ OldPage.pending = <<>> /\ NewPage.inflight = 0 /\ OldPage.inflight = 0
      /\ NewPage.phase = "new" /\ OldPage.phase = "ready"
  BY DEF NewPage, OldPage
<1>4. Silence
  BY <1>1, <1>3 DEF Silence, Silent, Live
<1> QED
  BY <1>1, <1>2, <1>3, <1>4

(* The inductive invariant of where the changes are.                         *)
CopyInv == IInv /\ Silence /\ OneCopy /\ Bases

LEMMA CopyInvNext ==
  ASSUME CopyInv, [Next]_vars
  PROVE  CopyInv'
<1>1. IInv /\ Silence /\ OneCopy /\ Bases
  BY DEF CopyInv
<1>2. IInv' /\ Silence' /\ BatchStep
  BY <1>1, NextKeeps, NextActs
<1>3. OneCopy' /\ Bases'
  BY <1>1, <1>2, CopiesIs, CopiesKeeps, EmitsKeeps
<1> QED
  BY <1>2, <1>3 DEF CopyInv

(* A change has one content wherever a copy of it is and, while every        *)
(* restore and every new desk raises the generation, its base lies between   *)
(* the generation of its body or page and the stored desk's.                 *)
THEOREM DeskCopies == Spec => []CopyInv
<1>1. Init => CopyInv
  <2> SUFFICES ASSUME Init PROVE CopyInv
    OBVIOUS
  <2>1. \A c \in Changes : ~Copy(c)
    BY FirstBatches DEF Copy, AtPage
  <2>2. OneCopy
    BY <2>1 DEF OneCopy
  <2>3. Bases
    BY <2>1 DEF Bases, Copy
  <2> QED
    BY <2>2, <2>3, FirstIs, FirstBatches DEF CopyInv
<1>2. CopyInv /\ [Next]_vars => CopyInv'
  BY CopyInvNext
<1> QED
  BY <1>1, <1>2, PTL DEF Spec

(* A count that rose counts something.                                       *)
LEMMA CountsOne ==
  ASSUME NEW k \in Nat, NEW S, k + Cardinality(S) > k
  PROVE  S # {}
<1>1. S = {} => k + Cardinality(S) = k
  BY FS_EmptySet
<1> QED
  BY <1>1

LEMMA AppliedLands ==
  ASSUME IInv, BatchStep, NEW n \in Numbers, applied'[n] > applied[n]
  PROVE  \E b \in Bodies : b.gen >= desk.gen /\ \E i \in DOMAIN b.changes : b.changes[i].n = n
<1>1. applied[n] \in Nat
  BY StepFacts, GhostFields
<1>2. applied' # applied
  BY <1>1
<1>3. PICK b \in BodyType : \E o \in PutRoute(b) : Lands(b, o)
  BY <1>2 DEF BatchStep, Idles, Emits, Sends, Goes, Clears
<1>4. /\ b \in Bodies /\ Fresh(b)
      /\ applied' = [m \in Numbers |->
            applied[m] + Cardinality({i \in DOMAIN b.changes : b.changes[i].n = m})]
  BY <1>2, <1>3 DEF Lands
<1> DEFINE S == {i \in DOMAIN b.changes : b.changes[i].n = n}
<1>5. applied[n] + Cardinality(S) > applied[n]
  BY <1>4
<1> HIDE DEF S
<1>6. S # {}
  BY <1>1, <1>5, CountsOne
<1> QED
  BY <1>4, <1>6 DEF S, Fresh

(* A change made on the desk of one generation is not applied to the desk of *)
(* a later one: neither a page from before a restore nor its stray batch     *)
(* writes over the restored layout (the generation check of the PUT route),  *)
(* in every behaviour up to the first restore or new desk that leaves a      *)
(* generation not above the one before: a clock set back, a failed save.     *)
THEOREM DeskRestoreHolds == Spec => NoWriteAcrossRestore
<1> DEFINE Holds ==
      ~fellBack => \A n \in Numbers : applied'[n] > applied[n] =>
        \A b \in stray \cup {put[t].body : t \in Tabs} \cup {last[t] : t \in Tabs} :
          b # None => \A i \in DOMAIN b.changes :
            b.changes[i].n = n => b.changes[i].base \in {-1, desk.gen}
<1>1. CopyInv /\ [Next]_vars => Holds
  <2> SUFFICES ASSUME CopyInv, [Next]_vars, ~fellBack, NEW n \in Numbers, applied'[n] > applied[n],
                      NEW b \in stray \cup {put[t].body : t \in Tabs} \cup {last[t] : t \in Tabs},
                      b # None, NEW i \in DOMAIN b.changes, b.changes[i].n = n
               PROVE  b.changes[i].base \in {-1, desk.gen}
    OBVIOUS
  <2>1. IInv /\ BatchStep /\ OneCopy /\ Bases
    BY NextActs DEF CopyInv
  <2>2. PICK c \in Bodies : c.gen >= desk.gen /\ \E j \in DOMAIN c.changes : c.changes[j].n = n
    BY <2>1, AppliedLands
  <2>3. PICK j \in DOMAIN c.changes : c.changes[j].n = n
    BY <2>2
  <2>4. b \in Bodies
    BY DEF Bodies, Wired
  <2>5. b \in BodyType /\ c \in BodyType
    BY <2>1, <2>4, StepFacts, WiredAre
  <2>6. b.changes[i] \in Changes /\ c.changes[j] \in Changes /\ c.gen \in Int
    BY <2>5, BodyFields, BoundsAssumption DEF Ats
  <2>7. Copy(b.changes[i]) /\ Copy(c.changes[j])
    BY <2>4 DEF Copy, InBody
  <2>8. b.changes[i] = c.changes[j]
    BY <2>1, <2>3, <2>6, <2>7 DEF OneCopy
  <2>9. MadeOn(c.changes[j], c.gen)
    BY <2>1, <2>6 DEF Bases, InBody
  <2>10. c.changes[j].base \in Int /\ desk.gen \in Int
    BY <2>1, <2>6, StepFacts, ActIs, BoundsAssumption DEF Ats
  <2> QED
    BY <2>2, <2>6, <2>8, <2>9, <2>10 DEF MadeOn
<1>2. CopyInv /\ [Next]_vars => [Holds]_vars
  BY <1>1
<1> QED
  BY <1>2, DeskCopies, PTL DEF Spec, NoWriteAcrossRestore

-----------------------------------------------------------------------------
(* What a tab sent, what the daemon has of it, and what was applied.         *)

(* The daemon remembers number s, or a higher one, of tab t.                 *)
Sent(t, s) == \E i \in DOMAIN seqs : seqs[i].tab = t /\ s <= seqs[i].seq

(* The batch in flight of tab t.                                             *)
Batch(t) == SubSeq(page[t].pending, 1, page[t].inflight)

(* The batch on the wire is the one in flight.                               *)
OnWire(t) ==
    put[t].at # "idle" =>
        put[t].body.tab = t /\ put[t].body.seq = page[t].seq /\ page[t].inflight > 0

(* A closing batch is of a document that went.                               *)
AtClose(t) == last[t] # None => last[t].tab = t /\ ~Live(t)

(* The daemon knows no number above the tab's own.                           *)
Known(t) == Live(t) => \A i \in DOMAIN seqs : seqs[i].tab = t => seqs[i].seq <= page[t].seq

(* No body of the tab has a higher number, and the one of its own number is  *)
(* the batch in flight.                                                      *)
Numbered(t) ==
    Live(t) => \A b \in Bodies : b.tab = t =>
        b.seq <= page[t].seq /\ (b.seq = page[t].seq /\ page[t].inflight > 0 => b.changes = Batch(t))

(* The batch in flight was applied, once its number is remembered or the     *)
(* answer to it is on the way.                                               *)
Landed(t) ==
    Live(t) /\ (Sent(t, page[t].seq) \/ Acknowledged(t)) =>
        \A j \in 1..page[t].inflight : applied[page[t].pending[j].n] > 0

Sender(t) == OnWire(t) /\ AtClose(t) /\ Known(t) /\ Numbered(t) /\ Landed(t)
Senders == \A t \in Tabs : Sender(t)

LEMMA PendingIs ==
  ASSUME IInv, NEW t \in Tabs
  PROVE  /\ page[t].pending \in Seq(Changes) /\ page[t].inflight \in Nat /\ page[t].seq \in Nat
         /\ page[t].inflight <= Len(page[t].pending)
         /\ DOMAIN page[t].pending = 1..Len(page[t].pending)
         /\ 1..page[t].inflight \subseteq DOMAIN page[t].pending
         /\ \A j \in DOMAIN page[t].pending :
              page[t].pending[j] \in Changes /\ page[t].pending[j].n \in Numbers
         /\ Batch(t) \in Seq(Changes) /\ DOMAIN Batch(t) = 1..page[t].inflight
         /\ Len(Batch(t)) = page[t].inflight
         /\ \A j \in 1..page[t].inflight : Batch(t)[j] = page[t].pending[j]
<1>1. page[t].pending \in Seq(Changes) /\ page[t].inflight \in Nat /\ page[t].seq \in Nat
      /\ page[t].inflight <= Len(page[t].pending)
  BY StepFacts, PageFields DEF PageOK
<1> DEFINE s == page[t].pending
           k == page[t].inflight
<1> HIDE DEF s, k
<1>2. s \in Seq(Changes) /\ k \in Nat /\ k <= Len(s)
  BY <1>1 DEF s, k
<1>3. DOMAIN s = 1..Len(s) /\ 1..k \subseteq DOMAIN s /\ Len(SubSeq(s, 1, k)) = k
      /\ SubSeq(s, 1, k) \in Seq(Changes) /\ DOMAIN SubSeq(s, 1, k) = 1..k
      /\ \A j \in 1..k : SubSeq(s, 1, k)[j] = s[j]
  BY <1>2
<1>4. \A j \in DOMAIN s : s[j] \in Changes /\ s[j].n \in Numbers
  BY <1>2, ActIs
<1> QED
  BY <1>1, <1>3, <1>4 DEF s, k, Batch

LEMMA CountIs ==
  ASSUME NEW s \in Seq(Changes), NEW n
  PROVE  LET S == {i \in DOMAIN s : s[i].n = n} IN
         IsFiniteSet(S) /\ Cardinality(S) \in Nat /\ (Cardinality(S) = 0 <=> S = {})
<1> DEFINE S == {i \in DOMAIN s : s[i].n = n}
<1>1. IsFiniteSet(1..Len(s)) /\ DOMAIN s = 1..Len(s)
  BY FS_Interval
<1>2. IsFiniteSet(S)
  BY <1>1, FS_Subset
<1> HIDE DEF S
<1> QED
  BY <1>2, FS_CardinalityType, FS_EmptySet DEF S

(* The counts only rise, and rise for all that a batch applies.              *)
LEMMA AppliedGrows ==
  ASSUME IInv, BatchStep
  PROVE  \A n \in Numbers : applied[n] \in Nat /\ applied'[n] \in Nat /\ applied'[n] >= applied[n]
<1> SUFFICES ASSUME NEW n \in Numbers
             PROVE  applied[n] \in Nat /\ applied'[n] \in Nat /\ applied'[n] >= applied[n]
  OBVIOUS
<1>1. applied[n] \in Nat
  BY StepFacts, GhostFields
<1>2. CASE applied' = applied
  BY <1>1, <1>2
<1>3. CASE applied' # applied
  <2>1. PICK b \in BodyType : \E o \in PutRoute(b) : Lands(b, o)
    BY <1>3 DEF BatchStep, Idles, Emits, Sends, Goes, Clears
  <2> DEFINE k == Cardinality({i \in DOMAIN b.changes : b.changes[i].n = n})
  <2>2. applied'[n] = applied[n] + k
    BY <1>3, <2>1 DEF Lands
  <2>3. k \in Nat
    BY BodyFields, CountIs
  <2> HIDE DEF k
  <2> QED
    BY <1>1, <2>2, <2>3
<1> QED
  BY <1>2, <1>3

LEMMA LandsCounts ==
  ASSUME IInv, NEW b \in BodyType,
         applied' = [n \in Numbers |->
                       applied[n] + Cardinality({i \in DOMAIN b.changes : b.changes[i].n = n})]
  PROVE  \A i \in DOMAIN b.changes : applied'[b.changes[i].n] > 0
<1> SUFFICES ASSUME NEW i \in DOMAIN b.changes PROVE applied'[b.changes[i].n] > 0
  OBVIOUS
<1> DEFINE n == b.changes[i].n
           S == {j \in DOMAIN b.changes : b.changes[j].n = n}
<1>1. b.changes \in Seq(Changes) /\ n \in Numbers
  BY BodyFields, ActIs
<1>2. applied[n] \in Nat /\ applied'[n] = applied[n] + Cardinality(S)
  BY <1>1, StepFacts, GhostFields
<1>3. i \in S
  OBVIOUS
<1>4. Cardinality(S) \in Nat /\ Cardinality(S) # 0
  BY <1>1, <1>3, CountIs
<1> HIDE DEF S, n
<1> QED
  BY <1>2, <1>4 DEF n

(* A tab whose batch in flight stays, while no body of it is new.            *)
LEMMA SenderStands ==
  ASSUME IInv, BatchStep, NEW x \in Tabs, Sender(x), Stands(x),
         put'[x].at # "idle" => put[x].at # "idle" /\ put'[x].body = put[x].body,
         \A j \in 1..page[x].inflight : page'[x].pending[j] = page[x].pending[j],
         Batch(x)' = Batch(x),
         last'[x] \in {last[x], None},
         \A b \in Bodies' : b.tab = x => b \in Bodies,
         Live(x) => \A i \in DOMAIN seqs' : seqs'[i].tab = x => seqs'[i].seq <= page[x].seq,
         Live(x) /\ (Sent(x, page[x].seq)' \/ Acknowledged(x)') =>
            \/ Sent(x, page[x].seq) \/ Acknowledged(x)
            \/ \A j \in 1..page[x].inflight : applied'[page[x].pending[j].n] > 0
  PROVE  Sender(x)'
<1>1. page'[x].seq = page[x].seq /\ page'[x].inflight = page[x].inflight /\ (Live(x)' <=> Live(x))
  BY DEF Stands, Live
<1>2. OnWire(x)'
  BY <1>1 DEF Sender, OnWire
<1>3. AtClose(x)'
  BY <1>1 DEF Sender, AtClose
<1>4. Known(x)'
  BY <1>1 DEF Known
<1>5. Numbered(x)'
  BY <1>1 DEF Sender, Numbered
<1>6. Landed(x)'
  <2> SUFFICES ASSUME Live(x)', Sent(x, page[x].seq)' \/ Acknowledged(x)', NEW j \in 1..page[x].inflight
               PROVE  applied'[page[x].pending[j].n] > 0
    BY <1>1 DEF Landed
  <2>1. page[x].pending[j].n \in Numbers
    BY PendingIs
  <2>2. applied[page[x].pending[j].n] > 0 => applied'[page[x].pending[j].n] > 0
    BY <2>1, AppliedGrows
  <2> QED
    BY <1>1, <2>2 DEF Sender, Landed
<1> QED
  BY <1>2, <1>3, <1>4, <1>5, <1>6 DEF Sender

(* The same, where the step leaves the tab aside.                            *)
LEMMA SenderAside ==
  ASSUME IInv, BatchStep, NEW x \in Tabs, Sender(x), Aside(x), last'[x] = last[x],
         \A b \in Bodies' : b.tab = x => b \in Bodies,
         seqs' \in {seqs, <<>>}
  PROVE  Sender(x)'
<1>1. Sent(x, page[x].seq)' => Sent(x, page[x].seq)
  BY DEF Sent, Aside, Stands
<1>2. Live(x) => \A i \in DOMAIN seqs' : seqs'[i].tab = x => seqs'[i].seq <= page[x].seq
  BY DEF Sender, Known
<1>3. Batch(x)' = Batch(x)
  BY DEF Batch, Aside, Stands
<1> QED
  BY <1>1, <1>2, <1>3, SenderStands DEF Aside, Waits

LEMMA IdlesSenders ==
  ASSUME IInv, Senders, Idles
  PROVE  Senders'
<1>1. Bodies' \subseteq Bodies
  BY StepFacts, BodiesFewer DEF Idles
<1>2. BatchStep
  BY DEF BatchStep
<1> QED
  BY <1>1, <1>2, SenderAside DEF Senders, Idles

LEMMA EmitsSenders ==
  ASSUME IInv, Senders, NEW t \in Tabs, NEW c \in Changes, Emits(t, c)
  PROVE  Senders'
<1>1. Bodies' \subseteq Bodies
  BY StepFacts, BodiesFewer DEF Emits
<1>2. BatchStep
  BY DEF BatchStep
<1>3. ASSUME NEW x \in Tabs, x # t PROVE Sender(x)'
  <2>1. Aside(x) /\ last'[x] = last[x] /\ seqs' = seqs
    BY <1>3 DEF Emits, Aside
  <2> QED
    BY <1>1, <1>2, <2>1, SenderAside DEF Senders
<1>4. Sender(t)'
  <2> DEFINE s == page[t].pending
             k == page[t].inflight
  <2>1. /\ Stands(t) /\ Waits(t) /\ page'[t].pending = Append(s, c) /\ last' = last /\ seqs' = seqs
        /\ page'[t].seq = page[t].seq /\ page'[t].inflight = k
    BY DEF Emits, Stands
  <2>2. s \in Seq(Changes) /\ k \in Nat /\ k <= Len(s)
    BY PendingIs
  <2> HIDE DEF s, k
  <2>3. \A j \in 1..k : Append(s, c)[j] = s[j]
    BY <2>2, AppendProperties
  <2>4. SubSeq(Append(s, c), 1, k) = SubSeq(s, 1, k)
    BY <2>2, <2>3, AppendProperties
  <2>5. Batch(t)' = Batch(t) /\ \A j \in 1..page[t].inflight : page'[t].pending[j] = page[t].pending[j]
    BY <2>1, <2>3, <2>4 DEF Batch, s, k
  <2>6. /\ put'[t].at # "idle" => put[t].at # "idle" /\ put'[t].body = put[t].body
        /\ Live(t) => \A i \in DOMAIN seqs' : seqs'[i].tab = t => seqs'[i].seq <= page[t].seq
        /\ Sent(t, page[t].seq)' \/ Acknowledged(t)' => Sent(t, page[t].seq) \/ Acknowledged(t)
        /\ Sender(t) /\ last'[t] = last[t]
    BY <2>1 DEF Waits, Sent, Senders, Sender, Known
  <2> QED
    BY <1>1, <1>2, <2>1, <2>5, <2>6, SenderStands
<1> QED
  BY <1>3, <1>4 DEF Senders

LEMMA SendsSenders ==
  ASSUME IInv, Senders, NEW t \in Tabs, NEW b \in BodyType, Sends(t, b)
  PROVE  Senders'
<1>1. Bodies' \subseteq Bodies \cup {b} /\ last' = last /\ seqs' = seqs
  BY DEF Sends, Bodies
<1>2. BatchStep
  BY DEF BatchStep
<1>3. b.tab = t /\ b.seq = page'[t].seq /\ b.changes = SubSeq(page[t].pending, 1, page'[t].inflight)
  BY SentBody
<1>4. ASSUME NEW x \in Tabs, x # t PROVE Sender(x)'
  <2>1. Aside(x)
    BY <1>4 DEF Sends
  <2> QED
    BY <1>1, <1>2, <1>3, <1>4, <2>1, SenderAside DEF Senders
<1>5. Sender(t)'
  <2>1. /\ Live(t) /\ Live(t)' /\ page'[t].pending = page[t].pending /\ Sender(t)
        /\ put'[t].body = b /\ put'[t].at = "going" /\ applied' = applied
        /\ page'[t].inflight \in 1..Len(page[t].pending)
    BY DEF Sends, Live, Senders
  <2>2. /\ page[t].seq \in Nat /\ page[t].inflight \in Nat
        /\ \A c \in Bodies : c.seq \in Int
        /\ \A i \in DOMAIN seqs : seqs[i].seq \in Int
    <3>1. seqs \in Seq(Entries)
      BY DEF IInv, Shape, DaemonShape, SeqsOK
    <3>2. \A i \in DOMAIN seqs : seqs[i].seq \in Int
      <4>1. \A i \in DOMAIN seqs : seqs[i] \in Entries
        BY <3>1
      <4> QED
        BY <4>1 DEF Entries
    <3>3. \A c \in Bodies : c.seq \in Int
      BY StepFacts, WiredAre, BodyFields
    <3> QED
      BY <3>2, <3>3, PendingIs
  <2>3. Batch(t)' = b.changes /\ page'[t].inflight > 0
    BY <1>3, <2>1 DEF Batch
  <2>4. OnWire(t)'
    BY <1>3, <2>1, <2>3 DEF OnWire
  <2>5. AtClose(t)'
    BY <1>1, <2>1 DEF Sender, AtClose
  <2>6. CASE page[t].inflight = 0 /\ page'[t].seq = page[t].seq + 1
    <3>1. Known(t)'
      BY <1>1, <2>1, <2>2, <2>6 DEF Sender, Known
    <3>2. Numbered(t)'
      BY <1>1, <1>3, <2>1, <2>2, <2>3, <2>6 DEF Sender, Numbered
    <3>3. ~Sent(t, page[t].seq)' /\ ~Acknowledged(t)'
      BY <1>1, <2>1, <2>2, <2>6 DEF Sent, Acknowledged, Sender, Known
    <3>4. Landed(t)'
      BY <3>3 DEF Landed
    <3> QED
      BY <2>4, <2>5, <3>1, <3>2, <3>4 DEF Sender
  <2>7. CASE page[t].inflight > 0 /\ page'[t].seq = page[t].seq /\ page'[t].inflight = page[t].inflight
    <3>1. Known(t)'
      BY <1>1, <2>1, <2>7 DEF Sender, Known
    <3>2. Batch(t)' = Batch(t)
      BY <2>1, <2>7 DEF Batch
    <3>3. Numbered(t)'
      BY <1>1, <1>3, <2>1, <2>2, <2>3, <2>7, <3>2 DEF Sender, Numbered
    <3>4. (Sent(t, page[t].seq)' => Sent(t, page[t].seq)) /\ ~Acknowledged(t)'
      BY <1>1, <2>1, <2>7 DEF Sent, Acknowledged
    <3>5. Landed(t)'
      BY <2>1, <2>7, <3>4 DEF Sender, Landed
    <3> QED
      BY <2>4, <2>5, <3>1, <3>3, <3>5 DEF Sender
  <2> QED
    BY <2>6, <2>7 DEF Sends
<1> QED
  BY <1>4, <1>5 DEF Senders

LEMMA GoesSenders ==
  ASSUME IInv, Senders, NEW t \in Tabs, Goes(t)
  PROVE  Senders'
<1>1. /\ page'[t] = Gone /\ put'[t] = Idle /\ seqs' = seqs
      /\ last'[t] = last[t] \/ last'[t] = ClosingBatch(t)
      /\ \A x \in Tabs \ {t} : last'[x] = last[x] /\ Aside(x)
      /\ Bodies' \subseteq Bodies \cup {ClosingBatch(t)}
  BY StepFacts DEF Goes, Bodies
<1>2. BatchStep
  BY DEF BatchStep
<1>3. ClosingBatch(t).tab = t
  BY DEF ClosingBatch, Body
<1>4. ASSUME NEW x \in Tabs, x # t PROVE Sender(x)'
  BY <1>1, <1>2, <1>3, <1>4, SenderAside DEF Senders
<1>5. Sender(t)'
  BY <1>1, <1>3, GoneHolds DEF Sender, Senders, OnWire, AtClose, Known, Numbered, Landed, Live, Idle
<1> QED
  BY <1>4, <1>5 DEF Senders

LEMMA ClearsSenders ==
  ASSUME IInv, Senders, NEW t \in Tabs, Clears(t)
  PROVE  Senders'
<1>1. Bodies' \subseteq Bodies
  BY StepFacts, BodiesFewer DEF Clears
<1>2. BatchStep
  BY DEF BatchStep
<1>3. ASSUME NEW x \in Tabs, x # t PROVE Sender(x)'
  BY <1>1, <1>2, <1>3, SenderAside DEF Senders, Clears
<1>4. Sender(t)'
  <2>1. /\ Live(t) /\ Live(t)' /\ page'[t].seq = page[t].seq /\ page'[t].inflight = 0 /\ put'[t] = Idle
        /\ last' = last /\ seqs' = seqs /\ Sender(t)
    BY DEF Clears, Live, Senders
  <2>2. OnWire(t)' /\ AtClose(t)' /\ Known(t)' /\ Landed(t)'
    BY <2>1 DEF Sender, OnWire, AtClose, Known, Landed, Idle
  <2>3. Numbered(t)'
    BY <1>1, <2>1 DEF Sender, Numbered
  <2> QED
    BY <2>2, <2>3 DEF Sender
<1> QED
  BY <1>3, <1>4 DEF Senders

LEMMA LandsSenders ==
  ASSUME IInv, Senders, NEW b \in BodyType, NEW o \in PutRoute(b), Lands(b, o)
  PROVE  Senders'
<1>1. Bodies' \subseteq Bodies
  BY StepFacts, BodiesFewer DEF Lands
<1>2. BatchStep
  BY DEF BatchStep
<1> SUFFICES ASSUME NEW x \in Tabs PROVE Sender(x)'
  BY DEF Senders
<1>3. /\ Sender(x) /\ page' = page /\ last'[x] \in {last[x], None} /\ b \in Bodies
      /\ put'[x].at # "idle" => put[x].at # "idle" /\ put'[x].body = put[x].body
      /\ Acknowledged(x)' => Acknowledged(x)
                             \/ (put[x].at # "idle" /\ put[x].body = b /\ o.reply.kind = "ok")
  BY DEF Lands, Senders
<1>4. Stands(x)
  <2>1. page[x].gen \in Int
    BY StepFacts, PageFields, BoundsAssumption
  <2> QED
    BY <1>3, <2>1 DEF Stands
<1>5. Batch(x)' = Batch(x)
  BY <1>3 DEF Batch
<1>6. Live(x) /\ b.tab = x => b.seq <= page[x].seq
  BY <1>3 DEF Sender, Numbered
<1>7. CASE seqs' = seqs /\ applied' = applied /\ (o.reply.kind = "ok" => IsOld(b))
  <2>1. ASSUME Live(x), Acknowledged(x)' PROVE Sent(x, page[x].seq) \/ Acknowledged(x)
    <3>1. CASE put[x].at # "idle" /\ put[x].body = b /\ o.reply.kind = "ok"
      BY <1>3, <1>7, <3>1 DEF Sender, OnWire, IsOld, Sent
    <3> QED
      BY <1>3, <2>1, <3>1
  <2>2. Sent(x, page[x].seq)' => Sent(x, page[x].seq)
    BY <1>3, <1>7 DEF Sent
  <2>3. Live(x) => \A i \in DOMAIN seqs' : seqs'[i].tab = x => seqs'[i].seq <= page[x].seq
    BY <1>3, <1>7 DEF Sender, Known
  <2> QED
    BY <1>1, <1>2, <1>3, <1>4, <1>5, <2>1, <2>2, <2>3, SenderStands
<1>8. CASE /\ seqs' = Record(b) /\ Fresh(b)
           /\ applied' = [n \in Numbers |->
                 applied[n] + Cardinality({i \in DOMAIN b.changes : b.changes[i].n = n})]
  <2>1. /\ Record(b) \in Seq(Entries)
        /\ \A i \in DOMAIN Record(b) :
             \/ Record(b)[i] = [tab |-> b.tab, seq |-> b.seq]
             \/ \E j \in DOMAIN seqs : Record(b)[i] = seqs[j] /\ seqs[j].tab # b.tab
    BY BodyFields, RecordIs DEF IInv, Shape, DaemonShape, SeqsOK
  <2>2. Live(x) => \A i \in DOMAIN seqs' : seqs'[i].tab = x => seqs'[i].seq <= page[x].seq
    BY <1>3, <1>6, <1>8, <2>1 DEF Sender, Known
  <2>3. ASSUME Live(x), b.tab = x, page[x].seq <= b.seq, NEW j \in 1..page[x].inflight
        PROVE  applied'[page[x].pending[j].n] > 0
    <3>1. b.seq = page[x].seq /\ page[x].inflight > 0
      BY <1>6, <2>3, BodyFields, PendingIs
    <3>2. b.changes = Batch(x)
      BY <1>3, <2>3, <3>1 DEF Sender, Numbered
    <3>3. j \in DOMAIN b.changes /\ b.changes[j] = page[x].pending[j]
      BY <3>2, PendingIs
    <3> QED
      BY <1>8, <3>3, LandsCounts
  <2>4. ASSUME Live(x), Sent(x, page[x].seq)'
        PROVE  Sent(x, page[x].seq) \/ \A j \in 1..page[x].inflight : applied'[page[x].pending[j].n] > 0
    <3>1. PICK i \in DOMAIN Record(b) : Record(b)[i].tab = x /\ page[x].seq <= Record(b)[i].seq
      BY <1>3, <1>8, <2>4 DEF Sent
    <3>2. CASE Record(b)[i] = [tab |-> b.tab, seq |-> b.seq]
      BY <2>3, <2>4, <3>1, <3>2
    <3>3. CASE \E j \in DOMAIN seqs : Record(b)[i] = seqs[j]
      BY <3>1, <3>3 DEF Sent
    <3> QED
      BY <2>1, <3>2, <3>3
  <2>5. ASSUME Live(x), Acknowledged(x)'
        PROVE  Acknowledged(x) \/ \A j \in 1..page[x].inflight : applied'[page[x].pending[j].n] > 0
    <3>1. CASE put[x].at # "idle" /\ put[x].body = b
      <4>1. b.tab = x /\ b.seq = page[x].seq
        BY <1>3, <3>1 DEF Sender, OnWire
      <4> QED
        BY <2>3, <2>5, <4>1, PendingIs
    <3> QED
      BY <1>3, <2>5, <3>1
  <2> QED
    BY <1>1, <1>2, <1>3, <1>4, <1>5, <2>2, <2>4, <2>5, SenderStands
<1> QED
  BY <1>7, <1>8 DEF Lands

LEMMA SendersNext ==
  ASSUME IInv, Senders, BatchStep
  PROVE  Senders'
  BY IdlesSenders, EmitsSenders, SendsSenders, GoesSenders, ClearsSenders, LandsSenders DEF BatchStep

(* A change a live page no longer holds was applied, or could not be read.   *)
HasIt(n) ==
    n \notin refused /\ author[n] # None /\ page[author[n]].phase # "gone"
    /\ (\A i \in DOMAIN page[author[n]].pending : page[author[n]].pending[i].n # n)
    => applied[n] > 0

(* A step that leaves the author's changes at its page.                      *)
LEMMA HasItKept ==
  ASSUME IInv, BatchStep, NEW n \in Numbers, NEW a, a = author[n], HasIt(n), author'[n] = a,
         refused \subseteq refused',
         a # None /\ Live(a)' =>
            Live(a) /\ \A j \in DOMAIN page[a].pending :
               page[a].pending[j].n = n => \/ applied[n] > 0 \/ n \in refused'
                                           \/ \E i \in DOMAIN page'[a].pending : page'[a].pending[i].n = n
  PROVE  HasIt(n)'
<1>1. applied[n] > 0 => applied'[n] > 0
  BY AppliedGrows
<1> QED
  BY <1>1 DEF HasIt, Live

LEMMA HasItNext ==
  ASSUME IInv, Senders, BatchStep, \A n \in Numbers : HasIt(n), NEW n \in Numbers
  PROVE  HasIt(n)'
<1>1. author \in [Numbers -> Tabs \cup {None}]
  BY StepFacts, GhostFields
<1> PICK a : a = author[n]
  OBVIOUS
<1>2. a # None => a \in Tabs
  BY <1>1
<1>3. ASSUME author' = author, refused \subseteq refused', NEW z,
             a \in Tabs /\ a # z => Aside(a),
             a \in Tabs /\ a = z /\ Live(a)' =>
               Live(a) /\ \A j \in DOMAIN page[a].pending :
                 page[a].pending[j].n = n => \/ applied[n] > 0 \/ n \in refused'
                                             \/ \E i \in DOMAIN page'[a].pending : page'[a].pending[i].n = n
      PROVE  HasIt(n)'
  <2>1. a \in Tabs /\ Live(a)' => Live(a)
    BY <1>3 DEF Aside, Stands, Live
  <2>2. ASSUME a \in Tabs, Live(a)', NEW j \in DOMAIN page[a].pending, page[a].pending[j].n = n
        PROVE  applied[n] > 0 \/ n \in refused' \/ \E i \in DOMAIN page'[a].pending : page'[a].pending[i].n = n
    <3>1. CASE a # z
      BY <1>3, <2>2, <3>1 DEF Aside
    <3>2. CASE a = z
      BY <1>3, <2>2, <3>2
    <3> QED
      BY <3>1, <3>2
  <2> QED
    BY <1>2, <1>3, <2>1, <2>2, HasItKept
<1>4. CASE Idles
  <2>1. author' = author /\ refused' = refused /\ \A x \in Tabs : Aside(x)
    BY <1>4 DEF Idles
  <2> QED
    BY <1>2, <1>3, <2>1, DataAssumption
<1>5. ASSUME NEW t \in Tabs, NEW c \in Changes, Emits(t, c) PROVE HasIt(n)'
  <2>1. /\ author' = [author EXCEPT ![c.n] = t] /\ author[c.n] = None /\ c.n \in Numbers
        /\ page'[t].pending = Append(page[t].pending, c)
        /\ refused' = refused
        /\ \A x \in Tabs : Stands(x) /\ (x # t => page'[x].pending = page[x].pending)
    BY <1>5, ActIs DEF Emits
  <2>2. page[t].pending \in Seq(Changes)
    BY PendingIs
  <2>3. CASE n = c.n
    <3>1. author'[n] = t
      BY <1>1, <2>1, <2>3
    <3>2. \E i \in DOMAIN page'[t].pending : page'[t].pending[i].n = n
      <4> DEFINE k == Len(page[t].pending) + 1
      <4>1. k \in DOMAIN page'[t].pending /\ page'[t].pending[k] = c
        BY <2>1, <2>2, AppendProperties
      <4> QED
        BY <2>3, <4>1
    <3> QED
      BY <3>1, <3>2 DEF HasIt
  <2>4. CASE n # c.n
    <3>1. author'[n] = author[n]
      BY <1>1, <2>1, <2>4
    <3>2. a \in Tabs /\ Live(a)' => Live(a)
      BY <2>1 DEF Stands, Live
    <3>3. ASSUME a \in Tabs, NEW j \in DOMAIN page[a].pending, page[a].pending[j].n = n
          PROVE  \E i \in DOMAIN page'[a].pending : page'[a].pending[i].n = n
      <4>1. CASE a # t
        BY <2>1, <3>3, <4>1
      <4>2. CASE a = t
        <5>1. j \in DOMAIN page'[t].pending /\ page'[t].pending[j] = page[t].pending[j]
          BY <2>1, <2>2, <3>3, <4>2, AppendProperties
        <5> QED
          BY <3>3, <4>2, <5>1
      <4> QED
        BY <4>1, <4>2
    <3> QED
      BY <1>2, <2>1, <3>1, <3>2, <3>3, HasItKept
  <2> QED
    BY <2>3, <2>4
<1>6. ASSUME NEW t \in Tabs, NEW b \in BodyType, Sends(t, b) PROVE HasIt(n)'
  <2>1. author' = author /\ refused' = refused /\ Live(t) /\ page'[t].pending = page[t].pending
        /\ \A x \in Tabs \ {t} : Aside(x)
    BY <1>6 DEF Sends
  <2> QED
    BY <1>3, <2>1
<1>7. ASSUME NEW t \in Tabs, Goes(t) PROVE HasIt(n)'
  <2>1. author' = author /\ refused' = refused /\ ~Live(t)' /\ \A x \in Tabs \ {t} : Aside(x)
    BY <1>7, GoneHolds DEF Goes, Live
  <2> QED
    BY <1>3, <2>1
<1>8. ASSUME NEW t \in Tabs, Clears(t) PROVE HasIt(n)'
  <2> DEFINE s == page[t].pending
             k == page[t].inflight
  <2>1. /\ author' = author /\ Live(t) /\ \A x \in Tabs \ {t} : Aside(x)
        /\ page'[t].pending = SubSeq(s, k + 1, Len(s)) /\ refused \subseteq refused'
        /\ Acknowledged(t) \/ refused' = refused \cup {s[i].n : i \in 1..k}
    BY <1>8 DEF Clears
  <2>2. s \in Seq(Changes) /\ k \in Nat /\ k <= Len(s) /\ DOMAIN s = 1..Len(s)
    BY PendingIs
  <2>3. \A j \in 1..k : applied[s[j].n] > 0 \/ s[j].n \in refused'
    BY <2>1 DEF Senders, Sender, Landed
  <2> HIDE DEF s, k
  <2>4. ASSUME NEW j \in DOMAIN s, s[j].n = n
        PROVE  applied[n] > 0 \/ n \in refused' \/ \E i \in DOMAIN SubSeq(s, k + 1, Len(s)) : SubSeq(s, k + 1, Len(s))[i].n = n
    <3>1. CASE j \in 1..k
      BY <2>3, <2>4, <3>1
    <3>2. CASE j > k
      <4>1. /\ j - k \in DOMAIN SubSeq(s, k + 1, Len(s))
            /\ SubSeq(s, k + 1, Len(s))[j - k] = s[j]
        BY <2>2, <3>2
      <4> QED
        BY <2>4, <4>1
    <3> QED
      BY <2>2, <3>1, <3>2
  <2>5. \A j \in DOMAIN page[t].pending : page[t].pending[j].n = n =>
            \/ applied[n] > 0 \/ n \in refused'
            \/ \E i \in DOMAIN page'[t].pending : page'[t].pending[i].n = n
    BY <2>1, <2>4 DEF s
  <2> QED
    BY <1>3, <2>1, <2>5
<1>9. ASSUME NEW b \in BodyType, NEW o \in PutRoute(b), Lands(b, o) PROVE HasIt(n)'
  <2>1. author' = author /\ page' = page /\ refused' = refused
    BY <1>9 DEF Lands
  <2> QED
    BY <2>1, HasItKept DEF Live
<1> QED
  BY <1>4, <1>5, <1>6, <1>7, <1>8, <1>9 DEF BatchStep

(* The inductive invariant of what was sent and what arrived.                *)
SendInv == IInv /\ Silence /\ Senders /\ \A n \in Numbers : HasIt(n)

(* The daemon knows no number a live page has not sent, and the number of    *)
(* the batch in flight stands for that batch alone, applied once known.      *)
THEOREM DeskSends == Spec => []SendInv
<1>1. Init => SendInv
  <2> SUFFICES ASSUME Init PROVE SendInv
    OBVIOUS
  <2>1. IInv /\ Silence /\ Bodies = {} /\ \A t \in Tabs : page[t].inflight = 0
    BY FirstIs, FirstBatches
  <2>2. seqs = <<>> /\ put = [t \in Tabs |-> Idle] /\ last = [t \in Tabs |-> None]
        /\ author = [n \in Numbers |-> None]
    BY DEF Init
  <2>3. Senders
    BY <2>1, <2>2 DEF Senders, Sender, OnWire, AtClose, Known, Numbered, Landed, Idle
  <2>4. \A n \in Numbers : HasIt(n)
    BY <2>2 DEF HasIt
  <2> QED
    BY <2>1, <2>3, <2>4 DEF SendInv
<1>2. SendInv /\ [Next]_vars => SendInv'
  <2> SUFFICES ASSUME SendInv, [Next]_vars PROVE SendInv'
    OBVIOUS
  <2>1. IInv' /\ Silence' /\ BatchStep
    BY NextKeeps, NextActs DEF SendInv
  <2>2. Senders'
    BY <2>1, SendersNext DEF SendInv
  <2>3. \A n \in Numbers : HasIt(n)'
    BY <2>1, HasItNext DEF SendInv
  <2> QED
    BY <2>1, <2>2, <2>3 DEF SendInv
<1> QED
  BY <1>1, <1>2, PTL DEF Spec

(* A change a live page no longer holds was applied, unless a daemon of      *)
(* another build could not read it (400, 422): a lost answer, a failed save  *)
(* or a resend never drops an act of the operator (acked, flushed).          *)
THEOREM DeskDropsNothing == Spec => []AckedIsApplied
<1>1. SendInv => AckedIsApplied
  BY DEF SendInv, HasIt, AckedIsApplied
<1> QED
  BY <1>1, DeskSends, PTL

-----------------------------------------------------------------------------
(* Which bodies hold the same change, and which were applied.                *)

Distinct(s) == \A i, j \in DOMAIN s : s[i].n = s[j].n => i = j
By(s, t) == \A i \in DOMAIN s : author[s[i].n] = t

(* What waits at a page is its own, each change once.                        *)
Waiting(t) ==
    /\ Distinct(page[t].pending) /\ By(page[t].pending, t)
    /\ \A j \in DOMAIN page[t].pending : page[t].pending[j].n \notin again

Carried(t) == \A b \in Bodies : b.tab = t => Distinct(b.changes) /\ By(b.changes, t)

(* A waiting change is in no body but those of the batch in flight.          *)
Apart(t) ==
    \A b \in Bodies : b.tab = t =>
        \A i \in DOMAIN b.changes, j \in DOMAIN page[t].pending :
            b.changes[i].n = page[t].pending[j].n => j <= page[t].inflight /\ b.seq = page[t].seq

(* Of two numbers with the same change the higher is the closing batch.      *)
Twice(t) ==
    \A b, c \in Bodies : b.tab = t /\ c.tab = t /\ b.seq < c.seq =>
        \A i \in DOMAIN b.changes, j \in DOMAIN c.changes :
            b.changes[i].n = c.changes[j].n => c = last[t] /\ c.changes[j].n \in again

(* The closing batch has a number above every other of its tab.              *)
Closing(t) == last[t] # None => \A b \in Wired : b.tab = t => b.seq < last[t].seq

Parted(t) == Waiting(t) /\ Carried(t) /\ Apart(t) /\ Twice(t) /\ Closing(t)

(* A body under a number the daemon does not know was not applied, but for   *)
(* a closing batch with changes that are sent a second time.                 *)
Unapplied(t) ==
    \A b \in Bodies : b.tab = t /\ ~Sent(t, b.seq) =>
        \A i \in DOMAIN b.changes :
            \/ applied[b.changes[i].n] = 0
            \/ b = last[t] /\ b.changes[i].n \in again /\ applied[b.changes[i].n] <= 1

(* Nor was what waits and is not in flight, or in flight and not known.      *)
Unlanded(t) ==
    \A j \in DOMAIN page[t].pending :
        j > page[t].inflight \/ ~Sent(t, page[t].seq) => applied[page[t].pending[j].n] = 0

Counted(t) == ~forgot => Unapplied(t) /\ Unlanded(t)

Unborn == \A n \in Numbers : author[n] = None => applied[n] = 0 /\ n \notin again

OnceInv ==
    /\ IInv /\ Silence /\ Senders /\ Unborn /\ AppliedOnce
    /\ \A t \in Tabs : Parted(t) /\ Counted(t)

LEMMA BodyIs ==
  ASSUME IInv, NEW b \in Bodies
  PROVE  /\ b \in BodyType /\ b.tab \in Tabs /\ b.seq \in Nat /\ b.changes \in Seq(Changes)
         /\ \A i \in DOMAIN b.changes : b.changes[i] \in Changes /\ b.changes[i].n \in Numbers
<1>1. b \in BodyType /\ b.changes \in Seq(Changes) /\ b.tab \in Tabs /\ b.seq \in Nat
  BY StepFacts, WiredAre, BodyFields
<1> QED
  BY <1>1, ActIs

LEMMA WiredBodies == Wired \subseteq Bodies
  BY DEF Bodies

(* The step leaves tab x its bodies and its changes.                         *)
Leaves(x) ==
    /\ page'[x].pending = page[x].pending /\ page'[x].inflight = page[x].inflight
    /\ page'[x].seq = page[x].seq
    /\ \A b \in Bodies' : b.tab = x => b \in Bodies
    /\ \A b \in Wired' : b.tab = x => b \in Wired
    /\ last'[x] \in {last[x], None}
    /\ \A b \in Bodies' : b.tab = x /\ b = last[x] => last'[x] = last[x]
    /\ \A n \in Numbers : author[n] = x => author'[n] = x /\ (n \in again' <=> n \in again)

LEMMA LeavesParted ==
  ASSUME IInv, NEW x \in Tabs, Parted(x), Leaves(x)
  PROVE  Parted(x)'
<1>1. \A j \in DOMAIN page[x].pending : page[x].pending[j].n \in Numbers
  BY PendingIs
<1>2. Waiting(x)'
  BY <1>1 DEF Leaves, Parted, Waiting, By, Distinct
<1>3. ASSUME NEW b \in Bodies', b.tab = x
      PROVE  /\ b \in Bodies /\ Distinct(b.changes) /\ By(b.changes, x) /\ By(b.changes, x)'
             /\ \A i \in DOMAIN b.changes : b.changes[i].n \in Numbers
  BY <1>3, BodyIs DEF Leaves, Parted, Carried, By
<1>4. Carried(x)'
  BY <1>3 DEF Carried, Distinct, By
<1>5. Apart(x)'
  BY <1>3 DEF Leaves, Parted, Apart
<1>6. Twice(x)'
  <2> SUFFICES ASSUME NEW b \in Bodies', NEW c \in Bodies', b.tab = x, c.tab = x, b.seq < c.seq,
                      NEW i \in DOMAIN b.changes, NEW j \in DOMAIN c.changes,
                      b.changes[i].n = c.changes[j].n
               PROVE  c = last'[x] /\ c.changes[j].n \in again'
    BY DEF Twice
  <2>1. c = last[x] /\ c.changes[j].n \in again
    BY <1>3 DEF Parted, Twice
  <2>2. author[c.changes[j].n] = x /\ c.changes[j].n \in Numbers
    BY <1>3 DEF By
  <2> QED
    BY <2>1, <2>2 DEF Leaves
<1>7. Closing(x)'
  BY DEF Leaves, Parted, Closing
<1> QED
  BY <1>2, <1>4, <1>5, <1>6, <1>7 DEF Parted

LEMMA LeavesCounted ==
  ASSUME IInv, NEW x \in Tabs, Parted(x), Counted(x), Leaves(x),
         ~forgot' => ~forgot,
         \A n \in Numbers : author[n] = x => applied'[n] = applied[n],
         ~forgot' => \A s \in Nat : Sent(x, s) => Sent(x, s)'
  PROVE  Counted(x)'
<1> SUFFICES ASSUME ~forgot' PROVE Unapplied(x)' /\ Unlanded(x)'
  BY DEF Counted
<1>1. Unapplied(x) /\ Unlanded(x)
  BY DEF Counted
<1>2. Unapplied(x)'
  <2> SUFFICES ASSUME NEW b \in Bodies', b.tab = x, ~Sent(x, b.seq)', NEW i \in DOMAIN b.changes
               PROVE  \/ applied'[b.changes[i].n] = 0
                      \/ b = last'[x] /\ b.changes[i].n \in again' /\ applied'[b.changes[i].n] <= 1
    BY DEF Unapplied, Sent
  <2>1. b \in Bodies
    BY DEF Leaves
  <2>2. b.seq \in Nat /\ b.changes[i].n \in Numbers /\ author[b.changes[i].n] = x
    BY <2>1, BodyIs DEF Parted, Carried, By
  <2>3. ~Sent(x, b.seq)
    BY <2>2 DEF Sent
  <2> QED
    BY <1>1, <2>1, <2>2, <2>3 DEF Unapplied, Leaves
<1>3. Unlanded(x)'
  <2> SUFFICES ASSUME NEW j \in DOMAIN page[x].pending,
                      j > page[x].inflight \/ ~Sent(x, page[x].seq)'
               PROVE  applied'[page[x].pending[j].n] = 0
    BY DEF Unlanded, Leaves, Sent
  <2>1. page[x].seq \in Nat /\ page[x].pending[j].n \in Numbers /\ author[page[x].pending[j].n] = x
    BY PendingIs DEF Parted, Waiting, By
  <2>2. j > page[x].inflight \/ ~Sent(x, page[x].seq)
    BY <2>1 DEF Leaves, Sent
  <2> QED
    BY <1>1, <2>1, <2>2 DEF Unlanded
<1> QED
  BY <1>2, <1>3

(* A tab the step leaves aside.                                              *)
LEMMA AsideLeaves ==
  ASSUME IInv, NEW x \in Tabs, Aside(x), \A b \in Bodies' : b.tab = x => b \in Bodies,
         \A b \in Wired' : b.tab = x => b \in Wired, last'[x] = last[x],
         \A n \in Numbers : author[n] = x => author'[n] = x /\ (n \in again' <=> n \in again)
  PROVE  Leaves(x)
  BY DEF Aside, Stands, Leaves

LEMMA OnceFacts ==
  ASSUME OnceInv
  PROVE  /\ IInv /\ Senders /\ Unborn /\ AppliedOnce /\ Shape
         /\ \A t \in Tabs : Parted(t) /\ Counted(t) /\ Sender(t) /\ t # None
         /\ author \in [Numbers -> Tabs \cup {None}] /\ again \subseteq Numbers
         /\ \A n \in Numbers : applied[n] \in Nat
  BY StepFacts, GhostFields, DataAssumption DEF OnceInv, Senders

OnceParts == Unborn /\ AppliedOnce /\ \A t \in Tabs : Parted(t) /\ Counted(t)

LEMMA IdlesOnce ==
  ASSUME OnceInv, Idles
  PROVE  OnceParts'
<1>1. Bodies' \subseteq Bodies /\ Wired' \subseteq Wired /\ last' = last
      /\ UNCHANGED <<author, applied, again>>
  BY OnceFacts, BodiesFewer DEF Idles
<1>2. ~forgot' => ~forgot /\ seqs' = seqs
  <2>1. CASE forgot' = TRUE
    BY <2>1
  <2>2. CASE seqs' = seqs /\ forgot' = forgot
    BY <2>2
  <2> QED
    BY <2>1, <2>2 DEF Idles
<1>3. ASSUME NEW x \in Tabs PROVE Parted(x)' /\ Counted(x)'
  <2>1. Leaves(x)
    BY <1>1, OnceFacts, AsideLeaves DEF Idles
  <2>2. ~forgot' => \A s \in Nat : Sent(x, s) => Sent(x, s)'
    BY <1>2 DEF Sent
  <2> QED
    BY <1>1, <1>2, <2>1, <2>2, OnceFacts, LeavesParted, LeavesCounted
<1>4. Unborn' /\ AppliedOnce'
  BY <1>1, <1>2, OnceFacts DEF Unborn, AppliedOnce
<1> QED
  BY <1>3, <1>4 DEF OnceParts

LEMMA EmitsOnce ==
  ASSUME OnceInv, NEW t \in Tabs, NEW c \in Changes, Emits(t, c)
  PROVE  OnceParts'
<1> DEFINE s == page[t].pending
<1>1. /\ Bodies' \subseteq Bodies /\ Wired' \subseteq Wired /\ last' = last
      /\ UNCHANGED <<seqs, forgot, applied, again>>
      /\ author' = [author EXCEPT ![c.n] = t] /\ author[c.n] = None /\ c.n \in Numbers
      /\ page'[t].pending = Append(s, c) /\ page'[t].inflight = page[t].inflight
      /\ page'[t].seq = page[t].seq
      /\ applied[c.n] = 0 /\ c.n \notin again
  BY OnceFacts, BodiesFewer, ActIs DEF Emits, Stands, Unborn
<1>2. \A n \in Numbers, x \in Tabs : author[n] = x => author'[n] = x /\ n # c.n
  BY <1>1, OnceFacts
<1>3. ASSUME NEW x \in Tabs, x # t PROVE Parted(x)' /\ Counted(x)'
  <2>1. Aside(x)
    BY <1>3 DEF Emits, Aside
  <2>2. Leaves(x)
    BY <1>1, <1>2, <2>1, OnceFacts, AsideLeaves
  <2> QED
    BY <1>1, <2>2, OnceFacts, LeavesParted, LeavesCounted DEF Sent
<1>4. /\ s \in Seq(Changes) /\ Len(s) \in Nat /\ DOMAIN s = 1..Len(s)
      /\ DOMAIN Append(s, c) = 1..Len(s) + 1 /\ Append(s, c)[Len(s) + 1] = c
      /\ \A j \in DOMAIN s : j \in 1..Len(s) + 1 /\ Append(s, c)[j] = s[j]
      /\ page[t].inflight \in Nat /\ page[t].inflight <= Len(s)
  BY OnceFacts, PendingIs, AppendProperties
<1>5. \A j \in DOMAIN s : s[j].n \in Numbers /\ author[s[j].n] = t
  BY OnceFacts, PendingIs DEF Parted, Waiting, By
<1>6. \A j \in DOMAIN s : s[j].n # c.n
  BY <1>2, <1>5
<1>7. ASSUME NEW b \in Bodies, b.tab = t
      PROVE  \A i \in DOMAIN b.changes : b.changes[i].n \in Numbers /\ author[b.changes[i].n] = t
                                         /\ b.changes[i].n # c.n
  BY <1>2, <1>7, OnceFacts, BodyIs DEF Parted, Carried, By
<1>8. Parted(t) /\ Counted(t) /\ author'[c.n] = t
  BY <1>1, OnceFacts
<1> HIDE DEF s
<1>9. Waiting(t)'
  <2>1. Distinct(s) /\ \A j \in DOMAIN s : s[j].n \notin again
    BY <1>8 DEF Parted, Waiting, s
  <2>2. Distinct(Append(s, c))
    <3> SUFFICES ASSUME NEW i \in 1..Len(s) + 1, NEW j \in 1..Len(s) + 1,
                        Append(s, c)[i].n = Append(s, c)[j].n
                 PROVE  i = j
      BY <1>4 DEF Distinct
    <3>1. CASE i \in 1..Len(s) /\ j \in 1..Len(s)
      BY <1>4, <2>1, <3>1 DEF Distinct
    <3>2. CASE i = Len(s) + 1 \/ j = Len(s) + 1
      BY <1>4, <1>6, <3>2
    <3> QED
      BY <1>4, <3>1, <3>2
  <2>3. ASSUME NEW j \in 1..Len(s) + 1
        PROVE  author'[Append(s, c)[j].n] = t /\ Append(s, c)[j].n \notin again
    <3>1. CASE j \in 1..Len(s)
      BY <1>2, <1>4, <1>5, <2>1, <3>1
    <3>2. CASE j = Len(s) + 1
      BY <1>1, <1>4, <1>8, <3>2
    <3> QED
      BY <1>4, <3>1, <3>2
  <2> QED
    BY <1>1, <1>4, <2>2, <2>3 DEF Waiting, By, Distinct
<1>10. Carried(t)'
  BY <1>1, <1>2, <1>7, <1>8 DEF Parted, Carried, By, Distinct
<1>11. Apart(t)'
  <2> SUFFICES ASSUME NEW b \in Bodies, b.tab = t, NEW i \in DOMAIN b.changes, NEW j \in 1..Len(s) + 1,
                      b.changes[i].n = Append(s, c)[j].n
               PROVE  j <= page[t].inflight /\ b.seq = page[t].seq
    BY <1>1, <1>4 DEF Apart
  <2>1. j \in DOMAIN s
    BY <1>4, <1>7
  <2> QED
    BY <1>4, <1>8, <2>1 DEF Parted, Apart, s
<1>12. Twice(t)' /\ Closing(t)'
  BY <1>1, <1>8 DEF Parted, Twice, Closing
<1>13. Counted(t)'
  <2> SUFFICES ASSUME ~forgot' PROVE Unapplied(t)' /\ Unlanded(t)'
    BY DEF Counted
  <2>1. Unapplied(t)'
    BY <1>1, <1>8 DEF Counted, Unapplied, Sent
  <2>2. ASSUME NEW j \in 1..Len(s) + 1, j > page[t].inflight \/ ~Sent(t, page[t].seq)
        PROVE  applied[Append(s, c)[j].n] = 0
    <3>1. CASE j \in 1..Len(s)
      BY <1>1, <1>4, <1>8, <2>2, <3>1 DEF Counted, Unlanded, s
    <3>2. CASE j = Len(s) + 1
      BY <1>1, <1>4, <3>2
    <3> QED
      BY <1>4, <3>1, <3>2
  <2> QED
    BY <1>1, <1>4, <2>1, <2>2 DEF Unlanded, Sent
<1>14. Unborn' /\ AppliedOnce'
  <2>1. \A n \in Numbers : author'[n] = None => author[n] = None
    BY <1>1, OnceFacts
  <2> QED
    BY <1>1, <2>1, OnceFacts DEF Unborn, AppliedOnce
<1> QED
  BY <1>3, <1>9, <1>10, <1>11, <1>12, <1>13, <1>14 DEF OnceParts, Parted

LEMMA SendsOnce ==
  ASSUME OnceInv, NEW t \in Tabs, NEW e \in BodyType, Sends(t, e)
  PROVE  OnceParts'
<1> DEFINE s == page[t].pending
           k == page'[t].inflight
<1>1. /\ Bodies' \subseteq Bodies \cup {e} /\ Wired' \subseteq Wired \cup {e} /\ last' = last
      /\ UNCHANGED <<seqs, forgot, author, applied, again>>
      /\ page'[t].pending = s /\ k \in 1..Len(s) /\ Live(t)
  BY DEF Sends, Bodies
<1>2. /\ e.tab = t /\ e.seq = page'[t].seq /\ e.changes = SubSeq(s, 1, k)
  BY SentBody
<1>3. ASSUME NEW x \in Tabs, x # t PROVE Parted(x)' /\ Counted(x)'
  <2>1. Aside(x)
    BY <1>3 DEF Sends
  <2>2. Leaves(x)
    BY <1>1, <1>2, <1>3, <2>1, OnceFacts, AsideLeaves
  <2> QED
    BY <1>1, <2>2, OnceFacts, LeavesParted, LeavesCounted DEF Sent
<1>4. /\ s \in Seq(Changes) /\ DOMAIN s = 1..Len(s) /\ Len(s) \in Nat
      /\ page[t].inflight \in Nat /\ page[t].inflight <= Len(s) /\ page[t].seq \in Nat
      /\ \A j \in DOMAIN s : s[j].n \in Numbers
  BY OnceFacts, PendingIs
<1>5. DOMAIN e.changes = 1..k /\ 1..k \subseteq DOMAIN s /\ \A i \in 1..k : e.changes[i] = s[i]
  BY <1>1, <1>2, <1>4, SubSeqOf
<1> DEFINE fresh == page[t].inflight = 0 /\ page'[t].seq = page[t].seq + 1
           resend == page'[t].seq = page[t].seq /\ k = page[t].inflight
<1>6. fresh \/ resend
  BY DEF Sends
<1> HIDE DEF fresh, resend
<1>7. /\ Parted(t) /\ Counted(t) /\ last[t] = None
      /\ \A b \in Bodies : b.tab = t => b.seq <= page[t].seq /\ b.seq \in Nat
      /\ \A i \in DOMAIN seqs : seqs[i].tab = t => seqs[i].seq <= page[t].seq
  BY <1>1, OnceFacts, BodyIs DEF Sender, AtClose, Numbered, Known
<1> HIDE DEF s, k
<1>8. Waiting(t)'
  BY <1>1, <1>7 DEF Parted, Waiting, By, Distinct, s
<1>9. Distinct(s) /\ By(s, t)
  BY <1>7 DEF Parted, Waiting, s
<1>10. Carried(t)'
  <2>1. Distinct(e.changes) /\ By(e.changes, t)
    BY <1>5, <1>9 DEF Distinct, By
  <2> QED
    BY <1>1, <1>7, <2>1 DEF Parted, Carried, By, Distinct
<1>11. ASSUME NEW b \in Bodies, b.tab = t, NEW i \in DOMAIN b.changes, NEW j \in DOMAIN s,
              b.changes[i].n = s[j].n
       PROVE  resend /\ j <= k /\ b.seq = page[t].seq
  <2>1. j <= page[t].inflight /\ b.seq = page[t].seq
    BY <1>7, <1>11 DEF Parted, Apart, s
  <2>2. ~fresh
    BY <1>4, <1>11, <2>1 DEF fresh
  <2> QED
    BY <1>6, <2>1, <2>2 DEF resend
<1>12. Apart(t)'
  <2> SUFFICES ASSUME NEW b \in Bodies', b.tab = t, NEW i \in DOMAIN b.changes, NEW j \in DOMAIN s,
                      b.changes[i].n = s[j].n
               PROVE  j <= k /\ b.seq = page'[t].seq
    BY <1>1 DEF Apart, k
  <2>1. CASE b \in Bodies
    BY <1>11, <2>1 DEF resend
  <2>2. CASE b = e
    <3>1. i \in 1..k /\ i \in DOMAIN s /\ s[i].n = s[j].n
      BY <1>5, <2>2
    <3>2. i = j
      BY <1>9, <3>1 DEF Distinct
    <3> QED
      BY <1>1, <1>2, <2>2, <3>1, <3>2
  <2> QED
    BY <1>1, <2>1, <2>2
<1>13. Twice(t)'
  <2> SUFFICES ASSUME NEW b \in Bodies', NEW c \in Bodies', b.tab = t, c.tab = t, b.seq < c.seq,
                      NEW i \in DOMAIN b.changes, NEW j \in DOMAIN c.changes,
                      b.changes[i].n = c.changes[j].n
               PROVE  c = last[t] /\ c.changes[j].n \in again
    BY <1>1 DEF Twice
  <2>1. CASE b \in Bodies /\ c \in Bodies
    BY <1>7, <2>1 DEF Parted, Twice
  <2>2. CASE b \in Bodies /\ c = e
    <3>1. j \in DOMAIN s /\ c.changes[j] = s[j]
      BY <1>5, <2>2
    <3>2. resend /\ b.seq = page[t].seq
      BY <1>11, <2>2, <3>1
    <3> QED
      BY <1>2, <1>4, <2>2, <3>2 DEF resend
  <2>3. CASE b = e /\ c \in Bodies
    <3>1. c.seq <= page[t].seq /\ c.seq \in Nat
      BY <1>7, <2>3
    <3> QED
      BY <1>2, <1>4, <1>6, <2>3, <3>1 DEF fresh, resend
  <2>4. CASE b = e /\ c = e
    BY <1>2, <1>4, <1>6, <2>4 DEF fresh, resend
  <2> QED
    BY <1>1, <2>1, <2>2, <2>3, <2>4
<1>14. Closing(t)'
  BY <1>1, <1>7 DEF Closing
<1>15. Counted(t)'
  <2> SUFFICES ASSUME ~forgot PROVE Unapplied(t)' /\ Unlanded(t)'
    BY <1>1 DEF Counted
  <2>1. Unapplied(t) /\ Unlanded(t)
    BY <1>7 DEF Counted
  <2>2. ASSUME NEW j \in DOMAIN s, j > k \/ ~Sent(t, page'[t].seq)
        PROVE  applied[s[j].n] = 0
    <3>1. CASE fresh
      BY <1>4, <2>1, <3>1 DEF fresh, Unlanded, s
    <3>2. CASE resend
      BY <2>1, <2>2, <3>2 DEF resend, Unlanded, s
    <3> QED
      BY <1>6, <3>1, <3>2
  <2>3. Unlanded(t)'
    BY <1>1, <2>2 DEF Unlanded, Sent, k
  <2>4. ASSUME NEW i \in DOMAIN e.changes, ~Sent(t, e.seq) PROVE applied[e.changes[i].n] = 0
    <3>1. i \in DOMAIN s /\ e.changes[i] = s[i]
      BY <1>5
    <3>2. ~Sent(t, page'[t].seq)
      BY <1>2, <2>4
    <3> QED
      BY <2>2, <3>1, <3>2
  <2>5. Unapplied(t)'
    BY <1>1, <2>1, <2>4 DEF Unapplied, Sent
  <2> QED
    BY <2>3, <2>5
<1>16. Unborn' /\ AppliedOnce'
  BY <1>1, OnceFacts DEF Unborn, AppliedOnce
<1> QED
  BY <1>3, <1>8, <1>10, <1>12, <1>13, <1>14, <1>15, <1>16 DEF OnceParts, Parted

LEMMA ClearsOnce ==
  ASSUME OnceInv, NEW t \in Tabs, Clears(t)
  PROVE  OnceParts'
<1> DEFINE s == page[t].pending
           k == page[t].inflight
           q == SubSeq(s, k + 1, Len(s))
<1>1. /\ Bodies' \subseteq Bodies /\ Wired' \subseteq Wired /\ last' = last
      /\ UNCHANGED <<seqs, forgot, author, applied, again>>
      /\ page'[t].pending = q /\ page'[t].inflight = 0 /\ page'[t].seq = page[t].seq
  BY OnceFacts, BodiesFewer DEF Clears
<1>2. ASSUME NEW x \in Tabs, x # t PROVE Parted(x)' /\ Counted(x)'
  <2>1. Aside(x)
    BY <1>2 DEF Clears
  <2>2. Leaves(x)
    BY <1>1, <1>2, <2>1, OnceFacts, AsideLeaves
  <2> QED
    BY <1>1, <2>2, OnceFacts, LeavesParted, LeavesCounted DEF Sent
<1>3. s \in Seq(Changes) /\ DOMAIN s = 1..Len(s) /\ Len(s) \in Nat /\ k \in Nat /\ k <= Len(s)
  BY OnceFacts, PendingIs
<1> HIDE DEF s, k
<1>4. ASSUME NEW j \in DOMAIN q PROVE j \in Nat /\ j > 0 /\ k + j \in DOMAIN s /\ k + j > k /\ q[j] = s[k + j]
  BY <1>3
<1> HIDE DEF q
<1>5. Parted(t) /\ Counted(t)
  BY OnceFacts
<1>6. Waiting(t)'
  <2>1. Distinct(s) /\ By(s, t) /\ \A j \in DOMAIN s : s[j].n \notin again
    BY <1>5 DEF Parted, Waiting, s
  <2>2. Distinct(q)
    <3> SUFFICES ASSUME NEW i \in DOMAIN q, NEW j \in DOMAIN q, q[i].n = q[j].n PROVE i = j
      BY DEF Distinct
    <3>1. k + i = k + j
      BY <1>4, <2>1 DEF Distinct
    <3> QED
      BY <1>3, <1>4, <3>1
  <2> QED
    BY <1>1, <1>4, <2>1, <2>2 DEF Waiting, By, Distinct
<1>7. Carried(t)'
  BY <1>1, <1>5 DEF Parted, Carried, By, Distinct
<1>8. Apart(t)'
  <2> SUFFICES ASSUME NEW b \in Bodies, b.tab = t, NEW i \in DOMAIN b.changes, NEW j \in DOMAIN q,
                      b.changes[i].n = q[j].n
               PROVE  FALSE
    BY <1>1 DEF Apart
  <2>1. k + j <= k
    BY <1>4, <1>5 DEF Parted, Apart, s, k
  <2> QED
    BY <1>3, <1>4, <2>1
<1>9. Twice(t)' /\ Closing(t)'
  BY <1>1, <1>5 DEF Parted, Twice, Closing
<1>10. Counted(t)'
  <2> SUFFICES ASSUME ~forgot PROVE Unapplied(t)' /\ Unlanded(t)'
    BY <1>1 DEF Counted
  <2>1. Unapplied(t)'
    BY <1>1, <1>5 DEF Counted, Unapplied, Sent
  <2>2. \A j \in DOMAIN q : applied[q[j].n] = 0
    BY <1>4, <1>5 DEF Counted, Unlanded, s, k
  <2> QED
    BY <1>1, <2>1, <2>2 DEF Unlanded
<1>11. Unborn' /\ AppliedOnce'
  BY <1>1, OnceFacts DEF Unborn, AppliedOnce
<1> QED
  BY <1>2, <1>6, <1>7, <1>8, <1>9, <1>10, <1>11 DEF OnceParts, Parted

LEMMA GoesOnce ==
  ASSUME OnceInv, NEW t \in Tabs, Goes(t)
  PROVE  OnceParts'
<1> DEFINE s == page[t].pending
           k == page[t].inflight
           e == ClosingBatch(t)
           sent == {page[t].pending[i].n : i \in 1..page[t].inflight}
<1>1. /\ Wired' \subseteq Wired /\ UNCHANGED <<seqs, forgot, author, applied>>
      /\ page'[t] = Gone /\ Live(t)
  BY DEF Goes
<1>2. /\ e.tab = t /\ e.seq = page[t].seq + 1 /\ e.changes = s
  BY DEF ClosingBatch, Body
<1>3. last[t] = None
  BY <1>1, OnceFacts DEF Sender, AtClose
<1>4. PICK closes \in BOOLEAN :
        IF closes THEN last' = [last EXCEPT ![t] = e] /\ again' = again \cup sent
                  ELSE last' = last /\ again' = again
  BY DEF Goes
<1>5. /\ s \in Seq(Changes) /\ k \in Nat /\ page[t].seq \in Nat
      /\ 1..k \subseteq DOMAIN s /\ DOMAIN s = 1..Len(s) /\ Len(s) \in Nat
      /\ \A j \in DOMAIN s : s[j].n \in Numbers /\ author[s[j].n] = t
  BY OnceFacts, PendingIs DEF Parted, Waiting, By
<1>6. sent = {s[i].n : i \in 1..k}
  OBVIOUS
<1> HIDE DEF e, s, k, sent
<1>7. /\ \A x \in Tabs \ {t} : last'[x] = last[x]
      /\ last'[t] = IF closes THEN e ELSE None
      /\ again \subseteq again' /\ again' \subseteq again \cup sent
      /\ closes => again' = again \cup sent
      /\ Bodies' \subseteq Bodies \cup (IF closes THEN {e} ELSE {})
  <2>1. last \in [Tabs -> BodyType \cup {None}]
    BY OnceFacts, WireFields
  <2>2. CASE closes
    <3>1. last' = [last EXCEPT ![t] = e] /\ again' = again \cup sent
      BY <1>4, <2>2
    <3>2. \A x \in Tabs : last'[x] = IF x = t THEN e ELSE last[x]
      BY <2>1, <3>1
    <3> QED
      BY <1>1, <2>2, <3>1, <3>2 DEF Bodies
  <2>3. CASE ~closes
    <3>1. last' = last /\ again' = again
      BY <1>4, <2>3
    <3> QED
      BY <1>1, <1>3, <2>3, <3>1 DEF Bodies
  <2> QED
    BY <2>2, <2>3
<1>8. \A n \in sent : n \in Numbers /\ author[n] = t
  BY <1>5, <1>6
<1>9. ASSUME NEW x \in Tabs, x # t PROVE Parted(x)' /\ Counted(x)'
  <2>1. Aside(x)
    BY <1>9 DEF Goes
  <2>2. Leaves(x)
    BY <1>1, <1>2, <1>7, <1>8, <1>9, <2>1, OnceFacts, AsideLeaves
  <2> QED
    BY <1>1, <2>2, OnceFacts, LeavesParted, LeavesCounted DEF Sent
<1>10. /\ Parted(t) /\ Counted(t) /\ Distinct(s) /\ By(s, t)
       /\ \A j \in DOMAIN s : s[j].n \notin again
       /\ \A b \in Bodies : b.tab = t => b.seq \in Nat /\ b.seq <= page[t].seq
       /\ \A i \in DOMAIN seqs : seqs[i].tab = t => seqs[i].seq <= page[t].seq
  BY <1>1, OnceFacts, BodyIs DEF Sender, Numbered, Known, Parted, Waiting, s
<1>11. Waiting(t)' /\ Apart(t)' /\ Unlanded(t)'
  BY <1>1, GoneHolds DEF Waiting, Distinct, By, Apart, Unlanded
<1>12. Carried(t)'
  BY <1>1, <1>2, <1>7, <1>10 DEF Parted, Carried, By, Distinct
<1>13. Twice(t)'
  <2> SUFFICES ASSUME NEW b \in Bodies', NEW c \in Bodies', b.tab = t, c.tab = t, b.seq < c.seq,
                      NEW i \in DOMAIN b.changes, NEW j \in DOMAIN c.changes,
                      b.changes[i].n = c.changes[j].n
               PROVE  c = last'[t] /\ c.changes[j].n \in again'
    BY DEF Twice
  <2>1. CASE b \in Bodies /\ c \in Bodies
    <3>1. c = last[t]
      BY <1>10, <2>1 DEF Parted, Twice
    <3> QED
      BY <1>3, <2>1, <3>1, OnceFacts, BodyIs, NoneIsNoBody
  <2>2. CASE b \in Bodies /\ closes /\ c = e
    <3>1. j \in DOMAIN s /\ b.changes[i].n = s[j].n
      BY <1>2, <2>2
    <3>2. j <= k
      BY <1>10, <2>2, <3>1 DEF Parted, Apart, s, k
    <3>3. s[j].n \in sent
      BY <1>5, <1>6, <3>1, <3>2
    <3> QED
      BY <1>7, <2>2, <3>1, <3>3
  <2>3. CASE b = e
    <3>1. c \in Bodies => c.seq \in Nat /\ c.seq <= page[t].seq
      BY <1>10
    <3> QED
      BY <1>2, <1>5, <1>7, <2>3, <3>1
  <2> QED
    BY <1>7, <2>1, <2>2, <2>3
<1>14. Closing(t)'
  <2> SUFFICES ASSUME closes, NEW b \in Wired, b.tab = t PROVE b.seq < e.seq
    BY <1>1, <1>7 DEF Closing
  <2>1. b.seq \in Nat /\ b.seq <= page[t].seq
    BY <1>10, WiredBodies
  <2> QED
    BY <1>2, <1>5, <2>1
<1>15. Counted(t)'
  <2> SUFFICES ASSUME ~forgot PROVE Unapplied(t)'
    BY <1>1, <1>11 DEF Counted
  <2>1. Unapplied(t) /\ Unlanded(t)
    BY <1>10 DEF Counted
  <2> SUFFICES ASSUME NEW b \in Bodies', b.tab = t, ~Sent(t, b.seq), NEW i \in DOMAIN b.changes
               PROVE  \/ applied[b.changes[i].n] = 0
                      \/ b = last'[t] /\ b.changes[i].n \in again' /\ applied[b.changes[i].n] <= 1
    BY <1>1 DEF Unapplied, Sent
  <2>2. CASE b \in Bodies
    BY <1>3, <2>1, <2>2, OnceFacts, BodyIs, NoneIsNoBody DEF Unapplied
  <2>3. CASE closes /\ b = e
    <3>1. i \in DOMAIN s /\ b.changes[i] = s[i] /\ s[i].n \in Numbers
      BY <1>2, <1>5, <2>3
    <3>2. CASE i > k
      BY <2>1, <3>1, <3>2 DEF Unlanded, s, k
    <3>3. CASE i \in 1..k
      <4>1. s[i].n \in again'
        BY <1>6, <1>7, <2>3, <3>3
      <4>2. applied[s[i].n] <= 1
        BY <1>10, <3>1, OnceFacts DEF AppliedOnce
      <4> QED
        BY <1>7, <2>3, <3>1, <4>1, <4>2
    <3> QED
      BY <1>5, <3>1, <3>2, <3>3
  <2> QED
    BY <1>7, <2>2, <2>3
<1>16. Unborn'
  <2>1. \A n \in Numbers : author[n] = None => n \notin sent
    BY <1>8, OnceFacts
  <2> QED
    BY <1>1, <1>7, <2>1, OnceFacts DEF Unborn
<1>17. AppliedOnce'
  <2> SUFFICES ASSUME ~forgot, NEW n \in Numbers
               PROVE  applied[n] <= IF n \in again' THEN 2 ELSE 1
    BY <1>1 DEF AppliedOnce
  <2>1. applied[n] \in Nat /\ applied[n] <= IF n \in again THEN 2 ELSE 1
    BY OnceFacts DEF AppliedOnce
  <2> QED
    BY <1>7, <2>1
<1> QED
  BY <1>9, <1>11, <1>12, <1>13, <1>14, <1>15, <1>16, <1>17 DEF OnceParts, Parted

(* One entry per tab: no more entries than tabs.                             *)
LEMMA FewEntries ==
  ASSUME NEW s \in Seq(Entries), OneEach(s)
  PROVE  Len(s) <= MaxTabs
<1> SUFFICES ASSUME MaxTabs < Len(s) PROVE FALSE
  BY BoundsAssumption
<1> DEFINE f == [i \in 1..Len(s) |-> s[i].tab]
<1>1. Len(s) \in Nat /\ MaxTabs \in Nat /\ DOMAIN s = 1..Len(s)
  BY BoundsAssumption
<1>2. /\ IsFiniteSet(1..Len(s)) /\ Cardinality(1..Len(s)) = Len(s)
      /\ IsFiniteSet(Tabs) /\ Cardinality(Tabs) = MaxTabs
  <2>1. \A n \in Nat : IsFiniteSet(1..n) /\ Cardinality(1..n) = n
    <3> TAKE n \in Nat
    <3>1. IsFiniteSet(1..n) /\ Cardinality(1..n) = IF 1 > n THEN 0 ELSE n - 1 + 1
      BY FS_Interval
    <3> QED
      BY <3>1
  <2> QED
    BY <1>1, <2>1 DEF Tabs
<1>3. f \in [1..Len(s) -> Tabs]
  <2>1. \A i \in 1..Len(s) : s[i] \in Entries
    BY <1>1
  <2> QED
    BY <2>1 DEF Entries
<1>4. PICK i, j \in 1..Len(s) : i # j /\ f[i] = f[j]
  <2>1. Cardinality(Tabs) < Cardinality(1..Len(s))
    BY <1>2
  <2> HIDE DEF f
  <2> QED
    BY <1>2, <1>3, <2>1, FS_PigeonHole
<1> QED
  BY <1>1, <1>4 DEF OneEach

(* With room for every tab, record drops no entry of another one.            *)
LEMMA RecordKeepsOthers ==
  ASSUME MaxTabs <= TabCap, seqs \in Seq(Entries), OneEach(seqs), NEW b, b.tab \in Tabs, b.seq \in Nat,
         NEW i \in DOMAIN seqs, seqs[i].tab # b.tab
  PROVE  \E j \in DOMAIN Record(b) : Record(b)[j] = seqs[i]
<1> DEFINE e == [tab |-> b.tab, seq |-> b.seq]
           o == Others(b.tab)
           all == <<e>> \o o
<1>1. Retains(o, b.tab, Len(seqs))
  BY OthersAre
<1>2. Record(b) = SubSeq(all, 1, IF Len(all) > TabCap THEN TabCap ELSE Len(all))
  BY DEF Record
<1>3. /\ e \in Entries /\ e.tab = b.tab /\ o \in Seq(Entries) /\ Len(o) \in Nat /\ DOMAIN o = 1..Len(o)
      /\ Len(seqs) \in Nat /\ DOMAIN seqs = 1..Len(seqs) /\ TabCap \in Nat /\ MaxTabs \in Nat
  BY <1>1, BoundsAssumption DEF Retains, Entries
<1>4. PICK k \in 1..Len(o) : o[k] = seqs[i]
  BY <1>1, <1>3 DEF Retains
<1>5. \A k1 \in 1..Len(o) : o[k1].tab # b.tab
  <2> TAKE k1 \in 1..Len(o)
  <2>1. PICK j \in 1..Len(seqs) : o[k1] = seqs[j] /\ seqs[j].tab # b.tab
    BY <1>1, <1>3 DEF Retains
  <2> QED
    BY <2>1
<1>6. \A k1, k2 \in 1..Len(o) : o[k1].tab = o[k2].tab => k1 = k2
  BY <1>1, <1>3 DEF Retains, OneEach
<1> HIDE DEF e, o
<1>7. /\ all \in Seq(Entries) /\ Len(all) = Len(o) + 1 /\ all[1] = e /\ DOMAIN all = 1..Len(o) + 1
      /\ \A j \in 2..Len(o) + 1 : all[j] = o[j - 1]
  BY <1>3
<1> HIDE DEF all
<1>8. OneEach(all)
  <2> SUFFICES ASSUME NEW j1 \in 1..Len(o) + 1, NEW j2 \in 1..Len(o) + 1, all[j1].tab = all[j2].tab
               PROVE  j1 = j2
    BY <1>7 DEF OneEach
  <2>1. \A j \in 1..Len(o) + 1 : j # 1 => j \in 2..Len(o) + 1 /\ j - 1 \in 1..Len(o)
    BY <1>3
  <2>2. CASE j1 = 1 \/ j2 = 1
    BY <1>3, <1>5, <1>7, <2>1, <2>2
  <2>3. CASE j1 # 1 /\ j2 # 1
    <3>1. all[j1] = o[j1 - 1] /\ all[j2] = o[j2 - 1] /\ j1 - 1 \in 1..Len(o) /\ j2 - 1 \in 1..Len(o)
      BY <1>7, <2>1, <2>3
    <3>2. j1 - 1 = j2 - 1
      BY <1>6, <3>1
    <3> QED
      BY <3>2
  <2> QED
    BY <2>2, <2>3
<1>9. Len(all) <= TabCap
  <2>1. Len(all) <= MaxTabs
    BY <1>7, <1>8, FewEntries
  <2> QED
    BY <1>3, <1>7, <2>1
<1>10. Record(b) = all
  <2>1. Record(b) = SubSeq(all, 1, Len(all))
    BY <1>2, <1>3, <1>7, <1>9
  <2> QED
    BY <1>7, <2>1
<1>11. k + 1 \in DOMAIN all /\ all[k + 1] = seqs[i]
  BY <1>3, <1>4, <1>7
<1> QED
  BY <1>10, <1>11

(* What landing a fresh body does to the numbers.                            *)
LEMMA LandsSent ==
  ASSUME IInv, MaxTabs <= TabCap, NEW b \in BodyType, Fresh(b), seqs' = Record(b)
  PROVE  /\ \A x \in Tabs : \A s \in Nat : Sent(x, s) => Sent(x, s)'
         /\ \A s \in Nat : s <= b.seq => Sent(b.tab, s)'
         /\ ~Sent(b.tab, b.seq)
<1>1. /\ seqs \in Seq(Entries) /\ OneEach(seqs) /\ b.tab \in Tabs /\ b.seq \in Nat
      /\ \A i \in DOMAIN seqs : seqs[i].seq \in Nat
  <2>1. seqs \in Seq(Entries) /\ OneEach(seqs)
    BY DEF IInv, Shape, DaemonShape, SeqsOK
  <2>2. \A i \in DOMAIN seqs : seqs[i] \in Entries
    BY <2>1
  <2> QED
    BY <2>1, <2>2, BodyFields DEF Entries
<1>2. 1 \in DOMAIN Record(b) /\ Record(b)[1] = [tab |-> b.tab, seq |-> b.seq]
  BY <1>1, RecordIs
<1>3. \A s \in Nat : s <= b.seq => Sent(b.tab, s)'
  BY <1>2 DEF Sent
<1>4. ~Sent(b.tab, b.seq)
  BY DEF Sent, Fresh, IsOld
<1>5. ASSUME NEW x \in Tabs, NEW s \in Nat, Sent(x, s) PROVE Sent(x, s)'
  <2>1. PICK i \in DOMAIN seqs : seqs[i].tab = x /\ s <= seqs[i].seq
    BY <1>5 DEF Sent
  <2>2. CASE x = b.tab
    <3>1. ~(b.seq <= seqs[i].seq)
      BY <1>4, <2>1, <2>2 DEF Sent
    <3> QED
      BY <1>1, <1>3, <2>1, <2>2, <3>1
  <2>3. CASE x # b.tab
    <3>1. PICK j \in DOMAIN Record(b) : Record(b)[j] = seqs[i]
      BY <1>1, <2>1, <2>3, RecordKeepsOthers
    <3> QED
      BY <2>1, <3>1 DEF Sent
  <2> QED
    BY <2>2, <2>3
<1> QED
  BY <1>3, <1>4, <1>5

(* What it does to the counts.                                               *)
LEMMA LandsOne ==
  ASSUME IInv, NEW b \in BodyType, Distinct(b.changes), NEW n \in Numbers,
         applied' = [m \in Numbers |->
                       applied[m] + Cardinality({i \in DOMAIN b.changes : b.changes[i].n = m})]
  PROVE  IF \E i \in DOMAIN b.changes : b.changes[i].n = n
         THEN applied'[n] = applied[n] + 1 ELSE applied'[n] = applied[n]
<1> DEFINE S == {i \in DOMAIN b.changes : b.changes[i].n = n}
<1>1. applied[n] \in Nat /\ applied'[n] = applied[n] + Cardinality(S)
  BY StepFacts, GhostFields
<1>2. CASE \E i \in DOMAIN b.changes : b.changes[i].n = n
  <2>1. PICK i \in DOMAIN b.changes : b.changes[i].n = n
    BY <1>2
  <2>2. S = {i}
    BY <2>1 DEF Distinct
  <2>3. Cardinality({i}) = 1
    BY FS_Singleton
  <2> HIDE DEF S
  <2> QED
    BY <1>1, <1>2, <2>2, <2>3
<1>3. CASE ~\E i \in DOMAIN b.changes : b.changes[i].n = n
  <2>1. S = {}
    BY <1>3
  <2>2. Cardinality({}) = 0
    BY FS_EmptySet
  <2> HIDE DEF S
  <2> QED
    BY <1>1, <1>3, <2>1, <2>2
<1> QED
  BY <1>2, <1>3

LEMMA LandsLeaves ==
  ASSUME OnceInv, NEW b \in BodyType, NEW o \in PutRoute(b), Lands(b, o), NEW x \in Tabs
  PROVE  Leaves(x)
<1>1. /\ page' = page /\ author' = author /\ again' = again /\ Wired' \subseteq Wired
      /\ \A y \in Tabs : last'[y] \in {last[y], None}
  BY DEF Lands
<1>2. Bodies' \subseteq Bodies
  BY <1>1, OnceFacts, BodiesFewer
<1>3. ASSUME NEW c \in Bodies', c.tab = x, c = last[x] PROVE last'[x] = last[x]
  <2>1. c # None
    BY <1>2, OnceFacts, BodyIs, NoneIsNoBody
  <2>2. CASE c \in Wired'
    <3>1. c \in Wired /\ last[x] # None
      BY <1>1, <1>3, <2>1, <2>2
    <3>2. c.seq < last[x].seq
      BY <1>3, <3>1, OnceFacts DEF Parted, Closing
    <3>3. c.seq \in Nat
      BY <1>2, OnceFacts, BodyIs
    <3> QED
      BY <1>3, <3>2, <3>3
  <2>3. CASE \E y \in Tabs : c = last'[y]
    <3>1. PICK y \in Tabs : c = last'[y]
      BY <2>3
    <3>2. last[y] = c /\ last[y].tab = y
      BY <1>1, <2>1, <3>1, OnceFacts DEF Sender, AtClose
    <3> QED
      BY <1>3, <3>1, <3>2
  <2> QED
    BY <2>2, <2>3 DEF Bodies
<1> QED
  BY <1>1, <1>2, <1>3 DEF Leaves

LEMMA LandsOnce ==
  ASSUME MaxTabs <= TabCap, OnceInv, NEW e \in BodyType, NEW o \in PutRoute(e), Lands(e, o)
  PROVE  OnceParts'
<1>1. /\ page' = page /\ UNCHANGED <<author, again, forgot>> /\ e \in Bodies
      /\ \A x \in Tabs : Leaves(x) /\ Parted(x)'
  BY LandsLeaves, OnceFacts, LeavesParted DEF Lands
<1>2. CASE seqs' = seqs /\ applied' = applied
  <2>1. \A x \in Tabs : Counted(x)'
    BY <1>1, <1>2, OnceFacts, LeavesCounted DEF Sent
  <2>2. Unborn' /\ AppliedOnce'
    BY <1>1, <1>2, OnceFacts DEF Unborn, AppliedOnce
  <2> QED
    BY <1>1, <2>1, <2>2 DEF OnceParts
<1>3. CASE /\ seqs' = Record(e) /\ Fresh(e)
           /\ applied' = [n \in Numbers |->
                 applied[n] + Cardinality({i \in DOMAIN e.changes : e.changes[i].n = n})]
  <2> DEFINE In(n) == \E i \in DOMAIN e.changes : e.changes[i].n = n
             t == e.tab
  <2>1. t \in Tabs /\ e.seq \in Nat /\ Distinct(e.changes) /\ By(e.changes, t)
    BY <1>1, OnceFacts, BodyIs DEF Parted, Carried
  <2>2. /\ \A x \in Tabs : \A s \in Nat : Sent(x, s) => Sent(x, s)'
        /\ \A s \in Nat : s <= e.seq => Sent(t, s)'
        /\ ~Sent(t, e.seq)
    BY <1>3, OnceFacts, LandsSent
  <2>3. \A n \in Numbers : IF In(n) THEN applied'[n] = applied[n] + 1 ELSE applied'[n] = applied[n]
    BY <1>3, <2>1, OnceFacts, LandsOne
  <2>4. \A n \in Numbers : In(n) => author[n] = t
    BY <2>1 DEF By
  <2> HIDE DEF In, t
  <2>5. ASSUME NEW x \in Tabs, x # t PROVE Counted(x)'
    <3>1. \A n \in Numbers : author[n] = x => applied'[n] = applied[n]
      BY <2>3, <2>4, <2>5
    <3> QED
      BY <1>1, <2>2, <3>1, OnceFacts, LeavesCounted
  <2>6. ASSUME ~forgot, NEW n \in Numbers, In(n)
        PROVE  applied[n] = 0 \/ (e = last[t] /\ n \in again /\ applied[n] <= 1)
    <3>1. Unapplied(t)
      BY <2>1, <2>6, OnceFacts DEF Counted
    <3> QED
      BY <1>1, <2>2, <2>6, <3>1 DEF Unapplied, In, t
  <2>7. AppliedOnce'
    <3> SUFFICES ASSUME ~forgot, NEW n \in Numbers
                 PROVE  applied'[n] <= IF n \in again THEN 2 ELSE 1
      BY <1>1 DEF AppliedOnce
    <3>1. applied[n] \in Nat /\ applied[n] <= IF n \in again THEN 2 ELSE 1
      BY OnceFacts DEF AppliedOnce
    <3> QED
      BY <2>3, <2>6, <3>1
  <2>8. Unborn'
    BY <1>1, <2>1, <2>3, <2>4, OnceFacts DEF Unborn
  <2>9. Counted(t)'
    <3> SUFFICES ASSUME ~forgot PROVE Unapplied(t)' /\ Unlanded(t)'
      BY <1>1 DEF Counted
    <3>1. Unapplied(t) /\ Unlanded(t) /\ Parted(t) /\ Leaves(t)
      BY <1>1, <2>1, OnceFacts DEF Counted
    <3>2. Unapplied(t)'
      <4> SUFFICES ASSUME NEW c \in Bodies', c.tab = t, ~Sent(t, c.seq)', NEW i \in DOMAIN c.changes
                   PROVE  \/ applied'[c.changes[i].n] = 0
                          \/ c = last'[t] /\ c.changes[i].n \in again /\ applied'[c.changes[i].n] <= 1
        BY <1>1 DEF Unapplied, Sent, t
      <4>1. c \in Bodies /\ c.seq \in Nat /\ c.changes[i].n \in Numbers
        BY <3>1, OnceFacts, BodyIs DEF Leaves
      <4>2. e.seq < c.seq /\ ~Sent(t, c.seq)
        BY <2>1, <2>2, <4>1
      <4>3. CASE ~In(c.changes[i].n)
        BY <2>3, <3>1, <4>1, <4>2, <4>3 DEF Unapplied, Leaves
      <4>4. CASE In(c.changes[i].n)
        <5>1. c = last[t] /\ c.changes[i].n \in again
          BY <1>1, <3>1, <4>1, <4>2, <4>4 DEF Parted, Twice, In, t
        <5>2. e # last[t]
          BY <2>1, <4>1, <4>2, <5>1
        <5>3. applied[c.changes[i].n] = 0
          BY <2>6, <4>1, <4>4, <5>2
        <5>4. applied'[c.changes[i].n] = 1
          BY <2>3, <4>1, <4>4, <5>3
        <5> QED
          BY <3>1, <5>1, <5>4 DEF Leaves
      <4> QED
        BY <4>3, <4>4
    <3>3. Unlanded(t)'
      <4> SUFFICES ASSUME NEW j \in DOMAIN page[t].pending,
                          j > page[t].inflight \/ ~Sent(t, page[t].seq)'
                   PROVE  applied'[page[t].pending[j].n] = 0
        BY <1>1 DEF Unlanded, Sent, t
      <4>1. /\ page[t].seq \in Nat /\ page[t].pending[j].n \in Numbers /\ page[t].inflight \in Nat
            /\ j \in Nat
        BY <2>1, OnceFacts, PendingIs
      <4>2. j > page[t].inflight \/ ~Sent(t, page[t].seq)
        BY <1>1, <2>1, <2>2, <4>1 DEF t
      <4>3. CASE ~In(page[t].pending[j].n)
        BY <2>3, <3>1, <4>1, <4>2, <4>3 DEF Unlanded
      <4>4. CASE In(page[t].pending[j].n)
        <5>1. j <= page[t].inflight /\ e.seq = page[t].seq
          BY <1>1, <3>1, <4>4 DEF Parted, Apart, In, t
        <5>2. Sent(t, page[t].seq)'
          BY <1>1, <2>1, <2>2, <4>1, <5>1 DEF t
        <5> QED
          BY <4>1, <5>1, <5>2
      <4> QED
        BY <4>3, <4>4
    <3> QED
      BY <3>2, <3>3
  <2> QED
    BY <1>1, <2>5, <2>7, <2>8, <2>9 DEF OnceParts
<1> QED
  BY <1>2, <1>3 DEF Lands

LEMMA OnceNext ==
  ASSUME MaxTabs <= TabCap, OnceInv, [Next]_vars
  PROVE  OnceInv'
<1>1. IInv' /\ Silence' /\ BatchStep
  BY NextKeeps, NextActs DEF OnceInv
<1>2. Senders'
  BY <1>1, SendersNext DEF OnceInv
<1>3. OnceParts'
  BY <1>1, IdlesOnce, EmitsOnce, SendsOnce, GoesOnce, ClearsOnce, LandsOnce DEF BatchStep
<1> QED
  BY <1>1, <1>2, <1>3 DEF OnceInv, OnceParts

LEMMA OnceFirst == Init => OnceInv
<1> SUFFICES ASSUME Init PROVE OnceInv
  OBVIOUS
<1>1. IInv /\ Silence /\ Bodies = {} /\ \A t \in Tabs : page[t].pending = <<>> /\ page[t].inflight = 0
  BY FirstIs, FirstBatches
<1>2. seqs = <<>> /\ put = [t \in Tabs |-> Idle] /\ last = [t \in Tabs |-> None]
      /\ author = [n \in Numbers |-> None] /\ applied = [n \in Numbers |-> 0] /\ again = {}
  BY DEF Init
<1>3. Senders
  BY <1>1, <1>2 DEF Senders, Sender, OnWire, AtClose, Known, Numbered, Landed, Idle
<1>4. Unborn /\ AppliedOnce
  BY <1>2 DEF Unborn, AppliedOnce
<1>5. ASSUME NEW t \in Tabs PROVE Parted(t) /\ Counted(t)
  <2>1. Waiting(t) /\ Unlanded(t)
    BY <1>1 DEF Waiting, Distinct, By, Unlanded
  <2>2. Carried(t) /\ Apart(t) /\ Twice(t) /\ Unapplied(t)
    BY <1>1 DEF Carried, Apart, Twice, Unapplied
  <2>3. Closing(t)
    BY <1>2 DEF Closing
  <2> QED
    BY <2>1, <2>2, <2>3 DEF Parted, Counted
<1> QED
  BY <1>1, <1>3, <1>4, <1>5 DEF OnceInv

(* While no more documents open than TAB_SEQS numbers are remembered, a      *)
(* change is applied once, however often its batch is resent and however     *)
(* late a copy of it lands; a second time only when a restart forgot the     *)
(* numbers or a closing page sent it again (desk/apply, TabSeqs).            *)
THEOREM DeskAppliesOnce == MaxTabs <= TabCap => (Spec => []AppliedOnce)
<1>1. Init => OnceInv
  BY OnceFirst
<1>2. MaxTabs <= TabCap /\ OnceInv /\ [Next]_vars => OnceInv'
  BY OnceNext
<1>3. OnceInv => AppliedOnce
  BY DEF OnceInv
<1>4. ASSUME MaxTabs <= TabCap PROVE Spec => []AppliedOnce
  <2>1. OnceInv /\ [Next]_vars => OnceInv'
    BY <1>2, <1>4
  <2> QED
    BY <1>1, <1>3, <2>1, PTL DEF Spec
<1> QED
  BY <1>4
=============================================================================
