----------------------------- MODULE DeskProofs -----------------------------
(***************************************************************************)
(* Theorems about Desk, for any number of tabs, records, changes, faults    *)
(* and versions: the shape of its state, one desk per generation and rev,   *)
(* and the way back of a restore.                                           *)
(***************************************************************************)
EXTENDS Desk, SequenceTheorems, FiniteSetTheorems, WellFoundedInduction, TLAPS

-----------------------------------------------------------------------------
(* Induction and recursion over the positions of a sequence.                *)

(* Induction, for a set of numbers.                                          *)
LEMMA Counting ==
  ASSUME NEW S, S \subseteq Nat, 0 \in S, \A n \in S : n + 1 \in S
  PROVE  S = Nat
<1> SUFFICES ASSUME Nat \ S # {} PROVE FALSE
  OBVIOUS
<1> DEFINE R == OpToRel(<, Nat)
           T == Nat \ S
<1>1. IsWellFoundedOn(R, Nat)
  BY NatLessThanWellFounded
<1>2. \A x, y \in Nat : x < y => <<x, y>> \in R
  BY DEF OpToRel
<1> HIDE DEF R
<1>3. T \subseteq Nat /\ T # {}
  OBVIOUS
<1> HIDE DEF T
<1>4. PICK x \in T : \A y \in T : ~(<<y, x>> \in R)
  BY <1>1, <1>3, WFMin
<1>5. x \in Nat /\ x \notin S
  BY <1>4 DEF T
<1>6. x - 1 \in Nat /\ x - 1 < x /\ (x - 1) + 1 = x
  BY <1>5
<1>7. x - 1 \in S
  BY <1>2, <1>4, <1>5, <1>6 DEF T
<1> QED
  BY <1>5, <1>6, <1>7

(* f solves a recursion over 0..n that starts with d in S.                   *)
Solution(f, S, n, d, G) ==
    f \in [0..n -> S] /\ f[0] = d /\ \A k \in 1..n : f[k] = G[k][f[k - 1]]

LEMMA Recursion ==
  ASSUME NEW S, NEW n \in Nat, NEW d \in S, NEW G,
         \A k \in 1..n : \A x \in S : G[k][x] \in S
  PROVE  \E f : Solution(f, S, n, d, G)
<1> DEFINE Solves(m, f) == f[0] = d /\ \A k \in 1..m : f[k] = G[k][f[k - 1]]
           P == {m \in Nat : m <= n => \E f \in [0..m -> S] : Solves(m, f)}
<1>1. 0 \in P
  <2> DEFINE f == [k \in 0..0 |-> d]
  <2>1. f \in [0..0 -> S] /\ Solves(0, f)
    OBVIOUS
  <2> QED
    BY <2>1
<1>2. ASSUME NEW m \in P PROVE m + 1 \in P
  <2>0. m \in Nat /\ m + 1 \in Nat
    OBVIOUS
  <2> SUFFICES ASSUME m + 1 <= n PROVE \E f \in [0..m + 1 -> S] : Solves(m + 1, f)
    <3> HIDE DEF Solves
    <3> QED
      BY <2>0
  <2>1. m \in Nat /\ m <= n /\ m + 1 \in 1..n
    BY <2>0
  <2>2. PICK g \in [0..m -> S] : Solves(m, g)
    BY <2>1
  <2> DEFINE f == [k \in 0..m + 1 |-> IF k <= m THEN g[k] ELSE G[m + 1][g[m]]]
  <2>3. G[m + 1][g[m]] \in S
    BY <2>1, <2>2
  <2>4. f \in [0..m + 1 -> S]
    BY <2>1, <2>2, <2>3
  <2>5. f[0] = d /\ f[m + 1] = G[m + 1][f[m]]
    BY <2>1, <2>2
  <2>6. ASSUME NEW k \in 1..m PROVE f[k] = G[k][f[k - 1]]
    <3>1. k \in 0..m + 1 /\ k <= m /\ k - 1 \in 0..m + 1 /\ k - 1 <= m
      BY <2>1
    <3>2. f[k] = g[k] /\ f[k - 1] = g[k - 1]
      BY <3>1
    <3> QED
      BY <2>2, <3>2
  <2>7. ASSUME NEW k \in 1..m + 1 PROVE f[k] = G[k][f[k - 1]]
    <3>1. CASE k = m + 1
      BY <2>1, <2>5, <3>1
    <3>2. CASE k \in 1..m
      BY <2>6, <3>2
    <3> QED
      BY <2>1, <3>1, <3>2
  <2> HIDE DEF f
  <2> QED
    BY <2>4, <2>5, <2>7
<1>3. P = Nat
  <2> HIDE DEF P
  <2>1. P \subseteq Nat
    BY DEF P
  <2> QED
    BY <1>1, <1>2, <2>1, Counting
<1>4. n \in P
  BY <1>3
<1> QED
  BY <1>4 DEF Solution

-----------------------------------------------------------------------------
(* The shape of the state.                                                   *)

DeskType == [rev : Nat, gen : 0..MaxGen, recs : [Records -> Recs \cup {Absent}],
             pick : Trees \cup {NoTree}]
Entries == [tab : Tabs, seq : Nat]
VersionType == [reason : {"change", "before-restore", "restore"}, desk : Layouts, young : BOOLEAN]
PageType == [phase : {"new", "loading", "ready", "failed", "gone"}, rev : Nat \cup {-1},
             gen : -1..MaxGen, server : Layouts, pending : Seq(Changes), seq : Nat,
             inflight : Nat, loaded : BOOLEAN]
Answers == [kind : {"ok"}, desk : DeskType] \cup [kind : {"unreadable"}, desk : {None}]
Replies == Answers \cup [kind : {"failed", "restored", "refused", "network"}, desk : {None}]
PutType == {Idle} \cup [at : {"going"}, body : BodyType, reply : {None}]
                  \cup [at : {"answered"}, body : BodyType, reply : Replies]
ReadType == [asked : Nat, answers : SUBSET Answers]

(* One entry per tab.                                                        *)
OneEach(s) == \A i, j \in DOMAIN s : s[i].tab = s[j].tab => i = j

SeqsOK(s) == s \in Seq(Entries) /\ Len(s) <= TabCap /\ OneEach(s)
VersionsOK(vs) == vs \in Seq(VersionType) /\ Len(vs) <= HistoryMax
PageOK(p) == p \in PageType /\ p.inflight <= Len(p.pending) /\ (p.phase = "ready" => p.gen # -1)

DaemonShape ==
    desk \in DeskType /\ file \in {"ok", "damaged"} /\ SeqsOK(seqs) /\ VersionsOK(versions)

PageShape == page \in [Tabs -> PageType] /\ \A t \in Tabs : PageOK(page[t])

WireShape ==
    /\ put \in [Tabs -> PutType] /\ stray \subseteq BodyType
    /\ last \in [Tabs -> BodyType \cup {None}] /\ reads \in [Tabs -> ReadType]
    /\ hears \in [Tabs -> {"first", "open", "down"}] /\ dirty \subseteq Tabs
    /\ build \in [Tabs -> {"same", "other", "held"}]

GhostShape ==
    /\ upsets \in 0..MaxUpsets /\ author \in [Numbers -> Tabs \cup {None}]
    /\ applied \in [Numbers -> Nat] /\ again \subseteq Numbers /\ forgot \in BOOLEAN
    /\ missed \subseteq Tabs /\ wayBack \in [desk : Layouts \cup {None}, since : Nat]

Shape == DaemonShape /\ PageShape /\ WireShape /\ GhostShape

(* A desk someone holds is of an older generation than the stored desk d, or *)
(* of an older rev, or it is d, as long as generations rise.                 *)
Was(d, gen, rev, layout) ==
    \/ fellBack
    \/ gen < d.gen
    \/ gen = d.gen /\ rev < d.rev
    \/ gen = d.gen /\ rev = d.rev /\ layout = Layout(d)

PageHeld(d, p) == Was(d, p.gen, p.rev, p.server)
AnswerHeld(d, a) == a.kind = "ok" => Was(d, a.desk.gen, a.desk.rev, Layout(a.desk))
PutHeld(d, u) == u.at = "answered" => AnswerHeld(d, u.reply)
ReadHeld(d, r) == \A a \in r.answers : AnswerHeld(d, a)

Held ==
    \A t \in Tabs :
        PageHeld(desk, page[t]) /\ PutHeld(desk, put[t]) /\ ReadHeld(desk, reads[t])

(* A way back to layout l is among the newest versions, at most k deep.      *)
WayBack(vs, l, k) ==
    \E i \in DOMAIN vs :
        i >= Len(vs) - k /\ vs[i].reason = "before-restore" /\ vs[i].desk = l

Way == wayBack.desk # None /\ wayBack.since < HistoryMax
       => WayBack(versions, wayBack.desk, wayBack.since)

(* The inductive invariant.                                                  *)
IInv == Shape /\ Held /\ Way

-----------------------------------------------------------------------------
(* The changes of a batch.                                                   *)

LEMMA ActIs ==
  ASSUME NEW c \in Changes
  PROVE  c.act \in ActForms /\ c.n \in Numbers /\ c.base \in Ats
  BY DataAssumption DEF Changes, Acts

RecsType == [Records -> Recs \cup {Absent}]

LEMMA DeskFields ==
  ASSUME NEW d \in DeskType
  PROVE  /\ d.rev \in Nat /\ d.gen \in 0..MaxGen /\ d.recs \in RecsType
         /\ d.pick \in Trees \cup {NoTree} /\ Layout(d) \in Layouts
  BY DEF DeskType, RecsType, Layout, Layouts

LEMMA CreateIs ==
  ASSUME NEW d \in DeskType, NEW c \in ActForms, c.op = "create"
  PROVE  Create(d, c) \in DeskType /\ Create(d, c).rev = d.rev /\ Create(d, c).gen = d.gen
<1>1. c.id \in Records /\ c.place \in Places /\ c.session \in Sessions \cup {NoSession}
  BY DEF ActForms
<1>2. CASE Has(d, c.id)
  <2>1. d.recs[c.id] \in Recs
    BY <1>1, <1>2, DeskFields DEF Has, RecsType
  <2> DEFINE r == [d.recs[c.id] EXCEPT !.session = c.session]
             q == [d.recs EXCEPT ![c.id] = r]
  <2>2. r \in Recs
    BY <1>1, <2>1 DEF Recs
  <2>3. q \in RecsType
    BY <1>1, <2>2, DeskFields DEF RecsType
  <2>4. [d EXCEPT !.recs[c.id].session = c.session] = [d EXCEPT !.recs = q]
    BY DEF DeskType
  <2> HIDE DEF q
  <2>5. /\ [d EXCEPT !.recs = q] \in DeskType /\ [d EXCEPT !.recs = q].rev = d.rev
        /\ [d EXCEPT !.recs = q].gen = d.gen
    BY <2>3 DEF DeskType, RecsType
  <2> QED
    BY <1>2, <2>4, <2>5 DEF Create
<1>3. CASE ~Has(d, c.id)
  <2> DEFINE r == [place |-> c.place, session |-> c.session]
             q == [d.recs EXCEPT ![c.id] = r]
  <2>1. r \in Recs
    BY <1>1 DEF Recs
  <2>2. q \in RecsType
    BY <1>1, <2>1, DeskFields DEF RecsType
  <2>3. [d EXCEPT !.recs[c.id] = r] = [d EXCEPT !.recs = q]
    BY DEF DeskType
  <2>4. Create(d, c) \in {d, [d EXCEPT !.recs = q]}
    BY <1>3, <2>3 DEF Create
  <2> HIDE DEF q
  <2>5. /\ [d EXCEPT !.recs = q] \in DeskType /\ [d EXCEPT !.recs = q].rev = d.rev
        /\ [d EXCEPT !.recs = q].gen = d.gen
    BY <2>2 DEF DeskType, RecsType
  <2> QED
    BY <2>4, <2>5
<1> QED
  BY <1>2, <1>3

LEMMA SetIs ==
  ASSUME NEW d \in DeskType, NEW c \in ActForms, c.op = "set"
  PROVE  Set(d, c) \in DeskType /\ Set(d, c).rev = d.rev /\ Set(d, c).gen = d.gen
<1>1. c.id \in Records /\ c.place \in Places \cup {Keep}
      /\ c.session \in Sessions \cup {NoSession, Keep}
  BY DEF ActForms
<1>2. CASE ~Has(d, c.id)
  BY <1>2 DEF Set
<1>3. CASE Has(d, c.id)
  <2> DEFINE old == d.recs[c.id]
             r == [place |-> Kept(c.place, old.place), session |-> Kept(c.session, old.session)]
             q == [d.recs EXCEPT ![c.id] = r]
  <2>1. old \in Recs
    BY <1>1, <1>3, DeskFields DEF Has, RecsType
  <2>2. r \in Recs
    BY <1>1, <2>1 DEF Recs, Kept
  <2>3. q \in RecsType
    BY <1>1, <2>2, DeskFields DEF RecsType
  <2>4. [d EXCEPT !.recs[c.id] = [place |-> Kept(c.place, @.place),
                                  session |-> Kept(c.session, @.session)]] = [d EXCEPT !.recs = q]
    BY DEF DeskType
  <2> HIDE DEF q
  <2>5. /\ [d EXCEPT !.recs = q] \in DeskType /\ [d EXCEPT !.recs = q].rev = d.rev
        /\ [d EXCEPT !.recs = q].gen = d.gen
    BY <2>3 DEF DeskType, RecsType
  <2> QED
    BY <1>3, <2>4, <2>5 DEF Set
<1> QED
  BY <1>2, <1>3

LEMMA ApplyOneIs ==
  ASSUME NEW d \in DeskType, NEW c \in ActForms
  PROVE  ApplyOne(d, c) \in DeskType /\ ApplyOne(d, c).rev = d.rev /\ ApplyOne(d, c).gen = d.gen
<1>1. CASE c.op = "create"
  BY <1>1, CreateIs DEF ApplyOne
<1>2. CASE c.op = "set"
  BY <1>2, SetIs DEF ApplyOne
<1>3. CASE c.op = "remove"
  <2> DEFINE q == [d.recs EXCEPT ![c.id] = Absent]
  <2>1. q \in RecsType
    BY DeskFields DEF RecsType
  <2>2. ApplyOne(d, c) = [d EXCEPT !.recs = q]
    BY <1>3 DEF ApplyOne, DeskType
  <2> HIDE DEF q
  <2> QED
    BY <2>1, <2>2 DEF DeskType, RecsType
<1>4. CASE c.op \in {"checkout", "clear"}
  <2>1. c.name \in Trees
    BY <1>4 DEF ActForms
  <2>2. PICK n \in Trees \cup {NoTree} : ApplyOne(d, c) \in {d, [d EXCEPT !.pick = n]}
    BY <1>4, <2>1 DEF ApplyOne
  <2> QED
    BY <2>2 DEF DeskType
<1> QED
  BY <1>1, <1>2, <1>3, <1>4 DEF ActForms

(* A batch changes neither the rev nor the generation by itself.             *)
LEMMA ApplyIs ==
  ASSUME NEW d \in DeskType, NEW changes \in Seq(Changes)
  PROVE  Apply(d, changes) \in DeskType /\ Apply(d, changes).rev = d.rev
         /\ Apply(d, changes).gen = d.gen
<1> DEFINE len == Len(changes)
           Same == {x \in DeskType : x.rev = d.rev /\ x.gen = d.gen}
           Step == [k \in 1..len |-> [x \in Same |-> ApplyOne(x, changes[k].act)]]
<1>1. len \in Nat /\ d \in Same
  OBVIOUS
<1>2. ASSUME NEW k \in 1..len, NEW x \in Same PROVE ApplyOne(x, changes[k].act) \in Same
  <2>1. changes[k].act \in ActForms
    BY ActIs
  <2> QED
    BY <2>1, ApplyOneIs
<1>3. \A k \in 1..len : \A x \in Same : Step[k][x] \in Same
  BY <1>2
<1>4. PICK f : Solution(f, Same, len, d, Step)
  <2> HIDE DEF len, Same, Step
  <2>1. len \in Nat
    BY <1>1
  <2>2. d \in Same
    BY <1>1
  <2> QED
    BY <1>3, <2>1, <2>2, Recursion
<1>5. f = [k \in 0..len |-> IF k = 0 THEN d ELSE ApplyOne(f[k - 1], changes[k].act)]
  <2>1. ASSUME NEW k \in 0..len
        PROVE  f[k] = IF k = 0 THEN d ELSE ApplyOne(f[k - 1], changes[k].act)
    <3>1. CASE k = 0
      BY <1>4, <3>1 DEF Solution
    <3>2. CASE k # 0
      <4>1. k \in 1..len /\ k - 1 \in 0..len
        BY <1>1, <3>2
      <4> QED
        BY <1>4, <3>2, <4>1 DEF Solution
    <3> QED
      BY <3>1, <3>2
  <2> QED
    BY <1>4, <2>1 DEF Solution
<1> DEFINE after[k \in 0..len] == IF k = 0 THEN d ELSE ApplyOne(after[k - 1], changes[k].act)
<1>6. after = [k \in 0..len |-> IF k = 0 THEN d ELSE ApplyOne(after[k - 1], changes[k].act)]
  BY <1>5
<1>7. Apply(d, changes) = after[len]
  BY DEF Apply
<1> HIDE DEF after
<1> DEFINE P == {k \in Nat : k <= len => after[k] \in Same}
<1>8. 0 \in P
  BY <1>1, <1>6
<1>9. ASSUME NEW k \in P PROVE k + 1 \in P
  <2>1. k \in Nat /\ k + 1 \in Nat /\ (k + 1) - 1 = k
    OBVIOUS
  <2>2. ASSUME k + 1 <= len PROVE after[k + 1] \in Same
    <3>1. k + 1 \in 1..len /\ k + 1 \in 0..len /\ k + 1 # 0 /\ after[k] \in Same
      BY <1>1, <2>1, <2>2
    <3>2. after[k + 1] = ApplyOne(after[k], changes[k + 1].act)
      BY <1>6, <2>1, <3>1
    <3> QED
      BY <1>2, <3>1, <3>2
  <2> QED
    BY <2>1, <2>2
<1>10. P = Nat
  <2> HIDE DEF P
  <2>1. P \subseteq Nat
    BY DEF P
  <2> QED
    BY <1>8, <1>9, <2>1, Counting
<1>11. len \in P
  BY <1>1, <1>10
<1> QED
  BY <1>1, <1>7, <1>11

-----------------------------------------------------------------------------
(* The numbers of the tabs.                                                  *)

(* s holds the entries of the other tabs among the first k.                  *)
Retains(s, tab, k) ==
    /\ s \in Seq(Entries) /\ OneEach(s)
    /\ \A i \in DOMAIN s : \E j \in 1..k : s[i] = seqs[j] /\ seqs[j].tab # tab
    /\ \A j \in 1..k : seqs[j].tab # tab => \E i \in DOMAIN s : s[i] = seqs[j]

LEMMA RetainsNext ==
  ASSUME seqs \in Seq(Entries), OneEach(seqs), NEW tab, NEW k \in Nat, k + 1 <= Len(seqs), NEW s,
         Retains(s, tab, k)
  PROVE  Retains(IF seqs[k + 1].tab # tab THEN Append(s, seqs[k + 1]) ELSE s, tab, k + 1)
<1>1. /\ s \in Seq(Entries) /\ Len(s) \in Nat /\ DOMAIN s = 1..Len(s) /\ DOMAIN seqs = 1..Len(seqs)
      /\ Len(seqs) \in Nat /\ k + 1 \in 1..Len(seqs) /\ seqs[k + 1] \in Entries
  BY DEF Retains
<1>2. CASE seqs[k + 1].tab = tab
  <2>1. \A j \in 1..k + 1 : seqs[j].tab # tab => j \in 1..k
    BY <1>1, <1>2
  <2>2. 1..k \subseteq 1..k + 1
    BY <1>1
  <2> QED
    BY <1>2, <2>1, <2>2 DEF Retains
<1>3. CASE seqs[k + 1].tab # tab
  <2> DEFINE e == seqs[k + 1]
             u == Append(s, e)
  <2>1. /\ u \in Seq(Entries) /\ Len(u) = Len(s) + 1 /\ u[Len(s) + 1] = e
        /\ \A i \in 1..Len(s) : u[i] = s[i]
    BY <1>1, AppendProperties
  <2>2. DOMAIN u = 1..Len(s) + 1
    BY <2>1
  <2> HIDE DEF u, e
  <2>3. ASSUME NEW i \in 1..Len(s) PROVE u[i].tab # e.tab
    <3>1. PICK j \in 1..k : s[i] = seqs[j]
      BY <1>1 DEF Retains
    <3>2. j \in DOMAIN seqs /\ k + 1 \in DOMAIN seqs /\ j # k + 1
      BY <1>1
    <3> QED
      BY <2>1, <3>1, <3>2 DEF OneEach, e
  <2>4. OneEach(u)
    <3> SUFFICES ASSUME NEW i \in 1..Len(s) + 1, NEW j \in 1..Len(s) + 1, u[i].tab = u[j].tab
                 PROVE  i = j
      BY <2>2 DEF OneEach
    <3>1. CASE i \in 1..Len(s) /\ j \in 1..Len(s)
      BY <1>1, <2>1, <3>1 DEF Retains, OneEach
    <3>2. CASE i = Len(s) + 1 \/ j = Len(s) + 1
      BY <1>1, <2>1, <2>3, <3>2
    <3> QED
      BY <1>1, <3>1, <3>2
  <2>5. ASSUME NEW i \in 1..Len(s) + 1
        PROVE  \E j \in 1..k + 1 : u[i] = seqs[j] /\ seqs[j].tab # tab
    <3>1. CASE i \in 1..Len(s)
      <4>1. PICK j \in 1..k : s[i] = seqs[j] /\ seqs[j].tab # tab
        BY <1>1, <3>1 DEF Retains
      <4>2. j \in 1..k + 1
        BY <1>1
      <4> QED
        BY <2>1, <3>1, <4>1, <4>2
    <3>2. CASE i = Len(s) + 1
      BY <1>1, <1>3, <2>1, <3>2 DEF e
    <3> QED
      BY <1>1, <3>1, <3>2
  <2>6. ASSUME NEW j \in 1..k + 1, seqs[j].tab # tab
        PROVE  \E i \in 1..Len(s) + 1 : u[i] = seqs[j]
    <3>1. CASE j \in 1..k
      <4>1. PICK i \in 1..Len(s) : s[i] = seqs[j]
        BY <1>1, <2>6, <3>1 DEF Retains
      <4>2. i \in 1..Len(s) + 1
        BY <1>1
      <4> QED
        BY <2>1, <4>1, <4>2
    <3>2. CASE j = k + 1
      BY <1>1, <2>1, <3>2 DEF e
    <3> QED
      BY <3>1, <3>2
  <2>7. Retains(u, tab, k + 1)
    BY <2>1, <2>2, <2>4, <2>5, <2>6 DEF Retains
  <2> QED
    BY <1>3, <2>7 DEF u, e
<1> QED
  BY <1>2, <1>3

LEMMA OthersAre ==
  ASSUME seqs \in Seq(Entries), OneEach(seqs), NEW tab
  PROVE  Retains(Others(tab), tab, Len(seqs))
<1> DEFINE len == Len(seqs)
           All == Seq(Entries)
           Step == [k \in 1..len |->
                      [x \in All |-> IF seqs[k].tab # tab THEN Append(x, seqs[k]) ELSE x]]
<1>1. len \in Nat /\ <<>> \in All
  OBVIOUS
<1>2. \A k \in 1..len : \A x \in All : Step[k][x] \in All
  OBVIOUS
<1>3. PICK f : Solution(f, All, len, <<>>, Step)
  <2> HIDE DEF len, All, Step
  <2> QED
    BY <1>1, <1>2, Recursion
<1>4. f = [k \in 0..len |-> IF k = 0 THEN <<>>
             ELSE IF seqs[k].tab # tab THEN Append(f[k - 1], seqs[k]) ELSE f[k - 1]]
  <2>1. ASSUME NEW k \in 0..len
        PROVE  f[k] = IF k = 0 THEN <<>>
                      ELSE IF seqs[k].tab # tab THEN Append(f[k - 1], seqs[k]) ELSE f[k - 1]
    <3>1. CASE k = 0
      BY <1>3, <3>1 DEF Solution
    <3>2. CASE k # 0
      <4>1. k \in 1..len /\ k - 1 \in 0..len
        BY <1>1, <3>2
      <4>2. f[k] = Step[k][f[k - 1]] /\ f[k - 1] \in All
        BY <1>3, <4>1 DEF Solution
      <4> QED
        BY <3>2, <4>1, <4>2
    <3> QED
      BY <3>1, <3>2
  <2> QED
    BY <1>3, <2>1 DEF Solution
<1> DEFINE kept[k \in 0..len] ==
             IF k = 0 THEN <<>>
             ELSE IF seqs[k].tab # tab THEN Append(kept[k - 1], seqs[k]) ELSE kept[k - 1]
<1>5. kept = [k \in 0..len |-> IF k = 0 THEN <<>>
                ELSE IF seqs[k].tab # tab THEN Append(kept[k - 1], seqs[k]) ELSE kept[k - 1]]
  BY <1>4
<1>6. Others(tab) = kept[len]
  BY DEF Others
<1> HIDE DEF kept
<1> DEFINE P == {k \in Nat : k <= len => Retains(kept[k], tab, k)}
<1>7. 0 \in P
  <2>1. kept[0] = <<>>
    BY <1>1, <1>5
  <2>2. Retains(<<>>, tab, 0)
    BY DEF Retains, OneEach
  <2> QED
    BY <2>1, <2>2
<1>8. ASSUME NEW k \in P PROVE k + 1 \in P
  <2>1. k \in Nat /\ k + 1 \in Nat /\ (k + 1) - 1 = k
    OBVIOUS
  <2>2. ASSUME k + 1 <= len PROVE Retains(kept[k + 1], tab, k + 1)
    <3>1. k + 1 \in 0..len /\ k + 1 # 0 /\ Retains(kept[k], tab, k)
      BY <1>1, <2>1, <2>2
    <3>2. kept[k + 1] = IF seqs[k + 1].tab # tab THEN Append(kept[k], seqs[k + 1]) ELSE kept[k]
      BY <1>5, <2>1, <3>1
    <3> QED
      BY <2>1, <2>2, <3>1, <3>2, RetainsNext
  <2> QED
    BY <2>1, <2>2
<1>9. P = Nat
  <2> HIDE DEF P
  <2>1. P \subseteq Nat
    BY DEF P
  <2> QED
    BY <1>7, <1>8, <2>1, Counting
<1>10. len \in P
  BY <1>1, <1>9
<1> QED
  BY <1>1, <1>6, <1>10

(* After record, the tab's entry is first, and the rest were there before.   *)
LEMMA RecordIs ==
  ASSUME seqs \in Seq(Entries), OneEach(seqs), NEW b, b.tab \in Tabs, b.seq \in Nat
  PROVE  /\ Record(b) \in Seq(Entries) /\ Len(Record(b)) <= TabCap /\ OneEach(Record(b))
         /\ 1 \in DOMAIN Record(b) /\ Record(b)[1] = [tab |-> b.tab, seq |-> b.seq]
         /\ \A i \in DOMAIN Record(b) :
              i = 1 \/ \E j \in DOMAIN seqs : Record(b)[i] = seqs[j] /\ seqs[j].tab # b.tab
<1> DEFINE e == [tab |-> b.tab, seq |-> b.seq]
           o == Others(b.tab)
           all == <<e>> \o o
           m == IF Len(all) > TabCap THEN TabCap ELSE Len(all)
<1>1. Retains(o, b.tab, Len(seqs))
  BY OthersAre
<1>2. Record(b) = SubSeq(all, 1, m)
  BY DEF Record
<1>3. e \in Entries /\ e.tab = b.tab /\ o \in Seq(Entries) /\ Len(o) \in Nat /\ DOMAIN o = 1..Len(o)
      /\ Len(seqs) \in Nat /\ DOMAIN seqs = 1..Len(seqs) /\ TabCap \in Nat /\ TabCap > 0
  BY <1>1, BoundsAssumption DEF Retains, Entries
<1> HIDE DEF e, o
<1>4. /\ all \in Seq(Entries) /\ Len(all) = Len(o) + 1 /\ all[1] = e
      /\ \A i \in 2..Len(o) + 1 : all[i] = o[i - 1]
  BY <1>3
<1> HIDE DEF all
<1>5. m \in Nat /\ m <= Len(all) /\ m >= 1 /\ m <= TabCap
  BY <1>3, <1>4
<1> HIDE DEF m
<1> DEFINE r == SubSeq(all, 1, m)
<1>6. r \in Seq(Entries) /\ Len(r) = m /\ DOMAIN r = 1..m /\ \A i \in 1..m : r[i] = all[i]
  BY <1>4, <1>5
<1> HIDE DEF r
<1>7. ASSUME NEW i \in 1..m, i # 1
      PROVE  i - 1 \in DOMAIN o /\ r[i] = o[i - 1]
             /\ \E j \in DOMAIN seqs : r[i] = seqs[j] /\ seqs[j].tab # b.tab
  <2>1. i \in 2..Len(o) + 1 /\ i - 1 \in 1..Len(o)
    BY <1>3, <1>4, <1>5, <1>7
  <2>2. r[i] = o[i - 1]
    BY <1>4, <1>6, <2>1
  <2>3. PICK j \in 1..Len(seqs) : o[i - 1] = seqs[j] /\ seqs[j].tab # b.tab
    BY <1>1, <1>3, <2>1 DEF Retains
  <2> QED
    BY <1>3, <2>1, <2>2, <2>3
<1>8. r[1] = e /\ 1 \in 1..m
  BY <1>4, <1>5, <1>6
<1>9. OneEach(r)
  <2> SUFFICES ASSUME NEW i \in 1..m, NEW j \in 1..m, r[i].tab = r[j].tab
               PROVE  i = j
    BY <1>6 DEF OneEach
  <2>1. CASE i = 1 /\ j = 1
    BY <2>1
  <2>2. CASE i = 1 /\ j # 1
    BY <1>3, <1>7, <1>8, <2>2
  <2>3. CASE i # 1 /\ j = 1
    BY <1>3, <1>7, <1>8, <2>3
  <2>4. CASE i # 1 /\ j # 1
    <3>1. i - 1 \in DOMAIN o /\ r[i] = o[i - 1] /\ j - 1 \in DOMAIN o /\ r[j] = o[j - 1]
      BY <1>7, <2>4
    <3>2. i - 1 = j - 1
      BY <1>1, <3>1 DEF Retains, OneEach
    <3> QED
      BY <1>5, <3>2
  <2> QED
    BY <2>1, <2>2, <2>3, <2>4
<1>10. Record(b) = r /\ Len(r) <= TabCap /\ e = [tab |-> b.tab, seq |-> b.seq]
  BY <1>2, <1>5, <1>6 DEF r, e
<1> QED
  BY <1>6, <1>7, <1>8, <1>9, <1>10

-----------------------------------------------------------------------------
(* The versions.                                                             *)

(* A version is appended; when the history is full the oldest one leaves.    *)
LEMMA Append1Is ==
  ASSUME NEW vs, VersionsOK(vs), NEW v \in VersionType
  PROVE  LET new == Append1(vs, v) IN
         /\ VersionsOK(new) /\ DOMAIN new = 1..Len(new) /\ Len(new) > 0 /\ new[Len(new)] = v
         /\ \E s \in {0, 1} : /\ Len(new) = Len(vs) + 1 - s /\ (s = 1 => Len(vs) = HistoryMax)
                             /\ \A i \in 1..Len(new) - 1 : new[i] = vs[i + s]
<1> DEFINE all == Append(vs, v)
           new == Append1(vs, v)
<1>1. vs \in Seq(VersionType) /\ Len(vs) \in Nat /\ Len(vs) <= HistoryMax /\ HistoryMax \in Nat /\ HistoryMax > 1
  BY BoundsAssumption DEF VersionsOK
<1>2. /\ all \in Seq(VersionType) /\ Len(all) = Len(vs) + 1 /\ all[Len(vs) + 1] = v
      /\ \A i \in 1..Len(vs) : all[i] = vs[i]
  BY <1>1, AppendProperties
<1> HIDE DEF all
<1>3. CASE Len(all) > HistoryMax
  <2>1. new = Tail(all) /\ Len(vs) = HistoryMax
    BY <1>1, <1>2, <1>3 DEF Append1, all
  <2>2. all # <<>>
    BY <1>1, <1>2
  <2>3. /\ Tail(all) \in Seq(VersionType) /\ Len(Tail(all)) = Len(vs)
        /\ \A i \in 1..Len(vs) : Tail(all)[i] = all[i + 1]
    BY <1>1, <1>2, <2>2, HeadTailProperties
  <2> HIDE DEF new
  <2>4. new \in Seq(VersionType) /\ Len(new) = Len(vs) /\ new[Len(new)] = v /\ Len(new) > 0
    BY <1>1, <1>2, <2>1, <2>3
  <2>5. \A i \in 1..Len(new) - 1 : new[i] = vs[i + 1]
    BY <1>1, <1>2, <2>1, <2>3, <2>4
  <2>6. Len(new) = Len(vs) + 1 - 1 /\ DOMAIN new = 1..Len(new)
    BY <1>1, <2>4
  <2> QED
    BY <1>1, <2>1, <2>4, <2>5, <2>6 DEF VersionsOK, new
<1>4. CASE ~(Len(all) > HistoryMax)
  <2>1. new = all
    BY <1>4 DEF Append1, all
  <2> HIDE DEF new
  <2>2. Len(new) = Len(vs) + 1 - 0 /\ DOMAIN new = 1..Len(new) /\ Len(new) <= HistoryMax /\ Len(new) > 0
    BY <1>1, <1>2, <1>4, <2>1
  <2>3. \A i \in 1..Len(new) - 1 : new[i] = vs[i + 0]
    BY <1>1, <1>2, <2>1, <2>2
  <2> QED
    BY <1>1, <1>2, <2>1, <2>2, <2>3 DEF VersionsOK, new
<1> QED
  BY <1>3, <1>4

LEMMA Append1Way ==
  ASSUME NEW vs, VersionsOK(vs), NEW v \in VersionType, NEW l, NEW k \in Nat,
         k + 1 < HistoryMax, WayBack(vs, l, k)
  PROVE  WayBack(Append1(vs, v), l, k + 1)
<1> DEFINE new == Append1(vs, v)
<1>1. PICK s \in {0, 1} : /\ DOMAIN new = 1..Len(new) /\ VersionsOK(new)
         /\ Len(new) = Len(vs) + 1 - s /\ (s = 1 => Len(vs) = HistoryMax)
         /\ \A i \in 1..Len(new) - 1 : new[i] = vs[i + s]
  BY Append1Is
<1>2. Len(vs) \in Nat /\ DOMAIN vs = 1..Len(vs) /\ HistoryMax \in Nat /\ Len(new) \in Nat
  BY <1>1, BoundsAssumption DEF VersionsOK
<1> HIDE DEF new
<1>3. PICK i \in 1..Len(vs) : i >= Len(vs) - k /\ vs[i].reason = "before-restore" /\ vs[i].desk = l
  BY <1>2 DEF WayBack
<1>4. i - s \in 1..Len(new) /\ i - s \in 1..Len(new) - 1 /\ i - s >= Len(new) - (k + 1) /\ (i - s) + s = i
  BY <1>1, <1>2, <1>3
<1>5. new[i - s] = vs[i]
  BY <1>1, <1>4
<1>6. i - s \in DOMAIN new
  BY <1>1, <1>4
<1>7. WayBack(new, l, k + 1)
  BY <1>3, <1>4, <1>5, <1>6 DEF WayBack
<1> QED
  BY <1>7 DEF new

LEMMA VersionIs ==
  ASSUME NEW d \in DeskType, NEW r \in {"change", "before-restore", "restore"}
  PROVE  Version(r, d) \in VersionType
  BY DeskFields DEF Version, VersionType

(* A write keeps the way back of a restore, at most two versions deeper.     *)
LEMMA CaptureIs ==
  ASSUME NEW vs, VersionsOK(vs), NEW before \in DeskType, NEW after \in DeskType
  PROVE  /\ VersionsOK(Capture(vs, before, after))
         /\ \A l : \A k \in Nat : k + 2 < HistoryMax /\ WayBack(vs, l, k)
                              => WayBack(Capture(vs, before, after), l, k + 2)
<1> DEFINE c == Capture(vs, before, after)
           v == Version("change", after)
           w == Version("change", before)
<1>1. /\ vs \in Seq(VersionType) /\ Len(vs) \in Nat /\ Len(vs) <= HistoryMax /\ HistoryMax \in Nat
      /\ DOMAIN vs = 1..Len(vs) /\ v \in VersionType /\ w \in VersionType
  BY VersionIs, BoundsAssumption DEF VersionsOK
<1>2. PICK base \in {vs, Append1(vs, w)} :
        \/ c = vs
        \/ vs # <<>> /\ Overwrites(vs) /\ c \in {Front(vs), [vs EXCEPT ![Len(vs)].desk = Layout(after)]}
        \/ c = Append1(base, v)
  BY DEF Capture, Overwrites
<1> HIDE DEF c, v, w
<1>len. Len(vs) \in Nat /\ HistoryMax \in Nat /\ Len(vs) <= HistoryMax
  BY <1>1
<1>dom. DOMAIN vs = 1..Len(vs)
  BY <1>1
<1>3. CASE c = vs
  <2>1. ASSUME NEW l, NEW k \in Nat, WayBack(vs, l, k) PROVE WayBack(c, l, k + 2)
    BY <1>1, <1>3, <2>1 DEF WayBack
  <2> QED
    BY <1>3, <2>1 DEF c
<1>4. CASE vs # <<>> /\ Overwrites(vs) /\ c \in {Front(vs), [vs EXCEPT ![Len(vs)].desk = Layout(after)]}
  <2>1. Len(vs) > 0 /\ vs[Len(vs)].reason # "before-restore" /\ vs[Len(vs)] \in VersionType
    BY <1>1, <1>4 DEF Overwrites, Last
  <2>2. /\ c \in Seq(VersionType) /\ Len(c) \in {Len(vs) - 1, Len(vs)} /\ DOMAIN c = 1..Len(c)
        /\ \A i \in 1..Len(vs) - 1 : c[i] = vs[i]
    <3>1. CASE c = Front(vs)
      <4>1. c = SubSeq(vs, 1, Len(vs) - 1)
        BY <3>1 DEF Front
      <4>2. Len(vs) - 1 \in Nat
        BY <1>1, <2>1
      <4> QED
        BY <1>1, <2>1, <4>1, <4>2
    <3>2. CASE c = [vs EXCEPT ![Len(vs)].desk = Layout(after)]
      <4> DEFINE x == [vs[Len(vs)] EXCEPT !.desk = Layout(after)]
      <4>1. x \in VersionType
        BY <2>1, DeskFields DEF VersionType
      <4>2. c = [vs EXCEPT ![Len(vs)] = x]
        BY <3>2
      <4> HIDE DEF x
      <4> QED
        BY <1>1, <2>1, <4>1, <4>2
    <3> QED
      BY <1>4, <3>1, <3>2
  <2>3. PICK m \in {Len(vs) - 1, Len(vs)} : Len(c) = m
    BY <2>2
  <2>4. m \in Nat /\ m <= HistoryMax /\ Len(vs) - 1 <= m /\ m <= Len(vs)
    BY <1>len, <2>1, <2>3
  <2>5. VersionsOK(c)
    BY <2>2, <2>3, <2>4 DEF VersionsOK
  <2>6. ASSUME NEW l, NEW k \in Nat, WayBack(vs, l, k) PROVE WayBack(c, l, k + 2)
    <3>1. PICK i \in 1..Len(vs) : i >= Len(vs) - k /\ vs[i].reason = "before-restore" /\ vs[i].desk = l
      BY <1>1, <2>6 DEF WayBack
    <3>2. i \in 1..Len(vs) - 1
      BY <1>len, <2>1, <3>1
    <3>3. i \in 1..m /\ i >= m - (k + 2)
      BY <1>len, <2>4, <3>1, <3>2
    <3> QED
      BY <2>2, <2>3, <3>1, <3>2, <3>3 DEF WayBack
  <2> QED
    BY <2>5, <2>6 DEF c
<1>5. CASE c = Append1(base, v)
  <2>1. VersionsOK(base)
    <3>1. w \in VersionType
      BY <1>1
    <3>2. VersionsOK(Append1(vs, w))
      BY <3>1, Append1Is
    <3> QED
      BY <3>2
  <2>2. VersionsOK(c)
    BY <1>1, <1>5, <2>1, Append1Is
  <2>3. ASSUME NEW l, NEW k \in Nat, k + 2 < HistoryMax, WayBack(vs, l, k) PROVE WayBack(c, l, k + 2)
    <3>1. k + 1 \in Nat /\ k + 1 < HistoryMax /\ (k + 1) + 1 = k + 2 /\ (k + 1) + 1 < HistoryMax
      BY <1>1, <2>3
    <3>2. WayBack(base, l, k + 1)
      <4>1. CASE base = vs
        BY <1>1, <2>3, <4>1 DEF WayBack
      <4>2. CASE base = Append1(vs, w)
        BY <1>1, <2>3, <3>1, <4>2, Append1Way
      <4> QED
        BY <4>1, <4>2
    <3>3. WayBack(c, l, (k + 1) + 1)
      BY <1>1, <1>5, <2>1, <3>1, <3>2, Append1Way
    <3> QED
      BY <3>1, <3>3
  <2> QED
    BY <2>2, <2>3 DEF c
<1> QED
  BY <1>2, <1>3, <1>4, <1>5

(* A restored layout is made of the records of the version and the desk.     *)
LEMMA RestoredIs ==
  ASSUME NEW d \in DeskType, NEW v \in Layouts
  PROVE  Restored(d, v) \in RecsType
<1>1. d.recs \in RecsType /\ v.recs \in RecsType
  BY DeskFields DEF Layouts, RecsType
<1>2. ASSUME NEW r \in Records PROVE Restored(d, v)[r] \in Recs \cup {Absent}
  <2> DEFINE from == {x \in Records : Has(v, x) /\ Onto(d, v, x) = r}
             x == CHOOSE y \in from : TRUE
  <2>1. CASE from # {}
    <3>1. x \in from
      BY <2>1
    <3>2. x \in Records /\ Has(v, x)
      BY <3>1
    <3>3. v.recs[x] \in Recs
      BY <1>1, <3>2 DEF Has, RecsType
    <3>4. Has(d, r) => d.recs[r] \in Recs
      BY <1>1 DEF Has, RecsType
    <3>5. Restored(d, v)[r] = [place |-> v.recs[x].place,
             session |-> IF Has(d, r) THEN d.recs[r].session ELSE v.recs[x].session]
      BY <2>1 DEF Restored
    <3> HIDE DEF x, from
    <3> QED
      BY <3>3, <3>4, <3>5 DEF Recs
  <2>2. CASE from = {}
    <3>1. Restored(d, v)[r] \in {d.recs[r], Absent}
      BY <2>2 DEF Restored
    <3> QED
      BY <1>1, <3>1 DEF RecsType
  <2> QED
    BY <2>1, <2>2
<1> QED
  BY <1>2 DEF Restored, RecsType

LEMMA PrunedIs ==
  ASSUME NEW d, NEW recs \in RecsType, NEW e \in Pruned(d, recs)
  PROVE  e \in RecsType
<1>1. PICK keep \in SUBSET Records : e = [r \in Records |-> IF r \in keep THEN recs[r] ELSE Absent]
  BY DEF Pruned
<1> QED
  BY <1>1 DEF RecsType

-----------------------------------------------------------------------------
(* The page.                                                                 *)

LEMMA PageFields ==
  ASSUME NEW p \in PageType
  PROVE  /\ p.phase \in {"new", "loading", "ready", "failed", "gone"} /\ p.rev \in Nat \cup {-1}
         /\ p.gen \in -1..MaxGen /\ p.server \in Layouts /\ p.pending \in Seq(Changes)
         /\ p.seq \in Nat /\ p.inflight \in Nat /\ p.loaded \in BOOLEAN
  BY DEF PageType

LEMMA EmptyIs == Empty \in Layouts
  BY DEF Empty, Layouts

LEMMA FreshPages ==
  /\ PageOK(Gone) /\ Gone.gen = -1 /\ PageOK(NewPage) /\ NewPage.gen = -1
  /\ PageOK(OldPage) /\ OldPage.gen = 0 /\ OldPage.rev = 1 /\ OldPage.server = FirstLayout
<1>1. -1 \in -1..MaxGen /\ 0 \in -1..MaxGen /\ <<>> \in Seq(Changes) /\ Len(<<>>) = 0
  BY BoundsAssumption
<1>2. NewPage \in PageType /\ Gone \in PageType /\ OldPage \in PageType
  BY <1>1, EmptyIs, DataAssumption DEF NewPage, Gone, OldPage, PageType
<1> QED
  BY <1>1, <1>2 DEF NewPage, Gone, OldPage, PageOK

(* take: the page reloads, stays, or holds the desk it was given.            *)
LEMMA TakeIs ==
  ASSUME NEW p, PageOK(p), NEW d \in DeskType
  PROVE  /\ PageOK(Take(p, d))
         /\ \/ Take(p, d) \in {Gone, p}
            \/ /\ Take(p, d).gen = d.gen /\ Take(p, d).rev = d.rev /\ Take(p, d).server = Layout(d)
               /\ Take(p, d).pending = p.pending /\ Take(p, d).inflight = p.inflight
               /\ Take(p, d).seq = p.seq /\ Take(p, d).phase = "ready" /\ (p.gen = -1 \/ d.gen <= p.gen)
<1> DEFINE q == [p EXCEPT !.rev = d.rev, !.gen = d.gen, !.server = Layout(d), !.phase = "ready"]
<1>1. p \in PageType /\ d.gen \in -1..MaxGen /\ d.gen # -1 /\ d.rev \in Nat /\ Layout(d) \in Layouts
      /\ p.gen \in -1..MaxGen /\ MaxGen \in Nat /\ p.inflight <= Len(p.pending)
  BY DeskFields, PageFields, BoundsAssumption DEF PageOK
<1>2. /\ q \in PageType /\ q.gen = d.gen /\ q.rev = d.rev /\ q.server = Layout(d) /\ q.phase = "ready"
      /\ q.pending = p.pending /\ q.inflight = p.inflight /\ q.seq = p.seq
  BY <1>1 DEF PageType
<1> HIDE DEF q
<1>3. PageOK(q)
  BY <1>1, <1>2 DEF PageOK
<1>4. Take(p, d) = IF p.gen # -1 /\ d.gen > p.gen THEN Gone ELSE IF d.rev < p.rev THEN p ELSE q
  BY DEF Take, q
<1>5. p.gen = -1 \/ d.gen > p.gen \/ d.gen <= p.gen
  BY <1>1
<1> HIDE DEF q
<1> QED
  BY <1>2, <1>3, <1>4, <1>5, FreshPages

LEMMA TakeHeld ==
  ASSUME NEW p, PageOK(p), NEW d \in DeskType, NEW e \in DeskType,
         PageHeld(e, p), Was(e, d.gen, d.rev, Layout(d))
  PROVE  PageHeld(e, Take(p, d))
<1>1. PageHeld(e, Gone)
  BY FreshPages, DeskFields DEF PageHeld, Was
<1> QED
  BY <1>1, TakeIs DEF PageHeld

LEMMA AckedIs ==
  ASSUME NEW p, PageOK(p)
  PROVE  LET q == Acked(p) IN
         /\ PageOK(q) /\ q.gen = p.gen /\ q.rev = p.rev /\ q.server = p.server /\ q.phase = p.phase
         /\ q.seq = p.seq /\ q.inflight = 0
         /\ q.pending = SubSeq(p.pending, p.inflight + 1, Len(p.pending))
<1> DEFINE rest == SubSeq(p.pending, p.inflight + 1, Len(p.pending))
<1>1. p \in PageType /\ p.pending \in Seq(Changes) /\ p.inflight \in Nat /\ Len(p.pending) \in Nat
      /\ p.inflight <= Len(p.pending) /\ (p.phase = "ready" => p.gen # -1)
  BY PageFields DEF PageOK
<1>2. rest \in Seq(Changes) /\ Len(rest) \in Nat
  BY <1>1
<1> HIDE DEF rest
<1> DEFINE q == [p EXCEPT !.pending = rest, !.inflight = 0]
<1>3. /\ q \in PageType /\ q.gen = p.gen /\ q.rev = p.rev /\ q.server = p.server
      /\ q.phase = p.phase /\ q.seq = p.seq /\ q.inflight = 0 /\ q.pending = rest
  BY <1>1, <1>2 DEF PageType
<1>4. Acked(p) = q
  BY <1>1 DEF Acked, rest, PageType
<1> HIDE DEF q
<1>5. q.inflight <= Len(q.pending)
  BY <1>2, <1>3
<1>6. PageOK(q)
  BY <1>1, <1>3, <1>5 DEF PageOK
<1> QED
  BY <1>3, <1>4, <1>6 DEF rest

LEMMA FailedIs ==
  ASSUME NEW p, PageOK(p)
  PROVE  LET q == Failed(p) IN
         /\ PageOK(q) /\ q.gen = p.gen /\ q.rev = p.rev /\ q.server = p.server /\ q.phase = "failed"
         /\ q.seq = p.seq /\ q.inflight = p.inflight /\ q.pending = p.pending
  BY DEF Failed, PageOK, PageType

LEMMA PutFields ==
  ASSUME NEW u \in PutType
  PROVE  /\ u.at \in {"idle", "going", "answered"} /\ (u.at = "idle" <=> u = Idle)
         /\ (u.at # "idle" => u.body \in BodyType)
         /\ (u.at = "answered" => u.reply \in Replies)
         /\ (u.at = "going" => u.reply = None)
  BY DEF PutType, Idle

LEMMA AnswerFields ==
  ASSUME NEW a \in Replies
  PROVE  /\ a.kind \in {"ok", "unreadable", "failed", "restored", "refused", "network"}
         /\ (a.kind = "ok" => a.desk \in DeskType)
         /\ (a.kind \in {"ok", "unreadable"} => a \in Answers)
  BY DEF Replies, Answers

LEMMA HeardIs ==
  /\ \A k \in {"unreadable", "failed", "restored", "refused", "network"} : Heard(k) \in Replies /\ Heard(k).kind = k
  /\ Heard("unreadable") \in Answers
  /\ \A d \in DeskType : HeardDesk(d) \in Answers /\ HeardDesk(d).desk = d /\ HeardDesk(d).kind = "ok"
  BY DEF Heard, HeardDesk, Replies, Answers

LEMMA ReadFields ==
  ASSUME NEW r \in ReadType
  PROVE  r.asked \in Nat /\ r.answers \subseteq Answers
  BY DEF ReadType

LEMMA BodyFields ==
  ASSUME NEW b \in BodyType
  PROVE  b.tab \in Tabs /\ b.seq \in Nat /\ b.gen \in Ats /\ b.changes \in Seq(Changes)
  BY DEF BodyType

LEMMA NoneIsNoBody == None \notin BodyType
  BY DataAssumption DEF BodyType

-----------------------------------------------------------------------------
(* PUT /api/desk.                                                            *)

LEMMA WithRev ==
  ASSUME NEW d \in DeskType, NEW r \in Nat
  PROVE  LET e == [d EXCEPT !.rev = r] IN
         e \in DeskType /\ e.gen = d.gen /\ e.rev = r /\ e.recs = d.recs /\ e.pick = d.pick
  BY DEF DeskType

(* What may come of a body: it is written, its number is recorded and its    *)
(* changes are applied, or nothing changes.                                  *)
LEMMA OutcomeIs ==
  ASSUME DaemonShape, NEW b \in BodyType, NEW o \in PutRoute(b)
  PROVE  /\ o.desk \in DeskType /\ o.desk.gen = desk.gen
         /\ (o.desk = desk \/ o.desk.rev = desk.rev + 1)
         /\ SeqsOK(o.seqs) /\ VersionsOK(o.versions)
         /\ \A l : \A k \in Nat : k + 2 < HistoryMax /\ WayBack(versions, l, k)
                              => WayBack(o.versions, l, k + 2)
         /\ o.reply \in Replies /\ (o.reply.kind = "ok" => o.reply.desk = o.desk)
         /\ o.reply.kind # "network" /\ o.changed \in BOOLEAN /\ o.fault \in {0, 1}
         /\ \/ o.changes = <<>> /\ o.seqs = seqs /\ (o.reply.kind = "ok" => IsOld(b))
            \/ o.changes = b.changes /\ o.seqs = Record(b) /\ Fresh(b) /\ o.reply.kind = "ok"
<1> DEFINE done == Apply(desk, b.changes)
           after == [done EXCEPT !.rev = desk.rev + 1]
<1>1. /\ desk \in DeskType /\ desk.rev \in Nat /\ desk.rev + 1 \in Nat /\ seqs \in Seq(Entries) /\ OneEach(seqs)
      /\ b.tab \in Tabs /\ b.seq \in Nat /\ b.changes \in Seq(Changes) /\ b.gen \in Ats
      /\ desk.gen \in Nat
  BY DeskFields, BodyFields, BoundsAssumption DEF DaemonShape, SeqsOK
<1>2. done \in DeskType /\ done.gen = desk.gen
  BY <1>1, ApplyIs
<1> HIDE DEF done
<1>3. after \in DeskType /\ after.gen = desk.gen /\ after.rev = desk.rev + 1
  BY <1>1, <1>2, WithRev
<1> HIDE DEF after
<1>4. SeqsOK(seqs) /\ VersionsOK(versions) /\ SeqsOK(Record(b))
  <2>1. SeqsOK(Record(b))
    BY <1>1, RecordIs DEF SeqsOK
  <2> QED
    BY <2>1 DEF DaemonShape
<1>5. /\ Heard("unreadable") \in Replies /\ Heard("unreadable").kind = "unreadable"
      /\ Heard("restored") \in Replies /\ Heard("restored").kind = "restored"
      /\ Heard("failed") \in Replies /\ Heard("failed").kind = "failed"
  BY HeardIs
<1>6. /\ HeardDesk(desk) \in Replies /\ HeardDesk(desk).desk = desk /\ HeardDesk(desk).kind = "ok"
      /\ HeardDesk(after) \in Replies /\ HeardDesk(after).desk = after /\ HeardDesk(after).kind = "ok"
  BY <1>1, <1>3, HeardIs DEF Replies
<1>7. \A l : \A k \in Nat : k + 2 < HistoryMax /\ WayBack(versions, l, k) => WayBack(versions, l, k + 2)
  <2> SUFFICES ASSUME NEW l, NEW k \in Nat, WayBack(versions, l, k) PROVE WayBack(versions, l, k + 2)
    OBVIOUS
  <2>1. Len(versions) \in Nat /\ DOMAIN versions = 1..Len(versions)
    BY <1>4 DEF VersionsOK
  <2> QED
    BY <2>1 DEF WayBack
<1> DEFINE captured == Capture(versions, desk, after)
<1>8. /\ VersionsOK(captured)
      /\ \A l : \A k \in Nat : k + 2 < HistoryMax /\ WayBack(versions, l, k)
                           => WayBack(captured, l, k + 2)
  BY <1>1, <1>3, <1>4, CaptureIs
<1> HIDE DEF captured
<1>9. \/ o \in {Stays(Heard("unreadable")), Stays(Heard("restored"))}
      \/ o = Stays(HeardDesk(desk)) /\ IsOld(b)
      \/ o = [Stays(HeardDesk(desk)) EXCEPT !.seqs = Record(b), !.changes = b.changes] /\ Fresh(b)
      \/ o = Unsaved(b)
      \/ o \in {Changed(b, after, versions, 1), Changed(b, after, captured, 0)} /\ Fresh(b)
  <2>1. CASE file = "damaged"
    BY <2>1 DEF PutRoute
  <2>2. CASE file # "damaged" /\ b.gen < desk.gen
    BY <2>2 DEF PutRoute
  <2>3. CASE file # "damaged" /\ ~(b.gen < desk.gen) /\ ~Fresh(b)
    <3>1. o = Stays(HeardDesk(desk))
      BY <2>3 DEF PutRoute
    <3>2. b.gen >= desk.gen
      BY <1>1, <2>3 DEF Ats
    <3> QED
      BY <2>3, <3>1, <3>2 DEF Fresh
  <2>4. CASE file # "damaged" /\ ~(b.gen < desk.gen) /\ Fresh(b)
    <3>1. o \in {[Stays(HeardDesk(desk)) EXCEPT !.seqs = Record(b), !.changes = b.changes],
                Unsaved(b), Changed(b, after, versions, 1), Changed(b, after, captured, 0)}
      BY <2>4 DEF PutRoute, after, done, captured
    <3> QED
      BY <2>4, <3>1
  <2> QED
    BY <2>1, <2>2, <2>3, <2>4
<1>10. CASE o \in {Stays(Heard("unreadable")), Stays(Heard("restored"))}
  <2>1. PICK h \in {Heard("unreadable"), Heard("restored")} : o = Stays(h)
    BY <1>10
  <2>2. h \in Replies /\ h.kind \in {"unreadable", "restored"}
    BY <1>5
  <2> QED
    BY <1>1, <1>4, <1>7, <2>1, <2>2 DEF Stays
<1>11. CASE o = Stays(HeardDesk(desk)) /\ IsOld(b)
  BY <1>1, <1>4, <1>6, <1>7, <1>11 DEF Stays
<1>12. CASE o = [Stays(HeardDesk(desk)) EXCEPT !.seqs = Record(b), !.changes = b.changes] /\ Fresh(b)
  BY <1>1, <1>4, <1>6, <1>7, <1>12 DEF Stays
<1>13. CASE o = Unsaved(b)
  BY <1>1, <1>4, <1>5, <1>7, <1>13 DEF Unsaved, Stays
<1>14. CASE o \in {Changed(b, after, versions, 1), Changed(b, after, captured, 0)} /\ Fresh(b)
  <2>1. PICK vs \in {versions, captured}, f \in {0, 1} : o = Changed(b, after, vs, f)
    BY <1>14
  <2>2. VersionsOK(vs) /\ \A l : \A k \in Nat : k + 2 < HistoryMax /\ WayBack(versions, l, k)
                                           => WayBack(vs, l, k + 2)
    BY <1>4, <1>7, <1>8
  <2> QED
    BY <1>3, <1>4, <1>6, <1>14, <2>1, <2>2 DEF Changed
<1> QED
  BY <1>9, <1>10, <1>11, <1>12, <1>13, <1>14

-----------------------------------------------------------------------------
(* What a step leaves as it was.                                             *)

(* Desk e is d, or was stored after it.                                      *)
Later(d, e) == e = d \/ d.gen < e.gen \/ (d.gen = e.gen /\ d.rev < e.rev)

LEMMA WasLater ==
  ASSUME NEW d \in DeskType, NEW e \in DeskType, Later(d, e), NEW gen \in Int, NEW rev \in Int,
         NEW layout, Was(d, gen, rev, layout)
  PROVE  Was(e, gen, rev, layout)
<1>1. d.gen \in Int /\ d.rev \in Int /\ e.gen \in Int /\ e.rev \in Int
  BY DeskFields, BoundsAssumption
<1> QED
  BY <1>1 DEF Was, Later

LEMMA HeldLater ==
  ASSUME NEW d \in DeskType, NEW e \in DeskType, Later(d, e)
  PROVE  /\ \A p \in PageType : PageHeld(d, p) => PageHeld(e, p)
         /\ \A a \in Replies : AnswerHeld(d, a) => AnswerHeld(e, a)
         /\ \A u \in PutType : PutHeld(d, u) => PutHeld(e, u)
         /\ \A r \in ReadType : ReadHeld(d, r) => ReadHeld(e, r)
<1>1. ASSUME NEW p \in PageType, PageHeld(d, p) PROVE PageHeld(e, p)
  <2>1. p.gen \in Int /\ p.rev \in Int
    BY PageFields, BoundsAssumption
  <2> QED
    BY <1>1, <2>1, WasLater DEF PageHeld
<1>2. ASSUME NEW a \in Replies, AnswerHeld(d, a) PROVE AnswerHeld(e, a)
  <2> SUFFICES ASSUME a.kind = "ok" PROVE Was(e, a.desk.gen, a.desk.rev, Layout(a.desk))
    BY DEF AnswerHeld
  <2>1. a.desk.gen \in Int /\ a.desk.rev \in Int
    BY AnswerFields, DeskFields, BoundsAssumption
  <2> QED
    BY <1>2, <2>1, WasLater DEF AnswerHeld
<1>3. ASSUME NEW u \in PutType, PutHeld(d, u) PROVE PutHeld(e, u)
  BY <1>2, <1>3, PutFields DEF PutHeld
<1>4. ASSUME NEW r \in ReadType, ReadHeld(d, r) PROVE ReadHeld(e, r)
  BY <1>2, <1>4, ReadFields DEF ReadHeld, Replies
<1> QED
  BY <1>1, <1>2, <1>3, <1>4

(* Whoever a step does not concern still holds what it held.                 *)
LEMMA HeldMoves ==
  ASSUME Shape, Held, desk' \in DeskType, (fellBack => fellBack'), fellBack' \/ Later(desk, desk'),
         \A t \in Tabs : page'[t] = page[t] \/ PageHeld(desk', page'[t]),
         \A t \in Tabs : put'[t] = put[t] \/ PutHeld(desk', put'[t]),
         \A t \in Tabs : reads'[t] = reads[t] \/ ReadHeld(desk', reads'[t])
  PROVE  Held'
<1> SUFFICES ASSUME ~fellBack', ~fellBack, NEW t \in Tabs
             PROVE  PageHeld(desk', page'[t]) /\ PutHeld(desk', put'[t]) /\ ReadHeld(desk', reads'[t])
  BY DEF Held, PageHeld, PutHeld, ReadHeld, AnswerHeld, Was
<1>1. desk \in DeskType /\ page[t] \in PageType /\ put[t] \in PutType /\ reads[t] \in ReadType
  BY DEF Shape, DaemonShape, PageShape, WireShape
<1>2. PageHeld(desk, page[t]) /\ PutHeld(desk, put[t]) /\ ReadHeld(desk, reads[t])
  BY DEF Held
<1>3. PageHeld(desk', page[t])
  BY <1>1, <1>2, HeldLater
<1>4. PutHeld(desk', put[t])
  BY <1>1, <1>2, HeldLater
<1>5. ReadHeld(desk', reads[t])
  BY <1>1, <1>2, HeldLater
<1>6. PageHeld(desk', page'[t])
  <2>1. page'[t] = page[t] \/ PageHeld(desk', page'[t])
    OBVIOUS
  <2> QED
    BY <1>3, <2>1
<1>7. PutHeld(desk', put'[t])
  <2>1. put'[t] = put[t] \/ PutHeld(desk', put'[t])
    OBVIOUS
  <2> QED
    BY <1>4, <2>1
<1>8. ReadHeld(desk', reads'[t])
  <2>1. reads'[t] = reads[t] \/ ReadHeld(desk', reads'[t])
    OBVIOUS
  <2> QED
    BY <1>5, <2>1
<1> QED
  BY <1>6, <1>7, <1>8

LEMMA DaemonSame ==
  ASSUME Shape, Way, UNCHANGED daemon
  PROVE  DaemonShape' /\ desk' \in DeskType /\ Later(desk, desk') /\ (UNCHANGED wayBack => Way')
<1>1. desk' = desk /\ file' = file /\ seqs' = seqs /\ versions' = versions
  BY DEF daemon
<1>2. DaemonShape'
  BY <1>1 DEF Shape, DaemonShape, SeqsOK, VersionsOK, OneEach
<1>3. ASSUME UNCHANGED wayBack PROVE Way'
  BY <1>1, <1>3 DEF Way, WayBack
<1> QED
  BY <1>1, <1>2, <1>3 DEF Later, DaemonShape

LEMMA PageSame ==
  ASSUME Shape, UNCHANGED page
  PROVE  PageShape'
  BY DEF Shape, PageShape, PageOK

LEMMA PageMoves ==
  ASSUME Shape, NEW t \in Tabs, NEW p, PageOK(p), page' = [page EXCEPT ![t] = p]
  PROVE  PageShape' /\ page'[t] = p /\ \A x \in Tabs : x # t => page'[x] = page[x]
<1>1. page \in [Tabs -> PageType] /\ p \in PageType /\ \A x \in Tabs : PageOK(page[x])
  BY DEF Shape, PageShape, PageOK
<1>2. page' \in [Tabs -> PageType] /\ page'[t] = p /\ \A x \in Tabs : x # t => page'[x] = page[x]
  BY <1>1
<1>3. \A x \in Tabs : PageOK(page'[x])
  BY <1>1, <1>2
<1> QED
  BY <1>2, <1>3 DEF PageShape, PageOK

LEMMA WireFields ==
  ASSUME Shape
  PROVE  /\ put \in [Tabs -> PutType] /\ stray \subseteq BodyType
         /\ last \in [Tabs -> BodyType \cup {None}] /\ reads \in [Tabs -> ReadType]
         /\ hears \in [Tabs -> {"first", "open", "down"}] /\ dirty \subseteq Tabs
         /\ build \in [Tabs -> {"same", "other", "held"}]
  BY DEF Shape, WireShape

LEMMA GhostFields ==
  ASSUME Shape
  PROVE  /\ upsets \in 0..MaxUpsets /\ author \in [Numbers -> Tabs \cup {None}]
         /\ applied \in [Numbers -> Nat] /\ again \subseteq Numbers /\ forgot \in BOOLEAN
         /\ missed \subseteq Tabs /\ wayBack \in [desk : Layouts \cup {None}, since : Nat]
         /\ upsets \in Nat /\ MaxUpsets \in Nat /\ desk.gen \in Nat
  BY DeskFields, BoundsAssumption DEF Shape, DaemonShape, GhostShape

LEMMA Upsets ==
  ASSUME Shape, NEW k \in {0, 1}, Upset(k)
  PROVE  upsets' \in 0..MaxUpsets /\ upsets' = upsets + k /\ upsets <= upsets'
  BY GhostFields DEF Upset

LEMMA PushIs ==
  ASSUME Shape, NEW x
  PROVE  Push(x) \subseteq Tabs /\ Unheard(x) \subseteq Tabs
  BY WireFields, GhostFields DEF Push, Unheard, OpenTabs

-----------------------------------------------------------------------------
(* The steps.                                                                *)

LEMMA LandIs ==
  ASSUME Shape, Way, NEW b \in BodyType, NEW o \in PutRoute(b), Land(b, o)
  PROVE  /\ DaemonShape' /\ GhostShape' /\ dirty' \subseteq Tabs /\ Way'
         /\ desk' \in DeskType /\ Later(desk, desk') /\ o.reply \in Replies /\ AnswerHeld(desk', o.reply)
         /\ fellBack' = fellBack /\ build' = build
<1>1. /\ Upset(o.fault) /\ desk' = o.desk /\ seqs' = o.seqs /\ versions' = o.versions
      /\ file' = file /\ build' = build /\ fellBack' = fellBack /\ author' = author /\ again' = again /\ forgot' = forgot
      /\ dirty' \in {Push(b.tab), dirty} /\ missed' \in {Unheard(b.tab), missed}
      /\ wayBack' = [wayBack EXCEPT !.since = @ + (IF o.versions # versions THEN 2 ELSE 0)]
      /\ applied' = [n \in Numbers |->
                       applied[n] + Cardinality({i \in DOMAIN o.changes : o.changes[i].n = n})]
  BY DEF Land
<1>2. DaemonShape
  BY DEF Shape
<1>3. /\ o.desk \in DeskType /\ o.desk.gen = desk.gen /\ (o.desk = desk \/ o.desk.rev = desk.rev + 1)
      /\ SeqsOK(o.seqs) /\ VersionsOK(o.versions)
      /\ \A l : \A k \in Nat : k + 2 < HistoryMax /\ WayBack(versions, l, k)
                           => WayBack(o.versions, l, k + 2)
      /\ o.reply \in Replies /\ (o.reply.kind = "ok" => o.reply.desk = o.desk) /\ o.fault \in {0, 1}
      /\ o.changes \in {<<>>, b.changes}
  BY <1>2, OutcomeIs
<1>4. DaemonShape'
  BY <1>1, <1>2, <1>3 DEF DaemonShape, SeqsOK, VersionsOK, OneEach
<1>5. upsets' \in 0..MaxUpsets /\ upsets <= upsets' /\ upsets' \in Nat
  BY <1>1, <1>3, Upsets, GhostFields
<1>7. applied' \in [Numbers -> Nat]
  <2>1. ASSUME NEW n \in Numbers
        PROVE  Cardinality({i \in DOMAIN o.changes : o.changes[i].n = n}) \in Nat
    <3>1. o.changes \in Seq(Changes)
      <4>1. b.changes \in Seq(Changes) /\ <<>> \in Seq(Changes)
        BY BodyFields
      <4> QED
        BY <1>3, <4>1
    <3>2. DOMAIN o.changes = 1..Len(o.changes) /\ Len(o.changes) \in Nat
      BY <3>1
    <3>3. IsFiniteSet(1..Len(o.changes))
      BY <3>2, FS_Interval
    <3>4. {i \in DOMAIN o.changes : o.changes[i].n = n} \subseteq 1..Len(o.changes)
      BY <3>2
    <3> QED
      BY <3>3, <3>4, FS_Subset, FS_CardinalityType
  <2>2. applied \in [Numbers -> Nat]
    BY GhostFields
  <2> QED
    BY <1>1, <2>1, <2>2
<1>8. /\ wayBack'.desk = wayBack.desk /\ wayBack.since \in Nat /\ wayBack.desk \in Layouts \cup {None}
      /\ wayBack' \in [desk : Layouts \cup {None}, since : Nat]
      /\ wayBack'.since = wayBack.since + (IF o.versions # versions THEN 2 ELSE 0)
  <2>1. wayBack \in [desk : Layouts \cup {None}, since : Nat]
    BY GhostFields
  <2> DEFINE k == IF o.versions # versions THEN 2 ELSE 0
  <2>2. k \in Nat
    OBVIOUS
  <2>3. wayBack' = [wayBack EXCEPT !.since = @ + k]
    BY <1>1
  <2> HIDE DEF k
  <2>4. /\ wayBack'.desk = wayBack.desk /\ wayBack'.since = wayBack.since + k
        /\ wayBack' \in [desk : Layouts \cup {None}, since : Nat]
    BY <2>1, <2>2, <2>3
  <2> QED
    BY <2>1, <2>4 DEF k
<1>9. GhostShape'
  <2>1. missed' \subseteq Tabs
    BY <1>1, PushIs, GhostFields
  <2> QED
    BY <1>1, <1>5, <1>7, <1>8, <2>1, GhostFields DEF GhostShape
<1>10. Way'
  <2> SUFFICES ASSUME wayBack'.desk # None, wayBack'.since < HistoryMax
               PROVE  WayBack(versions', wayBack'.desk, wayBack'.since)
    BY DEF Way, WayBack
  <2>0. HistoryMax \in Nat
    BY BoundsAssumption
  <2>1. wayBack.since < HistoryMax
    BY <1>8, <2>0
  <2>2. WayBack(versions, wayBack.desk, wayBack.since)
    BY <1>8, <2>1 DEF Way
  <2>3. CASE o.versions = versions
    <3>1. wayBack'.since = wayBack.since
      BY <1>8, <2>3
    <3> QED
      BY <1>1, <1>8, <2>2, <2>3, <3>1
  <2>4. CASE o.versions # versions
    <3>1. wayBack'.since = wayBack.since + 2
      BY <1>8, <2>4
    <3> QED
      BY <1>1, <1>3, <1>8, <2>2, <3>1
  <2> QED
    BY <2>3, <2>4
<1>11. Later(desk, desk')
  <2>1. desk.rev \in Nat
    BY <1>2, DeskFields DEF DaemonShape
  <2> QED
    BY <1>1, <1>3, <2>1 DEF Later
<1>12. AnswerHeld(desk', o.reply)
  BY <1>1, <1>3 DEF AnswerHeld, Was
<1>13. dirty' \subseteq Tabs
  BY <1>1, PushIs, WireFields
<1> QED
  BY <1>1, <1>3, <1>4, <1>9, <1>10, <1>11, <1>12, <1>13

(* The desk, the way back and the history the properties read are untouched. *)
LEMMA GhostSame ==
  ASSUME Shape, UNCHANGED <<author, applied, again, forgot, wayBack>>,
         upsets' \in 0..MaxUpsets, missed' \subseteq Tabs
  PROVE  GhostShape'
  BY DEF Shape, GhostShape

(* A step that leaves the daemon alone: what is left to show of it.          *)
LEMMA AsideFromDaemon ==
  ASSUME IInv, UNCHANGED daemon, UNCHANGED <<wayBack, fellBack>>, PageShape', WireShape', GhostShape',
         upsets' \in Nat, upsets <= upsets',
         \A t \in Tabs : page'[t] = page[t] \/ PageHeld(desk', page'[t]),
         \A t \in Tabs : put'[t] = put[t] \/ PutHeld(desk', put'[t]),
         \A t \in Tabs : reads'[t] = reads[t] \/ ReadHeld(desk', reads'[t])
  PROVE  IInv'
<1>1. Shape /\ Held /\ Way
  BY DEF IInv
<1>2. DaemonShape' /\ desk' \in DeskType /\ Later(desk, desk') /\ Way'
  BY <1>1, DaemonSame
<1>4. Held'
  BY <1>1, <1>2, HeldMoves
<1> QED
  BY <1>2, <1>4 DEF IInv, Shape

LEMMA ReadMoves ==
  ASSUME Shape, NEW t \in Tabs, NEW r \in ReadType, reads' = [reads EXCEPT ![t] = r]
  PROVE  /\ reads' \in [Tabs -> ReadType] /\ reads'[t] = r
         /\ \A x \in Tabs : x # t => reads'[x] = reads[x]
  BY WireFields

LEMMA AskMoves ==
  ASSUME Shape, Held, NEW t \in Tabs, reads' = Ask(t), desk' = desk
  PROVE  /\ reads' \in [Tabs -> ReadType]
         /\ \A x \in Tabs : reads'[x] = reads[x] \/ ReadHeld(desk', reads'[x])
<1> DEFINE r == [reads[t] EXCEPT !.asked = @ + 1]
<1>1. reads \in [Tabs -> ReadType] /\ reads[t] \in ReadType
  BY WireFields
<1>2. r \in ReadType /\ r.answers = reads[t].answers
  BY <1>1 DEF ReadType
<1>3. reads' = [reads EXCEPT ![t] = r]
  BY <1>1 DEF Ask
<1> HIDE DEF r
<1>4. /\ reads' \in [Tabs -> ReadType] /\ reads'[t] = r
      /\ \A x \in Tabs : x # t => reads'[x] = reads[x]
  BY <1>2, <1>3, ReadMoves
<1>5. ReadHeld(desk', r)
  BY <1>2 DEF Held, ReadHeld
<1> QED
  BY <1>4, <1>5

LEMMA PutMoves ==
  ASSUME Shape, NEW t \in Tabs, NEW u \in PutType, put' = [put EXCEPT ![t] = u]
  PROVE  /\ put' \in [Tabs -> PutType] /\ put'[t] = u
         /\ \A x \in Tabs : x # t => put'[x] = put[x]
  BY WireFields

LEMMA QuietParts ==
  /\ Idle \in PutType /\ \A d : PutHeld(d, Idle)
  /\ NoReads \in ReadType /\ \A d : ReadHeld(d, NoReads)
  BY DEF PutType, Idle, PutHeld, NoReads, ReadType, ReadHeld

(* A page moves on, and leaves a batch on the wire when it goes.             *)
LEMMA BecomeIs ==
  ASSUME Shape, NEW t \in Tabs, NEW p, PageOK(p), Become(t, p)
  PROVE  /\ PageShape' /\ page'[t] = p /\ \A x \in Tabs : x # t => page'[x] = page[x]
         /\ stray' \subseteq BodyType /\ dirty' \subseteq Tabs
         /\ hears' \in [Tabs -> {"first", "open", "down"}]
<1>1. page' = [page EXCEPT ![t] = p]
  BY DEF Become
<1>2. PageShape' /\ page'[t] = p /\ \A x \in Tabs : x # t => page'[x] = page[x]
  BY <1>1, PageMoves
<1>3. put[t] \in PutType
  BY WireFields
<1>4. put[t].at = "going" => put[t].body \in BodyType
  BY <1>3, PutFields
<1>5. stray' \subseteq BodyType
  BY <1>4, WireFields DEF Become
<1>6. dirty' \subseteq Tabs
  BY WireFields DEF Become
<1>7. hears' \in [Tabs -> {"first", "open", "down"}]
  BY WireFields DEF Become
<1> QED
  BY <1>2, <1>5, <1>6, <1>7

LEMMA OpenKeeps ==
  ASSUME IInv, NEW t \in Tabs, Open(t)
  PROVE  IInv'
<1> DEFINE p == [page[t] EXCEPT !.phase = "loading"]
<1>1. Shape /\ Held /\ desk' = desk
  BY DEF IInv, Open, daemon
<1>2. page[t] \in PageType /\ PageOK(page[t]) /\ page \in [Tabs -> PageType]
  BY <1>1 DEF Shape, PageShape
<1>3. PageOK(p) /\ p.gen = page[t].gen /\ p.rev = page[t].rev /\ p.server = page[t].server
  BY <1>2 DEF PageOK, PageType
<1>4. page' = [page EXCEPT ![t] = p]
  BY <1>2 DEF Open
<1> HIDE DEF p
<1>5. PageShape' /\ page'[t] = p /\ \A x \in Tabs : x # t => page'[x] = page[x]
  BY <1>1, <1>3, <1>4, PageMoves
<1>6. PageHeld(desk', p)
  BY <1>1, <1>3 DEF Held, PageHeld
<1>7. /\ reads' \in [Tabs -> ReadType]
      /\ \A x \in Tabs : reads'[x] = reads[x] \/ ReadHeld(desk', reads'[x])
  BY <1>1, AskMoves DEF Open
<1>8. WireShape'
  BY <1>1, <1>7, WireFields DEF Open, WireShape
<1>9. GhostShape' /\ upsets' \in Nat /\ upsets <= upsets'
  BY <1>1, GhostFields, GhostSame DEF Open, ghosts
<1>10. UNCHANGED daemon /\ UNCHANGED <<wayBack, fellBack>> /\ put' = put
  BY DEF Open, ghosts
<1> QED
  BY <1>5, <1>6, <1>7, <1>8, <1>9, <1>10, AsideFromDaemon

LEMMA DeskGetRouteKeeps ==
  ASSUME IInv, NEW t \in Tabs, DeskGetRoute(t)
  PROVE  IInv'
<1> DEFINE a == IF file = "ok" THEN HeardDesk(desk) ELSE Heard("unreadable")
           r == [asked |-> reads[t].asked - 1, answers |-> reads[t].answers \cup {a}]
<1>1. Shape /\ Held /\ desk' = desk /\ reads[t] \in ReadType /\ desk \in DeskType
  BY WireFields DEF IInv, DeskGetRoute, daemon, Shape, DaemonShape
<1>2. a \in Answers /\ AnswerHeld(desk, a)
  BY <1>1, HeardIs DEF AnswerHeld, Was
<1> HIDE DEF a
<1>3. r \in ReadType
  BY <1>1, <1>2 DEF DeskGetRoute, ReadType
<1>4. reads' = [reads EXCEPT ![t] = r]
  BY DEF DeskGetRoute, a
<1>5. ReadHeld(desk, r)
  BY <1>1, <1>2 DEF Held, ReadHeld
<1> HIDE DEF r
<1>6. /\ reads' \in [Tabs -> ReadType] /\ reads'[t] = r
      /\ \A x \in Tabs : x # t => reads'[x] = reads[x]
  BY <1>1, <1>3, <1>4, ReadMoves
<1>7. PageShape'
  BY <1>1, PageSame DEF DeskGetRoute
<1>8. WireShape'
  BY <1>1, <1>6, WireFields DEF DeskGetRoute, WireShape
<1>9. GhostShape' /\ upsets' \in Nat /\ upsets <= upsets'
  BY <1>1, GhostFields, GhostSame DEF DeskGetRoute, ghosts
<1>10. UNCHANGED daemon /\ UNCHANGED <<wayBack, fellBack>> /\ put' = put /\ page' = page
  BY DEF DeskGetRoute, ghosts
<1> QED
  BY <1>1, <1>5, <1>6, <1>7, <1>8, <1>9, <1>10, AsideFromDaemon

LEMMA LoadedIs ==
  ASSUME NEW q, PageOK(q), NEW l \in BOOLEAN
  PROVE  LET p == [q EXCEPT !.loaded = l] IN
         /\ PageOK(p) /\ p.gen = q.gen /\ p.rev = q.rev /\ p.server = q.server /\ p.phase = q.phase
         /\ p.pending = q.pending /\ p.inflight = q.inflight /\ p.seq = q.seq
  BY DEF PageOK, PageType

(* Page q, after page p took an answer: it went, or it stays and holds what  *)
(* it held to send, on a desk of no later generation.                        *)
Carries(q, p) ==
    q = Gone \/ /\ q.pending = p.pending /\ q.inflight = p.inflight /\ q.seq = p.seq
                /\ p.gen = -1 \/ (q.gen # -1 /\ q.gen <= p.gen)
                /\ q.phase = p.phase \/ q.phase \in {"ready", "failed"}

LEMMA FailedCarries ==
  ASSUME NEW p, PageOK(p)
  PROVE  Carries(Failed(p), p)
<1>1. p.gen \in -1..MaxGen /\ MaxGen \in Nat
  BY PageFields, BoundsAssumption DEF PageOK
<1> QED
  BY <1>1, FailedIs DEF Carries

LEMMA TakeCarries ==
  ASSUME NEW p, PageOK(p), NEW d \in DeskType
  PROVE  Carries(Take(p, d), p)
<1>1. p.gen \in -1..MaxGen /\ MaxGen \in Nat /\ d.gen # -1
  BY PageFields, DeskFields, BoundsAssumption DEF PageOK
<1>2. Carries(p, p)
  BY <1>1 DEF Carries
<1> QED
  BY <1>1, <1>2, TakeIs DEF Carries

LEMMA IngestIs ==
  ASSUME Shape, Held, NEW t \in Tabs, Ingest(t)
  PROVE  \E a \in reads[t].answers, p \in PageType :
           /\ PageOK(p) /\ PageHeld(desk, p) /\ Carries(p, page[t]) /\ Become(t, p)
           /\ reads' = IF p = Gone THEN [reads EXCEPT ![t] = NoReads]
                       ELSE [reads EXCEPT ![t].answers = @ \ {a}]
           /\ put' = IF p = Gone THEN [put EXCEPT ![t] = Idle] ELSE put
           /\ missed' \subseteq Tabs
           /\ UNCHANGED <<daemon, last, build, upsets, author, applied, again, forgot, wayBack, fellBack>>
<1> DEFINE p(a) == LET q == Take(page[t], a.desk) IN
                   IF a.kind # "ok" THEN Failed(page[t])
                   ELSE IF q = Gone THEN Gone
                   ELSE [q EXCEPT !.loaded = @ \/ a.desk.rev >= page[t].rev]
<1>1. PICK a \in reads[t].answers :
        /\ Become(t, p(a))
        /\ reads' = IF p(a) = Gone THEN [reads EXCEPT ![t] = NoReads]
                    ELSE [reads EXCEPT ![t].answers = @ \ {a}]
        /\ put' = IF p(a) = Gone THEN [put EXCEPT ![t] = Idle] ELSE put
        /\ missed' = IF a.kind = "ok" THEN Caught(t, a.desk) ELSE missed \cup {t}
        /\ UNCHANGED <<daemon, last, build, upsets, author, applied, again, forgot, wayBack, fellBack>>
  BY DEF Ingest
<1>2. /\ PageOK(page[t]) /\ PageHeld(desk, page[t]) /\ desk \in DeskType /\ a \in Answers /\ a \in Replies
      /\ AnswerHeld(desk, a)
  BY WireFields, ReadFields DEF Shape, PageShape, DaemonShape, Held, ReadHeld, Replies
<1>3. missed' \subseteq Tabs
  BY <1>1, GhostFields DEF Caught
<1>4. PageOK(p(a)) /\ PageHeld(desk, p(a)) /\ Carries(p(a), page[t])
  <2>1. CASE a.kind # "ok"
    <3>1. p(a) = Failed(page[t])
      BY <2>1
    <3> HIDE DEF p
    <3>2. PageOK(p(a)) /\ PageHeld(desk, p(a))
      BY <1>2, <3>1, FailedIs DEF PageHeld
    <3>3. Carries(p(a), page[t])
      BY <1>2, <3>1, FailedCarries
    <3> QED
      BY <3>2, <3>3
  <2>2. CASE a.kind = "ok"
    <3> DEFINE q == Take(page[t], a.desk)
               l == q.loaded \/ a.desk.rev >= page[t].rev
    <3>1. a.desk \in DeskType /\ Was(desk, a.desk.gen, a.desk.rev, Layout(a.desk))
      BY <1>2, <2>2, AnswerFields DEF AnswerHeld
    <3>2. PageOK(q) /\ PageHeld(desk, q) /\ Carries(q, page[t])
      BY <1>2, <3>1, TakeIs, TakeHeld, TakeCarries
    <3>3. CASE q = Gone
      BY <2>2, <3>2, <3>3
    <3>4. CASE q # Gone
      <4>1. p(a) = [q EXCEPT !.loaded = l]
        BY <2>2, <3>4
      <4>2. l \in BOOLEAN
        OBVIOUS
      <4> HIDE DEF q, l, p
      <4>3. /\ PageOK(p(a)) /\ p(a).gen = q.gen /\ p(a).rev = q.rev /\ p(a).server = q.server
            /\ p(a).phase = q.phase
            /\ p(a).pending = q.pending /\ p(a).inflight = q.inflight /\ p(a).seq = q.seq
        BY <3>2, <4>1, <4>2, LoadedIs
      <4> QED
        BY <3>2, <3>4, <4>3 DEF PageHeld, Carries
    <3> QED
      BY <3>3, <3>4
  <2> QED
    BY <2>1, <2>2
<1> HIDE DEF p
<1>5. p(a) \in PageType
  BY <1>4 DEF PageOK
<1> QED
  BY <1>1, <1>3, <1>4, <1>5

LEMMA IngestKeeps ==
  ASSUME IInv, NEW t \in Tabs, Ingest(t)
  PROVE  IInv'
<1>1. Shape /\ Held
  BY DEF IInv
<1>2. PICK a \in reads[t].answers, p \in PageType :
           /\ PageOK(p) /\ PageHeld(desk, p) /\ Carries(p, page[t]) /\ Become(t, p)
           /\ reads' = IF p = Gone THEN [reads EXCEPT ![t] = NoReads]
                       ELSE [reads EXCEPT ![t].answers = @ \ {a}]
           /\ put' = IF p = Gone THEN [put EXCEPT ![t] = Idle] ELSE put
           /\ missed' \subseteq Tabs
           /\ UNCHANGED <<daemon, last, build, upsets, author, applied, again, forgot, wayBack, fellBack>>
  BY <1>1, IngestIs
<1> DEFINE r == IF p = Gone THEN NoReads ELSE [reads[t] EXCEPT !.answers = @ \ {a}]
           u == IF p = Gone THEN Idle ELSE put[t]
<1>3. /\ reads[t] \in ReadType /\ put[t] \in PutType /\ put \in [Tabs -> PutType]
      /\ reads \in [Tabs -> ReadType] /\ ReadHeld(desk, reads[t]) /\ PutHeld(desk, put[t])
  BY <1>1, WireFields DEF Held
<1>4. r \in ReadType /\ ReadHeld(desk, r)
  BY <1>3, QuietParts DEF ReadType, ReadHeld
<1>5. u \in PutType /\ PutHeld(desk, u)
  BY <1>3, QuietParts
<1>6. reads' = [reads EXCEPT ![t] = r] /\ put' = [put EXCEPT ![t] = u]
  <2>1. reads' = [reads EXCEPT ![t] = r]
    <3>1. CASE p = Gone
      BY <1>2, <3>1
    <3>2. CASE p # Gone
      <4>1. reads' = [reads EXCEPT ![t].answers = @ \ {a}]
        BY <1>2, <3>2
      <4>2. r = [reads[t] EXCEPT !.answers = @ \ {a}]
        BY <3>2
      <4> HIDE DEF r
      <4> QED
        BY <1>3, <4>1, <4>2
    <3> QED
      BY <3>1, <3>2
  <2>2. CASE p = Gone
    BY <1>2, <2>1, <2>2
  <2>3. CASE p # Gone
    <3>1. put' = put /\ u = put[t]
      BY <1>2, <2>3
    <3> HIDE DEF u
    <3>2. put = [put EXCEPT ![t] = u]
      BY <1>3, <3>1
    <3> QED
      BY <2>1, <3>1, <3>2
  <2> QED
    BY <2>2, <2>3
<1> HIDE DEF r, u
<1>7. /\ reads' \in [Tabs -> ReadType] /\ reads'[t] = r
      /\ \A x \in Tabs : x # t => reads'[x] = reads[x]
  BY <1>1, <1>4, <1>6, ReadMoves
<1>8. /\ put' \in [Tabs -> PutType] /\ put'[t] = u
      /\ \A x \in Tabs : x # t => put'[x] = put[x]
  BY <1>1, <1>5, <1>6, PutMoves
<1>9. /\ PageShape' /\ page'[t] = p /\ \A x \in Tabs : x # t => page'[x] = page[x]
      /\ stray' \subseteq BodyType /\ dirty' \subseteq Tabs
      /\ hears' \in [Tabs -> {"first", "open", "down"}]
  BY <1>1, <1>2, BecomeIs
<1>10. WireShape'
  BY <1>1, <1>2, <1>7, <1>8, <1>9, WireFields DEF WireShape
<1>11. GhostShape' /\ upsets' \in Nat /\ upsets <= upsets' /\ desk' = desk
  BY <1>1, <1>2, GhostFields, GhostSame DEF daemon
<1>12. UNCHANGED daemon /\ UNCHANGED <<wayBack, fellBack>>
  BY <1>2
<1> QED
  BY <1>2, <1>4, <1>5, <1>7, <1>8, <1>9, <1>10, <1>11, <1>12, AsideFromDaemon

LEMMA ReadFailsKeeps ==
  ASSUME IInv, NEW t \in Tabs, ReadFails(t)
  PROVE  IInv'
<1> DEFINE r == [reads[t] EXCEPT !.asked = @ - 1]
<1>1. Shape /\ Held /\ desk' = desk /\ reads[t] \in ReadType /\ reads \in [Tabs -> ReadType]
  BY WireFields DEF IInv, ReadFails, daemon
<1>2. r \in ReadType /\ r.answers = reads[t].answers
  BY <1>1 DEF ReadFails, ReadType
<1>3. reads' = [reads EXCEPT ![t] = r]
  BY <1>1 DEF ReadFails
<1>4. ReadHeld(desk, r)
  BY <1>2, <1>1 DEF Held, ReadHeld
<1> HIDE DEF r
<1>5. /\ reads' \in [Tabs -> ReadType] /\ reads'[t] = r
      /\ \A x \in Tabs : x # t => reads'[x] = reads[x]
  BY <1>1, <1>2, <1>3, ReadMoves
<1>6. PageShape'
  BY <1>1, PageSame DEF ReadFails
<1>7. WireShape'
  BY <1>1, <1>5, WireFields DEF ReadFails, WireShape
<1>8. upsets' \in 0..MaxUpsets /\ upsets <= upsets' /\ upsets' \in Nat
  BY <1>1, Upsets, GhostFields DEF ReadFails
<1>9. GhostShape'
  BY <1>1, <1>8, GhostFields, GhostSame DEF ReadFails
<1>10. UNCHANGED daemon /\ UNCHANGED <<wayBack, fellBack>> /\ put' = put /\ page' = page
  BY DEF ReadFails
<1> QED
  BY <1>1, <1>4, <1>5, <1>6, <1>7, <1>8, <1>9, <1>10, AsideFromDaemon

LEMMA OnPushKeeps ==
  ASSUME IInv, NEW t \in Tabs, OnPush(t)
  PROVE  IInv'
<1>1. Shape /\ Held /\ desk' = desk
  BY DEF IInv, OnPush, daemon
<1>2. /\ reads' \in [Tabs -> ReadType]
      /\ \A x \in Tabs : reads'[x] = reads[x] \/ ReadHeld(desk', reads'[x])
  <2>1. CASE hears[t] = "open"
    BY <1>1, <2>1, AskMoves DEF OnPush
  <2>2. CASE hears[t] # "open"
    BY <1>1, <2>2, WireFields DEF OnPush
  <2> QED
    BY <2>1, <2>2
<1>3. PageShape'
  BY <1>1, PageSame DEF OnPush
<1>4. WireShape'
  BY <1>1, <1>2, WireFields DEF OnPush, WireShape
<1>5. GhostShape' /\ upsets' \in Nat /\ upsets <= upsets'
  BY <1>1, GhostFields, GhostSame DEF OnPush, ghosts
<1>6. UNCHANGED daemon /\ UNCHANGED <<wayBack, fellBack>> /\ put' = put /\ page' = page
  BY DEF OnPush, ghosts
<1> QED
  BY <1>2, <1>3, <1>4, <1>5, <1>6, AsideFromDaemon

LEMMA HearAgainKeeps ==
  ASSUME IInv, NEW t \in Tabs, HearAgain(t)
  PROVE  IInv'
<1>1. Shape /\ Held /\ desk' = desk
  BY DEF IInv, HearAgain, daemon
<1>2. /\ reads' \in [Tabs -> ReadType]
      /\ \A x \in Tabs : reads'[x] = reads[x] \/ ReadHeld(desk', reads'[x])
  BY <1>1, AskMoves DEF HearAgain
<1>3. PageShape'
  BY <1>1, PageSame DEF HearAgain
<1>4. WireShape'
  BY <1>1, <1>2, WireFields DEF HearAgain, WireShape
<1>5. GhostShape' /\ upsets' \in Nat /\ upsets <= upsets'
  BY <1>1, GhostFields, GhostSame DEF HearAgain, ghosts
<1>6. UNCHANGED daemon /\ UNCHANGED <<wayBack, fellBack>> /\ put' = put /\ page' = page
  BY DEF HearAgain, ghosts
<1> QED
  BY <1>2, <1>3, <1>4, <1>5, <1>6, AsideFromDaemon

LEMMA FirstOpenKeeps ==
  ASSUME IInv, NEW t \in Tabs, FirstOpen(t)
  PROVE  IInv'
<1>1. Shape
  BY DEF IInv
<1>2. PageShape'
  BY <1>1, PageSame DEF FirstOpen
<1>3. WireShape'
  BY <1>1, WireFields DEF FirstOpen, wires, WireShape
<1>4. GhostShape' /\ upsets' \in Nat /\ upsets <= upsets'
  BY <1>1, GhostFields, GhostSame DEF FirstOpen, ghosts
<1>5. UNCHANGED daemon /\ UNCHANGED <<wayBack, fellBack>> /\ put' = put /\ page' = page /\ reads' = reads
  BY DEF FirstOpen, ghosts, wires
<1> QED
  BY <1>2, <1>3, <1>4, <1>5, AsideFromDaemon

LEMMA StopHearingKeeps ==
  ASSUME IInv, NEW t \in Tabs, StopHearing(t)
  PROVE  IInv'
<1>1. Shape
  BY DEF IInv
<1>2. PageShape'
  BY <1>1, PageSame DEF StopHearing
<1>3. WireShape'
  BY <1>1, WireFields DEF StopHearing, wires, WireShape
<1>4. upsets' \in 0..MaxUpsets /\ upsets <= upsets' /\ upsets' \in Nat
  BY <1>1, Upsets, GhostFields DEF StopHearing
<1>5. GhostShape'
  BY <1>1, <1>4, GhostFields, GhostSame DEF StopHearing, ghosts
<1>6. UNCHANGED daemon /\ UNCHANGED <<wayBack, fellBack>> /\ put' = put /\ page' = page /\ reads' = reads
  BY DEF StopHearing, ghosts, wires
<1> QED
  BY <1>2, <1>3, <1>4, <1>5, <1>6, AsideFromDaemon

(* emitDesk adds one change, based on the generation the page shows.         *)
LEMMA EmitIs ==
  ASSUME Shape, NEW t \in Tabs, Emit(t)
  PROVE  \E c \in Changes, p \in PageType :
           /\ author[c.n] = None /\ c.base = page[t].gen /\ author' = [author EXCEPT ![c.n] = t]
           /\ page[t].phase \in {"loading", "ready", "failed"}
           /\ page' = [page EXCEPT ![t] = p] /\ PageOK(p) /\ p.pending = Append(page[t].pending, c)
           /\ p.phase = page[t].phase /\ p.gen = page[t].gen /\ p.rev = page[t].rev
           /\ p.server = page[t].server /\ p.seq = page[t].seq /\ p.inflight = page[t].inflight
           /\ UNCHANGED <<daemon, wires, hears, dirty, build, upsets, applied, again, forgot, missed, wayBack,
                          fellBack>>
<1>1. PICK a \in ActsOf[t], n \in Numbers :
        /\ t \in OpenTabs /\ author[n] = None
        /\ page' = [page EXCEPT ![t].pending = Append(@, [n |-> n, base |-> page[t].gen, act |-> a])]
        /\ author' = [author EXCEPT ![n] = t]
        /\ UNCHANGED <<daemon, wires, hears, dirty, build, upsets, applied, again, forgot, missed, wayBack,
                          fellBack>>
  BY DEF Emit
<1> DEFINE c == [n |-> n, base |-> page[t].gen, act |-> a]
           rest == Append(page[t].pending, c)
           p == [page[t] EXCEPT !.pending = rest]
<1>2. page \in [Tabs -> PageType] /\ PageOK(page[t]) /\ page[t] \in PageType
  BY DEF Shape, PageShape
<1>3. /\ page[t].gen \in -1..MaxGen /\ MaxGen \in Nat /\ page[t].pending \in Seq(Changes)
      /\ page[t].inflight \in Nat /\ page[t].inflight <= Len(page[t].pending)
  BY <1>2, PageFields, BoundsAssumption DEF PageOK
<1>4. c \in Changes /\ c.n = n /\ c.base = page[t].gen
  BY <1>3 DEF Changes, Ats, Acts
<1> HIDE DEF c
<1>5. rest \in Seq(Changes) /\ Len(rest) = Len(page[t].pending) + 1
  BY <1>3, <1>4
<1>6. page' = [page EXCEPT ![t] = p]
  BY <1>1, <1>2 DEF c
<1> HIDE DEF rest
<1>7. /\ p \in PageType /\ p.pending = rest /\ p.phase = page[t].phase /\ p.gen = page[t].gen
      /\ p.rev = page[t].rev /\ p.server = page[t].server /\ p.seq = page[t].seq
      /\ p.inflight = page[t].inflight
  BY <1>2, <1>5 DEF PageType
<1> HIDE DEF p
<1>8. p.inflight <= Len(p.pending)
  BY <1>3, <1>5, <1>7
<1>9. PageOK(p)
  BY <1>2, <1>7, <1>8 DEF PageOK
<1>10. t \in OpenTabs => page[t].phase \in {"loading", "ready", "failed"}
  BY DEF OpenTabs
<1> QED
  BY <1>1, <1>4, <1>6, <1>7, <1>9, <1>10 DEF rest

LEMMA EmitKeeps ==
  ASSUME IInv, NEW t \in Tabs, Emit(t)
  PROVE  IInv'
<1>1. Shape /\ Held
  BY DEF IInv
<1>2. PICK c \in Changes, p \in PageType :
           /\ author' = [author EXCEPT ![c.n] = t]
           /\ page' = [page EXCEPT ![t] = p] /\ PageOK(p)
           /\ p.gen = page[t].gen /\ p.rev = page[t].rev /\ p.server = page[t].server
           /\ UNCHANGED <<daemon, wires, hears, dirty, build, upsets, applied, again, forgot, missed, wayBack,
                          fellBack>>
  BY <1>1, EmitIs
<1>3. PageShape' /\ page'[t] = p /\ \A x \in Tabs : x # t => page'[x] = page[x]
  BY <1>1, <1>2, PageMoves
<1>4. PageHeld(desk', p)
  BY <1>1, <1>2 DEF Held, PageHeld, daemon
<1>5. WireShape'
  BY <1>1, <1>2, WireFields DEF wires, WireShape
<1>6. GhostShape' /\ upsets' \in Nat /\ upsets <= upsets'
  BY <1>1, <1>2, GhostFields, ActIs DEF GhostShape
<1>7. UNCHANGED daemon /\ UNCHANGED <<wayBack, fellBack>> /\ put' = put /\ reads' = reads
  BY <1>2 DEF wires
<1> QED
  BY <1>3, <1>4, <1>5, <1>6, <1>7, AsideFromDaemon

(* flushDesk sends what is in flight, and what is pending is in flight then. *)
LEMMA FlushIs ==
  ASSUME Shape, NEW t \in Tabs, FlushDesk(t)
  PROVE  \E p \in PageType, b \in BodyType :
           /\ page[t].phase = "ready" /\ put[t].at = "idle"
           /\ page' = [page EXCEPT ![t] = p] /\ PageOK(p) /\ p.inflight > 0
           /\ p.pending = page[t].pending /\ p.phase = page[t].phase /\ p.gen = page[t].gen
           /\ p.rev = page[t].rev /\ p.server = page[t].server
           /\ \/ page[t].inflight = 0 /\ p.seq = page[t].seq + 1 /\ p.inflight = Len(p.pending)
              \/ page[t].inflight # 0 /\ p.seq = page[t].seq /\ p.inflight = page[t].inflight
           /\ b = Body(t, p.seq, p.gen, SubSeq(p.pending, 1, p.inflight))
           /\ put' = [put EXCEPT ![t] = [at |-> "going", reply |-> None, body |-> b]]
           /\ UNCHANGED <<daemon, stray, last, reads, hears, dirty, build, upsets, ghosts>>
<1> DEFINE q == page[t]
           p == IF q.inflight = 0 THEN [q EXCEPT !.seq = @ + 1, !.inflight = Len(q.pending)] ELSE q
           b == Body(t, p.seq, p.gen, SubSeq(p.pending, 1, p.inflight))
<1>1. /\ page[t].phase = "ready" /\ put[t].at = "idle" /\ page[t].pending # <<>>
      /\ page' = [page EXCEPT ![t] = p]
      /\ put' = [put EXCEPT ![t] = [at |-> "going", reply |-> None, body |-> b]]
      /\ UNCHANGED <<daemon, stray, last, reads, hears, dirty, build, upsets, ghosts>>
  BY DEF FlushDesk
<1>2. q \in PageType /\ PageOK(q) /\ q.seq \in Nat /\ q.pending \in Seq(Changes) /\ q.inflight \in Nat
      /\ Len(q.pending) \in Nat /\ Len(q.pending) > 0 /\ q.inflight <= Len(q.pending)
      /\ q.gen \in -1..MaxGen /\ MaxGen \in Nat
  <2>1. q \in PageType /\ PageOK(q)
    BY DEF Shape, PageShape
  <2>2. q.pending \in Seq(Changes) /\ q.inflight <= Len(q.pending)
    BY <2>1, PageFields DEF PageOK
  <2>3. Len(q.pending) \in Nat /\ Len(q.pending) > 0
    BY <1>1, <2>2
  <2> QED
    BY <2>1, <2>2, <2>3, PageFields, BoundsAssumption
<1> HIDE DEF q
<1>3. /\ p \in PageType /\ p.pending = q.pending /\ p.phase = q.phase /\ p.gen = q.gen
      /\ p.rev = q.rev /\ p.server = q.server /\ p.inflight \in Nat /\ p.inflight > 0
      /\ p.inflight <= Len(p.pending) /\ p.seq \in Nat
      /\ \/ q.inflight = 0 /\ p.seq = q.seq + 1 /\ p.inflight = Len(p.pending)
         \/ q.inflight # 0 /\ p.seq = q.seq /\ p.inflight = q.inflight
  <2>1. CASE q.inflight = 0
    <3> DEFINE x == [q EXCEPT !.seq = q.seq + 1, !.inflight = Len(q.pending)]
    <3>1. p = x
      BY <2>1
    <3>2. /\ x \in PageType /\ x.pending = q.pending /\ x.phase = q.phase /\ x.gen = q.gen
          /\ x.rev = q.rev /\ x.server = q.server /\ x.inflight = Len(q.pending) /\ x.seq = q.seq + 1
      <4>1. q \in PageType /\ q.seq + 1 \in Nat /\ Len(q.pending) \in Nat
        BY <1>2
      <4> QED
        BY <4>1 DEF PageType
    <3> HIDE DEF p, x
    <3> QED
      BY <1>2, <2>1, <3>1, <3>2
  <2>2. CASE q.inflight # 0
    BY <1>2, <2>2
  <2> QED
    BY <2>1, <2>2
<1> HIDE DEF p
<1>4. PageOK(p)
  BY <1>2, <1>3 DEF PageOK
<1>5. b \in BodyType
  <2>1. SubSeq(p.pending, 1, p.inflight) \in Seq(Changes)
    BY <1>2, <1>3
  <2>2. p.gen \in Ats
    BY <1>2, <1>3 DEF Ats
  <2> QED
    BY <1>3, <2>1, <2>2 DEF Body, BodyType
<1> HIDE DEF b
<1>6. b = Body(t, p.seq, p.gen, SubSeq(p.pending, 1, p.inflight))
  BY DEF b
<1>7. /\ p.pending = page[t].pending /\ p.phase = page[t].phase /\ p.gen = page[t].gen
      /\ p.rev = page[t].rev /\ p.server = page[t].server
      /\ \/ page[t].inflight = 0 /\ p.seq = page[t].seq + 1 /\ p.inflight = Len(p.pending)
         \/ page[t].inflight # 0 /\ p.seq = page[t].seq /\ p.inflight = page[t].inflight
  BY <1>3 DEF q
<1> QED
  BY <1>1, <1>3, <1>4, <1>5, <1>6, <1>7

LEMMA FlushDeskKeeps ==
  ASSUME IInv, NEW t \in Tabs, FlushDesk(t)
  PROVE  IInv'
<1>1. Shape /\ Held
  BY DEF IInv
<1>2. PICK p \in PageType, b \in BodyType :
        /\ page' = [page EXCEPT ![t] = p] /\ PageOK(p)
        /\ p.gen = page[t].gen /\ p.rev = page[t].rev /\ p.server = page[t].server
        /\ put' = [put EXCEPT ![t] = [at |-> "going", reply |-> None, body |-> b]]
        /\ UNCHANGED <<daemon, stray, last, reads, hears, dirty, build, upsets, ghosts>>
  BY <1>1, FlushIs
<1> DEFINE u == [at |-> "going", reply |-> None, body |-> b]
<1>3. PageShape' /\ page'[t] = p /\ \A x \in Tabs : x # t => page'[x] = page[x]
  BY <1>1, <1>2, PageMoves
<1>4. u \in PutType /\ PutHeld(desk', u)
  BY DEF PutType, PutHeld
<1>5. put' = [put EXCEPT ![t] = u]
  BY <1>2
<1> HIDE DEF u
<1>6. /\ put' \in [Tabs -> PutType] /\ put'[t] = u
      /\ \A x \in Tabs : x # t => put'[x] = put[x]
  BY <1>1, <1>4, <1>5, PutMoves
<1>7. PageHeld(desk', p)
  BY <1>1, <1>2 DEF Held, PageHeld, daemon
<1>8. WireShape'
  BY <1>1, <1>2, <1>6, WireFields DEF WireShape
<1>9. GhostShape' /\ upsets' \in Nat /\ upsets <= upsets'
  BY <1>1, <1>2, GhostFields, GhostSame DEF ghosts
<1>10. UNCHANGED daemon /\ UNCHANGED <<wayBack, fellBack>> /\ reads' = reads
  BY <1>2 DEF ghosts
<1> QED
  BY <1>3, <1>4, <1>6, <1>7, <1>8, <1>9, <1>10, AsideFromDaemon

(* A batch on the wire is answered.                                          *)
LEMMA AnsweredPut ==
  ASSUME NEW u \in PutType, u.at # "idle", NEW r \in Replies
  PROVE  LET v == [u EXCEPT !.at = "answered", !.reply = r] IN
         v \in PutType /\ v.at = "answered" /\ v.body = u.body /\ v.reply = r
<1> DEFINE All == [at : {"going", "answered"}, body : BodyType, reply : {None} \cup Replies]
           v == [u EXCEPT !.at = "answered", !.reply = r]
<1>1. u \in All
  BY DEF PutType, Idle
<1>2. /\ v \in [at : {"answered"}, body : BodyType, reply : Replies]
      /\ v.at = "answered" /\ v.body = u.body /\ v.reply = r
  BY <1>1
<1> QED
  BY <1>2 DEF PutType

LEMMA DisconnectKeeps ==
  ASSUME IInv, NEW t \in Tabs, Disconnect(t)
  PROVE  IInv'
<1> DEFINE u == [put[t] EXCEPT !.at = "answered", !.reply = Heard("network")]
<1>1. Shape /\ put[t] \in PutType /\ put[t].at \in {"going", "answered"}
  BY WireFields DEF IInv, Disconnect
<1>2. put[t].body \in BodyType
  BY <1>1, PutFields
<1>3. u \in PutType /\ u.at = "answered" /\ u.reply = Heard("network") /\ Heard("network").kind = "network"
  BY <1>1, HeardIs, AnsweredPut
<1>4. put' = [put EXCEPT ![t] = u]
  BY DEF Disconnect
<1> HIDE DEF u
<1>5. u \in PutType /\ PutHeld(desk', u)
  BY <1>3 DEF PutHeld, AnswerHeld
<1>6. /\ put' \in [Tabs -> PutType] /\ put'[t] = u
      /\ \A x \in Tabs : x # t => put'[x] = put[x]
  BY <1>1, <1>4, <1>5, PutMoves
<1>7. PageShape'
  BY <1>1, PageSame DEF Disconnect
<1>8. WireShape'
  BY <1>1, <1>2, <1>6, WireFields DEF Disconnect, WireShape
<1>9. upsets' \in 0..MaxUpsets /\ upsets <= upsets' /\ upsets' \in Nat
  BY <1>1, Upsets, GhostFields DEF Disconnect
<1>10. GhostShape'
  BY <1>1, <1>9, GhostFields, GhostSame DEF Disconnect, ghosts
<1>11. UNCHANGED daemon /\ UNCHANGED <<wayBack, fellBack>> /\ page' = page /\ reads' = reads
  BY DEF Disconnect, ghosts
<1> QED
  BY <1>5, <1>6, <1>7, <1>8, <1>9, <1>10, <1>11, AsideFromDaemon

(* What the page held before it takes an answer: a batch is acknowledged or  *)
(* dropped.                                                                  *)
Answered(t) == IF put[t].reply.kind \in {"ok", "refused"} THEN Acked(page[t]) ELSE page[t]

LEMMA FlushedIs ==
  ASSUME Shape, Held, NEW t \in Tabs, Flushed(t)
  PROVE  \E p \in PageType :
           /\ PageOK(p) /\ PageHeld(desk, p) /\ Carries(p, Answered(t)) /\ Become(t, p)
           /\ put[t].at = "answered" /\ put' = [put EXCEPT ![t] = Idle]
           /\ reads' = IF p = Gone THEN [reads EXCEPT ![t] = NoReads] ELSE reads
           /\ missed' \subseteq Tabs
           /\ UNCHANGED <<daemon, last, build, upsets, author, applied, again, forgot, wayBack, fellBack>>
<1> DEFINE a == put[t].reply
           p == CASE a.kind = "ok"         -> Take(Acked(page[t]), a.desk)
                  [] a.kind = "refused"    -> Acked(page[t])
                  [] a.kind = "restored"   -> Gone
                  [] a.kind = "unreadable" -> Failed(page[t])
                  [] a.kind \in {"network", "failed"} -> page[t]
<1>1. /\ put[t].at = "answered" /\ put' = [put EXCEPT ![t] = Idle] /\ Become(t, p)
      /\ reads' = IF p = Gone THEN [reads EXCEPT ![t] = NoReads] ELSE reads
      /\ missed' = CASE a.kind = "ok"         -> Caught(t, a.desk)
                     [] a.kind = "unreadable" -> missed \cup {t}
                     [] OTHER                 -> missed
      /\ UNCHANGED <<daemon, last, build, upsets, author, applied, again, forgot, wayBack, fellBack>>
  BY DEF Flushed
<1>2. PageOK(page[t]) /\ PageHeld(desk, page[t]) /\ desk \in DeskType /\ put[t] \in PutType /\ PutHeld(desk, put[t])
  BY WireFields DEF Shape, PageShape, DaemonShape, Held
<1>3. a \in Replies /\ AnswerHeld(desk, a)
  BY <1>1, <1>2, PutFields DEF PutHeld
<1>4. missed' \subseteq Tabs
  BY <1>1, GhostFields DEF Caught
<1>5. Answered(t) = IF a.kind \in {"ok", "refused"} THEN Acked(page[t]) ELSE page[t]
  BY DEF Answered
<1> HIDE DEF a
<1>6. PageOK(p) /\ PageHeld(desk, p) /\ Carries(p, Answered(t))
  <2>1. CASE a.kind = "ok"
    <3>1. p = Take(Acked(page[t]), a.desk) /\ Answered(t) = Acked(page[t])
      BY <1>5, <2>1
    <3>2. a.desk \in DeskType /\ Was(desk, a.desk.gen, a.desk.rev, Layout(a.desk))
      BY <1>3, <2>1, AnswerFields DEF AnswerHeld
    <3>3. PageOK(Acked(page[t])) /\ PageHeld(desk, Acked(page[t]))
      BY <1>2, AckedIs DEF PageHeld
    <3> HIDE DEF p
    <3> QED
      BY <1>2, <3>1, <3>2, <3>3, TakeIs, TakeHeld, TakeCarries
  <2>2. CASE a.kind = "restored"
    <3>1. p = Gone
      BY <2>2
    <3> HIDE DEF p
    <3>2. PageHeld(desk, Gone)
      BY <1>2, FreshPages, DeskFields DEF PageHeld, Was
    <3> QED
      BY <3>1, <3>2, FreshPages DEF Carries
  <2>3. CASE a.kind = "unreadable"
    <3>1. p = Failed(page[t]) /\ Answered(t) = page[t]
      BY <1>5, <2>3
    <3> HIDE DEF p
    <3>2. PageOK(p) /\ PageHeld(desk, p)
      BY <1>2, <3>1, FailedIs DEF PageHeld
    <3>3. Carries(p, Answered(t))
      BY <1>2, <3>1, FailedCarries
    <3> QED
      BY <3>2, <3>3
  <2>4. CASE a.kind \in {"network", "failed"}
    <3>1. p = page[t] /\ Answered(t) = page[t]
      BY <1>5, <2>4
    <3> HIDE DEF p
    <3>2. page[t].gen \in -1..MaxGen /\ MaxGen \in Nat
      BY <1>2, PageFields, BoundsAssumption DEF PageOK
    <3> QED
      BY <1>2, <3>1, <3>2 DEF Carries
  <2>5. CASE a.kind = "refused"
    <3>1. p = Acked(page[t]) /\ Answered(t) = p
      BY <1>5, <2>5
    <3> HIDE DEF p
    <3>2. PageOK(p) /\ p.gen = page[t].gen /\ p.rev = page[t].rev /\ p.server = page[t].server
      BY <1>2, <3>1, AckedIs
    <3>3. p.gen \in -1..MaxGen /\ MaxGen \in Nat
      BY <3>2, PageFields, BoundsAssumption DEF PageOK
    <3> QED
      BY <1>2, <3>1, <3>2, <3>3 DEF Carries, PageHeld
  <2> QED
    BY <1>3, <2>1, <2>2, <2>3, <2>4, <2>5, AnswerFields
<1> HIDE DEF p
<1>7. p \in PageType
  BY <1>6 DEF PageOK
<1> QED
  BY <1>1, <1>4, <1>6, <1>7

LEMMA FlushedKeeps ==
  ASSUME IInv, NEW t \in Tabs, Flushed(t)
  PROVE  IInv'
<1>1. Shape /\ Held
  BY DEF IInv
<1>2. PICK p \in PageType :
           /\ PageOK(p) /\ PageHeld(desk, p) /\ Become(t, p)
           /\ put' = [put EXCEPT ![t] = Idle]
           /\ reads' = IF p = Gone THEN [reads EXCEPT ![t] = NoReads] ELSE reads
           /\ missed' \subseteq Tabs
           /\ UNCHANGED <<daemon, last, build, upsets, author, applied, again, forgot, wayBack, fellBack>>
  BY <1>1, FlushedIs
<1>3. /\ put' \in [Tabs -> PutType] /\ put'[t] = Idle
      /\ \A x \in Tabs : x # t => put'[x] = put[x]
  BY <1>1, <1>2, QuietParts, PutMoves
<1>4. /\ reads' \in [Tabs -> ReadType]
      /\ \A x \in Tabs : reads'[x] = reads[x] \/ ReadHeld(desk', reads'[x])
  <2>1. CASE p = Gone
    <3>1. /\ reads' \in [Tabs -> ReadType] /\ reads'[t] = NoReads
          /\ \A x \in Tabs : x # t => reads'[x] = reads[x]
      BY <1>1, <1>2, <2>1, QuietParts, ReadMoves
    <3> QED
      BY <3>1, QuietParts
  <2>2. CASE p # Gone
    BY <1>1, <1>2, <2>2, WireFields
  <2> QED
    BY <2>1, <2>2
<1>5. /\ PageShape' /\ page'[t] = p /\ \A x \in Tabs : x # t => page'[x] = page[x]
      /\ stray' \subseteq BodyType /\ dirty' \subseteq Tabs
      /\ hears' \in [Tabs -> {"first", "open", "down"}]
  BY <1>1, <1>2, BecomeIs
<1>6. WireShape'
  BY <1>1, <1>2, <1>3, <1>4, <1>5, WireFields DEF WireShape
<1>7. GhostShape' /\ upsets' \in Nat /\ upsets <= upsets' /\ desk' = desk
  BY <1>1, <1>2, GhostFields, GhostSame DEF daemon
<1>8. UNCHANGED daemon /\ UNCHANGED <<wayBack, fellBack>>
  BY <1>2
<1>9. PutHeld(desk', Idle)
  BY QuietParts
<1> QED
  BY <1>2, <1>3, <1>4, <1>5, <1>6, <1>7, <1>8, <1>9, AsideFromDaemon

LEMMA LeaveKeeps ==
  ASSUME IInv, NEW t \in Tabs, NEW held, Leave(t, held),
         upsets' \in 0..MaxUpsets, upsets <= upsets', upsets' \in Nat
  PROVE  IInv'
<1>1. Shape /\ Held /\ PageOK(page[t]) /\ page[t] \in PageType
  BY DEF IInv, Shape, PageShape
<1>2. /\ put' = [put EXCEPT ![t] = Idle] /\ reads' = [reads EXCEPT ![t] = NoReads]
      /\ Become(t, Gone) /\ missed' = missed \ {t}
      /\ UNCHANGED <<daemon, build, author, applied, forgot, wayBack, fellBack>>
  BY DEF Leave
<1>3. /\ put' \in [Tabs -> PutType] /\ put'[t] = Idle
      /\ \A x \in Tabs : x # t => put'[x] = put[x]
  BY <1>1, <1>2, QuietParts, PutMoves
<1>4. /\ reads' \in [Tabs -> ReadType] /\ reads'[t] = NoReads
      /\ \A x \in Tabs : x # t => reads'[x] = reads[x]
  BY <1>1, <1>2, QuietParts, ReadMoves
<1>5. /\ PageShape' /\ page'[t] = Gone /\ \A x \in Tabs : x # t => page'[x] = page[x]
      /\ stray' \subseteq BodyType /\ dirty' \subseteq Tabs
      /\ hears' \in [Tabs -> {"first", "open", "down"}]
  BY <1>1, <1>2, FreshPages, BecomeIs
<1>6. /\ page[t].gen \in Ats /\ page[t].seq + 1 \in Nat /\ page[t].pending \in Seq(Changes)
      /\ page[t].inflight \in Nat /\ page[t].inflight <= Len(page[t].pending)
  BY <1>1, PageFields, BoundsAssumption DEF PageOK, Ats
<1>7. ClosingBatch(t) \in BodyType
  BY <1>6 DEF ClosingBatch, Body, BodyType
<1>8. last' \in [Tabs -> BodyType \cup {None}]
  BY <1>1, <1>7, WireFields DEF Leave
<1>9. again' \subseteq Numbers
  <2>1. ASSUME NEW i \in 1..page[t].inflight PROVE page[t].pending[i].n \in Numbers
    <3>1. page[t].pending[i] \in Changes
      BY <1>6
    <3> QED
      BY <3>1 DEF Changes
  <2> QED
    BY <1>1, <2>1, GhostFields DEF Leave, InFlight
<1>11. WireShape'
  BY <1>1, <1>2, <1>3, <1>4, <1>5, <1>8, WireFields DEF WireShape
<1>12. GhostShape'
  BY <1>1, <1>2, <1>9, GhostFields DEF GhostShape
<1>13. PageHeld(desk', Gone)
  <2>1. desk' \in DeskType
    BY <1>1, <1>2 DEF daemon, Shape, DaemonShape
  <2> QED
    BY <2>1, FreshPages, DeskFields DEF PageHeld, Was
<1>14. PutHeld(desk', Idle) /\ ReadHeld(desk', NoReads)
  BY QuietParts
<1>15. UNCHANGED daemon /\ UNCHANGED <<wayBack, fellBack>>
  BY <1>2
<1> QED
  BY <1>3, <1>4, <1>5, <1>11, <1>12, <1>13, <1>14, <1>15, AsideFromDaemon

LEMMA LeavesKeep ==
  ASSUME IInv, NEW t \in Tabs, Close(t) \/ ReloadForBuild(t)
  PROVE  IInv'
<1>1. Shape
  BY DEF IInv
<1>2. CASE Close(t)
  <2>1. upsets' \in 0..MaxUpsets /\ upsets <= upsets' /\ upsets' \in Nat
    BY <1>1, <1>2, Upsets, GhostFields DEF Close
  <2>2. Leave(t, build[t] = "held")
    BY <1>2 DEF Close
  <2> QED
    BY <2>1, <2>2, LeaveKeeps
<1>3. CASE ReloadForBuild(t)
  <2>1. upsets' \in 0..MaxUpsets /\ upsets <= upsets' /\ upsets' \in Nat
    BY <1>1, <1>3, GhostFields DEF ReloadForBuild
  <2>2. Leave(t, FALSE)
    BY <1>3 DEF ReloadForBuild
  <2> QED
    BY <2>1, <2>2, LeaveKeeps
<1> QED
  BY <1>2, <1>3

LEMMA HoldDeskKeeps ==
  ASSUME IInv, NEW t \in Tabs, HoldDesk(t)
  PROVE  IInv'
<1>1. Shape
  BY DEF IInv
<1>2. PageShape'
  BY <1>1, PageSame DEF HoldDesk
<1>3. WireShape'
  BY <1>1, WireFields DEF HoldDesk, wires, WireShape
<1>4. GhostShape' /\ upsets' \in Nat /\ upsets <= upsets'
  BY <1>1, GhostFields, GhostSame DEF HoldDesk, ghosts
<1>5. UNCHANGED daemon /\ UNCHANGED <<wayBack, fellBack>> /\ put' = put /\ page' = page /\ reads' = reads
  BY DEF HoldDesk, ghosts, wires
<1> QED
  BY <1>2, <1>3, <1>4, <1>5, AsideFromDaemon

LEMMA StartNewDeskKeeps ==
  ASSUME IInv, NEW t \in Tabs, StartNewDesk(t)
  PROVE  IInv'
<1>1. Shape /\ Held /\ desk' = desk
  BY DEF IInv, StartNewDesk, daemon
<1>2. /\ reads' \in [Tabs -> ReadType]
      /\ \A x \in Tabs : reads'[x] = reads[x] \/ ReadHeld(desk', reads'[x])
  BY <1>1, AskMoves DEF StartNewDesk
<1>3. PageShape'
  BY <1>1, PageSame DEF StartNewDesk
<1>4. WireShape'
  BY <1>1, <1>2, WireFields DEF StartNewDesk, WireShape
<1>5. GhostShape' /\ upsets' \in Nat /\ upsets <= upsets'
  BY <1>1, GhostFields, GhostSame DEF StartNewDesk, ghosts
<1>6. UNCHANGED daemon /\ UNCHANGED <<wayBack, fellBack>> /\ put' = put /\ page' = page
  BY DEF StartNewDesk, ghosts
<1> QED
  BY <1>2, <1>3, <1>4, <1>5, <1>6, AsideFromDaemon

LEMMA DeskPutRefusedKeeps ==
  ASSUME IInv, NEW t \in Tabs, DeskPutRefused(t)
  PROVE  IInv'
<1> DEFINE u == [put[t] EXCEPT !.at = "answered", !.reply = Heard("refused")]
<1>1. Shape /\ put[t] \in PutType /\ put[t].at = "going"
  BY WireFields DEF IInv, DeskPutRefused
<1>2. u \in PutType /\ u.at = "answered" /\ u.reply = Heard("refused") /\ Heard("refused").kind = "refused"
  BY <1>1, HeardIs, AnsweredPut
<1>3. put' = [put EXCEPT ![t] = u]
  BY DEF DeskPutRefused
<1> HIDE DEF u
<1>4. u \in PutType /\ PutHeld(desk', u)
  BY <1>2 DEF PutHeld, AnswerHeld
<1>5. /\ put' \in [Tabs -> PutType] /\ put'[t] = u
      /\ \A x \in Tabs : x # t => put'[x] = put[x]
  BY <1>1, <1>3, <1>4, PutMoves
<1>6. PageShape'
  BY <1>1, PageSame DEF DeskPutRefused
<1>7. WireShape'
  BY <1>1, <1>5, WireFields DEF DeskPutRefused, WireShape
<1>8. GhostShape' /\ upsets' \in Nat /\ upsets <= upsets'
  BY <1>1, GhostFields, GhostSame DEF DeskPutRefused, ghosts
<1>9. UNCHANGED daemon /\ UNCHANGED <<wayBack, fellBack>> /\ page' = page /\ reads' = reads
  BY DEF DeskPutRefused, ghosts
<1> QED
  BY <1>4, <1>5, <1>6, <1>7, <1>8, <1>9, AsideFromDaemon

LEMMA DeskPutRouteKeeps ==
  ASSUME IInv, NEW t \in Tabs, DeskPutRoute(t)
  PROVE  IInv'
<1>1. Shape /\ Held /\ Way /\ put[t] \in PutType /\ put[t].at = "going" /\ put[t].body \in BodyType
  BY WireFields, PutFields DEF IInv, DeskPutRoute
<1>2. PICK o \in PutRoute(put[t].body) :
        /\ Land(put[t].body, o)
        /\ put' = [put EXCEPT ![t] = [@ EXCEPT !.at = "answered", !.reply = o.reply]]
  BY DEF DeskPutRoute
<1>3. /\ DaemonShape' /\ GhostShape' /\ dirty' \subseteq Tabs /\ Way'
      /\ desk' \in DeskType /\ Later(desk, desk') /\ o.reply \in Replies /\ AnswerHeld(desk', o.reply)
         /\ fellBack' = fellBack /\ build' = build
  BY <1>1, <1>2, LandIs
<1> DEFINE u == [put[t] EXCEPT !.at = "answered", !.reply = o.reply]
<1>4. u \in PutType /\ PutHeld(desk', u)
  BY <1>1, <1>3, AnsweredPut DEF PutHeld
<1>5. put' = [put EXCEPT ![t] = u]
  BY <1>2
<1> HIDE DEF u
<1>6. /\ put' \in [Tabs -> PutType] /\ put'[t] = u
      /\ \A x \in Tabs : x # t => put'[x] = put[x]
  BY <1>1, <1>4, <1>5, PutMoves
<1>7. page' = page /\ stray' = stray /\ last' = last /\ reads' = reads /\ hears' = hears
  BY DEF DeskPutRoute
<1>8. PageShape'
  BY <1>1, <1>7, PageSame
<1>9. WireShape'
  BY <1>1, <1>3, <1>6, <1>7, WireFields DEF WireShape
<1>10. Held'
  BY <1>1, <1>3, <1>4, <1>6, <1>7, HeldMoves
<1> QED
  BY <1>3, <1>8, <1>9, <1>10 DEF IInv, Shape

LEMMA LandStrayKeeps ==
  ASSUME IInv, NEW b \in stray, LandStray(b)
  PROVE  IInv'
<1>1. Shape /\ Held /\ Way /\ b \in BodyType
  BY WireFields DEF IInv
<1>2. PICK o \in PutRoute(b) : Land(b, o)
  BY DEF LandStray
<1>3. /\ DaemonShape' /\ GhostShape' /\ dirty' \subseteq Tabs /\ Way'
      /\ desk' \in DeskType /\ Later(desk, desk') /\ fellBack' = fellBack /\ build' = build
  BY <1>1, <1>2, LandIs
<1>4. page' = page /\ stray' = stray \ {b} /\ put' = put /\ last' = last /\ reads' = reads /\ hears' = hears
  BY DEF LandStray
<1>5. PageShape'
  BY <1>1, <1>4, PageSame
<1>6. WireShape'
  BY <1>1, <1>3, <1>4, WireFields DEF WireShape
<1>7. Held'
  BY <1>1, <1>3, <1>4, HeldMoves
<1> QED
  BY <1>3, <1>5, <1>6, <1>7 DEF IInv, Shape

LEMMA LandLastKeeps ==
  ASSUME IInv, NEW t \in Tabs, LandLast(t)
  PROVE  IInv'
<1>1. Shape /\ Held /\ Way /\ last[t] \in BodyType
  BY WireFields DEF IInv, LandLast
<1>2. PICK o \in PutRoute(last[t]) : Land(last[t], o)
  BY DEF LandLast
<1>3. /\ DaemonShape' /\ GhostShape' /\ dirty' \subseteq Tabs /\ Way'
      /\ desk' \in DeskType /\ Later(desk, desk') /\ fellBack' = fellBack /\ build' = build
  BY <1>1, <1>2, LandIs
<1>4. /\ page' = page /\ stray' = stray /\ put' = put /\ reads' = reads /\ hears' = hears
      /\ last' = [last EXCEPT ![t] = None]
  BY DEF LandLast
<1>5. PageShape'
  BY <1>1, <1>4, PageSame
<1>6. WireShape'
  BY <1>1, <1>3, <1>4, WireFields DEF WireShape
<1>7. Held'
  BY <1>1, <1>3, <1>4, HeldMoves
<1> QED
  BY <1>3, <1>5, <1>6, <1>7 DEF IInv, Shape

(* A restore appends its way back, and a version of its own at most.         *)
LEMMA DeskHistoryRestoreRouteKeeps ==
  ASSUME IInv, DeskHistoryRestoreRoute
  PROVE  IInv'
<1>1. Shape /\ Held /\ Way /\ DaemonShape /\ desk \in DeskType /\ VersionsOK(versions)
  BY DEF IInv, Shape, DaemonShape
<1> DEFINE saved == Append1(versions, Version("before-restore", desk))
           d(recs, now) == [rev |-> desk.rev + 1, gen |-> now, recs |-> recs, pick |-> desk.pick]
<1>2. \/ \E i \in DOMAIN versions, now \in 1..MaxGen :
           \E recs \in Pruned(desk, Restored(desk, versions[i].desk)) :
            /\ desk' = d(recs, now)
            /\ versions' \in {saved, Append1(saved, Version("restore", d(recs, now)))}
            /\ dirty' = Push(None) /\ missed' = Unheard(None)
            /\ wayBack' = [desk |-> Layout(desk), since |-> Len(versions') - Len(saved) + 1]
            /\ fellBack' = (fellBack \/ now <= desk.gen)
      \/ /\ versions' = saved
         /\ wayBack' = [wayBack EXCEPT !.since = @ + 1]
         /\ UNCHANGED <<desk, dirty, missed, fellBack>>
  BY DEF DeskHistoryRestoreRoute
<1>3. /\ file = "ok" /\ file' = file /\ seqs' = seqs /\ page' = page /\ put' = put /\ stray' = stray
      /\ last' = last /\ reads' = reads /\ hears' = hears /\ author' = author /\ applied' = applied
      /\ again' = again /\ forgot' = forgot /\ build' = build /\ Upset(1)
  BY DEF DeskHistoryRestoreRoute, wires
<1> DEFINE w == Version("before-restore", desk)
<1>4. upsets' \in 0..MaxUpsets /\ upsets' = upsets + 1 /\ upsets' \in Nat /\ upsets \in Nat
      /\ desk.gen \in Nat /\ desk.rev \in Nat /\ MaxGen \in Nat /\ HistoryMax \in Nat /\ HistoryMax > 1
  BY <1>1, <1>3, Upsets, GhostFields, DeskFields, BoundsAssumption
<1>6. ASSUME NEW i \in DOMAIN versions, NEW now \in 1..MaxGen,
             NEW recs \in Pruned(desk, Restored(desk, versions[i].desk))
      PROVE  d(recs, now) \in DeskType /\ d(recs, now).gen = now /\ d(recs, now).rev = desk.rev + 1
  <2>1. versions[i] \in VersionType
    BY <1>1 DEF VersionsOK
  <2>2. Restored(desk, versions[i].desk) \in RecsType
    BY <1>1, <2>1, RestoredIs DEF VersionType
  <2>3. recs \in RecsType
    BY <2>2, PrunedIs
  <2>4. now \in 0..MaxGen /\ desk.rev + 1 \in Nat /\ desk.pick \in Trees \cup {NoTree}
    BY <1>1, <1>4, DeskFields
  <2> QED
    BY <2>3, <2>4 DEF DeskType, RecsType
<1> HIDE DEF d
<1>7. w \in VersionType /\ w.reason = "before-restore" /\ w.desk = Layout(desk) /\ Layout(desk) \in Layouts
  <2>1. w \in VersionType
    BY <1>1, VersionIs
  <2> QED
    BY <1>1, <2>1, DeskFields DEF Version
<1>8. VersionsOK(saved) /\ DOMAIN saved = 1..Len(saved) /\ Len(saved) > 0 /\ saved[Len(saved)] = w
  BY <1>1, <1>7, Append1Is
<1> HIDE DEF w
<1>9. wayBack \in [desk : Layouts \cup {None}, since : Nat]
  BY <1>1, GhostFields
<1>10. ASSUME NEW e \in DeskType, e.rev = desk.rev + 1, desk' = e,
              versions' \in {saved, Append1(saved, Version("restore", e))},
              dirty' = Push(None), missed' = Unheard(None),
              wayBack' = [desk |-> Layout(desk), since |-> Len(versions') - Len(saved) + 1],
              fellBack' = (fellBack \/ e.gen <= desk.gen)
       PROVE  IInv'
  <2>1. Version("restore", e) \in VersionType
    BY VersionIs
  <2>2. /\ VersionsOK(versions') /\ WayBack(versions', Layout(desk), Len(versions') - Len(saved) + 1)
        /\ Len(versions') - Len(saved) + 1 \in Nat
    <3> HIDE DEF saved
    <3>0. Len(saved) \in Nat
      BY <1>8 DEF VersionsOK
    <3>1. WayBack(saved, Layout(desk), 0)
      <4>1. Len(saved) \in DOMAIN saved /\ Len(saved) >= Len(saved) - 0
        BY <1>8, <3>0
      <4> QED
        BY <1>7, <1>8, <4>1 DEF WayBack
    <3>2. CASE versions' = saved
      <4>1. Len(saved) \in DOMAIN saved /\ Len(saved) >= Len(saved) - (Len(saved) - Len(saved) + 1)
            /\ Len(saved) - Len(saved) + 1 \in Nat
        BY <1>8, <3>0
      <4>2. WayBack(saved, Layout(desk), Len(saved) - Len(saved) + 1)
        BY <1>7, <1>8, <4>1 DEF WayBack
      <4> QED
        BY <1>8, <3>2, <4>1, <4>2
    <3>3. CASE versions' = Append1(saved, Version("restore", e))
      <4> DEFINE new == Append1(saved, Version("restore", e))
      <4>1. PICK s \in {0, 1} :
              /\ VersionsOK(new) /\ DOMAIN new = 1..Len(new) /\ Len(new) > 0
              /\ Len(new) = Len(saved) + 1 - s /\ (s = 1 => Len(saved) = HistoryMax)
              /\ \A j \in 1..Len(new) - 1 : new[j] = saved[j + s]
        BY <1>8, <2>1, Append1Is
      <4> HIDE DEF new
      <4> DEFINE j == Len(saved) - s
      <4>2. j \in 1..Len(new) - 1 /\ j + s = Len(saved) /\ j \in 1..Len(new)
            /\ j >= Len(new) - (Len(new) - Len(saved) + 1) /\ Len(new) - Len(saved) + 1 \in Nat
        <5>1. Len(saved) > 0 /\ Len(saved) \in Nat /\ HistoryMax > 1
          BY <1>4, <1>8, <3>0
        <5>2. CASE s = 0
          <6>1. Len(new) = Len(saved) + 1 /\ j = Len(saved)
            BY <3>0, <4>1, <5>2
          <6> QED
            BY <5>1, <5>2, <6>1
        <5>3. CASE s = 1
          <6>1. Len(new) = Len(saved) /\ j = Len(saved) - 1 /\ Len(saved) = HistoryMax
            BY <3>0, <4>1, <5>3
          <6> QED
            BY <5>1, <5>3, <6>1
        <5> QED
          BY <5>2, <5>3
      <4>3. new[j] = w
        BY <1>8, <4>1, <4>2
      <4> HIDE DEF j
      <4>4. WayBack(new, Layout(desk), Len(new) - Len(saved) + 1)
        BY <1>7, <4>1, <4>2, <4>3 DEF WayBack
      <4> QED
        BY <3>3, <4>1, <4>2, <4>4 DEF new
    <3> QED
      BY <1>10, <3>2, <3>3
  <2>3. DaemonShape'
    BY <1>1, <1>3, <1>10, <2>2 DEF DaemonShape, SeqsOK, VersionsOK, OneEach
  <2>4. wayBack' \in [desk : Layouts \cup {None}, since : Nat]
        /\ wayBack'.desk = Layout(desk) /\ wayBack'.since = Len(versions') - Len(saved) + 1
    BY <1>7, <1>10, <2>2
  <2>5. Way'
    BY <2>2, <2>4 DEF Way, WayBack
  <2>6. (fellBack => fellBack') /\ (fellBack' \/ Later(desk, desk'))
    <3>1. CASE e.gen <= desk.gen
      BY <1>10, <3>1
    <3>2. CASE ~(e.gen <= desk.gen)
      <4>1. desk.gen < e.gen
        BY <1>4, <3>2, DeskFields, BoundsAssumption
      <4>2. fellBack => fellBack'
        BY <1>10, <3>2
      <4> QED
        BY <1>10, <4>1, <4>2 DEF Later
    <3> QED
      BY <3>1, <3>2
  <2>7. dirty' \subseteq Tabs /\ missed' \subseteq Tabs
    BY <1>1, <1>10, PushIs
  <2>9. GhostShape' /\ WireShape'
    BY <1>1, <1>3, <1>4, <2>4, <2>7, GhostFields, WireFields DEF GhostShape, WireShape
  <2>10. PageShape'
    BY <1>1, <1>3, PageSame
  <2>11. Held'
    BY <1>1, <1>3, <1>10, <2>6, HeldMoves
  <2> QED
    BY <2>3, <2>5, <2>9, <2>10, <2>11 DEF IInv, Shape
<1>11. CASE /\ versions' = saved
            /\ wayBack' = [wayBack EXCEPT !.since = @ + 1]
            /\ UNCHANGED <<desk, dirty, missed, fellBack>>
  <2>1. DaemonShape'
    BY <1>1, <1>3, <1>8, <1>11 DEF DaemonShape, SeqsOK, VersionsOK, OneEach
  <2>2. wayBack' \in [desk : Layouts \cup {None}, since : Nat]
        /\ wayBack'.desk = wayBack.desk /\ wayBack'.since = wayBack.since + 1 /\ wayBack.since \in Nat
    BY <1>9, <1>11
  <2>3. Way'
    <3> SUFFICES ASSUME wayBack'.desk # None, wayBack'.since < HistoryMax
                 PROVE  WayBack(versions', wayBack'.desk, wayBack'.since)
      BY DEF Way, WayBack
    <3>1. wayBack.since < HistoryMax /\ wayBack.since + 1 < HistoryMax
      BY <1>4, <2>2
    <3>2. WayBack(versions, wayBack.desk, wayBack.since)
      BY <1>1, <2>2, <3>1 DEF Way
    <3>3. WayBack(Append1(versions, w), wayBack.desk, wayBack.since + 1)
      BY <1>1, <1>7, <2>2, <3>1, <3>2, Append1Way
    <3> QED
      BY <1>11, <2>2, <3>3 DEF w
  <2>4. Later(desk, desk') /\ desk' \in DeskType
    BY <1>1, <1>11 DEF Later
  <2>6. GhostShape' /\ WireShape'
    BY <1>1, <1>3, <1>4, <1>11, <2>2, GhostFields, WireFields DEF GhostShape, WireShape
  <2>7. PageShape'
    BY <1>1, <1>3, PageSame
  <2>8. Held'
    BY <1>1, <1>3, <1>11, <2>4, HeldMoves
  <2> QED
    BY <2>1, <2>3, <2>6, <2>7, <2>8 DEF IInv, Shape
<1>12. ASSUME NEW i \in DOMAIN versions, NEW now \in 1..MaxGen,
              NEW recs \in Pruned(desk, Restored(desk, versions[i].desk)),
              desk' = d(recs, now),
              versions' \in {saved, Append1(saved, Version("restore", d(recs, now)))},
              dirty' = Push(None), missed' = Unheard(None),
              wayBack' = [desk |-> Layout(desk), since |-> Len(versions') - Len(saved) + 1],
              fellBack' = (fellBack \/ now <= desk.gen)
       PROVE  IInv'
  <2> HIDE DEF saved
  <2>1. d(recs, now) \in DeskType /\ d(recs, now).gen = now /\ d(recs, now).rev = desk.rev + 1
    BY <1>6
  <2> QED
    BY <1>10, <1>12, <2>1
<1> HIDE DEF saved
<1> QED
  BY <1>2, <1>11, <1>12

LEMMA DamageKeeps ==
  ASSUME IInv, Damage
  PROVE  IInv'
<1>1. Shape /\ Held /\ Way /\ DaemonShape /\ desk \in DeskType
  BY DEF IInv, Shape, DaemonShape
<1>2. /\ file = "ok" /\ file' = "damaged" /\ Upset(1)
      /\ desk' = desk /\ seqs' = seqs /\ versions' = versions /\ page' = page /\ put' = put
      /\ stray' = stray /\ last' = last /\ reads' = reads /\ hears' = hears /\ dirty' = dirty
      /\ author' = author /\ applied' = applied /\ again' = again /\ forgot' = forgot
      /\ missed' = missed /\ wayBack' = wayBack /\ fellBack' = fellBack /\ build' = build
  BY DEF Damage, wires, ghosts
<1>3. upsets' \in 0..MaxUpsets /\ upsets' = upsets + 1 /\ upsets \in Nat /\ desk.gen \in Nat
  BY <1>1, <1>2, Upsets, GhostFields
<1>4. DaemonShape' /\ Way' /\ Later(desk, desk') /\ desk' \in DeskType
  BY <1>1, <1>2 DEF DaemonShape, SeqsOK, VersionsOK, OneEach, Way, WayBack, Later
<1>5. PageShape'
  BY <1>1, <1>2, PageSame
<1>6. WireShape' /\ GhostShape'
  BY <1>1, <1>2, <1>3, WireFields, GhostFields DEF WireShape, GhostShape
<1>7. Held'
  BY <1>1, <1>2, <1>4, HeldMoves
<1> QED
  BY <1>4, <1>5, <1>6, <1>7 DEF IInv, Shape

(* A new desk: of a higher generation, or the generations fell back.         *)
LEMMA DeskNewRouteKeeps ==
  ASSUME IInv, NEW t \in Tabs, DeskNewRoute(t)
  PROVE  IInv'
<1> DEFINE d(rev, gen) == [rev |-> rev, gen |-> gen, recs |-> Empty.recs, pick |-> NoTree]
<1>1. Shape /\ Held /\ Way /\ DaemonShape /\ desk \in DeskType
  BY DEF IInv, Shape, DaemonShape
<1>2. /\ file = "damaged" /\ file' = "ok" /\ upsets' = upsets
      /\ seqs' = seqs /\ versions' = versions /\ page' = page /\ put' = put
      /\ stray' = stray /\ last' = last /\ hears' = hears /\ build' = build
      /\ author' = author /\ applied' = applied /\ again' = again /\ forgot' = forgot
      /\ wayBack' = wayBack
      /\ \/ \E now \in 1..MaxGen :
              /\ desk' = d(1, now) /\ dirty' = Push(None) /\ missed' = Unheard(None)
              /\ reads' = Ask(t) /\ fellBack' = (fellBack \/ now <= desk.gen)
         \/ desk' = d(0, 0) /\ dirty' = dirty /\ missed' = missed /\ reads' = reads /\ fellBack' = TRUE
  BY DEF DeskNewRoute
<1>3. desk.gen \in Nat /\ MaxGen \in Nat
  BY <1>1, GhostFields, BoundsAssumption
<1>4. ASSUME NEW rev \in {0, 1}, NEW gen \in 0..MaxGen
      PROVE  d(rev, gen) \in DeskType /\ d(rev, gen).gen = gen
  <2>1. Empty.recs \in RecsType
    BY EmptyIs DEF Layouts, RecsType
  <2> QED
    BY <2>1 DEF DeskType, RecsType
<1> HIDE DEF d
<1>5. desk' \in DeskType /\ (fellBack => fellBack') /\ (fellBack' \/ Later(desk, desk'))
  <2>1. CASE desk' = d(0, 0) /\ fellBack' = TRUE
    BY <1>3, <1>4, <2>1
  <2>2. ASSUME NEW now \in 1..MaxGen, desk' = d(1, now), fellBack' = (fellBack \/ now <= desk.gen)
        PROVE  desk' \in DeskType /\ (fellBack => fellBack') /\ (fellBack' \/ Later(desk, desk'))
    <3>1. desk' \in DeskType /\ desk'.gen = now
      BY <1>3, <1>4, <2>2
    <3>2. CASE now <= desk.gen
      BY <2>2, <3>1, <3>2
    <3>3. CASE ~(now <= desk.gen)
      <4>1. desk.gen < desk'.gen
        BY <1>3, <3>1, <3>3
      <4>2. fellBack => fellBack'
        BY <2>2, <3>3
      <4> QED
        BY <3>1, <4>1, <4>2 DEF Later
    <3> QED
      BY <3>2, <3>3
  <2> QED
    BY <1>2, <2>1, <2>2
<1>6. /\ reads' \in [Tabs -> ReadType]
      /\ \A x \in Tabs : reads'[x].answers = reads[x].answers
  BY <1>1, <1>2, WireFields DEF Ask, ReadType
<1>7. dirty' \subseteq Tabs /\ missed' \subseteq Tabs
  BY <1>1, <1>2, PushIs, WireFields, GhostFields
<1>8. DaemonShape' /\ Way'
  BY <1>1, <1>2, <1>5 DEF DaemonShape, SeqsOK, VersionsOK, OneEach, Way, WayBack
<1>9. PageShape'
  BY <1>1, <1>2, PageSame
<1>10. WireShape' /\ GhostShape'
  BY <1>1, <1>2, <1>6, <1>7, WireFields, GhostFields DEF WireShape, GhostShape
<1>11. Held'
  <2>1. CASE fellBack'
    BY <2>1 DEF Held, PageHeld, PutHeld, ReadHeld, AnswerHeld, Was
  <2>2. CASE ~fellBack'
    <3>1. Later(desk, desk')
      BY <1>5, <2>2
    <3>2. \A x \in Tabs : ReadHeld(desk', reads'[x])
      <4> SUFFICES ASSUME NEW x \in Tabs PROVE ReadHeld(desk', reads'[x])
        OBVIOUS
      <4>1. reads[x] \in ReadType /\ ReadHeld(desk, reads[x])
        BY <1>1, WireFields DEF Held
      <4>2. ReadHeld(desk', reads[x])
        BY <1>1, <1>5, <3>1, <4>1, HeldLater
      <4> QED
        BY <1>6, <4>2 DEF ReadHeld
    <3> QED
      BY <1>1, <1>2, <1>5, <3>2, HeldMoves
  <2> QED
    BY <2>1, <2>2
<1> QED
  BY <1>8, <1>9, <1>10, <1>11 DEF IInv, Shape

LEMMA RestartKeeps ==
  ASSUME IInv, Restart
  PROVE  IInv'
<1>1. Shape /\ Held /\ Way /\ DaemonShape /\ desk \in DeskType
  BY DEF IInv, Shape, DaemonShape
<1>2. /\ Upset(1) /\ seqs' = <<>> /\ forgot' = TRUE /\ dirty' = {}
      /\ hears' = [t \in Tabs |-> IF t \in OpenTabs /\ hears[t] = "open" THEN "down" ELSE hears[t]]
      /\ desk' = desk /\ file' = file /\ versions' = versions /\ page' = page /\ put' = put
      /\ stray' = stray /\ last' = last /\ reads' = reads
      /\ author' = author /\ applied' = applied /\ again' = again
      /\ missed' = missed /\ wayBack' = wayBack /\ fellBack' = fellBack
  BY DEF Restart, wires
<1>3. upsets' \in 0..MaxUpsets /\ upsets <= upsets' /\ upsets' \in Nat
  BY <1>1, <1>2, Upsets, GhostFields
<1>4. SeqsOK(<<>>)
  BY BoundsAssumption DEF SeqsOK, OneEach
<1>5. DaemonShape'
  <2>1. SeqsOK(seqs')
    BY <1>2, <1>4
  <2> QED
    BY <1>1, <1>2, <2>1 DEF DaemonShape, VersionsOK, SeqsOK, OneEach
<1>6. Way' /\ Later(desk, desk') /\ desk' \in DeskType
  BY <1>1, <1>2 DEF Way, WayBack, Later
<1>7. PageShape'
  BY <1>1, <1>2, PageSame
<1>8. hears' \in [Tabs -> {"first", "open", "down"}]
  BY <1>1, <1>2, WireFields
<1>9. WireShape' /\ GhostShape'
  <2>1. build' \in [Tabs -> {"same", "other", "held"}]
    BY <1>1, WireFields DEF Restart
  <2> QED
    BY <1>1, <1>2, <1>3, <1>8, <2>1, WireFields, GhostFields DEF WireShape, GhostShape
<1>10. Held'
  BY <1>1, <1>2, <1>6, HeldMoves
<1> QED
  BY <1>5, <1>6, <1>7, <1>9, <1>10 DEF IInv, Shape

LEMMA StutterKeeps ==
  ASSUME IInv, UNCHANGED vars
  PROVE  IInv'
<1>1. Shape
  BY DEF IInv
<1>2. /\ UNCHANGED daemon /\ UNCHANGED <<wayBack, fellBack>> /\ put' = put /\ page' = page /\ reads' = reads
      /\ UNCHANGED <<stray, last, hears, dirty, build, upsets, author, applied, again, forgot, missed>>
  BY DEF vars, wires, ghosts
<1>3. PageShape'
  BY <1>1, <1>2, PageSame
<1>4. WireShape'
  BY <1>1, <1>2, WireFields DEF WireShape
<1>5. GhostShape' /\ upsets' \in Nat /\ upsets <= upsets'
  BY <1>1, <1>2, GhostFields, GhostSame
<1> QED
  BY <1>2, <1>3, <1>4, <1>5, AsideFromDaemon

LEMMA NextKeeps ==
  ASSUME IInv, [Next]_vars
  PROVE  IInv'
<1>1. ASSUME NEW t \in Tabs, PageStep(t) PROVE IInv'
  BY <1>1, OpenKeeps, FirstOpenKeeps, IngestKeeps, OnPushKeeps, HearAgainKeeps, FlushDeskKeeps,
     FlushedKeeps, EmitKeeps, HoldDeskKeeps, LeavesKeep, StartNewDeskKeeps DEF PageStep
<1>2. ASSUME NEW t \in Tabs, DaemonStep(t) PROVE IInv'
  BY <1>2, DeskGetRouteKeeps, DeskPutRouteKeeps, DeskPutRefusedKeeps, LandLastKeeps, DeskNewRouteKeeps DEF DaemonStep
<1>3. ASSUME NEW t \in Tabs, FaultStep(t) PROVE IInv'
  BY <1>3, ReadFailsKeeps, StopHearingKeeps, DisconnectKeeps, LeavesKeep DEF FaultStep
<1> QED
  BY <1>1, <1>2, <1>3, LandStrayKeeps, DeskHistoryRestoreRouteKeeps, DamageKeeps, RestartKeeps, StutterKeeps DEF Next

LEMMA FirstIs == Init => IInv
<1> SUFFICES ASSUME Init PROVE IInv
  OBVIOUS
<1>1. MaxUpsets \in Nat /\ MaxGen \in Nat /\ HistoryMax \in Nat /\ HistoryMax > 1 /\ TabCap \in Nat
  BY BoundsAssumption
<1>2. FirstLayout \in Layouts
  BY DataAssumption
<1>3. desk \in DeskType /\ desk.gen = 0 /\ desk.rev = 1 /\ Layout(desk) = FirstLayout
  BY <1>1, <1>2 DEF Init, DeskType, Layouts, Layout
<1>4. SeqsOK(seqs)
  BY <1>1 DEF Init, SeqsOK, OneEach
<1>5. VersionsOK(versions)
  <2> DEFINE v == [Version("change", FirstLayout) EXCEPT !.young = FALSE]
  <2>1. v \in VersionType
    BY <1>2 DEF Version, VersionType, Layout, Layouts
  <2>2. versions = <<v>>
    BY DEF Init
  <2> HIDE DEF v
  <2> QED
    BY <1>1, <2>1, <2>2 DEF VersionsOK
<1>6. DaemonShape
  BY <1>3, <1>4, <1>5 DEF Init, DaemonShape
<1>7. PageShape
  BY FreshPages DEF Init, PageShape, PageOK
<1>8. WireShape
  BY QuietParts DEF Init, WireShape
<1>9. GhostShape
  <2>2. applied \in [Numbers -> Nat] /\ author \in [Numbers -> Tabs \cup {None}]
    BY DEF Init
  <2>3. wayBack \in [desk : Layouts \cup {None}, since : Nat]
    BY DEF Init
  <2>4. upsets \in 0..MaxUpsets /\ again \subseteq Numbers /\ forgot \in BOOLEAN /\ missed \subseteq Tabs
    <3>1. upsets = 0 /\ again = {} /\ missed = {}
      BY DEF Init
    <3>2. forgot = FALSE
      BY DEF Init
    <3>3. 0 \in 0..MaxUpsets
      BY <1>1
    <3>4. upsets \in 0..MaxUpsets
      BY <3>1, <3>3
    <3> QED
      BY <3>1, <3>2, <3>4
  <2> QED
    BY <2>2, <2>3, <2>4 DEF GhostShape
<1>10. Held
  <2> SUFFICES ASSUME NEW t \in Tabs
               PROVE  PageHeld(desk, page[t]) /\ PutHeld(desk, put[t]) /\ ReadHeld(desk, reads[t])
    BY DEF Held
  <2>1. PageHeld(desk, NewPage) /\ PageHeld(desk, OldPage)
    BY <1>3, FreshPages DEF PageHeld, Was
  <2>2. page[t] \in {NewPage, OldPage} /\ put[t] = Idle /\ reads[t] = NoReads
    BY DEF Init
  <2> QED
    BY <2>1, <2>2, QuietParts
<1>11. Way
  BY DEF Init, Way
<1> QED
  BY <1>6, <1>7, <1>8, <1>9, <1>10, <1>11 DEF IInv, Shape

(* The inductive invariant holds in every reachable state.                   *)
THEOREM DeskInductive == Spec => []IInv
<1>1. Init => IInv
  BY FirstIs
<1>2. IInv /\ [Next]_vars => IInv'
  BY NextKeeps
<1> QED
  BY <1>1, <1>2, PTL DEF Spec

LEMMA IInvTypes == IInv => TypeOK
<1> SUFFICES ASSUME IInv PROVE TypeOK
  OBVIOUS
<1>1. Shape
  BY DEF IInv
<1>2. IsDesk(desk) /\ file \in {"ok", "damaged"}
  BY <1>1, DeskFields, BoundsAssumption DEF Shape, DaemonShape, IsDesk
<1>3. /\ seqs \in Seq(Entries) /\ Len(seqs) <= TabCap /\ OneEach(seqs)
      /\ versions \in Seq(VersionType) /\ Len(versions) <= HistoryMax
  BY <1>1 DEF Shape, DaemonShape, SeqsOK, VersionsOK
<1>4. stray \subseteq BodyType /\ dirty \subseteq Tabs /\ missed \subseteq Tabs
  BY <1>1, WireFields, GhostFields
<1>5. ASSUME NEW t \in Tabs
      PROVE  /\ page[t].phase \in {"new", "loading", "ready", "failed", "gone"}
             /\ page[t].rev \in Nat \cup {-1} /\ page[t].gen \in Ats
             /\ page[t].server \in Layouts /\ page[t].pending \in Seq(Changes)
             /\ page[t].inflight \in 0..Len(page[t].pending)
             /\ (page[t].phase = "ready" => page[t].gen >= 0)
  <2>1. page[t] \in PageType /\ PageOK(page[t])
    BY <1>1 DEF Shape, PageShape
  <2>2. page[t].gen \in -1..MaxGen /\ MaxGen \in Nat /\ page[t].pending \in Seq(Changes)
        /\ page[t].inflight \in Nat
    BY <2>1, PageFields, BoundsAssumption
  <2>3. page[t].gen \in Ats /\ (page[t].phase = "ready" => page[t].gen >= 0)
        /\ page[t].inflight \in 0..Len(page[t].pending)
    BY <2>1, <2>2 DEF PageOK, Ats
  <2> QED
    BY <2>1, <2>2, <2>3, PageFields
<1>6. ASSUME NEW t \in Tabs
      PROVE  /\ put[t].at \in {"idle", "going", "answered"}
             /\ (put[t].at # "idle" => put[t].body \in BodyType)
             /\ last[t] \in BodyType \cup {None}
             /\ \A a \in reads[t].answers : a.kind \in {"ok", "unreadable"}
             /\ hears[t] \in {"first", "open", "down"} /\ build[t] \in {"same", "other", "held"}
  <2>1. put[t] \in PutType /\ reads[t] \in ReadType
    BY <1>1, WireFields
  <2>2. ASSUME NEW a \in reads[t].answers PROVE a.kind \in {"ok", "unreadable"}
    <3>1. a \in Answers
      BY <2>1, ReadFields
    <3> QED
      BY <3>1 DEF Answers
  <2> QED
    BY <1>1, <2>1, <2>2, PutFields, WireFields
<1> QED
  BY <1>2, <1>3, <1>4, <1>5, <1>6 DEF TypeOK, Entries, VersionType, OneEach

(* The desk, the pages and the wires keep their types, and the history and   *)
(* the list of tab numbers their caps, with one number per tab (HISTORY_MAX  *)
(* and TAB_SEQS), whatever the pages send and however often the daemon falls.*)
THEOREM DeskTypeCorrect == Spec => []TypeOK
  BY DeskInductive, IInvTypes, PTL

(* As long as every restore and every new desk raised the generation, a page *)
(* that holds the stored desk's generation and rev holds that desk, so take  *)
(* may drop every answer that is not newer (wb-desk-sync.ts).                *)
THEOREM DeskOnePerRev == Spec => []SameRevSameDesk
<1>1. IInv => SameRevSameDesk
  <2> SUFFICES ASSUME IInv, ~fellBack, NEW t \in Tabs, page[t].rev = desk.rev, page[t].gen = desk.gen
               PROVE  page[t].server = Layout(desk)
    BY DEF SameRevSameDesk
  <2>1. Was(desk, page[t].gen, page[t].rev, page[t].server)
    BY DEF IInv, Held, PageHeld
  <2>2. desk.gen \in Int /\ desk.rev \in Int
    BY DeskFields, BoundsAssumption DEF IInv, Shape, DaemonShape
  <2> QED
    BY <2>1, <2>2 DEF Was
<1> QED
  BY <1>1, DeskInductive, PTL

(* The layout a restore replaced stays in the history as a before-restore    *)
(* version until as many newer ones push it out: no change is coalesced into *)
(* it, and no undo deletes it (desk/history.rs).                             *)
THEOREM DeskRestoreUndoable == Spec => []RestoreUndoable
<1>1. IInv => RestoreUndoable
  BY DEF IInv, Way, WayBack, RestoreUndoable
<1> QED
  BY <1>1, DeskInductive, PTL

=============================================================================
