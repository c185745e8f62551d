------------------------- MODULE SessionStreamProofs -------------------------
(***************************************************************************)
(* Theorems about SessionStream, for any number of bytes, resizes and      *)
(* reopens, and for every capacity of the ring and of the queues.          *)
(***************************************************************************)
EXTENDS SessionStream, SequenceTheorems, TLAPS

-----------------------------------------------------------------------------
(* Sequences.                                                               *)

LEMMA HandedOver ==
  ASSUME NEW S, NEW s \in Seq(S), NEW t \in Seq(S), t # <<>>
  PROVE  Append(s, Head(t)) \o Tail(t) = s \o t
<1>1. Len(t) \in Nat /\ Len(t) > 0 /\ Len(s) \in Nat
  OBVIOUS
<1>2. Len(Append(s, Head(t)) \o Tail(t)) = Len(s \o t)
  BY <1>1
<1>3. ASSUME NEW i \in 1 .. Len(s \o t)
      PROVE  (Append(s, Head(t)) \o Tail(t))[i] = (s \o t)[i]
  <2>1. CASE i <= Len(s)
    BY <1>1, <2>1
  <2>2. CASE i = Len(s) + 1
    BY <1>1, <2>2
  <2>3. CASE i > Len(s) + 1
    BY <1>1, <2>3
  <2> QED
    BY <1>1, <2>1, <2>2, <2>3
<1>4. Append(s, Head(t)) \o Tail(t) \in Seq(S) /\ s \o t \in Seq(S)
  BY <1>1
<1> QED
  BY <1>2, <1>3, <1>4

LEMMA TakenOff ==
  ASSUME NEW S, NEW s \in Seq(S), NEW t \in Seq(S), s # <<>>
  PROVE  s \o t # <<>> /\ Head(s \o t) = Head(s) /\ Tail(s \o t) = Tail(s) \o t
<1>1. Len(s) \in Nat /\ Len(s) > 0 /\ Len(t) \in Nat /\ s \o t \in Seq(S)
  OBVIOUS
<1>2. s \o t # <<>> /\ Head(s \o t) = Head(s)
  BY <1>1
<1>3. Len(Tail(s \o t)) = Len(Tail(s) \o t)
  BY <1>1, <1>2
<1>4. ASSUME NEW i \in 1 .. Len(Tail(s \o t))
      PROVE  Tail(s \o t)[i] = (Tail(s) \o t)[i]
  <2>1. CASE i <= Len(s) - 1
    BY <1>1, <1>2, <2>1
  <2>2. CASE i > Len(s) - 1
    BY <1>1, <1>2, <2>2
  <2> QED
    BY <1>1, <2>1, <2>2
<1>5. Tail(s \o t) \in Seq(S) /\ Tail(s) \o t \in Seq(S)
  BY <1>1, <1>2
<1> QED
  BY <1>2, <1>3, <1>4, <1>5

LEMMA PutLast ==
  ASSUME NEW S, NEW s \in Seq(S), NEW t \in Seq(S), NEW x \in S
  PROVE  s \o Append(t, x) = Append(s \o t, x)
<1>1. Len(t) \in Nat /\ Len(s) \in Nat /\ s \o t \in Seq(S)
  OBVIOUS
<1>2. Len(s \o Append(t, x)) = Len(Append(s \o t, x))
  BY <1>1
<1>3. ASSUME NEW i \in 1 .. Len(s \o Append(t, x))
      PROVE  (s \o Append(t, x))[i] = Append(s \o t, x)[i]
  <2>1. CASE i <= Len(s)
    BY <1>1, <2>1
  <2>2. CASE i > Len(s) /\ i <= Len(s) + Len(t)
    BY <1>1, <2>2
  <2>3. CASE i = Len(s) + Len(t) + 1
    BY <1>1, <2>3
  <2> QED
    BY <1>1, <2>1, <2>2, <2>3
<1>4. s \o Append(t, x) \in Seq(S) /\ Append(s \o t, x) \in Seq(S)
  BY <1>1
<1> QED
  BY <1>2, <1>3, <1>4

LEMMA Nothing ==
  ASSUME NEW S, NEW s \in Seq(S)
  PROVE  s \o <<>> = s /\ <<>> \o s = s
  OBVIOUS

(* Two runs of bytes that meet make one.                                     *)
LEMMA Joins ==
  ASSUME NEW s \in Seq(Nat), NEW t \in Seq(Nat), Contiguous(s), Contiguous(t), t # <<>>,
         s # <<>> => t[1] = Last(s) + 1
  PROVE  s \o t \in Seq(Nat) /\ Contiguous(s \o t) /\ UpTo(s \o t) = Last(t)
<1>1. Len(s) \in Nat /\ Len(t) \in Nat /\ Len(t) > 0 /\ Len(s \o t) = Len(s) + Len(t)
      /\ s \o t \in Seq(Nat)
  OBVIOUS
<1>2. Last(s \o t) = Last(t) /\ s \o t # <<>>
  BY <1>1 DEF Last
<1>3. ASSUME NEW i \in 1 .. Len(s \o t) - 1
      PROVE  (s \o t)[i + 1] = (s \o t)[i] + 1
  <2>1. CASE i < Len(s)
    <3>1. (s \o t)[i] = s[i] /\ (s \o t)[i + 1] = s[i + 1] /\ i \in 1 .. Len(s) - 1
      BY <1>1, <2>1
    <3> QED
      BY <3>1 DEF Contiguous
  <2>2. CASE i = Len(s)
    <3>1. (s \o t)[i] = Last(s) /\ (s \o t)[i + 1] = t[1] /\ s # <<>>
      BY <1>1, <2>2 DEF Last
    <3> QED
      BY <3>1
  <2>3. CASE i > Len(s)
    <3> DEFINE j == i - Len(s)
    <3>0. j \in 1 .. Len(t) - 1 /\ j + 1 = (i + 1) - Len(s)
      BY <1>1, <2>3
    <3>1. (s \o t)[i] = t[j]
      BY <1>1, <2>3, ConcatProperties
    <3>2. (s \o t)[i + 1] = t[j + 1]
      BY <1>1, <2>3, <3>0, ConcatProperties
    <3> HIDE DEF j
    <3> QED
      BY <3>0, <3>1, <3>2 DEF Contiguous
  <2> QED
    BY <1>1, <2>1, <2>2, <2>3
<1> QED
  BY <1>1, <1>2, <1>3 DEF Contiguous, UpTo

LEMMA BytesFields ==
  ASSUME NEW from \in Nat, NEW to \in Nat, from <= to + 1
  PROVE  /\ Bytes(from, to) \in Seq(Nat) /\ Len(Bytes(from, to)) = to - from + 1
         /\ \A i \in 1 .. to - from + 1 : Bytes(from, to)[i] = from + i - 1
         /\ Contiguous(Bytes(from, to))
         /\ Bytes(from, to) = <<>> <=> from = to + 1
         /\ from <= to => Last(Bytes(from, to)) = to /\ Bytes(from, to)[1] = from
<1> DEFINE b == Bytes(from, to)
<1>1. to - from + 1 \in Nat /\ \A i \in 1 .. to - from + 1 : from + i - 1 \in Nat
  OBVIOUS
<1>2. b \in [1 .. to - from + 1 -> Nat]
  BY <1>1 DEF Bytes
<1>3. b \in Seq(Nat) /\ Len(b) = to - from + 1
  BY <1>1, <1>2
<1>4. \A i \in 1 .. to - from + 1 : b[i] = from + i - 1
  BY DEF Bytes
<1> HIDE DEF b
<1>5. Contiguous(b)
  BY <1>1, <1>3, <1>4 DEF Contiguous
<1>6. b = <<>> <=> from = to + 1
  BY <1>1, <1>3
<1>7. from <= to => Last(b) = to /\ b[1] = from
  BY <1>1, <1>3, <1>4 DEF Last
<1> QED
  BY <1>3, <1>4, <1>5, <1>6, <1>7 DEF b

-----------------------------------------------------------------------------
(* The stages of the page on its way through the frames it was sent.        *)

CountOr == Nat \cup {NoCount}
Ends == Reasons \cup {NoReason}

(* Where a reader of the frames is: before the opening, with the count it    *)
(* asked for; between an opening and its replay, which ends at `at` and      *)
(* begins after `from` when it is a resume; live at a count; or told the end. *)
Stages ==
    {q \in [mode : {"start", "replay", "live", "ended"}, at : CountOr, from : CountOr, why : Ends] :
        /\ q.mode \in {"replay", "live"} => q.at \in Nat
        /\ q.mode = "ended" <=> q.why # NoReason}

(* What a frame makes of a stage.                                            *)
TakesOpen(q, f, p) ==
    /\ q.mode \in {"start", "live"} /\ p.at = f.offset
    /\ f.resume => q.mode = "start" /\ q.at \in Nat
    /\ IF f.replay
       THEN p.mode = "replay" /\ p.from = IF f.resume THEN q.at ELSE NoCount
       ELSE p.mode = "live" /\ f.offset = IF f.resume THEN q.at ELSE 0
TakesOutput(q, f, p) ==
    /\ Contiguous(f.bytes) /\ f.bytes # <<>> /\ p.mode = "live"
    /\ \/ /\ q.mode = "replay" /\ p.at = q.at /\ Last(f.bytes) = q.at
          /\ q.from # NoCount => f.bytes[1] = q.from + 1
       \/ /\ q.mode = "live" /\ Len(f.bytes) = 1
          /\ f.bytes[1] = q.at + 1 /\ p.at = q.at + 1
Takes(q, f, p) ==
    /\ q.mode # "ended"
    /\ f.kind = "size" => p = q
    /\ f.kind = "open" => TakesOpen(q, f, p)
    /\ f.kind = "output" => TakesOutput(q, f, p)
    /\ f.kind = "end" => p.mode = "ended" /\ p.at = q.at /\ p.why = f.reason

Path(F, r) ==
    /\ r \in [1 .. Len(F) + 1 -> Stages]
    /\ \A i \in 1 .. Len(F) : Takes(r[i], F[i], r[i + 1])

(* The frames F lead from stage a to stage z.                                *)
Leads(F, a, z) == \E r : Path(F, r) /\ r[1] = a /\ r[Len(F) + 1] = z

LEMMA LeadsNowhere ==
  ASSUME NEW a \in Stages
  PROVE  Leads(<<>>, a, a)
<1> DEFINE r == [i \in {1} |-> a]
<1>1. Len(<<>>) = 0 /\ 1 .. 1 = {1} /\ r[1] = a
  OBVIOUS
<1>2. Path(<<>>, r)
  BY <1>1 DEF Path
<1> QED
  BY <1>1, <1>2 DEF Leads

LEMMA LeadsOn ==
  ASSUME NEW S, NEW F \in Seq(S), NEW f \in S, NEW a \in Stages, NEW y, NEW z \in Stages,
         Leads(F, a, y), Takes(y, f, z)
  PROVE  Leads(Append(F, f), a, z)
<1>1. PICK r : Path(F, r) /\ r[1] = a /\ r[Len(F) + 1] = y
  BY DEF Leads
<1> DEFINE n == Len(F)
           G == Append(F, f)
           t == [i \in 1 .. n + 2 |-> IF i <= n + 1 THEN r[i] ELSE z]
<1>2. n \in Nat /\ Len(G) = n + 1 /\ G[n + 1] = f /\ \A i \in 1 .. n : G[i] = F[i]
  OBVIOUS
<1>3. r \in [1 .. n + 1 -> Stages] /\ \A i \in 1 .. n : Takes(r[i], F[i], r[i + 1])
  BY <1>1 DEF Path
<1>4. t \in [1 .. n + 2 -> Stages]
  BY <1>2, <1>3
<1>5. t[n + 2] = z /\ \A i \in 1 .. n + 1 : t[i] = r[i]
  BY <1>2
<1> HIDE DEF t, n, G
<1>6. ASSUME NEW i \in 1 .. n + 1
      PROVE  Takes(t[i], G[i], t[i + 1])
  <2>1. CASE i <= n
    <3>1. t[i] = r[i] /\ t[i + 1] = r[i + 1] /\ G[i] = F[i] /\ i \in 1 .. n
      BY <1>2, <1>5, <2>1
    <3> QED
      BY <1>3, <3>1
  <2>2. CASE i = n + 1
    <3>1. t[i] = y /\ t[i + 1] = z /\ G[i] = f
      BY <1>1, <1>2, <1>5, <2>2 DEF n
    <3> QED
      BY <3>1
  <2> QED
    BY <1>2, <2>1, <2>2
<1>7. Path(G, t)
  BY <1>2, <1>4, <1>6 DEF Path
<1>8. t[1] = a /\ t[Len(G) + 1] = z
  BY <1>1, <1>2, <1>5
<1> QED
  BY <1>7, <1>8 DEF Leads, G

LEMMA LeadsFirst ==
  ASSUME NEW S, NEW F \in Seq(S), F # <<>>, NEW a, NEW z, Leads(F, a, z)
  PROVE  \E b \in Stages : Takes(a, Head(F), b) /\ Leads(Tail(F), b, z)
<1>1. PICK r : Path(F, r) /\ r[1] = a /\ r[Len(F) + 1] = z
  BY DEF Leads
<1> DEFINE n == Len(F)
           G == Tail(F)
           t == [i \in 1 .. n |-> r[i + 1]]
<1>2. n \in Nat /\ n > 0 /\ Len(G) = n - 1 /\ Head(F) = F[1]
      /\ \A i \in 1 .. n - 1 : G[i] = F[i + 1]
  OBVIOUS
<1>3. r \in [1 .. n + 1 -> Stages] /\ \A i \in 1 .. n : Takes(r[i], F[i], r[i + 1])
  BY <1>1 DEF Path
<1>4. t \in [1 .. n -> Stages] /\ \A i \in 1 .. n : t[i] = r[i + 1]
  BY <1>2, <1>3
<1> HIDE DEF t, n, G
<1>5. ASSUME NEW i \in 1 .. n - 1
      PROVE  Takes(t[i], G[i], t[i + 1])
  <2>1. i + 1 \in 1 .. n /\ i \in 1 .. n /\ (i + 1) + 1 = i + 2
    BY <1>2
  <2>2. t[i] = r[i + 1] /\ t[i + 1] = r[(i + 1) + 1] /\ G[i] = F[i + 1]
    BY <1>2, <1>4, <2>1
  <2> QED
    BY <1>3, <2>1, <2>2
<1>6. Path(G, t)
  <2>1. Len(G) + 1 = n
    BY <1>2
  <2> QED
    BY <1>2, <1>4, <1>5, <2>1 DEF Path
<1>7. t[1] \in Stages /\ t[1] = r[2] /\ t[Len(G) + 1] = z
  BY <1>1, <1>2, <1>4 DEF n
<1>8. Takes(a, Head(F), t[1])
  BY <1>1, <1>2, <1>3, <1>7
<1> QED
  BY <1>6, <1>7, <1>8 DEF Leads, G

(* A part of the frames leads somewhere short of the end.                    *)
LEMMA LeadsPart ==
  ASSUME NEW S, NEW F \in Seq(S), NEW G \in Seq(S), NEW a, NEW z, Leads(F \o G, a, z),
         z.mode # "ended"
  PROVE  \E y \in Stages : Leads(F, a, y) /\ y.mode # "ended"
<1>1. PICK r : Path(F \o G, r) /\ r[1] = a /\ r[Len(F \o G) + 1] = z
  BY DEF Leads
<1> DEFINE n == Len(F)
           m == Len(G)
           t == [i \in 1 .. n + 1 |-> r[i]]
<1>2. n \in Nat /\ m \in Nat /\ Len(F \o G) = n + m /\ \A i \in 1 .. n : (F \o G)[i] = F[i]
  OBVIOUS
<1>3. r \in [1 .. (n + m) + 1 -> Stages]
      /\ \A i \in 1 .. n + m : Takes(r[i], (F \o G)[i], r[i + 1])
  BY <1>1, <1>2 DEF Path
<1>4. t \in [1 .. n + 1 -> Stages] /\ \A i \in 1 .. n + 1 : t[i] = r[i]
  BY <1>2, <1>3
<1> HIDE DEF t, n, m
<1>5. ASSUME NEW i \in 1 .. n
      PROVE  Takes(t[i], F[i], t[i + 1])
  <2>1. i \in 1 .. n + m /\ i \in 1 .. n + 1 /\ i + 1 \in 1 .. n + 1
    BY <1>2
  <2> QED
    BY <1>2, <1>3, <1>4, <2>1
<1>6. Path(F, t)
  BY <1>4, <1>5 DEF Path, n
<1>7. t[n + 1] \in Stages /\ t[1] = a /\ t[n + 1] = r[n + 1]
  BY <1>1, <1>2, <1>4
<1>8. t[n + 1].mode # "ended"
  <2>1. CASE m = 0
    BY <1>1, <1>2, <1>7, <2>1
  <2>2. CASE m > 0
    <3>1. n + 1 \in 1 .. n + m
      BY <1>2, <2>2
    <3> QED
      BY <1>3, <1>7, <3>1 DEF Takes
  <2> QED
    BY <1>2, <2>1, <2>2
<1> QED
  BY <1>6, <1>7, <1>8 DEF Leads, n

LEMMA LeadsFromEnd ==
  ASSUME NEW S, NEW F \in Seq(S), NEW a, NEW z, Leads(F, a, z)
  PROVE  /\ F = <<>> => a = z
         /\ a.mode = "ended" => F = <<>>
<1>1. F = <<>> => a = z
  BY DEF Leads
<1>2. ASSUME a.mode = "ended", F # <<>> PROVE FALSE
  <2>1. PICK b \in Stages : Takes(a, Head(F), b)
    BY <1>2, LeadsFirst
  <2> QED
    BY <1>2, <2>1 DEF Takes
<1> QED
  BY <1>1, <1>2

-----------------------------------------------------------------------------
(* The inductive invariant.                                                 *)

KeptType == [written : 0 .. MaxBytes, resizedAt : 0 .. MaxBytes, size : Sizes,
             resizes : 0 .. MaxResizes, screen : BOOLEAN]
AttType == [phase : {"off", "loop", "flush", "drain", "end"}, rx : 0 .. MaxBytes,
            resized : BOOLEAN, evict : Ends, left : 0 .. MaxBytes]
PageType == [link : {"idle", "connecting", "open", "done"}, term : Seq(Nat),
             shown : CountOr, since : CountOr, replayNext : BOOLEAN, opened : BOOLEAN,
             everOpened : BOOLEAN, watching : BOOLEAN, announced : Ends,
             failed : 0 .. MaxFailedReopens + 2]

(* The terminal shows the output up to this count.                           *)
Up(n) == Contiguous(page.term) /\ UpTo(page.term) = n

(* The page, before the frames it has not read.                              *)
PageAt(q) ==
    /\ page.shown \in {NoCount, q.at} /\ page.announced = q.why
    /\ q.mode = "start" =>
         ~page.opened /\ ~page.replayNext /\ (q.at # NoCount /\ ~lost => Up(q.at))
    /\ q.mode = "replay" =>
         page.replayNext /\ (IF q.from = NoCount THEN page.term = <<>> ELSE ~lost => Up(q.from))
    /\ q.mode = "live" => ~page.replayNext

(* The bridge, after the frames it made.                                     *)
DaemonAt(q) ==
    /\ att.phase \in {"loop", "flush", "drain"} => q.mode = "live" /\ q.at = att.rx
    /\ att.phase # "off" => q.mode # "ended"
    /\ q.why = "taken-over" => ~page.watching
    /\ q.why = "child-exited" =>
         child # "runs" /\ (child = "gone" /\ ~cut => q.at = kept.written)
    /\ att.phase = "end" /\ att.evict = "child-exited" /\ child = "gone" /\ ~cut
         => q.at = kept.written

(* The frames lead from where the page is to where the bridge is.            *)
Stream ==
    page.link = "open" =>
        \E a, z \in Stages : Leads(wire \o outbox, a, z) /\ PageAt(a) /\ DaemonAt(z)

(* A page without a channel, and its link.                                   *)
Channel ==
    /\ page.link # "open" => att = NoAtt /\ wire = <<>> /\ outbox = <<>> /\ ~page.replayNext
    /\ att.phase \in {"off", "end"} => outbox = <<>>
    /\ page.link = "connecting" =>
         /\ ~page.opened /\ page.announced = NoReason
         /\ page.shown \in {NoCount, page.since}
         /\ page.since # NoCount /\ ~lost => Up(page.since)
    /\ page.link = "idle" => page.announced = NoReason
    /\ page.link = "done" => page.shown = NoCount
    /\ page.link # "done" =>
         page.failed <= MaxFailedReopens + (IF page.watching THEN 1 ELSE 0)

(* What the bridge has left to read, and why it leaves its loop.             *)
Bridge ==
    /\ att.rx <= kept.written
    /\ att.phase = "off" => att = NoAtt
    /\ att.phase = "drain" =>
         /\ att.rx + att.left <= kept.written /\ att.evict = "child-exited"
         /\ child = "gone" => att.rx + att.left = kept.written
    /\ att.phase \in {"flush", "end"} => att.evict # NoReason
    /\ att.evict = "taken-over" => ~page.watching
    /\ att.evict = "child-exited" => child # "runs"

(* A resume that is not handed on yet: its size and its tail follow it.      *)
OneSize(i) ==
    outbox[i].kind = "open" /\ outbox[i].resume /\ outbox[i].replay =>
        /\ i + 2 <= Len(outbox) /\ outbox[i + 2].kind = "output"
        /\ \A j \in 1 .. Len(outbox[i + 2].bytes) :
            /\ outbox[i + 2].bytes[j] \in 1 .. kept.written
            /\ wroteAt[outbox[i + 2].bytes[j]] = outbox[i + 1].size

(* The bytes since the last resize are of the present size.                  *)
Sized ==
    /\ kept.resizedAt <= kept.written
    /\ \A b \in kept.resizedAt + 1 .. kept.written : wroteAt[b] = kept.size
    /\ \A i \in 1 .. Len(outbox) : OneSize(i)

IInv == TypeOK /\ Channel /\ Bridge /\ Sized /\ Stream /\ CountMatchesTerminal

-----------------------------------------------------------------------------
(* The fields of the records and of the frames.                             *)

LEMMA Parts ==
  TypeOK <=> /\ kept \in KeptType /\ child \in {"runs", "closing", "killed", "gone"}
             /\ att \in AttType /\ outbox \in Seq(Frames) /\ wire \in Seq(Frames)
             /\ Len(wire) <= WireCap /\ page \in PageType
             /\ wroteAt \in Seq(Sizes) /\ Len(wroteAt) = kept.written
             /\ lost \in BOOLEAN /\ cut \in BOOLEAN
  BY DEF TypeOK, KeptType, AttType, PageType, Ends, CountOr

LEMMA PartsNext ==
  TypeOK' <=> /\ kept' \in KeptType /\ child' \in {"runs", "closing", "killed", "gone"}
              /\ att' \in AttType /\ outbox' \in Seq(Frames) /\ wire' \in Seq(Frames)
              /\ Len(wire') <= WireCap /\ page' \in PageType
              /\ wroteAt' \in Seq(Sizes) /\ Len(wroteAt') = kept'.written
              /\ lost' \in BOOLEAN /\ cut' \in BOOLEAN
  BY DEF TypeOK, KeptType, AttType, PageType, Ends, CountOr

LEMMA KeptFields ==
  ASSUME TypeOK
  PROVE  /\ MaxBytes \in Nat /\ MaxResizes \in Nat /\ MaxFailedReopens \in Nat
         /\ kept.written \in 0 .. MaxBytes /\ kept.resizedAt \in 0 .. MaxBytes
         /\ kept.written \in Nat /\ kept.resizedAt \in Nat
         /\ kept.size \in Sizes /\ kept.resizes \in 0 .. MaxResizes /\ kept.screen \in BOOLEAN
  BY Parts, StreamAssumption DEF KeptType

LEMMA AttFields ==
  ASSUME TypeOK
  PROVE  /\ att.phase \in {"off", "loop", "flush", "drain", "end"}
         /\ att.rx \in 0 .. MaxBytes /\ att.rx \in Nat /\ att.resized \in BOOLEAN
         /\ att.evict \in Ends /\ att.left \in 0 .. MaxBytes /\ att.left \in Nat
  BY Parts, StreamAssumption DEF AttType

LEMMA PageFields ==
  ASSUME TypeOK
  PROVE  /\ page.link \in {"idle", "connecting", "open", "done"} /\ page.term \in Seq(Nat)
         /\ page.shown \in CountOr /\ page.since \in CountOr
         /\ page.replayNext \in BOOLEAN /\ page.opened \in BOOLEAN
         /\ page.everOpened \in BOOLEAN /\ page.watching \in BOOLEAN
         /\ page.announced \in Ends /\ page.failed \in 0 .. MaxFailedReopens + 2
         /\ page.failed \in Nat
  BY Parts, StreamAssumption DEF PageType

LEMMA NoAttFields ==
  /\ NoAtt \in AttType /\ NoAtt.phase = "off" /\ NoAtt.rx = 0 /\ NoAtt.resized = FALSE
  /\ NoAtt.evict = NoReason /\ NoAtt.left = 0
  BY StreamAssumption DEF NoAtt, AttType, Ends

LEMMA StageFields ==
  ASSUME NEW q \in Stages
  PROVE  /\ q.mode \in {"start", "replay", "live", "ended"} /\ q.at \in CountOr
         /\ q.from \in CountOr /\ q.why \in Ends
         /\ q.mode \in {"replay", "live"} => q.at \in Nat
         /\ q.mode = "ended" <=> q.why # NoReason
  BY DEF Stages

LEMMA StageOf ==
  ASSUME NEW mode \in {"start", "replay", "live"}, NEW at \in CountOr, NEW from \in CountOr,
         mode # "start" => at \in Nat
  PROVE  \E q \in Stages : q.mode = mode /\ q.at = at /\ q.from = from /\ q.why = NoReason
<1> DEFINE q == [mode |-> mode, at |-> at, from |-> from, why |-> NoReason]
<1>1. q \in Stages
  BY DEF Stages, Ends
<1> QED
  BY <1>1

LEMMA EndOf ==
  ASSUME NEW at \in CountOr, NEW why \in Reasons
  PROVE  \E q \in Stages : q.mode = "ended" /\ q.at = at /\ q.why = why
<1> DEFINE q == [mode |-> "ended", at |-> at, from |-> at, why |-> why]
<1>1. q \in Stages
  BY StreamAssumption DEF Stages, Ends, Reasons
<1> QED
  BY <1>1

LEMMA FrameFields ==
  ASSUME NEW f \in Frames
  PROVE  /\ f.kind \in {"open", "size", "output", "end"}
         /\ f.kind = "open" => f.offset \in Nat /\ f.resume \in BOOLEAN /\ f.replay \in BOOLEAN
         /\ f.kind = "size" => f.size \in Sizes
         /\ f.kind = "output" => f.bytes \in Seq(Nat)
         /\ f.kind = "end" => f.reason \in Reasons
  BY DEF Frames

LEMMA OutputFrame ==
  ASSUME NEW bytes \in Seq(Nat)
  PROVE  Output(bytes) \in Frames /\ Output(bytes).kind = "output" /\ Output(bytes).bytes = bytes
  BY DEF Output, Frames

LEMMA SizeFrame ==
  ASSUME NEW size \in Sizes
  PROVE  LET f == [kind |-> "size", size |-> size]
         IN  f \in Frames /\ f.kind = "size" /\ f.size = size
  BY DEF Frames

LEMMA OpenFrame ==
  ASSUME NEW offset \in Nat, NEW resume \in BOOLEAN, NEW replay \in BOOLEAN
  PROVE  LET f == [kind |-> "open", offset |-> offset, resume |-> resume, replay |-> replay]
         IN  f \in Frames /\ f.kind = "open" /\ f.offset = offset /\ f.resume = resume
             /\ f.replay = replay
  BY DEF Frames

LEMMA EndFrame ==
  ASSUME NEW reason \in Reasons
  PROVE  LET f == [kind |-> "end", reason |-> reason]
         IN  f \in Frames /\ f.kind = "end" /\ f.reason = reason
  BY DEF Frames

-----------------------------------------------------------------------------
(* The opening of a channel, and where it leads.                            *)

LEMMA ReplayFields ==
  ASSUME TypeOK, kept.resizedAt <= kept.written, NEW since \in CountOr
  PROVE  LET r == Replay(since) IN
         /\ r \in Seq(Nat) /\ Contiguous(r)
         /\ r # <<>> => Last(r) = kept.written
         /\ CanResume(since) =>
              /\ since \in Nat
              /\ r = <<>> => since = kept.written
              /\ r # <<>> => r[1] = since + 1
              /\ \A j \in 1 .. Len(r) : r[j] \in kept.resizedAt + 1 .. kept.written
         /\ ~CanResume(since) /\ r = <<>> => kept.written = 0
<1>1. kept.written \in Nat /\ kept.resizedAt \in Nat
  BY KeptFields
<1>2. RingStart \in Nat /\ RingStart <= kept.written
      /\ (RingStart = kept.written => kept.written = 0)
  BY <1>1, StreamAssumption DEF RingStart
<1>3. CASE CanResume(since)
  <2>1. since \in Nat /\ since <= kept.written /\ since >= kept.resizedAt
    BY <1>3, StreamAssumption DEF CanResume, CountOr
  <2>2. Replay(since) = Bytes(since + 1, kept.written)
    BY <1>3 DEF Replay
  <2>3. since + 1 \in Nat /\ since + 1 <= kept.written + 1
    BY <1>1, <2>1
  <2> DEFINE r == Bytes(since + 1, kept.written)
  <2>4. /\ r \in Seq(Nat) /\ Len(r) = kept.written - (since + 1) + 1
        /\ \A i \in 1 .. kept.written - (since + 1) + 1 : r[i] = (since + 1) + i - 1
        /\ Contiguous(r)
        /\ r = <<>> <=> since + 1 = kept.written + 1
        /\ since + 1 <= kept.written => Last(r) = kept.written /\ r[1] = since + 1
    BY <1>1, <2>3, BytesFields
  <2> HIDE DEF r
  <2>5. \A j \in 1 .. Len(r) : r[j] \in kept.resizedAt + 1 .. kept.written
    BY <1>1, <2>1, <2>4
  <2>6. (r = <<>> => since = kept.written) /\ (r # <<>> => since + 1 <= kept.written)
    BY <1>1, <2>1, <2>4
  <2> QED
    BY <1>3, <2>1, <2>2, <2>4, <2>5, <2>6 DEF r
<1>4. CASE ~CanResume(since)
  <2>1. PICK from \in {1, RingStart + 1} : Replay(since) = Bytes(from, kept.written)
    BY <1>4 DEF Replay
  <2>2. from \in Nat /\ from <= kept.written + 1 /\ (from = kept.written + 1 => kept.written = 0)
    BY <1>1, <1>2, <2>1
  <2>3. LET r == Bytes(from, kept.written) IN
        /\ r \in Seq(Nat) /\ Contiguous(r)
        /\ r = <<>> <=> from = kept.written + 1
        /\ from <= kept.written => Last(r) = kept.written
    BY <1>1, <2>2, BytesFields
  <2>4. Replay(since) # <<>> => from <= kept.written
    BY <1>1, <2>1, <2>2, <2>3
  <2> QED
    BY <1>4, <2>1, <2>2, <2>3, <2>4
<1> QED
  BY <1>3, <1>4

LEMMA TwoAndOne ==
  ASSUME NEW S, NEW s \in Seq(S), NEW t \in Seq(S), NEW u \in Seq(S),
         Len(s) = 2, Len(t) = 1, Len(u) = 3, u[1] = s[1], u[2] = s[2], u[3] = t[1]
  PROVE  s \o t = u
<1>1. /\ s \o t \in Seq(S) /\ Len(s \o t) = 2 + 1
      /\ \A i \in 1 .. 2 + 1 : (s \o t)[i] = IF i <= 2 THEN s[i] ELSE t[i - 2]
  BY ConcatProperties
<1>2. Len(s \o t) = Len(u) /\ \A i \in 1 .. Len(s \o t) : i \in {1, 2, 3}
  BY <1>1
<1>3. (s \o t)[1] = u[1]
  BY <1>1
<1>4. (s \o t)[2] = u[2]
  BY <1>1
<1>5. (s \o t)[3] = u[3]
  BY <1>1
<1>6. \A i \in 1 .. Len(s \o t) : (s \o t)[i] = u[i]
  BY <1>2, <1>3, <1>4, <1>5
<1> QED
  BY <1>1, <1>2, <1>6, SeqEqual

LEMMA ThreeFrames ==
  ASSUME NEW S, NEW x \in S, NEW y \in S, NEW z \in S
  PROVE  <<x, y>> \o <<z>> = <<x, y, z>>
<1>1. <<x, y>> \in Seq(S) /\ Len(<<x, y>>) = 2 /\ <<x, y>>[1] = x /\ <<x, y>>[2] = y
  OBVIOUS
<1>2. <<z>> \in Seq(S) /\ Len(<<z>>) = 1 /\ <<z>>[1] = z
  OBVIOUS
<1>3. <<x, y, z>> \in Seq(S) /\ Len(<<x, y, z>>) = 3
      /\ <<x, y, z>>[1] = x /\ <<x, y, z>>[2] = y /\ <<x, y, z>>[3] = z
  OBVIOUS
<1> QED
  BY <1>1, <1>2, <1>3, TwoAndOne

(* The frames of an opening, one by one.                                     *)
OpenOf(since) == [kind |-> "open", offset |-> kept.written, resume |-> CanResume(since),
                  replay |-> Replay(since) # <<>>]
SizeOf == [kind |-> "size", size |-> kept.size]

LEMMA OpeningFrames ==
  ASSUME TypeOK, kept.resizedAt <= kept.written, NEW since \in CountOr
  PROVE  /\ Opening(since) \in Seq(Frames)
         /\ OpenOf(since) \in Frames /\ OpenOf(since).kind = "open"
         /\ OpenOf(since).offset = kept.written
         /\ OpenOf(since).resume = CanResume(since)
         /\ OpenOf(since).replay = (Replay(since) # <<>>)
         /\ SizeOf \in Frames /\ SizeOf.kind = "size" /\ SizeOf.size = kept.size
         /\ Output(Replay(since)) \in Frames /\ Output(Replay(since)).kind = "output"
         /\ Output(Replay(since)).bytes = Replay(since)
         /\ Opening(since) = IF Replay(since) = <<>> THEN <<OpenOf(since), SizeOf>>
                             ELSE <<OpenOf(since), SizeOf, Output(Replay(since))>>
<1>1. Replay(since) \in Seq(Nat) /\ kept.written \in Nat /\ kept.size \in Sizes
  BY ReplayFields, KeptFields
<1>2. CanResume(since) \in BOOLEAN
  BY DEF CanResume
<1>3. /\ OpenOf(since) \in Frames /\ OpenOf(since).kind = "open"
      /\ OpenOf(since).offset = kept.written
      /\ OpenOf(since).resume = CanResume(since)
      /\ OpenOf(since).replay = (Replay(since) # <<>>)
  BY <1>1, <1>2, OpenFrame DEF OpenOf
<1>4. SizeOf \in Frames /\ SizeOf.kind = "size" /\ SizeOf.size = kept.size
  BY <1>1, SizeFrame DEF SizeOf
<1>5. /\ Output(Replay(since)) \in Frames /\ Output(Replay(since)).kind = "output"
      /\ Output(Replay(since)).bytes = Replay(since)
  BY <1>1, OutputFrame
<1>6. Opening(since) = IF Replay(since) = <<>> THEN <<OpenOf(since), SizeOf>>
                       ELSE <<OpenOf(since), SizeOf, Output(Replay(since))>>
  <2>1. Opening(since) = <<OpenOf(since), SizeOf>>
                         \o (IF Replay(since) = <<>> THEN <<>> ELSE <<Output(Replay(since))>>)
    BY DEF Opening, OpenOf, SizeOf
  <2> HIDE DEF OpenOf, SizeOf
  <2>2. <<OpenOf(since), SizeOf>> \o <<>> = <<OpenOf(since), SizeOf>>
    OBVIOUS
  <2>3. <<OpenOf(since), SizeOf>> \o <<Output(Replay(since))>>
        = <<OpenOf(since), SizeOf, Output(Replay(since))>>
    BY <1>3, <1>4, <1>5, ThreeFrames
  <2> QED
    BY <2>1, <2>2, <2>3
<1>7. Opening(since) \in Seq(Frames)
  <2>1. <<OpenOf(since), SizeOf>> \in Seq(Frames)
    BY <1>3, <1>4
  <2>2. <<OpenOf(since), SizeOf, Output(Replay(since))>> \in Seq(Frames)
    BY <1>3, <1>4, <1>5
  <2> QED
    BY <1>6, <2>1, <2>2
<1> QED
  BY <1>3, <1>4, <1>5, <1>6, <1>7

(* An opening leads to the count it was made at.                             *)
LEMMA OpeningLeads ==
  ASSUME TypeOK, kept.resizedAt <= kept.written, NEW since \in CountOr,
         NEW F \in Seq(Frames), NEW a \in Stages, NEW y \in Stages, Leads(F, a, y),
         y.mode \in {"start", "live"}, CanResume(since) => y.mode = "start" /\ y.at = since
  PROVE  \E z \in Stages : /\ Leads(F \o Opening(since), a, z) /\ z.mode = "live"
                           /\ z.at = kept.written /\ z.why = NoReason
<1> DEFINE o == OpenOf(since)
           r == Replay(since)
           m == IF r = <<>> THEN "live" ELSE "replay"
           from == IF CanResume(since) THEN since ELSE NoCount
<1>1. kept.written \in CountOr /\ kept.written \in Nat /\ from \in CountOr
  BY KeptFields DEF CountOr
<1>2. PICK p \in Stages : p.mode = m /\ p.at = kept.written /\ p.from = from /\ p.why = NoReason
  BY <1>1, StageOf
<1>3. PICK z \in Stages : z.mode = "live" /\ z.at = kept.written /\ z.from = from /\ z.why = NoReason
  BY <1>1, StageOf
<1>4. /\ r \in Seq(Nat) /\ Contiguous(r) /\ (r # <<>> => Last(r) = kept.written)
      /\ CanResume(since) =>
           /\ since \in Nat
           /\ r = <<>> => since = kept.written
           /\ r # <<>> => r[1] = since + 1
      /\ ~CanResume(since) /\ r = <<>> => kept.written = 0
  BY ReplayFields
<1>5. /\ o \in Frames /\ o.kind = "open" /\ o.offset = kept.written
      /\ o.resume = CanResume(since) /\ o.replay = (r # <<>>)
      /\ SizeOf \in Frames /\ SizeOf.kind = "size"
      /\ Output(r) \in Frames /\ Output(r).kind = "output" /\ Output(r).bytes = r
      /\ Opening(since) = IF r = <<>> THEN <<o, SizeOf>> ELSE <<o, SizeOf, Output(r)>>
  BY OpeningFrames
<1> HIDE DEF o, r
<1>6. TakesOpen(y, o, p)
  BY <1>2, <1>4, <1>5 DEF TakesOpen
<1>7. Takes(y, o, p)
  BY <1>5, <1>6 DEF Takes
<1>8. Takes(p, SizeOf, p)
  BY <1>2, <1>5 DEF Takes
<1> DEFINE G == Append(Append(F, o), SizeOf)
<1>9. Leads(G, a, p) /\ G \in Seq(Frames)
  <2>1. Append(F, o) \in Seq(Frames)
    BY <1>5
  <2>2. Leads(Append(F, o), a, p)
    BY <1>5, <1>7, LeadsOn
  <2>3. Leads(G, a, p)
    BY <1>5, <1>8, <2>1, <2>2, LeadsOn
  <2>4. G \in Seq(Frames)
    BY <1>5, <2>1
  <2> QED
    BY <2>3, <2>4
<1>10. CASE r = <<>>
  <2>1. F \o Opening(since) = G
    BY <1>5, <1>10
  <2> QED
    BY <1>2, <1>9, <1>10, <2>1
<1>11. CASE r # <<>>
  <2>1. F \o Opening(since) = Append(G, Output(r))
    BY <1>5, <1>11
  <2>2. TakesOutput(p, Output(r), z)
    <3>1. p.from # NoCount => r[1] = p.from + 1
      BY <1>2, <1>4, <1>11
    <3> QED
      BY <1>2, <1>3, <1>4, <1>5, <1>11, <3>1 DEF TakesOutput
  <2>3. Takes(p, Output(r), z)
    BY <1>2, <1>5, <1>11, <2>2 DEF Takes
  <2> HIDE DEF G
  <2>4. Leads(Append(G, Output(r)), a, z)
    BY <1>5, <1>9, <2>3, LeadsOn
  <2> QED
    BY <1>3, <2>1, <2>4
<1> QED
  BY <1>10, <1>11

-----------------------------------------------------------------------------
(* The start.                                                               *)

LEMMA InitInv == Init => IInv
<1> SUFFICES ASSUME Init PROVE IInv
  OBVIOUS
<1>1. TypeOK
  <2>1. kept \in KeptType
    BY StreamAssumption DEF Init, KeptType
  <2>2. page \in PageType
    BY StreamAssumption DEF Init, PageType, CountOr, Ends
  <2>3. outbox \in Seq(Frames) /\ wire \in Seq(Frames) /\ Len(wire) <= WireCap
        /\ wroteAt \in Seq(Sizes) /\ Len(wroteAt) = kept.written
    BY StreamAssumption DEF Init
  <2> QED
    BY <2>1, <2>2, <2>3, NoAttFields, Parts DEF Init
<1>2. Channel
  BY StreamAssumption DEF Init, Channel
<1>3. Bridge
  BY NoAttFields, StreamAssumption DEF Init, Bridge, Reasons
<1>4. Sized
  BY DEF Init, Sized
<1>5. Stream /\ CountMatchesTerminal
  BY DEF Init, Stream, CountMatchesTerminal
<1> QED
  BY <1>1, <1>2, <1>3, <1>4, <1>5 DEF IInv

-----------------------------------------------------------------------------
(* What the daemon keeps.                                                   *)

(* Neither the page nor the frames on their way to it change.               *)
LEMMA FramesStay ==
  ASSUME IInv, wire' \o outbox' = wire \o outbox, UNCHANGED <<page, lost>>,
         ASSUME NEW z \in Stages, DaemonAt(z) PROVE DaemonAt(z)'
  PROVE  Stream' /\ CountMatchesTerminal'
<1>1. CountMatchesTerminal'
  BY DEF IInv, CountMatchesTerminal, Exact
<1>2. Stream'
  <2> SUFFICES ASSUME page.link = "open"
               PROVE  \E a, z \in Stages : Leads(wire' \o outbox', a, z) /\ PageAt(a)' /\ DaemonAt(z)'
    BY DEF Stream
  <2>1. PICK a \in Stages, z \in Stages : Leads(wire \o outbox, a, z) /\ PageAt(a) /\ DaemonAt(z)
    BY DEF IInv, Stream
  <2>2. PageAt(a)'
    BY <2>1 DEF PageAt, Up
  <2> QED
    BY <2>1, <2>2
<1> QED
  BY <1>1, <1>2

LEMMA PublishKeeps ==
  ASSUME IInv, Publish
  PROVE  IInv'
<1>1. TypeOK /\ Channel /\ Bridge /\ Sized
  BY DEF IInv
<1>2. /\ kept.written \in Nat /\ kept.written < MaxBytes /\ MaxBytes \in Nat
      /\ kept.size \in Sizes /\ kept.resizedAt \in Nat /\ att.rx \in Nat /\ att.left \in Nat
  BY <1>1, KeptFields, AttFields DEF Publish
<1>3. PICK ok \in BOOLEAN : kept' = [kept EXCEPT !.written = @ + 1, !.screen = @ /\ ok]
  BY DEF Publish
<1> DEFINE k == [kept EXCEPT !.written = kept.written + 1, !.screen = kept.screen /\ ok]
<1>4. k \in KeptType /\ k.written = kept.written + 1 /\ k.size = kept.size
      /\ k.resizedAt = kept.resizedAt
  <2>1. kept.written + 1 \in 0 .. MaxBytes /\ (kept.screen /\ ok) \in BOOLEAN /\ kept \in KeptType
    BY <1>1, <1>2, Parts
  <2> QED
    BY <2>1 DEF KeptType
<1>5. kept' = k
  BY <1>3
<1> HIDE DEF k
<1>6. wroteAt' = Append(wroteAt, kept.size) /\ child \in {"runs", "closing"}
      /\ UNCHANGED <<child, att, outbox, wire, page, lost, cut>>
  BY DEF Publish
<1>7. /\ wroteAt' \in Seq(Sizes) /\ Len(wroteAt') = kept.written + 1
      /\ wroteAt'[kept.written + 1] = kept.size
      /\ \A b \in 1 .. kept.written : wroteAt'[b] = wroteAt[b]
  BY <1>1, <1>2, <1>6, Parts, AppendProperties
<1>8. TypeOK'
  BY <1>1, <1>4, <1>5, <1>6, <1>7, Parts, PartsNext
<1>9. Channel'
  BY <1>1, <1>6 DEF Channel, Up
<1>10. Bridge'
  BY <1>1, <1>2, <1>4, <1>5, <1>6 DEF Bridge
<1>11. Sized'
  <2>1. kept'.resizedAt <= kept'.written
    BY <1>1, <1>2, <1>4, <1>5 DEF Sized
  <2>2. ASSUME NEW b \in kept'.resizedAt + 1 .. kept'.written
        PROVE  wroteAt'[b] = kept'.size
    <3>1. b \in Nat /\ b >= kept.resizedAt + 1 /\ b <= kept.written + 1
      BY <1>2, <1>4, <1>5
    <3>2. CASE b <= kept.written
      BY <1>1, <1>2, <1>4, <1>5, <1>7, <3>1, <3>2 DEF Sized
    <3>3. CASE b = kept.written + 1
      BY <1>4, <1>5, <1>7, <3>3
    <3> QED
      BY <1>2, <3>1, <3>2, <3>3
  <2>3. ASSUME NEW i \in 1 .. Len(outbox), OneSize(i)
        PROVE  OneSize(i)'
    <3> SUFFICES ASSUME outbox[i].kind = "open" /\ outbox[i].resume /\ outbox[i].replay,
                        NEW j \in 1 .. Len(outbox[i + 2].bytes)
                 PROVE  /\ outbox[i + 2].bytes[j] \in 1 .. kept'.written
                        /\ wroteAt'[outbox[i + 2].bytes[j]] = outbox[i + 1].size
      BY <1>6, <2>3 DEF OneSize
    <3>1. outbox[i + 2].bytes[j] \in 1 .. kept.written
          /\ wroteAt[outbox[i + 2].bytes[j]] = outbox[i + 1].size
      BY <2>3 DEF OneSize
    <3>2. ASSUME NEW x \in 1 .. kept.written
          PROVE  x \in 1 .. kept'.written /\ wroteAt'[x] = wroteAt[x]
      BY <1>2, <1>4, <1>5, <1>7
    <3> QED
      BY <3>1, <3>2
  <2> QED
    BY <1>1, <1>6, <2>1, <2>2, <2>3 DEF Sized
<1>12. ASSUME NEW z \in Stages, DaemonAt(z) PROVE DaemonAt(z)'
  BY <1>6, <1>12 DEF DaemonAt
<1>13. Stream' /\ CountMatchesTerminal'
  BY <1>6, <1>12, FramesStay
<1> QED
  BY <1>8, <1>9, <1>10, <1>11, <1>13 DEF IInv

LEMMA ResizeKeeps ==
  ASSUME IInv, Resize
  PROVE  IInv'
<1>1. TypeOK /\ Channel /\ Bridge /\ Sized
  BY DEF IInv
<1>2. /\ kept.written \in Nat /\ kept.written \in 0 .. MaxBytes /\ MaxResizes \in Nat
      /\ kept.resizes \in 0 .. MaxResizes /\ kept.resizes < MaxResizes
      /\ kept \in KeptType /\ att \in AttType
  BY <1>1, KeptFields, Parts DEF Resize
<1>3. PICK size \in Sizes \ {kept.size} :
        kept' = [kept EXCEPT !.size = size, !.resizedAt = kept.written, !.resizes = @ + 1]
  BY DEF Resize
<1> DEFINE k == [kept EXCEPT !.size = size, !.resizedAt = kept.written, !.resizes = kept.resizes + 1]
           a == [att EXCEPT !.resized = att.phase # "off"]
<1>4. k \in KeptType /\ k.written = kept.written /\ k.resizedAt = kept.written /\ kept' = k
  <2>1. kept.resizes + 1 \in 0 .. MaxResizes
    BY <1>2
  <2> QED
    BY <1>2, <1>3, <2>1 DEF KeptType
<1>5. a \in AttType /\ a.phase = att.phase /\ a.rx = att.rx /\ a.evict = att.evict
      /\ a.left = att.left /\ att' = a /\ (att.phase = "off" => a.resized = FALSE)
  BY <1>2 DEF Resize, AttType
<1>6. att.phase = "off" => a = NoAtt
  <2> SUFFICES ASSUME att.phase = "off" PROVE a = NoAtt
    OBVIOUS
  <2>1. att = NoAtt
    BY <1>1 DEF Bridge
  <2>2. a = [NoAtt EXCEPT !.resized = FALSE]
    BY <2>1, NoAttFields
  <2> QED
    BY <2>2, NoAttFields DEF AttType
<1> HIDE DEF k, a
<1>7. child = "runs" /\ UNCHANGED <<child, outbox, wire, page, wroteAt, lost, cut>>
  BY DEF Resize
<1>8. TypeOK'
  BY <1>1, <1>4, <1>5, <1>7, Parts, PartsNext
<1>9. Channel'
  BY <1>1, <1>5, <1>6, <1>7, NoAttFields DEF Channel, Up
<1>10. Bridge'
  BY <1>1, <1>4, <1>5, <1>6, <1>7 DEF Bridge
<1>11. Sized'
  <2>1. ASSUME NEW i \in 1 .. Len(outbox), OneSize(i)
        PROVE  OneSize(i)'
    BY <1>4, <1>7, <2>1 DEF OneSize
  <2> QED
    BY <1>1, <1>2, <1>4, <1>7, <2>1 DEF Sized
<1>12. ASSUME NEW z \in Stages, DaemonAt(z) PROVE DaemonAt(z)'
  BY <1>4, <1>5, <1>7, <1>12 DEF DaemonAt
<1>13. Stream' /\ CountMatchesTerminal'
  BY <1>7, <1>12, FramesStay
<1> QED
  BY <1>8, <1>9, <1>10, <1>11, <1>13 DEF IInv

(* The steps that leave the frames and what the daemon keeps alone.          *)
LEMMA BridgeSteps ==
  ASSUME IInv, UNCHANGED <<kept, outbox, wire, page, wroteAt, lost>>,
         TypeOK', Bridge', att'.phase \in {"off", "end"} => outbox = <<>>,
         att.phase # "off" \/ att' = att,
         ASSUME NEW z \in Stages, DaemonAt(z) PROVE DaemonAt(z)'
  PROVE  IInv'
<1>1. Channel'
  BY NoAttFields DEF IInv, Channel, Bridge, Up
<1>2. Sized'
  BY DEF IInv, Sized, OneSize
<1>3. Stream' /\ CountMatchesTerminal'
  BY FramesStay
<1> QED
  BY <1>1, <1>2, <1>3 DEF IInv

LEMMA FiredFields ==
  ASSUME TypeOK, NEW reason \in Reasons
  PROVE  /\ Fired(reason) \in AttType /\ Fired(reason).phase = att.phase
         /\ Fired(reason).rx = att.rx /\ Fired(reason).left = att.left
         /\ Fired(reason).evict = IF att.phase = "off" \/ att.evict # NoReason THEN att.evict
                                  ELSE reason
         /\ att.phase = "off" => Fired(reason) = att
<1>1. att \in AttType
  BY Parts
<1>2. CASE att.phase = "off" \/ att.evict # NoReason
  BY <1>1, <1>2 DEF Fired
<1>3. CASE ~(att.phase = "off" \/ att.evict # NoReason)
  BY <1>1, <1>3 DEF Fired, AttType, Ends
<1> QED
  BY <1>2, <1>3

LEMMA ChildKeeps ==
  ASSUME IInv, ChildExits \/ Close
  PROVE  IInv'
<1>1. TypeOK /\ Bridge /\ Channel
  BY DEF IInv
<1>2. /\ att' = Fired("child-exited") /\ child \in {"runs", "closing"}
      /\ child' \in {"gone", "killed", "closing"} /\ (child' = "gone" => child = "runs")
      /\ UNCHANGED <<kept, outbox, wire, page, wroteAt, lost, cut>>
  BY DEF ChildExits, Close
<1>3. /\ att' \in AttType /\ att'.phase = att.phase /\ att'.rx = att.rx /\ att'.left = att.left
      /\ att'.evict = (IF att.phase = "off" \/ att.evict # NoReason THEN att.evict
                       ELSE "child-exited")
      /\ att.phase = "off" => att' = att
  BY <1>1, <1>2, FiredFields DEF Reasons
<1>4. TypeOK'
  BY <1>1, <1>2, <1>3, Parts, PartsNext
<1>5. child = "runs" => att.evict # "child-exited" /\ att.phase # "drain"
  BY <1>1 DEF Bridge
<1>6. Bridge'
  BY <1>1, <1>2, <1>3, <1>5, StreamAssumption DEF Bridge, Reasons
<1>7. ASSUME NEW z \in Stages, DaemonAt(z) PROVE DaemonAt(z)'
  <2>1. att'.phase = "end" => att'.evict = att.evict
    BY <1>1, <1>3 DEF Bridge
  <2>2. child' = "gone" => z.why # "child-exited"
    BY <1>2, <1>7 DEF DaemonAt
  <2> QED
    BY <1>2, <1>3, <1>5, <1>7, <2>1, <2>2 DEF DaemonAt
<1>8. att'.phase \in {"off", "end"} => outbox = <<>>
  BY <1>1, <1>3 DEF Channel
<1> QED
  BY <1>2, <1>3, <1>4, <1>6, <1>7, <1>8, BridgeSteps

LEMMA TakenOverKeeps ==
  ASSUME IInv, TakenOver
  PROVE  IInv'
<1>1. TypeOK /\ Bridge /\ Channel
  BY DEF IInv
<1>2. /\ att' = Fired("taken-over") /\ att.phase = "loop" /\ att.evict = NoReason
      /\ ~page.watching /\ UNCHANGED <<kept, child, outbox, wire, page, wroteAt, lost, cut>>
  BY DEF TakenOver, daemon
<1>3. /\ att' \in AttType /\ att'.phase = "loop" /\ att'.rx = att.rx /\ att'.evict = "taken-over"
  BY <1>1, <1>2, FiredFields DEF Reasons
<1>4. TypeOK'
  BY <1>1, <1>2, <1>3, Parts, PartsNext
<1>5. Bridge'
  BY <1>1, <1>2, <1>3, StreamAssumption DEF Bridge, Reasons
<1>6. ASSUME NEW z \in Stages, DaemonAt(z) PROVE DaemonAt(z)'
  BY <1>2, <1>3, <1>6 DEF DaemonAt
<1> QED
  BY <1>2, <1>3, <1>4, <1>5, <1>6, BridgeSteps

-----------------------------------------------------------------------------
(* The bridge makes frames.                                                 *)

LEMMA FramesGrow ==
  ASSUME IInv, UNCHANGED <<page, lost>>,
         ASSUME NEW a \in Stages, NEW z \in Stages, Leads(wire \o outbox, a, z), DaemonAt(z),
                page.link = "open"
         PROVE  \E y \in Stages : Leads(wire' \o outbox', a, y) /\ DaemonAt(y)'
  PROVE  Stream' /\ CountMatchesTerminal'
<1>1. CountMatchesTerminal'
  BY DEF IInv, CountMatchesTerminal, Exact
<1>2. Stream'
  <2> SUFFICES ASSUME page.link = "open"
               PROVE  \E a, z \in Stages : Leads(wire' \o outbox', a, z) /\ PageAt(a)' /\ DaemonAt(z)'
    BY DEF Stream
  <2>1. PICK a \in Stages, z \in Stages : Leads(wire \o outbox, a, z) /\ PageAt(a) /\ DaemonAt(z)
    BY DEF IInv, Stream
  <2>2. PageAt(a)'
    BY <2>1 DEF PageAt, Up
  <2>3. \E y \in Stages : Leads(wire' \o outbox', a, y) /\ DaemonAt(y)'
    BY <2>1
  <2> QED
    BY <2>2, <2>3
<1> QED
  BY <1>1, <1>2

(* The opening's tail, once it is in the outbox, is of one size.             *)
LEMMA OpeningSized ==
  ASSUME TypeOK, Sized, NEW since \in CountOr, outbox' = Opening(since), UNCHANGED <<kept, wroteAt>>
  PROVE  Sized'
<1>1. /\ kept.resizedAt <= kept.written /\ kept.resizedAt \in Nat /\ kept.written \in Nat
      /\ \A b \in kept.resizedAt + 1 .. kept.written : wroteAt[b] = kept.size
  BY KeptFields DEF Sized
<1> DEFINE o == OpenOf(since)
           r == Replay(since)
<1>2. /\ o.kind = "open" /\ o.resume = CanResume(since) /\ o.replay = (r # <<>>)
      /\ SizeOf.kind = "size" /\ SizeOf.size = kept.size
      /\ Output(r).kind = "output" /\ Output(r).bytes = r
      /\ outbox' = IF r = <<>> THEN <<o, SizeOf>> ELSE <<o, SizeOf, Output(r)>>
  BY <1>1, OpeningFrames
<1>3. CanResume(since) => \A j \in 1 .. Len(r) : r[j] \in kept.resizedAt + 1 .. kept.written
  BY <1>1, ReplayFields
<1> HIDE DEF o, r
<1>4. ASSUME NEW i \in 1 .. Len(outbox')
      PROVE  OneSize(i)'
  <2> SUFFICES ASSUME outbox'[i].kind = "open" /\ outbox'[i].resume /\ outbox'[i].replay
               PROVE  /\ i + 2 <= Len(outbox') /\ outbox'[i + 2].kind = "output"
                      /\ \A j \in 1 .. Len(outbox'[i + 2].bytes) :
                          /\ outbox'[i + 2].bytes[j] \in 1 .. kept.written
                          /\ wroteAt[outbox'[i + 2].bytes[j]] = outbox'[i + 1].size
    BY DEF OneSize
  <2>1. i = 1 /\ r # <<>>
    <3>1. CASE r = <<>>
      <4>1. outbox' = <<o, SizeOf>>
        BY <1>2, <3>1
      <4>2. i \in {1, 2} /\ outbox'[1] = o /\ outbox'[2] = SizeOf
        BY <4>1
      <4>3. o.replay = FALSE
        BY <1>2, <3>1
      <4> QED
        BY <1>2, <4>2, <4>3
    <3>2. CASE r # <<>>
      <4>1. outbox' = <<o, SizeOf, Output(r)>> /\ i \in {1, 2, 3}
        BY <1>2, <3>2
      <4> QED
        BY <1>2, <3>2, <4>1
    <3> QED
      BY <3>1, <3>2
  <2>2. outbox' = <<o, SizeOf, Output(r)>> /\ Len(outbox') = 3
        /\ outbox'[1] = o /\ outbox'[2] = SizeOf /\ outbox'[3] = Output(r)
    BY <1>2, <2>1
  <2>3. CanResume(since)
    BY <1>2, <2>1, <2>2
  <2>4. ASSUME NEW j \in 1 .. Len(r)
        PROVE  r[j] \in 1 .. kept.written /\ wroteAt[r[j]] = kept.size
    BY <1>1, <1>3, <2>3
  <2> QED
    BY <1>2, <2>1, <2>2, <2>4
<1> QED
  BY <1>1, <1>4 DEF Sized

LEMMA AttachKeeps ==
  ASSUME IInv, Attach
  PROVE  IInv'
<1>1. TypeOK /\ Channel /\ Bridge /\ Sized /\ CountMatchesTerminal
  BY DEF IInv
<1>2. /\ page.link = "connecting" /\ att.phase = "off" /\ child = "runs"
      /\ att' = [NoAtt EXCEPT !.phase = "loop", !.rx = kept.written]
      /\ outbox' = Opening(page.since)
      /\ page' = [page EXCEPT !.link = "open", !.since = NoCount]
      /\ cut' = FALSE /\ UNCHANGED <<kept, child, wroteAt, wire, lost>>
  BY DEF Attach, daemon
<1>3. /\ kept.written \in 0 .. MaxBytes /\ kept.written \in Nat /\ kept.resizedAt <= kept.written
      /\ page.since \in CountOr
  BY <1>1, KeptFields, PageFields DEF Sized
<1>4. /\ att' \in AttType /\ att'.phase = "loop" /\ att'.rx = kept.written
      /\ att'.evict = NoReason /\ att'.left = 0
  BY <1>2, <1>3, NoAttFields DEF AttType
<1>5. /\ page' \in PageType /\ page'.link = "open" /\ page'.opened = page.opened
      /\ page'.replayNext = page.replayNext /\ page'.shown = page.shown
      /\ page'.term = page.term /\ page'.announced = page.announced
      /\ page'.watching = page.watching /\ page'.failed = page.failed
  BY <1>1, <1>2, Parts DEF PageType, CountOr
<1>6. outbox' \in Seq(Frames) /\ wire = <<>> /\ wire' = <<>>
  BY <1>1, <1>2, <1>3, OpeningFrames DEF Channel
<1>7. TypeOK'
  BY <1>1, <1>2, <1>4, <1>5, <1>6, Parts, PartsNext
<1>8. Channel'
  BY <1>1, <1>2, <1>4, <1>5 DEF Channel
<1>9. Bridge'
  BY <1>2, <1>3, <1>4, StreamAssumption DEF Bridge, Reasons
<1>10. Sized'
  BY <1>1, <1>2, <1>3, OpeningSized
<1>11. PICK a \in Stages : a.mode = "start" /\ a.at = page.since /\ a.why = NoReason
  BY <1>3, StageOf
<1>12. Leads(<<>>, a, a)
  BY LeadsNowhere
<1>13. PICK z \in Stages : /\ Leads(<<>> \o Opening(page.since), a, z) /\ z.mode = "live"
                           /\ z.at = kept.written /\ z.why = NoReason
  <2>1. <<>> \in Seq(Frames)
    OBVIOUS
  <2> QED
    BY <1>1, <1>3, <1>11, <1>12, <2>1, OpeningLeads
<1>14. PageAt(a)'
  BY <1>1, <1>2, <1>5, <1>11 DEF PageAt, Channel, Up
<1>15. DaemonAt(z)'
  BY <1>4, <1>13, StreamAssumption DEF DaemonAt, Reasons
<1>16. Stream'
  BY <1>2, <1>6, <1>13, <1>14, <1>15 DEF Stream
<1>17. CountMatchesTerminal'
  BY <1>1, <1>2, <1>5 DEF CountMatchesTerminal, Exact
<1> QED
  BY <1>7, <1>8, <1>9, <1>10, <1>16, <1>17 DEF IInv

(* After the step, the frames lead from `b` to where the receiver is.        *)
GoesLive(b) ==
    \E y \in Stages : /\ Leads(wire' \o outbox', b, y) /\ y.mode = "live"
                      /\ y.at = att'.rx /\ y.why = NoReason

(* One turn of the receiver, for an attachment `a` that differs from `att`   *)
(* in `left` at most.                                                        *)
LEMMA ReceiveFields ==
  ASSUME IInv, outbox = <<>>, att.phase \in {"loop", "drain"}, att.rx < kept.written,
         NEW a \in AttType, a.rx = att.rx, Receive(a),
         UNCHANGED <<daemon, wire, page, lost, cut>>
  PROVE  /\ outbox' \in Seq(Frames) /\ att' \in AttType /\ Sized'
         /\ att'.phase = a.phase /\ att'.evict = a.evict
         /\ \/ att'.rx = kept.written /\ att'.left = 0
            \/ att'.rx = att.rx + 1 /\ att'.left = a.left
         /\ \A b, z \in Stages : Leads(wire \o outbox, b, z) /\ DaemonAt(z) => GoesLive(b)
<1>1. TypeOK /\ Sized
  BY DEF IInv
<1>2. /\ kept.written \in 0 .. MaxBytes /\ kept.written \in Nat /\ kept.resizedAt <= kept.written
      /\ att.rx \in Nat /\ wire \in Seq(Frames)
      /\ kept' = kept /\ wroteAt' = wroteAt /\ wire' = wire /\ MaxBytes \in Nat
  BY <1>1, KeptFields, AttFields, Parts DEF Sized, daemon
<1>3. wire \o outbox = wire
  BY <1>2, Nothing
<1>4. CASE Lagged
  <2>1. /\ att' = [a EXCEPT !.rx = kept.written, !.resized = FALSE, !.left = 0]
        /\ outbox' = Opening(NoCount)
    BY <1>4 DEF Receive
  <2>2. NoCount \in CountOr /\ ~CanResume(NoCount)
    BY DEF CountOr, CanResume
  <2>3. outbox' \in Seq(Frames) /\ Sized'
    BY <1>1, <1>2, <2>1, <2>2, OpeningFrames, OpeningSized
  <2>4. /\ att' \in AttType /\ att'.phase = a.phase /\ att'.evict = a.evict
        /\ att'.rx = kept.written /\ att'.left = 0
    <3>1. kept.written \in 0 .. MaxBytes /\ 0 \in 0 .. MaxBytes
      BY <1>2
    <3> QED
      BY <2>1, <3>1 DEF AttType
  <2>5. ASSUME NEW b \in Stages, NEW z \in Stages, Leads(wire \o outbox, b, z), DaemonAt(z)
        PROVE  GoesLive(b)
    <3>1. Leads(wire, b, z) /\ z.mode = "live"
      BY <1>3, <2>5 DEF DaemonAt
    <3>2. \E y \in Stages : /\ Leads(wire \o Opening(NoCount), b, y) /\ y.mode = "live"
                            /\ y.at = kept.written /\ y.why = NoReason
      BY <1>1, <1>2, <2>2, <3>1, OpeningLeads
    <3> QED
      BY <1>2, <2>1, <2>4, <3>2 DEF GoesLive
  <2> QED
    BY <2>3, <2>4, <2>5
<1>5. CASE ~Lagged
  <2> DEFINE bytes == <<att.rx + 1>>
  <2>1. att' = [a EXCEPT !.rx = att.rx + 1] /\ outbox' = <<Output(bytes)>>
    BY <1>5 DEF Receive
  <2>2. bytes \in Seq(Nat) /\ Len(bytes) = 1 /\ bytes[1] = att.rx + 1 /\ bytes # <<>>
        /\ Contiguous(bytes)
    BY <1>2 DEF Contiguous
  <2> HIDE DEF bytes
  <2>3. Output(bytes) \in Frames /\ Output(bytes).kind = "output" /\ Output(bytes).bytes = bytes
    BY <2>2, OutputFrame
  <2>4. outbox' \in Seq(Frames) /\ Len(outbox') = 1 /\ outbox'[1] = Output(bytes)
    BY <2>1, <2>3
  <2>5. Sized'
    <3>1. ASSUME NEW i \in 1 .. Len(outbox') PROVE OneSize(i)'
      BY <2>3, <2>4 DEF OneSize
    <3> QED
      BY <1>1, <1>2, <3>1 DEF Sized
  <2>6. /\ att' \in AttType /\ att'.phase = a.phase /\ att'.evict = a.evict
        /\ att'.rx = att.rx + 1 /\ att'.left = a.left
    <3>1. att.rx + 1 \in 0 .. MaxBytes
      BY <1>2
    <3> QED
      BY <2>1, <3>1 DEF AttType
  <2>7. ASSUME NEW b \in Stages, NEW z \in Stages, Leads(wire \o outbox, b, z), DaemonAt(z)
        PROVE  GoesLive(b)
    <3>1. Leads(wire, b, z) /\ z.mode = "live" /\ z.at = att.rx
      BY <1>3, <2>7 DEF DaemonAt
    <3>2. att.rx + 1 \in Nat /\ att.rx + 1 \in CountOr /\ NoCount \in CountOr
      BY <1>2 DEF CountOr
    <3>3. PICK y \in Stages : y.mode = "live" /\ y.at = att.rx + 1 /\ y.why = NoReason
      BY <3>2, StageOf
    <3>4. Takes(z, Output(bytes), y)
      BY <2>2, <2>3, <3>1, <3>3 DEF Takes, TakesOutput
    <3>5. Leads(Append(wire, Output(bytes)), b, y)
      BY <1>2, <2>3, <3>1, <3>4, LeadsOn
    <3>6. wire' \o outbox' = Append(wire, Output(bytes))
      BY <1>2, <2>1, <2>3
    <3> QED
      BY <2>6, <3>3, <3>5, <3>6 DEF GoesLive
  <2> QED
    BY <2>4, <2>5, <2>6, <2>7
<1> QED
  BY <1>4, <1>5

LEMMA ReadOutputKeeps ==
  ASSUME IInv, ReadOutput
  PROVE  IInv'
<1>1. TypeOK /\ Channel /\ Bridge
  BY DEF IInv
<1>2. /\ att.phase = "loop" /\ outbox = <<>> /\ att.rx < kept.written /\ Receive(att)
      /\ UNCHANGED <<daemon, wire, page, lost, cut>>
  BY DEF ReadOutput
<1>3. UNCHANGED <<kept, child, wroteAt>>
  BY <1>2 DEF daemon
<1>4. /\ outbox' \in Seq(Frames) /\ att' \in AttType /\ Sized'
      /\ att'.phase = "loop" /\ att'.evict = att.evict
      /\ att'.rx = kept.written \/ att'.rx = att.rx + 1
      /\ \A b, z \in Stages : Leads(wire \o outbox, b, z) /\ DaemonAt(z) => GoesLive(b)
  BY <1>1, <1>2, ReceiveFields, Parts
<1>5. TypeOK'
  BY <1>1, <1>2, <1>3, <1>4, Parts, PartsNext
<1>6. page.link = "open"
  BY <1>1, <1>2, NoAttFields DEF Channel
<1>7. Channel'
  BY <1>1, <1>2, <1>4, <1>6 DEF Channel
<1>8. Bridge'
  <2>1. att'.rx <= kept.written
    BY <1>1, <1>2, <1>4, KeptFields, AttFields
  <2> QED
    BY <1>1, <1>2, <1>3, <1>4, <2>1 DEF Bridge
<1>9. ASSUME NEW y \in Stages, y.mode = "live", y.at = att'.rx, y.why = NoReason
      PROVE  DaemonAt(y)'
  BY <1>4, <1>9, StreamAssumption DEF DaemonAt, Reasons
<1>10. Stream' /\ CountMatchesTerminal'
  BY <1>2, <1>4, <1>9, FramesGrow DEF GoesLive
<1> QED
  BY <1>4, <1>5, <1>7, <1>8, <1>10 DEF IInv

(* The outbox changes only with the attachment there: the page is open.      *)
LEMMA ChannelOpen ==
  ASSUME IInv, att.phase # "off"
  PROVE  page.link = "open"
  BY NoAttFields DEF IInv, Channel

LEMMA SendSizeKeeps ==
  ASSUME IInv, SendSize
  PROVE  IInv'
<1>1. TypeOK /\ Channel /\ Bridge /\ Sized
  BY DEF IInv
<1> DEFINE f == [kind |-> "size", size |-> kept.size]
<1>2. /\ att.phase = "loop" /\ att' = [att EXCEPT !.resized = FALSE]
      /\ outbox' = Append(outbox, f)
      /\ UNCHANGED <<kept, child, wroteAt, wire, page, lost, cut>>
  BY DEF SendSize, daemon
<1>3. f \in Frames /\ f.kind = "size"
  BY <1>1, KeptFields, SizeFrame
<1> HIDE DEF f
<1>4. att' \in AttType /\ att'.phase = "loop" /\ att'.rx = att.rx /\ att'.evict = att.evict
  BY <1>1, <1>2, Parts DEF AttType
<1>5. /\ outbox \in Seq(Frames) /\ wire \in Seq(Frames) /\ outbox' \in Seq(Frames)
      /\ Len(outbox) \in Nat /\ Len(outbox') = Len(outbox) + 1
      /\ outbox'[Len(outbox) + 1] = f /\ \A i \in 1 .. Len(outbox) : outbox'[i] = outbox[i]
  BY <1>1, <1>2, <1>3, Parts, AppendProperties
<1>6. TypeOK'
  BY <1>1, <1>2, <1>4, <1>5, Parts, PartsNext
<1>7. page.link = "open"
  BY <1>2, ChannelOpen
<1>8. Channel'
  BY <1>1, <1>2, <1>4, <1>7 DEF Channel
<1>9. Bridge'
  BY <1>1, <1>2, <1>4 DEF Bridge
<1>10. Sized'
  <2>1. ASSUME NEW i \in 1 .. Len(outbox') PROVE OneSize(i)'
    <3>1. CASE i = Len(outbox) + 1
      BY <1>3, <1>5, <3>1 DEF OneSize
    <3>2. CASE i \in 1 .. Len(outbox)
      <4>1. OneSize(i) /\ outbox'[i] = outbox[i]
        BY <1>1, <1>5, <3>2 DEF Sized
      <4>2. i + 2 <= Len(outbox) =>
              /\ i + 2 <= Len(outbox')
              /\ outbox'[i + 1] = outbox[i + 1] /\ outbox'[i + 2] = outbox[i + 2]
        BY <1>5, <3>2
      <4> QED
        BY <1>2, <4>1, <4>2 DEF OneSize
    <3> QED
      BY <1>5, <3>1, <3>2
  <2> QED
    BY <1>1, <1>2, <2>1 DEF Sized
<1>11. ASSUME NEW a \in Stages, NEW z \in Stages, Leads(wire \o outbox, a, z), DaemonAt(z)
       PROVE  \E y \in Stages : Leads(wire' \o outbox', a, y) /\ DaemonAt(y)'
  <2>1. Takes(z, f, z)
    BY <1>2, <1>3, <1>11 DEF Takes, DaemonAt
  <2>2. wire \o outbox \in Seq(Frames)
    BY <1>5
  <2>3. Leads(Append(wire \o outbox, f), a, z)
    BY <1>3, <1>11, <2>1, <2>2, LeadsOn
  <2>4. wire' \o outbox' = Append(wire \o outbox, f)
    BY <1>2, <1>3, <1>5, PutLast
  <2>5. DaemonAt(z)'
    BY <1>2, <1>4, <1>11 DEF DaemonAt
  <2> QED
    BY <2>3, <2>4, <2>5
<1>12. Stream' /\ CountMatchesTerminal'
  BY <1>2, <1>11, FramesGrow
<1> QED
  BY <1>6, <1>8, <1>9, <1>10, <1>12 DEF IInv

LEMMA HandOnKeeps ==
  ASSUME IInv, HandOn
  PROVE  IInv'
<1>1. TypeOK /\ Channel /\ Bridge /\ Sized
  BY DEF IInv
<1>2. /\ att.phase \in {"loop", "flush", "drain"} /\ outbox # <<>> /\ Len(wire) < WireCap
      /\ wire' = Append(wire, Head(outbox)) /\ outbox' = Tail(outbox)
      /\ UNCHANGED <<kept, child, wroteAt, att, page, lost, cut>>
  BY DEF HandOn, daemon
<1>3. /\ outbox \in Seq(Frames) /\ wire \in Seq(Frames) /\ WireCap \in Nat
      /\ Len(outbox) \in Nat /\ Len(wire) \in Nat
  BY <1>1, Parts, StreamAssumption
<1>4. /\ outbox' \in Seq(Frames) /\ wire' \in Seq(Frames) /\ Len(wire') <= WireCap
      /\ Len(outbox') = Len(outbox) - 1
      /\ \A i \in 1 .. Len(outbox') : outbox'[i] = outbox[i + 1]
  BY <1>2, <1>3
<1>5. TypeOK'
  BY <1>1, <1>2, <1>4, Parts, PartsNext
<1>6. page.link = "open"
  BY <1>2, ChannelOpen
<1>7. Channel' /\ Bridge'
  BY <1>1, <1>2, <1>6 DEF Channel, Bridge
<1>8. Sized'
  <2>1. ASSUME NEW i \in 1 .. Len(outbox') PROVE OneSize(i)'
    <3>1. i + 1 \in 1 .. Len(outbox) /\ outbox'[i] = outbox[i + 1]
      BY <1>3, <1>4
    <3>2. OneSize(i + 1)
      BY <1>1, <3>1 DEF Sized
    <3>3. (i + 1) + 2 <= Len(outbox) =>
            /\ i + 2 <= Len(outbox')
            /\ outbox'[i + 1] = outbox[(i + 1) + 1] /\ outbox'[i + 2] = outbox[(i + 1) + 2]
      BY <1>3, <1>4
    <3> QED
      BY <1>2, <3>1, <3>2, <3>3 DEF OneSize
  <2> QED
    BY <1>1, <1>2, <2>1 DEF Sized
<1>9. wire' \o outbox' = wire \o outbox
  BY <1>2, <1>3, HandedOver
<1>10. ASSUME NEW z \in Stages, DaemonAt(z) PROVE DaemonAt(z)'
  BY <1>2, <1>10 DEF DaemonAt
<1>11. Stream' /\ CountMatchesTerminal'
  BY <1>2, <1>9, <1>10, FramesStay
<1> QED
  BY <1>5, <1>7, <1>8, <1>11 DEF IInv

LEMMA LeaveLoopKeeps ==
  ASSUME IInv, TakeEvict \/ Flushed
  PROVE  IInv'
<1>1. TypeOK /\ Channel /\ Bridge
  BY DEF IInv
<1>2. /\ UNCHANGED <<kept, child, outbox, wire, page, wroteAt, lost, cut>>
      /\ att.phase \in {"loop", "flush"} /\ att.evict # NoReason
      /\ att.phase = "flush" => outbox = <<>>
  BY <1>1 DEF TakeEvict, Flushed, Bridge, daemon
<1>3. /\ kept.written \in 0 .. MaxBytes /\ att.rx \in Nat /\ att.rx <= kept.written
      /\ kept.written \in Nat /\ MaxBytes \in Nat
  BY <1>1, KeptFields, AttFields DEF Bridge
<1>4. kept.written - att.rx \in 0 .. MaxBytes
  BY <1>3
<1>5. /\ att' \in AttType /\ att'.rx = att.rx /\ att'.evict = att.evict
      /\ att'.phase \in {"flush", "drain", "end"}
      /\ att'.phase = "flush" => att.phase = "loop"
      /\ att'.phase # "flush" => att.phase = "flush"
      /\ att'.phase = "drain" => att'.left = kept.written - att.rx /\ att.evict = "child-exited"
      /\ att'.phase = "end" => att.evict # "child-exited"
  <2>1. att \in AttType
    BY <1>1, Parts
  <2>2. CASE TakeEvict
    BY <2>1, <2>2 DEF TakeEvict, AttType
  <2>3. CASE Flushed /\ att.evict = "child-exited"
    <3> DEFINE a == [att EXCEPT !.phase = "drain", !.left = kept.written - att.rx]
    <3>1. a \in AttType /\ a.rx = att.rx /\ a.evict = att.evict /\ a.phase = "drain"
          /\ a.left = kept.written - att.rx
      BY <1>4, <2>1 DEF AttType
    <3>2. att' = a /\ att.phase = "flush"
      BY <2>3 DEF Flushed
    <3> HIDE DEF a
    <3> QED
      BY <2>3, <3>1, <3>2
  <2>4. CASE Flushed /\ att.evict # "child-exited"
    BY <2>1, <2>4 DEF Flushed, AttType
  <2> QED
    BY <2>2, <2>3, <2>4
<1>6. TypeOK'
  BY <1>1, <1>2, <1>5, Parts, PartsNext
<1>7. Bridge'
  <2>1. att'.phase = "drain" => att'.rx + att'.left = kept.written
    BY <1>3, <1>5
  <2> QED
    BY <1>1, <1>2, <1>3, <1>5, <2>1 DEF Bridge
<1>8. ASSUME NEW z \in Stages, DaemonAt(z) PROVE DaemonAt(z)'
  BY <1>2, <1>5, <1>8 DEF DaemonAt
<1>9. att'.phase \in {"off", "end"} => outbox = <<>>
  BY <1>2, <1>5
<1> QED
  BY <1>2, <1>6, <1>7, <1>8, <1>9, BridgeSteps

LEMMA DrainKeeps ==
  ASSUME IInv, Drain
  PROVE  IInv'
<1>1. TypeOK /\ Channel /\ Bridge
  BY DEF IInv
<1>2. /\ att.phase = "drain" /\ outbox = <<>>
      /\ UNCHANGED <<daemon, kept, child, wroteAt, wire, page, lost, cut>>
  BY DEF Drain, daemon
<1>3. /\ kept.written \in Nat /\ att.rx \in Nat /\ att.left \in Nat /\ att \in AttType
      /\ att.rx + att.left <= kept.written /\ att.evict = "child-exited"
      /\ child = "gone" => att.rx + att.left = kept.written
      /\ child # "runs" /\ att.left \in 0 .. MaxBytes /\ MaxBytes \in Nat
  BY <1>1, <1>2, KeptFields, AttFields, Parts DEF Bridge
<1>4. page.link = "open"
  BY <1>2, ChannelOpen
<1>5. CASE att.left > 0
  <2> DEFINE a == [att EXCEPT !.left = att.left - 1]
  <2>1. a \in AttType /\ a.rx = att.rx /\ a.left = att.left - 1 /\ a.phase = "drain"
        /\ a.evict = "child-exited"
    <3>1. att.left - 1 \in 0 .. MaxBytes
      BY <1>3, <1>5
    <3> QED
      BY <1>2, <1>3, <3>1 DEF AttType
  <2>2. Receive(a)
    BY <1>5 DEF Drain
  <2> HIDE DEF a
  <2>3. att.rx < kept.written
    BY <1>3, <1>5
  <2>4. /\ outbox' \in Seq(Frames) /\ att' \in AttType /\ Sized'
        /\ att'.phase = "drain" /\ att'.evict = "child-exited"
        /\ \/ att'.rx = kept.written /\ att'.left = 0
           \/ att'.rx = att.rx + 1 /\ att'.left = att.left - 1
        /\ \A b, z \in Stages : Leads(wire \o outbox, b, z) /\ DaemonAt(z) => GoesLive(b)
    BY <1>2, <2>1, <2>2, <2>3, ReceiveFields
  <2>5. att'.rx <= kept.written /\ att'.rx + att'.left <= kept.written
        /\ (child = "gone" => att'.rx + att'.left = kept.written)
    BY <1>3, <1>5, <2>4
  <2>6. TypeOK'
    BY <1>1, <1>2, <2>4, Parts, PartsNext
  <2>7. Channel'
    BY <1>1, <1>2, <1>4, <2>4 DEF Channel
  <2>8. Bridge'
    BY <1>2, <1>3, <2>4, <2>5, StreamAssumption DEF Bridge
  <2>9. ASSUME NEW y \in Stages, y.mode = "live", y.at = att'.rx, y.why = NoReason
        PROVE  DaemonAt(y)'
    BY <2>4, <2>9, StreamAssumption DEF DaemonAt, Reasons
  <2>10. Stream' /\ CountMatchesTerminal'
    BY <1>2, <2>4, <2>9, FramesGrow DEF GoesLive
  <2> QED
    BY <2>4, <2>6, <2>7, <2>8, <2>10 DEF IInv
<1>6. CASE ~(att.left > 0)
  <2>1. att' = [att EXCEPT !.phase = "end"] /\ outbox' = outbox
    BY <1>6 DEF Drain
  <2>2. att' \in AttType /\ att'.phase = "end" /\ att'.rx = att.rx /\ att'.evict = "child-exited"
    BY <1>3, <2>1 DEF AttType
  <2>3. child = "gone" => att.rx = kept.written
    BY <1>3, <1>6
  <2>4. TypeOK'
    BY <1>1, <1>2, <2>1, <2>2, Parts, PartsNext
  <2>5. Bridge'
    BY <1>1, <1>2, <1>3, <2>2, StreamAssumption DEF Bridge, Reasons
  <2>6. ASSUME NEW z \in Stages, DaemonAt(z) PROVE DaemonAt(z)'
    BY <1>2, <2>2, <2>3, <2>6 DEF DaemonAt
  <2> QED
    BY <1>2, <2>1, <2>4, <2>5, <2>6, BridgeSteps
<1> QED
  BY <1>5, <1>6

LEMMA DrainTimeoutKeeps ==
  ASSUME IInv, DrainTimeout
  PROVE  IInv'
<1>1. TypeOK /\ Channel /\ Bridge /\ Sized
  BY DEF IInv
<1>2. /\ att.phase \in {"flush", "drain"} /\ att' = [att EXCEPT !.phase = "end"]
      /\ outbox' = <<>> /\ cut' = TRUE
      /\ UNCHANGED <<kept, child, wroteAt, wire, page, lost>>
  BY DEF DrainTimeout, daemon
<1>3. att' \in AttType /\ att'.phase = "end" /\ att'.rx = att.rx /\ att'.evict = att.evict
  BY <1>1, <1>2, Parts DEF AttType
<1>4. TypeOK'
  BY <1>1, <1>2, <1>3, Parts, PartsNext
<1>5. page.link = "open"
  BY <1>2, ChannelOpen
<1>6. Channel'
  BY <1>1, <1>2, <1>5 DEF Channel
<1>7. Bridge'
  BY <1>1, <1>2, <1>3, StreamAssumption DEF Bridge, Reasons
<1>8. Sized'
  BY <1>1, <1>2 DEF Sized
<1>9. ASSUME NEW a \in Stages, NEW z \in Stages, Leads(wire \o outbox, a, z), DaemonAt(z)
      PROVE  \E y \in Stages : Leads(wire' \o outbox', a, y) /\ DaemonAt(y)'
  <2>1. z.mode # "ended" /\ wire \in Seq(Frames) /\ outbox \in Seq(Frames)
    BY <1>1, <1>2, <1>9, Parts DEF DaemonAt
  <2>2. PICK y \in Stages : Leads(wire, a, y) /\ y.mode # "ended"
    BY <1>9, <2>1, LeadsPart
  <2>3. y.why = NoReason
    BY <2>2, StageFields
  <2>4. wire' \o outbox' = wire
    BY <1>2, <2>1, Nothing
  <2>5. DaemonAt(y)'
    BY <1>2, <1>3, <2>2, <2>3, StreamAssumption DEF DaemonAt, Reasons
  <2> QED
    BY <2>2, <2>4, <2>5
<1>10. Stream' /\ CountMatchesTerminal'
  BY <1>2, <1>9, FramesGrow
<1> QED
  BY <1>4, <1>6, <1>7, <1>8, <1>10 DEF IInv

LEMMA SendEndKeeps ==
  ASSUME IInv, SendEnd
  PROVE  IInv'
<1>1. TypeOK /\ Channel /\ Bridge /\ Sized
  BY DEF IInv
<1> DEFINE f == [kind |-> "end", reason |-> att.evict]
<1>2. /\ att.phase = "end" /\ Len(wire) < WireCap /\ wire' = Append(wire, f) /\ att' = NoAtt
      /\ UNCHANGED <<kept, child, wroteAt, outbox, page, lost, cut>>
  BY DEF SendEnd, daemon
<1>3. outbox = <<>> /\ att.evict \in Reasons
  BY <1>1, <1>2, AttFields DEF Channel, Bridge, Ends
<1>4. f \in Frames /\ f.kind = "end" /\ f.reason = att.evict
  BY <1>3, EndFrame
<1> HIDE DEF f
<1>5. wire \in Seq(Frames) /\ wire' \in Seq(Frames) /\ Len(wire') <= WireCap
  <2>1. wire \in Seq(Frames) /\ Len(wire) \in Nat /\ WireCap \in Nat
    BY <1>1, Parts, StreamAssumption
  <2> QED
    BY <1>2, <1>4, <2>1
<1>6. TypeOK'
  BY <1>1, <1>2, <1>5, NoAttFields, Parts, PartsNext
<1>7. page.link = "open"
  BY <1>2, ChannelOpen
<1>8. Channel'
  BY <1>1, <1>2, <1>3, <1>7 DEF Channel
<1>9. Bridge'
  BY <1>1, <1>2, NoAttFields, KeptFields, StreamAssumption DEF Bridge, Reasons
<1>10. Sized'
  BY <1>1, <1>2, <1>3 DEF Sized
<1>11. ASSUME NEW a \in Stages, NEW z \in Stages, Leads(wire \o outbox, a, z), DaemonAt(z)
       PROVE  \E y \in Stages : Leads(wire' \o outbox', a, y) /\ DaemonAt(y)'
  <2>1. Leads(wire, a, z) /\ z.mode # "ended" /\ z.at \in CountOr
    BY <1>2, <1>3, <1>5, <1>11, Nothing, StageFields DEF DaemonAt
  <2>2. PICK y \in Stages : y.mode = "ended" /\ y.at = z.at /\ y.why = att.evict
    BY <1>3, <2>1, EndOf
  <2>3. Takes(z, f, y)
    BY <1>4, <2>1, <2>2 DEF Takes
  <2>4. Leads(Append(wire, f), a, y)
    BY <1>4, <1>5, <2>1, <2>3, LeadsOn
  <2>5. wire' \o outbox' = Append(wire, f)
    BY <1>2, <1>3, <1>5, Nothing
  <2>6. DaemonAt(y)'
    BY <1>1, <1>2, <1>11, <2>2, NoAttFields DEF DaemonAt, Bridge
  <2> QED
    BY <2>4, <2>5, <2>6
<1>12. Stream' /\ CountMatchesTerminal'
  BY <1>2, <1>11, FramesGrow
<1> QED
  BY <1>6, <1>8, <1>9, <1>10, <1>12 DEF IInv

LEMMA EndTimeoutKeeps ==
  ASSUME IInv, EndTimeout
  PROVE  IInv'
<1>1. TypeOK /\ Channel /\ Bridge
  BY DEF IInv
<1>2. /\ att.phase = "end" /\ att' = NoAtt
      /\ UNCHANGED <<kept, child, outbox, wire, page, wroteAt, lost, cut>>
  BY DEF EndTimeout, daemon
<1>3. TypeOK'
  BY <1>1, <1>2, NoAttFields, Parts, PartsNext
<1>4. Bridge'
  BY <1>1, <1>2, NoAttFields, KeptFields, StreamAssumption DEF Bridge, Reasons
<1>5. ASSUME NEW z \in Stages, DaemonAt(z) PROVE DaemonAt(z)'
  <2>1. z.mode # "ended" /\ z.why = NoReason
    BY <1>2, <1>5, StageFields DEF DaemonAt
  <2> QED
    BY <1>2, <2>1, NoAttFields, StreamAssumption DEF DaemonAt, Reasons
<1>6. att'.phase \in {"off", "end"} => outbox = <<>>
  BY <1>1, <1>2 DEF Channel
<1> QED
  BY <1>2, <1>3, <1>4, <1>5, <1>6, BridgeSteps

-----------------------------------------------------------------------------
(* The page leaves its channel.                                             *)

(* A page that was told of a take-over is no watcher.                        *)
LEMMA ToldOfTakeOver ==
  ASSUME IInv, page.link \in {"connecting", "open"}, page.announced = "taken-over"
  PROVE  page.link = "open" /\ ~page.watching
<1>1. page.link = "open"
  BY StreamAssumption DEF IInv, Channel
<1>2. PICK a \in Stages, z \in Stages : Leads(wire \o outbox, a, z) /\ PageAt(a) /\ DaemonAt(z)
  BY <1>1 DEF IInv, Stream
<1>3. a.why = "taken-over"
  BY <1>2 DEF PageAt
<1>4. a.mode = "ended"
  BY <1>3, StageFields, StreamAssumption
<1>5. wire \o outbox \in Seq(Frames)
  BY Parts DEF IInv
<1>6. a = z
  BY <1>2, <1>4, <1>5, LeadsFromEnd
<1> QED
  BY <1>1, <1>2, <1>3, <1>6 DEF DaemonAt

LEMMA LeavesKeeps ==
  ASSUME IInv, UNCHANGED <<daemon, cut>>, att' = NoAtt, outbox' = <<>>, wire' = <<>>,
         lost' \in BOOLEAN, lost' <=> (lost \/ page.replayNext),
         page' \in PageType, page'.link \in {"idle", "connecting", "done"},
         page'.term = page.term, page'.shown \in {NoCount, page.shown}, ~page'.replayNext,
         page'.link = "done" => page'.shown = NoCount,
         page'.link # "done" => page'.announced = NoReason
                                /\ page'.failed <= MaxFailedReopens + (IF page'.watching THEN 1 ELSE 0),
         page'.link = "connecting" => ~page'.opened /\ page'.since = page'.shown
  PROVE  IInv'
<1>1. TypeOK /\ Bridge /\ Sized /\ CountMatchesTerminal
  BY DEF IInv
<1>2. UNCHANGED <<kept, child, wroteAt>>
  BY DEF daemon
<1>3. <<>> \in Seq(Frames) /\ Len(<<>>) <= WireCap
  BY StreamAssumption
<1>4. TypeOK'
  BY <1>1, <1>2, <1>3, NoAttFields, Parts, PartsNext
<1>5. page'.shown # NoCount /\ ~lost' => Contiguous(page'.term) /\ UpTo(page'.term) = page'.shown
  BY <1>1 DEF CountMatchesTerminal, Exact
<1>6. CountMatchesTerminal'
  BY <1>5 DEF CountMatchesTerminal, Exact
<1>7. Channel'
  BY <1>5 DEF Channel, Up
<1>8. Bridge'
  BY <1>1, <1>2, NoAttFields, KeptFields, StreamAssumption DEF Bridge, Reasons
<1>9. Sized'
  BY <1>1, <1>2 DEF Sized
<1>10. Stream'
  BY DEF Stream
<1> QED
  BY <1>4, <1>6, <1>7, <1>8, <1>9, <1>10 DEF IInv

LEMMA ConnectedFields ==
  ASSUME NEW p \in PageType
  PROVE  /\ Connected(p) \in PageType /\ Connected(p).link = "connecting"
         /\ Connected(p).term = p.term /\ Connected(p).shown = p.shown
         /\ Connected(p).since = p.shown /\ ~Connected(p).opened
         /\ Connected(p).announced = NoReason /\ ~Connected(p).replayNext
         /\ Connected(p).watching = p.watching /\ Connected(p).failed = p.failed
  BY DEF Connected, PageType, Ends

LEMMA ClosedFields ==
  ASSUME IInv, Closed, page.link \in {"connecting", "open"}
  PROVE  /\ page' \in PageType /\ page'.link \in {"idle", "connecting", "done"}
         /\ page'.term = page.term /\ page'.shown \in {NoCount, page.shown} /\ ~page'.replayNext
         /\ page'.link = "done" => page'.shown = NoCount
         /\ page'.link # "done" =>
              /\ page'.announced = NoReason
              /\ page'.failed <= MaxFailedReopens + (IF page'.watching THEN 1 ELSE 0)
         /\ page'.link = "connecting" => ~page'.opened /\ page'.since = page'.shown
<1> DEFINE n == IF page.opened THEN page.failed ELSE page.failed + 1
           p == [page EXCEPT !.failed = n, !.replayNext = FALSE]
<1>1. /\ page \in PageType /\ page.failed \in Nat /\ MaxFailedReopens \in Nat
      /\ page.watching \in BOOLEAN /\ page.announced \in Ends
      /\ page.failed <= MaxFailedReopens + (IF page.watching THEN 1 ELSE 0)
  BY Parts, PageFields, StreamAssumption DEF IInv, Channel
<1>2. n \in Nat /\ n <= MaxFailedReopens + (IF page.watching THEN 2 ELSE 1)
      /\ n \in 0 .. MaxFailedReopens + 2
  BY <1>1
<1> HIDE DEF n
<1>3. /\ p \in PageType /\ p.link = page.link /\ p.term = page.term /\ p.shown = page.shown
      /\ ~p.replayNext /\ p.announced = page.announced /\ p.watching = page.watching
      /\ p.failed = n
  BY <1>1, <1>2 DEF PageType
<1>4. page' = CASE Decision(p) = "give-up" -> [p EXCEPT !.link = "done", !.shown = NoCount]
                [] Decision(p) = "park" /\ ~p.watching ->
                     Connected([p EXCEPT !.watching = TRUE, !.shown = NoCount])
                [] OTHER -> [p EXCEPT !.link = "idle"]
  BY DEF Closed, n
<1> HIDE DEF p
<1>5. CASE Decision(p) = "give-up"
  <2>1. page' = [p EXCEPT !.link = "done", !.shown = NoCount]
    BY <1>4, <1>5
  <2> QED
    BY <1>3, <2>1 DEF PageType, CountOr
<1>6. CASE Decision(p) = "park" /\ ~p.watching
  <2> DEFINE q == [p EXCEPT !.watching = TRUE, !.shown = NoCount]
  <2>1. page' = Connected(q)
    BY <1>4, <1>6
  <2>2. q \in PageType /\ q.term = p.term /\ q.shown = NoCount /\ q.watching = TRUE
        /\ q.failed = p.failed
    BY <1>3 DEF PageType, CountOr
  <2> HIDE DEF q
  <2>3. /\ page' \in PageType /\ page'.link = "connecting" /\ page'.term = p.term
        /\ page'.shown = NoCount /\ page'.since = NoCount /\ ~page'.opened
        /\ page'.announced = NoReason /\ ~page'.replayNext /\ page'.watching = TRUE
        /\ page'.failed = n
    BY <1>3, <2>1, <2>2, ConnectedFields
  <2>4. n <= MaxFailedReopens + 1
    BY <1>2, <1>3, <1>6
  <2> QED
    BY <1>3, <2>3, <2>4
<1>7. CASE Decision(p) # "give-up" /\ ~(Decision(p) = "park" /\ ~p.watching)
  <2>1. page' = [p EXCEPT !.link = "idle"]
    BY <1>4, <1>7
  <2>2. p.announced # "taken-over"
    <3>1. p.announced = "taken-over" => Decision(p) = "park"
      BY DEF Decision
    <3> QED
      BY <1>3, <1>7, <3>1, ToldOfTakeOver
  <2>3. p.announced = NoReason /\ ~(p.failed > MaxFailedReopens)
    BY <1>7, <2>2 DEF Decision
  <2>4. n <= MaxFailedReopens + (IF p.watching THEN 1 ELSE 0)
    BY <1>1, <1>2, <1>3, <2>3
  <2>5. /\ page' \in PageType /\ page'.link = "idle" /\ page'.term = p.term
        /\ page'.shown = p.shown /\ page'.announced = p.announced
        /\ page'.watching = p.watching /\ page'.failed = p.failed
        /\ page'.replayNext = p.replayNext
    BY <1>3, <2>1 DEF PageType
  <2> QED
    BY <1>3, <2>3, <2>4, <2>5
<1> QED
  BY <1>5, <1>6, <1>7

LEMMA ChannelGoneKeeps ==
  ASSUME IInv, ChannelClosed \/ SocketLost
  PROVE  IInv'
<1>1. /\ page.link = "open" /\ LeaveChannel /\ Closed /\ UNCHANGED <<daemon, cut>>
  BY DEF ChannelClosed, SocketLost
<1>2. lost \in BOOLEAN /\ page.replayNext \in BOOLEAN
  BY Parts, PageFields DEF IInv
<1>3. /\ att' = NoAtt /\ outbox' = <<>> /\ wire' = <<>> /\ lost' \in BOOLEAN
      /\ lost' <=> (lost \/ page.replayNext)
  BY <1>1, <1>2 DEF LeaveChannel
<1> QED
  BY <1>1, <1>3, ClosedFields, LeavesKeeps

(* Without a channel there is nothing to lose.                               *)
LEMMA NoChannel ==
  ASSUME IInv, page.link # "open", UNCHANGED <<att, outbox, wire, lost>>
  PROVE  /\ att' = NoAtt /\ outbox' = <<>> /\ wire' = <<>> /\ lost' \in BOOLEAN
         /\ lost' <=> (lost \/ page.replayNext)
<1>1. lost \in BOOLEAN /\ ~page.replayNext /\ att = NoAtt /\ wire = <<>> /\ outbox = <<>>
  BY Parts DEF IInv, Channel
<1> QED
  BY <1>1

LEMMA RefusedKeeps ==
  ASSUME IInv, Refused
  PROVE  IInv'
<1>1. page.link = "connecting" /\ Closed /\ UNCHANGED <<daemon, att, outbox, wire, lost, cut>>
  BY DEF Refused
<1>2. /\ att' = NoAtt /\ outbox' = <<>> /\ wire' = <<>> /\ lost' \in BOOLEAN
      /\ lost' <=> (lost \/ page.replayNext)
  BY <1>1, NoChannel
<1> QED
  BY <1>1, <1>2, ClosedFields, LeavesKeeps

(* A new connect, with or without a channel to leave.                        *)
LEMMA ConnectKeeps ==
  ASSUME IInv, Connect \/ ReconnectNow \/ TakeOver
  PROVE  IInv'
<1>1. /\ page \in PageType /\ page.link \in {"idle", "open"}
      /\ lost \in BOOLEAN /\ page.replayNext \in BOOLEAN /\ MaxFailedReopens \in Nat
      /\ page.failed <= MaxFailedReopens + (IF page.watching THEN 1 ELSE 0)
  BY Parts, PageFields, StreamAssumption DEF IInv, Channel, Connect, ReconnectNow, TakeOver
<1>2. /\ att' = NoAtt /\ outbox' = <<>> /\ wire' = <<>> /\ lost' \in BOOLEAN
      /\ lost' <=> (lost \/ page.replayNext)
      /\ UNCHANGED <<daemon, cut>>
  <2>1. CASE Connect
    BY <2>1, NoChannel DEF Connect
  <2>2. CASE ReconnectNow \/ TakeOver
    BY <1>1, <2>2 DEF ReconnectNow, TakeOver, LeaveChannel
  <2> QED
    BY <2>1, <2>2
<1>3. PICK p \in PageType : /\ page' = Connected(p) /\ p.term = page.term /\ p.shown = page.shown
                            /\ p.failed <= MaxFailedReopens + (IF p.watching THEN 1 ELSE 0)
  <2>1. CASE Connect \/ ReconnectNow
    BY <1>1, <2>1 DEF Connect, ReconnectNow
  <2>2. CASE TakeOver
    <3> DEFINE q == [page EXCEPT !.watching = FALSE, !.failed = 0]
    <3>0. 0 \in 0 .. MaxFailedReopens + 2 /\ FALSE \in BOOLEAN
      BY <1>1
    <3>1. q \in PageType /\ q.term = page.term /\ q.shown = page.shown /\ q.failed = 0
      BY <1>1, <3>0 DEF PageType
    <3>2. page' = Connected(q)
      BY <2>2 DEF TakeOver
    <3>3. q.failed <= MaxFailedReopens + (IF q.watching THEN 1 ELSE 0)
      BY <1>1, <3>1
    <3> QED
      BY <3>1, <3>2, <3>3
  <2> QED
    BY <2>1, <2>2
<1>4. /\ page' \in PageType /\ page'.link = "connecting" /\ page'.term = page.term
      /\ page'.shown = page.shown /\ page'.since = page.shown /\ ~page'.opened
      /\ page'.announced = NoReason /\ ~page'.replayNext
      /\ page'.watching = p.watching /\ page'.failed = p.failed
  BY <1>3, ConnectedFields
<1>5. page'.failed <= MaxFailedReopens + (IF page'.watching THEN 1 ELSE 0)
  BY <1>3, <1>4
<1>6. /\ page'.link \in {"idle", "connecting", "done"} /\ page'.shown \in {NoCount, page.shown}
      /\ page'.link # "done" /\ page'.since = page'.shown
  BY <1>4
<1> QED
  BY <1>2, <1>4, <1>5, <1>6, LeavesKeeps

-----------------------------------------------------------------------------
(* The page reads its frames.                                               *)

LEMMA NoticeKeeps ==
  ASSUME IInv, Notice
  PROVE  IInv'
<1>1. TypeOK /\ Channel /\ Bridge /\ Sized
  BY DEF IInv
<1>2. /\ page' = [page EXCEPT !.shown = NoCount]
      /\ UNCHANGED <<kept, child, wroteAt, att, outbox, wire, lost, cut>>
  BY DEF Notice, daemon
<1>3. /\ page' \in PageType /\ page'.shown = NoCount /\ page'.link = page.link
      /\ page'.term = page.term /\ page'.since = page.since /\ page'.opened = page.opened
      /\ page'.replayNext = page.replayNext /\ page'.announced = page.announced
      /\ page'.watching = page.watching /\ page'.failed = page.failed
  BY <1>1, <1>2, Parts DEF PageType, CountOr
<1>4. TypeOK'
  BY <1>1, <1>2, <1>3, Parts, PartsNext
<1>5. Channel'
  BY <1>1, <1>2, <1>3 DEF Channel, Up
<1>6. Bridge' /\ Sized'
  BY <1>1, <1>2, <1>3 DEF Bridge, Sized, OneSize
<1>7. ASSUME NEW q \in Stages
      PROVE  (PageAt(q) => PageAt(q)') /\ (DaemonAt(q) => DaemonAt(q)')
  BY <1>2, <1>3 DEF PageAt, DaemonAt, Up
<1>8. Stream'
  BY <1>2, <1>3, <1>7 DEF IInv, Stream
<1>9. CountMatchesTerminal'
  BY <1>3 DEF CountMatchesTerminal
<1> QED
  BY <1>4, <1>5, <1>6, <1>8, <1>9 DEF IInv

(* The first frame of the wire takes the page on by one stage.               *)
LEMMA FrameRead ==
  ASSUME IInv, page.link = "open", wire # <<>>, wire' = Tail(wire),
         UNCHANGED <<daemon, att, outbox, cut>>, page' \in PageType, lost' \in BOOLEAN,
         page'.link = "open", page'.watching = page.watching, page'.failed \in {0, page.failed},
         ASSUME NEW a \in Stages, NEW b \in Stages, PageAt(a), Takes(a, Head(wire), b)
         PROVE  PageAt(b)' /\ CountMatchesTerminal'
  PROVE  IInv'
<1>1. TypeOK /\ Channel /\ Bridge /\ Sized
  BY DEF IInv
<1>2. UNCHANGED <<kept, child, wroteAt>>
  BY DEF daemon
<1>3. /\ wire \in Seq(Frames) /\ outbox \in Seq(Frames) /\ wire' \in Seq(Frames)
      /\ Len(wire') <= WireCap
  <2>1. wire \in Seq(Frames) /\ outbox \in Seq(Frames) /\ Len(wire) <= WireCap /\ WireCap \in Nat
    BY <1>1, Parts, StreamAssumption
  <2> QED
    BY <2>1
<1>4. TypeOK'
  BY <1>1, <1>2, <1>3, Parts, PartsNext
<1>5. Channel'
  BY <1>1, <1>2, PageFields, StreamAssumption DEF Channel
<1>6. Bridge' /\ Sized'
  BY <1>1, <1>2 DEF Bridge, Sized, OneSize
<1>7. PICK a \in Stages, z \in Stages : Leads(wire \o outbox, a, z) /\ PageAt(a) /\ DaemonAt(z)
  BY DEF IInv, Stream
<1>8. /\ wire \o outbox # <<>> /\ Head(wire \o outbox) = Head(wire)
      /\ Tail(wire \o outbox) = wire' \o outbox /\ wire \o outbox \in Seq(Frames)
  BY <1>3, TakenOff
<1>9. PICK b \in Stages : Takes(a, Head(wire), b) /\ Leads(wire' \o outbox', b, z)
  BY <1>7, <1>8, LeadsFirst
<1>10. PageAt(b)' /\ CountMatchesTerminal'
  BY <1>7, <1>9
<1>11. DaemonAt(z)'
  BY <1>2, <1>7 DEF DaemonAt
<1>12. Stream'
  BY <1>9, <1>10, <1>11 DEF Stream
<1> QED
  BY <1>4, <1>5, <1>6, <1>10, <1>12 DEF IInv

LEMMA WireHead ==
  ASSUME TypeOK, wire # <<>>
  PROVE  Head(wire) \in Frames
  BY Parts

LEMMA ReplayLostKeeps ==
  ASSUME IInv, ReplayLost
  PROVE  IInv'
<1>1. TypeOK
  BY DEF IInv
<1>2. /\ page.link = "open" /\ page.replayNext /\ wire # <<>> /\ Head(wire).kind = "output"
      /\ page' = [page EXCEPT !.shown = NoCount, !.replayNext = FALSE]
      /\ wire' = Tail(wire) /\ UNCHANGED <<daemon, att, outbox, lost, cut>>
  BY DEF ReplayLost
<1>3. /\ page' \in PageType /\ page'.shown = NoCount /\ page'.link = "open"
      /\ page'.replayNext = FALSE /\ page'.announced = page.announced
      /\ page'.watching = page.watching /\ page'.failed = page.failed /\ lost' \in BOOLEAN
  BY <1>1, <1>2, Parts DEF PageType, CountOr
<1>4. ASSUME NEW a \in Stages, NEW b \in Stages, PageAt(a), Takes(a, Head(wire), b)
      PROVE  PageAt(b)' /\ CountMatchesTerminal'
  <2>1. b.mode = "live" /\ a.mode # "ended"
    BY <1>2, <1>4 DEF Takes, TakesOutput
  <2>2. b.why = NoReason /\ a.why = NoReason
    BY <2>1, StageFields
  <2> QED
    BY <1>3, <1>4, <2>1, <2>2 DEF PageAt, CountMatchesTerminal
<1> QED
  BY <1>2, <1>3, <1>4, FrameRead

LEMMA ReadOpen ==
  ASSUME IInv, Read, Head(wire).kind = "open"
  PROVE  IInv'
<1>1. TypeOK /\ page \in PageType /\ lost \in BOOLEAN
  BY Parts DEF IInv
<1> DEFINE f == Head(wire)
<1>2. page.link = "open" /\ wire # <<>> /\ wire' = Tail(wire)
      /\ UNCHANGED <<daemon, att, outbox, cut>>
  BY DEF Read
<1>3. f \in Frames /\ f.offset \in Nat /\ f.resume \in BOOLEAN /\ f.replay \in BOOLEAN
  BY <1>1, <1>2, WireHead, FrameFields
<1>4. page' = TakeOpen(f) /\ lost' = (lost /\ ~~f.resume)
  BY DEF Read
<1>5. lost' \in BOOLEAN /\ (lost' <=> lost /\ f.resume)
  BY <1>1, <1>3, <1>4
<1> HIDE DEF f
<1>6. /\ page' \in PageType /\ page'.link = "open" /\ page'.watching = page.watching
      /\ page'.failed = 0 /\ page'.announced = page.announced /\ page'.shown = f.offset
      /\ page'.replayNext = f.replay /\ page'.term = (IF f.resume THEN page.term ELSE <<>>)
  <2> DEFINE t == IF f.resume THEN page.term ELSE <<>>
  <2>1. /\ page' = [page EXCEPT !.opened = TRUE, !.everOpened = TRUE, !.failed = 0,
                                !.term = t, !.shown = f.offset, !.replayNext = f.replay]
        /\ t \in Seq(Nat) /\ f.offset \in CountOr /\ 0 \in 0 .. MaxFailedReopens + 2
    BY <1>1, <1>3, <1>4, PageFields, StreamAssumption DEF TakeOpen, CountOr
  <2> HIDE DEF t
  <2>2. /\ page' \in PageType /\ page'.link = "open" /\ page'.watching = page.watching
        /\ page'.failed = 0 /\ page'.announced = page.announced /\ page'.shown = f.offset
        /\ page'.replayNext = f.replay /\ page'.term = t
    BY <1>1, <1>2, <1>3, <2>1 DEF PageType
  <2> QED
    BY <2>2 DEF t
<1>7. ASSUME NEW a \in Stages, NEW b \in Stages, PageAt(a), Takes(a, f, b)
      PROVE  PageAt(b)' /\ CountMatchesTerminal'
  <2>1. TakesOpen(a, f, b)
    BY <1>7 DEF Takes, f
  <2>2. /\ a.mode \in {"start", "live"} /\ b.mode \in {"replay", "live"} /\ b.at = f.offset
        /\ a.why = NoReason /\ b.why = NoReason /\ (b.mode = "replay" <=> f.replay)
        /\ f.resume => a.mode = "start" /\ a.at \in Nat
    BY <1>3, <2>1, StageFields DEF TakesOpen
  <2>3. page.announced = NoReason
    BY <1>7, <2>2 DEF PageAt
  <2>4. f.resume /\ ~lost' => Up(a.at)
    BY <1>5, <1>7, <2>2, StreamAssumption DEF PageAt
  <2>5. CASE f.replay
    <3>1. b.from = (IF f.resume THEN a.at ELSE NoCount) /\ b.mode = "replay"
      BY <2>1, <2>2, <2>5 DEF TakesOpen
    <3>2. IF b.from = NoCount THEN page'.term = <<>> ELSE ~lost' => Up(b.from)'
      BY <1>6, <2>2, <2>4, <3>1, StreamAssumption DEF Up
    <3> QED
      BY <1>6, <2>2, <2>3, <2>5, <3>1, <3>2 DEF PageAt, CountMatchesTerminal
  <2>6. CASE ~f.replay
    <3>1. f.offset = (IF f.resume THEN a.at ELSE 0) /\ b.mode = "live"
      BY <2>1, <2>2, <2>6 DEF TakesOpen
    <3>2. PageAt(b)'
      BY <1>6, <2>2, <2>3, <2>6, <3>1 DEF PageAt
    <3>3. ~lost' => Exact'
      <4>1. CASE f.resume
        BY <1>6, <2>4, <3>1, <4>1 DEF Exact, Up
      <4>2. CASE ~f.resume
        <5>1. Contiguous(<<>>) /\ UpTo(<<>>) = 0
          BY DEF Contiguous, UpTo
        <5> QED
          BY <1>6, <3>1, <4>2, <5>1 DEF Exact
      <4> QED
        BY <4>1, <4>2
    <3> QED
      BY <3>2, <3>3 DEF CountMatchesTerminal
  <2> QED
    BY <2>5, <2>6
<1> QED
  BY <1>2, <1>5, <1>6, <1>7, FrameRead DEF f

LEMMA ReadOutputFrame ==
  ASSUME IInv, Read, Head(wire).kind = "output"
  PROVE  IInv'
<1>1. TypeOK /\ page \in PageType /\ lost \in BOOLEAN /\ CountMatchesTerminal
      /\ page.term \in Seq(Nat) /\ page.shown \in CountOr /\ page.replayNext \in BOOLEAN
  BY Parts, PageFields DEF IInv
<1> DEFINE f == Head(wire)
           n == IF page.replayNext \/ page.shown = NoCount THEN page.shown
                ELSE page.shown + Len(f.bytes)
<1>2. page.link = "open" /\ wire # <<>> /\ wire' = Tail(wire)
      /\ UNCHANGED <<daemon, att, outbox, cut>>
  BY DEF Read
<1>3. f \in Frames /\ f.bytes \in Seq(Nat) /\ Len(f.bytes) \in Nat
  BY <1>1, <1>2, WireHead, FrameFields
<1>4. page' = TakeOutput(f) /\ lost' = (lost /\ ~(FALSE /\ ~f.resume))
  BY DEF Read
<1>5. lost' \in BOOLEAN /\ lost' = lost
  BY <1>1, <1>4
<1> HIDE DEF f
<1>6. n \in CountOr /\ page.term \o f.bytes \in Seq(Nat)
  BY <1>1, <1>3 DEF CountOr
<1>7. page' = [page EXCEPT !.term = page.term \o f.bytes, !.replayNext = FALSE, !.shown = n]
  BY <1>4 DEF TakeOutput
<1> HIDE DEF n
<1>8. /\ page' \in PageType /\ page'.link = "open" /\ page'.watching = page.watching
      /\ page'.failed = page.failed /\ page'.announced = page.announced /\ page'.shown = n
      /\ page'.replayNext = FALSE /\ page'.term = page.term \o f.bytes
  BY <1>1, <1>2, <1>6, <1>7 DEF PageType
<1>9. ASSUME NEW a \in Stages, NEW b \in Stages, PageAt(a), Takes(a, f, b)
      PROVE  PageAt(b)' /\ CountMatchesTerminal'
  <2>1. TakesOutput(a, f, b)
    BY <1>9 DEF Takes, f
  <2>2. /\ Contiguous(f.bytes) /\ f.bytes # <<>> /\ b.mode = "live" /\ a.mode \in {"replay", "live"}
        /\ a.why = NoReason /\ b.why = NoReason /\ a.at \in Nat /\ page.announced = NoReason
    BY <1>9, <2>1, StageFields DEF TakesOutput, PageAt
  <2>3. CASE a.mode = "replay"
    <3>1. b.at = a.at /\ Last(f.bytes) = a.at /\ (a.from # NoCount => f.bytes[1] = a.from + 1)
      BY <2>1, <2>3 DEF TakesOutput
    <3>2. /\ page.replayNext /\ page.shown \in {NoCount, a.at}
          /\ IF a.from = NoCount THEN page.term = <<>> ELSE ~lost => Up(a.from)
      BY <1>9, <2>3 DEF PageAt
    <3>3. n = page.shown
      BY <3>2 DEF n
    <3>4. PageAt(b)'
      BY <1>8, <2>2, <3>1, <3>2, <3>3 DEF PageAt
    <3>5. ASSUME ~lost, page.shown # NoCount PROVE Exact'
      <4>1. Contiguous(page.term) /\ (page.term # <<>> => f.bytes[1] = Last(page.term) + 1)
        <5>1. CASE a.from = NoCount
          BY <3>2, <5>1 DEF Contiguous
        <5>2. CASE a.from # NoCount
          BY <3>1, <3>2, <3>5, <5>2 DEF Up, UpTo
        <5> QED
          BY <5>1, <5>2
      <4>2. Contiguous(page.term \o f.bytes) /\ UpTo(page.term \o f.bytes) = Last(f.bytes)
        BY <1>1, <1>3, <2>2, <4>1, Joins
      <4> QED
        BY <1>8, <3>1, <3>2, <3>3, <3>5, <4>2 DEF Exact
    <3> QED
      BY <1>5, <1>8, <3>3, <3>4, <3>5 DEF CountMatchesTerminal
  <2>4. CASE a.mode = "live"
    <3>1. Len(f.bytes) = 1 /\ f.bytes[1] = a.at + 1 /\ b.at = a.at + 1 /\ Last(f.bytes) = a.at + 1
      BY <1>3, <2>1, <2>4 DEF TakesOutput, Last
    <3>2. ~page.replayNext /\ page.shown \in {NoCount, a.at}
      BY <1>9, <2>4 DEF PageAt
    <3>3. n = IF page.shown = NoCount THEN NoCount ELSE a.at + 1
      BY <3>1, <3>2 DEF n
    <3>4. PageAt(b)'
      BY <1>8, <2>2, <3>1, <3>3 DEF PageAt
    <3>5. ASSUME ~lost, page.shown # NoCount PROVE Exact'
      <4>1. Contiguous(page.term) /\ UpTo(page.term) = a.at
        BY <1>1, <3>2, <3>5 DEF CountMatchesTerminal, Exact
      <4>2. page.term # <<>> => f.bytes[1] = Last(page.term) + 1
        BY <3>1, <4>1 DEF UpTo
      <4>3. Contiguous(page.term \o f.bytes) /\ UpTo(page.term \o f.bytes) = Last(f.bytes)
        BY <1>1, <1>3, <2>2, <4>1, <4>2, Joins
      <4> QED
        BY <1>8, <3>1, <3>3, <3>5, <4>3 DEF Exact
    <3> QED
      BY <1>5, <1>8, <3>3, <3>4, <3>5 DEF CountMatchesTerminal
  <2> QED
    BY <2>2, <2>3, <2>4
<1> QED
  BY <1>2, <1>5, <1>8, <1>9, FrameRead DEF f

LEMMA ReadEnd ==
  ASSUME IInv, Read, Head(wire).kind = "end"
  PROVE  IInv'
<1>1. TypeOK /\ page \in PageType /\ lost \in BOOLEAN /\ CountMatchesTerminal
  BY Parts DEF IInv
<1> DEFINE f == Head(wire)
<1>2. page.link = "open" /\ wire # <<>> /\ wire' = Tail(wire)
      /\ UNCHANGED <<daemon, att, outbox, cut>>
  BY DEF Read
<1>3. f.reason \in Reasons
  BY <1>1, <1>2, WireHead, FrameFields
<1>4. page' = [page EXCEPT !.announced = f.reason] /\ lost' = (lost /\ ~(FALSE /\ ~f.resume))
  BY DEF Read
<1>5. lost' \in BOOLEAN /\ lost' = lost
  BY <1>1, <1>4
<1> HIDE DEF f
<1>6. /\ page' \in PageType /\ page'.link = "open" /\ page'.watching = page.watching
      /\ page'.failed = page.failed /\ page'.announced = f.reason /\ page'.shown = page.shown
      /\ page'.replayNext = page.replayNext /\ page'.term = page.term
  BY <1>1, <1>2, <1>3, <1>4 DEF PageType, Ends
<1>7. CountMatchesTerminal'
  BY <1>1, <1>5, <1>6 DEF CountMatchesTerminal, Exact
<1>8. ASSUME NEW a \in Stages, NEW b \in Stages, PageAt(a), Takes(a, f, b)
      PROVE  PageAt(b)' /\ CountMatchesTerminal'
  <2>1. b.mode = "ended" /\ b.at = a.at /\ b.why = f.reason
    BY <1>8 DEF Takes, f
  <2> QED
    BY <1>6, <1>7, <1>8, <2>1 DEF PageAt
<1> QED
  BY <1>2, <1>5, <1>6, <1>8, FrameRead DEF f

LEMMA ReadSize ==
  ASSUME IInv, Read, Head(wire).kind = "size"
  PROVE  IInv'
<1>1. TypeOK /\ page \in PageType /\ lost \in BOOLEAN /\ CountMatchesTerminal
  BY Parts DEF IInv
<1>2. page.link = "open" /\ wire # <<>> /\ wire' = Tail(wire)
      /\ UNCHANGED <<daemon, att, outbox, cut>>
  BY DEF Read
<1>3. page' = page /\ lost' = (lost /\ ~(FALSE /\ ~Head(wire).resume))
  BY DEF Read
<1>4. lost' \in BOOLEAN /\ lost' = lost
  BY <1>1, <1>3
<1>5. ASSUME NEW a \in Stages, NEW b \in Stages, PageAt(a), Takes(a, Head(wire), b)
      PROVE  PageAt(b)' /\ CountMatchesTerminal'
  <2>1. b = a
    BY <1>5 DEF Takes
  <2> QED
    BY <1>1, <1>3, <1>4, <1>5, <2>1 DEF PageAt, Up, CountMatchesTerminal, Exact
<1> QED
  BY <1>1, <1>2, <1>3, <1>4, <1>5, FrameRead

LEMMA ReadKeeps ==
  ASSUME IInv, Read
  PROVE  IInv'
<1>1. Head(wire).kind \in {"open", "size", "output", "end"}
  BY WireHead, FrameFields DEF IInv, Read
<1> QED
  BY <1>1, ReadOpen, ReadSize, ReadOutputFrame, ReadEnd

-----------------------------------------------------------------------------
(* The theorems.                                                            *)

LEMMA StepInv == IInv /\ [Next]_vars => IInv'
<1> SUFFICES ASSUME IInv, [Next]_vars PROVE IInv'
  OBVIOUS
<1>1. CASE Publish
  BY <1>1, PublishKeeps
<1>2. CASE Resize
  BY <1>2, ResizeKeeps
<1>3. CASE ChildExits \/ Close
  BY <1>3, ChildKeeps
<1>4. CASE TakenOver
  BY <1>4, TakenOverKeeps
<1>5. CASE Attach
  BY <1>5, AttachKeeps
<1>6. CASE ReadOutput
  BY <1>6, ReadOutputKeeps
<1>7. CASE SendSize
  BY <1>7, SendSizeKeeps
<1>8. CASE HandOn
  BY <1>8, HandOnKeeps
<1>9. CASE TakeEvict \/ Flushed
  BY <1>9, LeaveLoopKeeps
<1>10. CASE Drain
  BY <1>10, DrainKeeps
<1>11. CASE DrainTimeout
  BY <1>11, DrainTimeoutKeeps
<1>12. CASE SendEnd
  BY <1>12, SendEndKeeps
<1>13. CASE EndTimeout
  BY <1>13, EndTimeoutKeeps
<1>14. CASE Connect \/ ReconnectNow \/ TakeOver
  BY <1>14, ConnectKeeps
<1>15. CASE Read
  BY <1>15, ReadKeeps
<1>16. CASE ReplayLost
  BY <1>16, ReplayLostKeeps
<1>17. CASE Notice
  BY <1>17, NoticeKeeps
<1>18. CASE ChannelClosed \/ SocketLost
  BY <1>18, ChannelGoneKeeps
<1>19. CASE Refused
  BY <1>19, RefusedKeeps
<1>20. CASE UNCHANGED vars
  <2>1. /\ UNCHANGED <<kept, child, att, outbox, wire, page, wroteAt, lost, cut>>
        /\ UNCHANGED daemon
    BY <1>20 DEF vars, daemon
  <2>2. TypeOK /\ Channel /\ Bridge /\ Sized
    BY DEF IInv
  <2>3. TypeOK'
    BY <2>1, <2>2, Parts, PartsNext
  <2>4. Channel' /\ Bridge' /\ Sized'
    BY <2>1, <2>2 DEF Channel, Up, Bridge, Sized, OneSize
  <2>5. ASSUME NEW z \in Stages, DaemonAt(z) PROVE DaemonAt(z)'
    BY <2>1, <2>5 DEF DaemonAt
  <2>6. Stream' /\ CountMatchesTerminal'
    BY <2>1, <2>5, FramesStay
  <2> QED
    BY <2>3, <2>4, <2>6 DEF IInv
<1> QED
  BY <1>1, <1>2, <1>3, <1>4, <1>5, <1>6, <1>7, <1>8, <1>9, <1>10, <1>11, <1>12, <1>13,
     <1>14, <1>15, <1>16, <1>17, <1>18, <1>19, <1>20 DEF Next

LEMMA SpecInv == Spec => []IInv
<1> QED
  BY InitInv, StepInv, PTL DEF Spec

(* The state of the daemon, the bridge and the page keeps its shape; the    *)
(* wire never holds more than its room.                                      *)
THEOREM StreamTypeCorrect == Spec => []TypeOK
<1>1. IInv => TypeOK
  BY DEF IInv
<1> QED
  BY <1>1, SpecInv, PTL

(* A terminal that knows its count shows the session's output exactly once   *)
(* up to that count (wb-console-terminal-link.ts), whatever the ring and the *)
(* broadcast dropped, unless a channel was left before its replay came.      *)
THEOREM StreamExactlyOnce == Spec => []CountMatchesTerminal
<1>1. IInv => CountMatchesTerminal
  BY DEF IInv
<1> QED
  BY <1>1, SpecInv, PTL

LEMMA EndIsLast == IInv => OutputBeforeEnd
<1> SUFFICES ASSUME IInv, page.announced = "child-exited", child = "gone", ~cut, ~lost,
                    page.shown # NoCount
             PROVE  page.shown = kept.written
  BY DEF OutputBeforeEnd
<1>1. page.link = "open"
  BY PageFields, StreamAssumption DEF IInv, Channel
<1>2. PICK a \in Stages, z \in Stages : Leads(wire \o outbox, a, z) /\ PageAt(a) /\ DaemonAt(z)
  BY <1>1 DEF IInv, Stream
<1>3. a.why = "child-exited" /\ page.shown = a.at
  BY <1>2 DEF PageAt
<1>4. a.mode = "ended"
  BY <1>3, StageFields, StreamAssumption
<1>5. wire \o outbox \in Seq(Frames)
  BY Parts DEF IInv
<1>6. a = z
  BY <1>2, <1>4, <1>5, LeadsFromEnd
<1> QED
  BY <1>2, <1>3, <1>6 DEF DaemonAt

(* A page told that the child exited has been given the child's last output  *)
(* first (announce_end).                                                     *)
THEOREM StreamEndsWithOutput == Spec => []OutputBeforeEnd
<1> QED
  BY EndIsLast, SpecInv, PTL

LEMMA ResumeSized == IInv => ResumeAtOneSize
<1> SUFFICES ASSUME IInv, NEW i \in 1 .. Len(outbox) - 2, outbox[i].kind = "open",
                    outbox[i].resume, outbox[i].replay,
                    NEW j \in 1 .. Len(outbox[i + 2].bytes)
             PROVE  wroteAt[outbox[i + 2].bytes[j]] = outbox[i + 1].size
  BY DEF ResumeAtOneSize
<1>1. Len(outbox) \in Nat
  BY Parts DEF IInv
<1>2. i \in 1 .. Len(outbox)
  BY <1>1
<1>3. OneSize(i)
  BY <1>2 DEF IInv, Sized
<1> QED
  BY <1>3 DEF OneSize

(* The tail a resuming page is sent was all written at the size announced    *)
(* just before it (tail_after refuses a count before the last resize).       *)
THEOREM StreamResumesAtOneSize == Spec => []ResumeAtOneSize
<1> QED
  BY ResumeSized, SpecInv, PTL

=============================================================================
