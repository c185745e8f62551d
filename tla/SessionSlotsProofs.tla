-------------------------- MODULE SessionSlotsProofs --------------------------
(***************************************************************************)
(* Theorems about SessionSlots, for every set of sockets, tabs, attempts   *)
(* and window records, and any number of sessions and restarts.            *)
(***************************************************************************)
EXTENDS SessionSlots, TLAPS

-----------------------------------------------------------------------------
(* What a step does to the socket that takes it, field by field.           *)

SockAfter(s, at, record, gate, role, b, id, want) ==
    /\ sock' \in [Sockets -> SocketType]
    /\ \A t \in Sockets : t # s => sock'[t] = sock[t]
    /\ sock'[s].at = at /\ sock'[s].record = record /\ sock'[s].gate = gate
    /\ sock'[s].role = role /\ sock'[s].b = b /\ sock'[s].id = id
    /\ sock'[s].want = want

(* ... and to one session. *)
SessAfter(b, id, record, token, named, watchers, child) ==
    /\ sess' \in [Births -> SessionType]
    /\ \A c \in Births : c # b => sess'[c] = sess[c]
    /\ sess'[b].id = id /\ sess'[b].record = record
    /\ sess'[b].slot.token = token /\ sess'[b].slot.named = named
    /\ sess'[b].watchers = watchers /\ sess'[b].child = child

LEMMA SocketFields ==
  ASSUME NEW k \in SocketType
  PROVE  /\ k.at \in Steps /\ k.record \in Opt(Records) /\ k.gate \in Opt(Sockets)
         /\ k.role \in {"none", "writer", "watcher"}
         /\ k.b \in Count /\ k.id \in Count /\ k.want \in Count
  BY DEF SocketType

LEMMA SessionFields ==
  ASSUME NEW k \in SessionType
  PROVE  /\ k.id \in Count /\ k.record \in Opt(Records)
         /\ k.slot \in Slot /\ k.slot.token \in Opt(Sockets) /\ k.slot.named \in BOOLEAN
         /\ k.watchers \subseteq Sockets
         /\ k.child \in {"none", "runs", "closed", "gone"}
  BY DEF SessionType, Slot

(* A socket moves on in its open. *)
LEMMA SockGoes ==
  ASSUME NEW s \in Sockets, NEW k \in SocketType, sock \in [Sockets -> SocketType],
         sock' = [sock EXCEPT ![s] = k]
  PROVE  SockAfter(s, k.at, k.record, k.gate, k.role, k.b, k.id, k.want)
  BY DEF SockAfter

LEMMA GoesAfter ==
  ASSUME NEW s \in Sockets, NEW step \in Steps, sock \in [Sockets -> SocketType],
         Goes(s, step)
  PROVE  SockAfter(s, step, sock[s].record, sock[s].gate, sock[s].role, sock[s].b,
                   sock[s].id, sock[s].want)
<1> DEFINE k == [sock[s] EXCEPT !.at = step]
<1>1. k \in SocketType /\ k.at = step /\ k.record = sock[s].record /\ k.gate = sock[s].gate
      /\ k.role = sock[s].role /\ k.b = sock[s].b /\ k.id = sock[s].id /\ k.want = sock[s].want
  BY DEF SocketType
<1>2. sock' = [sock EXCEPT ![s] = k]
  BY DEF Goes
<1> HIDE DEF k
<1> QED
  BY <1>1, <1>2, SockGoes

LEMMA GoesAsAfter ==
  ASSUME NEW s \in Sockets, NEW step \in Steps, NEW role \in {"none", "writer", "watcher"},
         NEW b \in Count, sock \in [Sockets -> SocketType], GoesAs(s, step, role, b)
  PROVE  SockAfter(s, step, sock[s].record, sock[s].gate, role, b, sock[s].id, sock[s].want)
<1> DEFINE k == [sock[s] EXCEPT !.at = step, !.role = role, !.b = b]
<1>1. k \in SocketType /\ k.at = step /\ k.record = sock[s].record /\ k.gate = sock[s].gate
      /\ k.role = role /\ k.b = b /\ k.id = sock[s].id /\ k.want = sock[s].want
  BY DEF SocketType
<1>2. sock' = [sock EXCEPT ![s] = k]
  BY DEF GoesAs
<1> HIDE DEF k
<1> QED
  BY <1>1, <1>2, SockGoes

(* A socket that is over has nothing left. *)
LEMMA OverAfter ==
  ASSUME NEW s \in Sockets, sock \in [Sockets -> SocketType],
         sock' = [sock EXCEPT ![s] = Over]
  PROVE  SockAfter(s, "over", None, None, "none", 0, 0, 0)
<1>1. Over \in SocketType /\ Over.at = "over" /\ Over.record = None /\ Over.gate = None
      /\ Over.role = "none" /\ Over.b = 0 /\ Over.id = 0 /\ Over.want = 0
  BY SlotsAssumption DEF Over, Idle, SocketType, Steps, Opt, Count
<1> QED
  BY <1>1, SockGoes

(* The claim of the writer slot. *)
LEMMA ClaimAfter ==
  ASSUME NEW s \in Sockets, NEW b \in Births, NEW named \in BOOLEAN, NEW takeover \in BOOLEAN,
         sess \in [Births -> SessionType], fired \in [Sockets -> Opt(Reasons)],
         evictor \in [Sockets -> Opt(Sockets)], Claim(s, b, named, takeover)
  PROVE  /\ SessAfter(b, sess[b].id, sess[b].record, s, named, sess[b].watchers, sess[b].child)
         /\ fired' \in [Sockets -> Opt(Reasons)] /\ evictor' \in [Sockets -> Opt(Sockets)]
<1> DEFINE k == [sess[b] EXCEPT !.slot = [token |-> s, named |-> named]]
<1>1. k \in SessionType /\ k.id = sess[b].id /\ k.record = sess[b].record
      /\ k.slot.token = s /\ k.slot.named = named /\ k.watchers = sess[b].watchers
      /\ k.child = sess[b].child
  BY DEF SessionType, Slot, Opt
<1>2. sess' = [sess EXCEPT ![b] = k]
  BY DEF Claim
<1>3. sess[b].slot.token \in Opt(Sockets)
  BY SessionFields
<1> HIDE DEF k
<1>4. SessAfter(b, sess[b].id, sess[b].record, s, named, sess[b].watchers, sess[b].child)
  BY <1>1, <1>2 DEF SessAfter
<1>5. fired' \in [Sockets -> Opt(Reasons)] /\ evictor' \in [Sockets -> Opt(Sockets)]
  BY <1>3 DEF Claim, Opt, Reasons
<1> QED
  BY <1>4, <1>5

LEMMA WatchAfter ==
  ASSUME NEW s \in Sockets, NEW b \in Births, sess \in [Births -> SessionType], Watch(s, b)
  PROVE  SessAfter(b, sess[b].id, sess[b].record, sess[b].slot.token, sess[b].slot.named,
                   sess[b].watchers \cup {s}, sess[b].child)
<1> DEFINE k == [sess[b] EXCEPT !.watchers = @ \cup {s}]
<1>1. k \in SessionType /\ k.id = sess[b].id /\ k.record = sess[b].record
      /\ k.slot = sess[b].slot /\ k.watchers = sess[b].watchers \cup {s}
      /\ k.child = sess[b].child
  BY DEF SessionType
<1>2. sess' = [sess EXCEPT ![b] = k]
  BY DEF Watch
<1> HIDE DEF k
<1> QED
  BY <1>1, <1>2 DEF SessAfter

-----------------------------------------------------------------------------
(* Type correctness. It needs the ranges: which steps of an open have an   *)
(* id, a gate, a session in hand, and that the list names only sessions    *)
(* that were born.                                                         *)

Opening == {"wait", "find", "join", "joinwatch", "reserve", "build", "fresh", "name",
            "unlock", "forget"}
Attending == {"name", "unlock", "forget", "bridge", "drop"}

Hand(k, n) ==
    /\ k.at \in {"join", "joinwatch", "build", "fresh"} => k.id \in Ids
    /\ k.at \in Opening => k.gate \in Sockets /\ k.record \in Records
    /\ k.role # "none" => k.at \in Attending /\ k.b \in 1 .. n
    /\ k.at \in {"name", "bridge", "drop"} => k.role # "none"

InHand == \A s \in Sockets : Hand(sock[s], born)

Listing ==
    /\ \A b \in 1 .. born : sess[b].id \in Ids
    /\ \A b \in Births : sess[b].child # "none" => b <= born
    /\ \A i \in Ids : map[i] \in 0 .. born

TypeInv == TypeOK /\ InHand /\ Listing

(* The step does not touch the sessions. *)
Aside == UNCHANGED <<restarts, last, file, map, sess, born, fired, evictor>>

LEMMA TypeInit == Init => TypeInv
  BY SlotsAssumption DEF Init, TypeInv, TypeOK, InHand, Hand, Listing, Ids, Births, Count, Opt,
     Idle, Unborn, NoWriter, Steps, Opening, SocketType, SessionType, Slot

(* The two ways a reattach as the writer ends. *)
Refused(s) ==
    /\ SockAfter(s, "over", sock[s].record, sock[s].gate, sock[s].role, sock[s].b, sock[s].id,
                 sock[s].want)
    /\ UNCHANGED <<sess, fired, evictor>>

Granted(s, want, takeover, b) ==
    /\ b = map[sess[want].id] /\ Verdict(s, b, takeover) = "ok"
    /\ SockAfter(s, "bridge", sock[s].record, sock[s].gate, "writer", b, sock[s].id, want)
    /\ Claim(s, b, TRUE, takeover)

LEMMA ReattachDoes ==
  ASSUME TypeInv, NEW s \in Sockets, NEW want \in Births, NEW takeover \in BOOLEAN,
         Reattach(s, want, takeover)
  PROVE  /\ sock[s].at = "idle" /\ want \in 1 .. born
         /\ UNCHANGED <<restarts, last, file, map, born, records, locked>>
         /\ Refused(s) \/ \E b \in 1 .. born : Granted(s, want, takeover, b)
<1> DEFINE b == map[sess[want].id]
<1>1. want \in 1 .. born /\ sock[s].at = "idle" /\ sock[s] \in SocketType
  BY DEF Reattach, At, TypeInv, TypeOK, Births
<1>2. b \in 0 .. born /\ 0 .. born \subseteq Count
  BY <1>1, SlotsAssumption DEF TypeInv, TypeOK, Listing, Count
<1>3. UNCHANGED <<restarts, last, file, map, born, records, locked>>
  BY DEF Reattach, issuing, gating
<1>4. CASE b = 0 \/ Verdict(s, b, takeover) # "ok"
<2>1. Goes(s, "over") /\ UNCHANGED <<sess, fired, evictor>>
  BY <1>4 DEF Reattach, ends
<2>2. Refused(s)
  BY <2>1, GoesAfter DEF Refused, TypeInv, TypeOK, Steps
<2> QED
  BY <1>1, <1>3, <2>2
<1>5. CASE b # 0 /\ Verdict(s, b, takeover) = "ok"
<2> DEFINE k == [sock[s] EXCEPT !.at = "bridge", !.role = "writer", !.b = b, !.want = want]
<2>1. Claim(s, b, TRUE, takeover) /\ sock' = [sock EXCEPT ![s] = k]
  BY <1>5 DEF Reattach
<2>2. want \in Count
  BY <1>1, <1>2
<2>3. k \in SocketType /\ k.at = "bridge" /\ k.record = sock[s].record /\ k.gate = sock[s].gate
      /\ k.role = "writer" /\ k.b = b /\ k.id = sock[s].id /\ k.want = want
  BY <1>1, <1>2, <2>2 DEF SocketType, Steps
<2> HIDE DEF k
<2>4. SockAfter(s, "bridge", sock[s].record, sock[s].gate, "writer", b, sock[s].id, want)
  BY <2>1, <2>3, SockGoes DEF TypeInv, TypeOK
<2>5. b \in 1 .. born
  BY <1>2, <1>5
<2>6. Granted(s, want, takeover, b)
  BY <1>5, <2>1, <2>4 DEF Granted
<2> QED
  BY <1>1, <1>3, <2>5, <2>6
<1> QED
  BY <1>4, <1>5

LEMMA ReattachAsWatcherDoes ==
  ASSUME TypeInv, NEW s \in Sockets, NEW want \in Births, ReattachAsWatcher(s, want)
  PROVE  /\ sock[s].at = "idle" /\ want \in 1 .. born
         /\ UNCHANGED <<restarts, last, file, map, born, records, locked, fired, evictor>>
         /\ \/ /\ SockAfter(s, "over", sock[s].record, sock[s].gate, sock[s].role, sock[s].b,
                            sock[s].id, sock[s].want)
               /\ UNCHANGED sess
            \/ \E b \in 1 .. born :
                 /\ b = map[sess[want].id]
                 /\ SockAfter(s, "bridge", sock[s].record, sock[s].gate, "watcher", b,
                              sock[s].id, want)
                 /\ Watch(s, b)
<1> DEFINE b == map[sess[want].id]
<1>1. want \in 1 .. born /\ sock[s].at = "idle" /\ sock[s] \in SocketType
  BY DEF ReattachAsWatcher, At, TypeInv, TypeOK, Births
<1>2. b \in 0 .. born /\ 0 .. born \subseteq Count
  BY <1>1, SlotsAssumption DEF TypeInv, TypeOK, Listing, Count
<1>3. UNCHANGED <<restarts, last, file, map, born, records, locked, fired, evictor>>
  BY DEF ReattachAsWatcher, Watch, issuing, gating, ends
<1>4. CASE b = 0
<2>1. Goes(s, "over") /\ UNCHANGED sess
  BY <1>4 DEF ReattachAsWatcher
<2> QED
  BY <1>1, <1>3, <2>1, GoesAfter DEF TypeInv, TypeOK, Steps
<1>5. CASE b # 0
<2> DEFINE k == [sock[s] EXCEPT !.at = "bridge", !.role = "watcher", !.b = b, !.want = want]
<2>1. Watch(s, b) /\ sock' = [sock EXCEPT ![s] = k]
  BY <1>5 DEF ReattachAsWatcher
<2>2. want \in Count
  BY <1>1, <1>2
<2>3. k \in SocketType /\ k.at = "bridge" /\ k.record = sock[s].record /\ k.gate = sock[s].gate
      /\ k.role = "watcher" /\ k.b = b /\ k.id = sock[s].id /\ k.want = want
  BY <1>1, <1>2, <2>2 DEF SocketType, Steps
<2> HIDE DEF k
<2>4. SockAfter(s, "bridge", sock[s].record, sock[s].gate, "watcher", b, sock[s].id, want)
  BY <2>1, <2>3, SockGoes DEF TypeInv, TypeOK
<2>5. b \in 1 .. born
  BY <1>2, <1>5
<2> QED
  BY <1>1, <1>3, <2>1, <2>4, <2>5
<1> QED
  BY <1>4, <1>5

LEMMA LaunchDoes ==
  ASSUME TypeInv, NEW s \in Sockets, NEW r \in Records, Launch(s, r)
  PROVE  \E g \in Sockets :
           /\ sock[s].at = "idle"
           /\ g = IF records[r] = None THEN s ELSE records[r]
           /\ SockAfter(s, "wait", r, g, sock[s].role, sock[s].b, sock[s].id, sock[s].want)
           /\ records' = [records EXCEPT ![r] = g] /\ UNCHANGED locked /\ Aside
<1> DEFINE g == IF records[r] = None THEN s ELSE records[r]
           k == [sock[s] EXCEPT !.at = "wait", !.record = r, !.gate = g]
<1>1. g \in Sockets /\ sock[s] \in SocketType
  BY DEF TypeInv, TypeOK, Opt
<1>2. k \in SocketType /\ k.at = "wait" /\ k.record = r /\ k.gate = g
      /\ k.role = sock[s].role /\ k.b = sock[s].b /\ k.id = sock[s].id /\ k.want = sock[s].want
  BY <1>1 DEF SocketType, Steps, Opt
<1>3. /\ sock' = [sock EXCEPT ![s] = k] /\ records' = [records EXCEPT ![r] = g]
      /\ sock[s].at = "idle" /\ UNCHANGED locked /\ Aside
  BY DEF Launch, At, Aside, issuing, living, ends
<1> HIDE DEF k
<1>4. SockAfter(s, "wait", r, g, sock[s].role, sock[s].b, sock[s].id, sock[s].want)
  BY <1>2, <1>3, SockGoes DEF TypeInv, TypeOK
<1> QED
  BY <1>1, <1>3, <1>4

(* The socket moves on with what it has. *)
Moves(s, step) ==
    SockAfter(s, step, sock[s].record, sock[s].gate, sock[s].role, sock[s].b, sock[s].id,
              sock[s].want)

LEMMA AcquireDoes ==
  ASSUME TypeInv, NEW s \in Sockets, Acquire(s)
  PROVE  /\ sock[s].at = "wait" /\ locked[sock[s].gate] = None
         /\ Moves(s, "find") /\ locked' = [locked EXCEPT ![sock[s].gate] = s]
         /\ UNCHANGED records /\ Aside
  BY GoesAfter DEF Acquire, At, Moves, Aside, issuing, living, ends, TypeInv, TypeOK, Steps

LEMMA FindLiveDoes ==
  ASSUME TypeInv, NEW s \in Sockets, FindLive(s)
  PROVE  /\ sock[s].at = "find" /\ UNCHANGED <<records, locked>> /\ Aside
         /\ \/ \E i \in Ids :
                 /\ map[i] # 0 /\ sess[map[i]].record = sock[s].record
                 /\ SockAfter(s, "join", sock[s].record, sock[s].gate, sock[s].role, sock[s].b,
                              i, sock[s].want)
            \/ /\ \A i \in Ids : map[i] # 0 => sess[map[i]].record # sock[s].record
               /\ Moves(s, "reserve")
<1>1. sock[s].at = "find" /\ UNCHANGED <<records, locked>> /\ Aside /\ sock[s] \in SocketType
  BY DEF FindLive, At, Aside, issuing, living, gating, ends, TypeInv, TypeOK
<1>2. CASE \E i \in Ids : /\ map[i] # 0 /\ sess[map[i]].record = sock[s].record
                          /\ sock' = [sock EXCEPT ![s].at = "join", ![s].id = i]
<2>1. PICK i \in Ids : /\ map[i] # 0 /\ sess[map[i]].record = sock[s].record
                       /\ sock' = [sock EXCEPT ![s].at = "join", ![s].id = i]
  BY <1>2
<2> DEFINE k == [sock[s] EXCEPT !.at = "join", !.id = i]
<2>2. i \in Count
  BY SlotsAssumption DEF Ids, Count
<2>3. k \in SocketType /\ k.at = "join" /\ k.record = sock[s].record /\ k.gate = sock[s].gate
      /\ k.role = sock[s].role /\ k.b = sock[s].b /\ k.id = i /\ k.want = sock[s].want
  BY <1>1, <2>2 DEF SocketType, Steps
<2>4. sock' = [sock EXCEPT ![s] = k]
  BY <2>1
<2> HIDE DEF k
<2>5. SockAfter(s, "join", sock[s].record, sock[s].gate, sock[s].role, sock[s].b, i, sock[s].want)
  BY <2>3, <2>4, SockGoes DEF TypeInv, TypeOK
<2> QED
  BY <1>1, <2>1, <2>5
<1>3. CASE /\ \A i \in Ids : map[i] # 0 => sess[map[i]].record # sock[s].record
           /\ Goes(s, "reserve")
  BY <1>1, <1>3, GoesAfter DEF Moves, TypeInv, TypeOK, Steps
<1> QED
  BY <1>2, <1>3 DEF FindLive

LEMMA JoinDoes ==
  ASSUME TypeInv, NEW s \in Sockets, Join(s)
  PROVE  /\ sock[s].at = "join" /\ UNCHANGED <<restarts, last, file, map, born, records, locked>>
         /\ \/ /\ UNCHANGED <<sess, fired, evictor>>
               /\ \/ Moves(s, "joinwatch") \/ Moves(s, "unlock")
                  \/ map[sock[s].id] = 0 /\ Moves(s, "reserve")
            \/ \E b \in 1 .. born :
                 /\ b = map[sock[s].id] /\ Verdict(s, b, FALSE) = "ok"
                 /\ SockAfter(s, "unlock", sock[s].record, sock[s].gate, "writer", b,
                              sock[s].id, sock[s].want)
                 /\ Claim(s, b, TRUE, FALSE)
<1> DEFINE b == map[sock[s].id]
           verdict == IF b = 0 THEN "unknown" ELSE Verdict(s, b, FALSE)
<1>1. sock[s].at = "join" /\ UNCHANGED <<restarts, last, file, map, born, records, locked>>
  BY DEF Join, At, issuing, gating
<1>2. b \in 0 .. born /\ 0 .. born \subseteq Count
  BY <1>1, SlotsAssumption DEF TypeInv, TypeOK, InHand, Hand, Listing, Count
<1>3. verdict \in {"ok", "busy", "superseded", "unknown"} /\ (verdict = "unknown" <=> b = 0)
  BY DEF Verdict
<1>4. CASE verdict = "ok"
<2>1. Claim(s, b, TRUE, FALSE) /\ GoesAs(s, "unlock", "writer", b)
  BY <1>4 DEF Join
<2>4. b # 0
  BY <1>3, <1>4
<2>5. Verdict(s, b, FALSE) = "ok"
  BY <2>4, <1>4
<2>2. b \in 1 .. born /\ b \in Count
  BY <1>2, <2>4
<2>3. SockAfter(s, "unlock", sock[s].record, sock[s].gate, "writer", b, sock[s].id, sock[s].want)
  BY <2>1, <2>2, GoesAsAfter DEF TypeInv, TypeOK, Steps
<2> QED
  BY <1>1, <2>1, <2>2, <2>5, <2>3
<1>5. CASE verdict # "ok"
<2>1. /\ UNCHANGED <<sess, fired, evictor>>
      /\ Goes(s, "joinwatch") \/ Goes(s, "unlock") \/ (verdict = "unknown" /\ Goes(s, "reserve"))
  BY <1>3, <1>5 DEF Join, ends
<2> QED
  BY <1>1, <1>3, <2>1, GoesAfter DEF Moves, TypeInv, TypeOK, Steps
<1> QED
  BY <1>4, <1>5

LEMMA JoinWatchDoes ==
  ASSUME TypeInv, NEW s \in Sockets, JoinWatch(s)
  PROVE  /\ sock[s].at = "joinwatch"
         /\ UNCHANGED <<restarts, last, file, map, born, records, locked, fired, evictor>>
         /\ \/ map[sock[s].id] = 0 /\ Moves(s, "reserve") /\ UNCHANGED sess
            \/ \E b \in 1 .. born :
                 /\ b = map[sock[s].id]
                 /\ SockAfter(s, "unlock", sock[s].record, sock[s].gate, "watcher", b,
                              sock[s].id, sock[s].want)
                 /\ Watch(s, b)
<1> DEFINE b == map[sock[s].id]
<1>1. /\ sock[s].at = "joinwatch"
      /\ UNCHANGED <<restarts, last, file, map, born, records, locked, fired, evictor>>
  BY DEF JoinWatch, At, Watch, issuing, gating, ends
<1>2. b \in 0 .. born /\ 0 .. born \subseteq Count
  BY <1>1, SlotsAssumption DEF TypeInv, TypeOK, InHand, Hand, Listing, Count
<1>3. CASE b = 0
<2>1. Goes(s, "reserve") /\ UNCHANGED sess
  BY <1>3 DEF JoinWatch
<2> QED
  BY <1>1, <1>3, <2>1, GoesAfter DEF Moves, TypeInv, TypeOK, Steps
<1>4. CASE b # 0
<2>1. Watch(s, b) /\ GoesAs(s, "unlock", "watcher", b)
  BY <1>4 DEF JoinWatch
<2>2. b \in 1 .. born /\ b \in Count
  BY <1>2, <1>4
<2>3. SockAfter(s, "unlock", sock[s].record, sock[s].gate, "watcher", b, sock[s].id, sock[s].want)
  BY <2>1, <2>2, GoesAsAfter DEF TypeInv, TypeOK, Steps
<2> QED
  BY <1>1, <2>1, <2>2, <2>3
<1> QED
  BY <1>3, <1>4

LEMMA ReserveDoes ==
  ASSUME TypeInv, NEW s \in Sockets, Reserve(s)
  PROVE  /\ sock[s].at = "reserve" /\ last' = last + 1 /\ last' \in Ids
         /\ file' \in {last', file} /\ (Recorded = {TRUE} => file' = last')
         /\ SockAfter(s, "build", sock[s].record, sock[s].gate, sock[s].role, sock[s].b,
                      last', sock[s].want)
         /\ UNCHANGED <<restarts, map, sess, born, records, locked, fired, evictor>>
<1> DEFINE k == [sock[s] EXCEPT !.at = "build", !.id = last']
<1>1. /\ sock[s].at = "reserve" /\ last' = last + 1 /\ sock[s] \in SocketType
      /\ sock' = [sock EXCEPT ![s] = k]
      /\ UNCHANGED <<restarts, map, sess, born, records, locked, fired, evictor>>
  BY DEF Reserve, At, living, gating, ends, TypeInv, TypeOK
<1>2. last' \in Ids /\ last' \in Count
  BY <1>1, SlotsAssumption DEF Reserve, TypeInv, TypeOK, Ids, Count
<1>3. k \in SocketType /\ k.at = "build" /\ k.record = sock[s].record /\ k.gate = sock[s].gate
      /\ k.role = sock[s].role /\ k.b = sock[s].b /\ k.id = last' /\ k.want = sock[s].want
  BY <1>1, <1>2 DEF SocketType, Steps
<1>4. file' \in {last', file} /\ (Recorded = {TRUE} => file' = last')
<2>1. PICK ok \in Recorded : file' = IF ok THEN last' ELSE file
  BY <1>1, Zenon DEF Reserve
<2>2. file' = last' \/ file' = file
  BY <2>1, Zenon
<2>3. Recorded = {TRUE} => ok = TRUE
  BY <2>1, Zenon
<2>4. ok = TRUE => file' = last'
  BY <2>1, Zenon
<2> QED
  BY <2>2, <2>3, <2>4
<1> HIDE DEF k
<1>5. SockAfter(s, "build", sock[s].record, sock[s].gate, sock[s].role, sock[s].b,
                last', sock[s].want)
  BY <1>1, <1>3, SockGoes DEF TypeInv, TypeOK
<1> QED
  BY <1>1, <1>2, <1>4, <1>5

LEMMA SpawnDoes ==
  ASSUME TypeInv, NEW s \in Sockets, Spawn(s)
  PROVE  /\ sock[s].at = "build" /\ born' = born + 1 /\ born' \in Births
         /\ SessAfter(born', sock[s].id, sock[s].record, None, FALSE, {}, "runs")
         /\ map' = [map EXCEPT ![sock[s].id] = born']
         /\ SockAfter(s, "fresh", sock[s].record, sock[s].gate, "none", born',
                      sock[s].id, sock[s].want)
         /\ UNCHANGED <<restarts, last, file, records, locked, fired, evictor>>
<1> DEFINE k == [Unborn EXCEPT !.id = sock[s].id, !.record = sock[s].record, !.child = "runs"]
<1>1. /\ sock[s].at = "build" /\ born' = born + 1 /\ sock[s] \in SocketType
      /\ sess' = [sess EXCEPT ![born'] = k]
      /\ map' = [map EXCEPT ![sock[s].id] = born'] /\ GoesAs(s, "fresh", "none", born')
      /\ UNCHANGED <<restarts, last, file, records, locked, fired, evictor>>
  BY DEF Spawn, At, issuing, gating, ends, TypeInv, TypeOK
<1>2. born' \in Births /\ born' \in Count
  BY <1>1, SlotsAssumption DEF Spawn, TypeInv, TypeOK, Births, Count
<1>3. sock[s].id \in Count /\ sock[s].record \in Opt(Records)
  BY <1>1, SocketFields
<1>4. k \in SessionType /\ k.id = sock[s].id /\ k.record = sock[s].record /\ k.slot = NoWriter
      /\ k.watchers = {} /\ k.child = "runs"
  BY <1>3 DEF Unborn, SessionType, Slot, NoWriter, Opt
<1> HIDE DEF k
<1>5. SessAfter(born', sock[s].id, sock[s].record, None, FALSE, {}, "runs")
  BY <1>1, <1>2, <1>4 DEF SessAfter, TypeInv, TypeOK, NoWriter
<1>6. SockAfter(s, "fresh", sock[s].record, sock[s].gate, "none", born', sock[s].id, sock[s].want)
  BY <1>1, <1>2, GoesAsAfter DEF TypeInv, TypeOK, Steps
<1> QED
  BY <1>1, <1>2, <1>5, <1>6

(* The steps that only move a socket on: a failed or cancelled build, and  *)
(* the end of a bridge.                                                    *)
LEMMA MoveDoes ==
  ASSUME TypeInv, NEW s \in Sockets, SpawnFails(s) \/ Cancel(s) \/ End(s) \/ Leave(s)
  PROVE  /\ Aside /\ UNCHANGED <<records, locked>>
         /\ \/ sock[s].at = "build" /\ Moves(s, "unlock")
            \/ sock[s].at = "bridge" /\ Moves(s, "drop")
            \/ sock[s].at = "wait" /\ SockAfter(s, "over", None, None, "none", 0, 0, 0)
<1>1. Aside /\ UNCHANGED <<records, locked>>
  BY DEF SpawnFails, Cancel, End, Leave, Aside, issuing, living, gating, ends
<1>2. \/ sock[s].at = "build" /\ Goes(s, "unlock")
      \/ sock[s].at = "bridge" /\ Goes(s, "drop")
      \/ sock[s].at = "wait" /\ sock' = [sock EXCEPT ![s] = Over]
  BY DEF SpawnFails, Cancel, End, Leave, At
<1>3. sock \in [Sockets -> SocketType] /\ "unlock" \in Steps /\ "drop" \in Steps
  BY DEF TypeInv, TypeOK, Steps
<1> QED
  BY <1>1, <1>2, <1>3, GoesAfter, OverAfter DEF Moves

LEMMA AttachFreshDoes ==
  ASSUME TypeInv, NEW s \in Sockets, AttachFresh(s)
  PROVE  /\ sock[s].at = "fresh" /\ UNCHANGED <<restarts, last, file, map, born, records, locked>>
         /\ \/ UNCHANGED <<sess, fired, evictor>> /\ Moves(s, "unlock")
            \/ \E b \in 1 .. born :
                 /\ b = map[sock[s].id]
                 /\ SockAfter(s, "name", sock[s].record, sock[s].gate, "writer", b,
                              sock[s].id, sock[s].want)
                 /\ Claim(s, b, FALSE, TRUE)
<1> DEFINE b == map[sock[s].id]
<1>1. sock[s].at = "fresh" /\ UNCHANGED <<restarts, last, file, map, born, records, locked>>
  BY DEF AttachFresh, At, issuing, gating
<1>2. b \in 0 .. born /\ 0 .. born \subseteq Count
  BY <1>1, SlotsAssumption DEF TypeInv, TypeOK, InHand, Hand, Listing, Count
<1>3. CASE b = 0
<2>1. Goes(s, "unlock") /\ UNCHANGED <<sess, fired, evictor>>
  BY <1>3 DEF AttachFresh, ends
<2> QED
  BY <1>1, <2>1, GoesAfter DEF Moves, TypeInv, TypeOK, Steps
<1>4. CASE b # 0
<2>1. Claim(s, b, FALSE, TRUE) /\ GoesAs(s, "name", "writer", b)
  BY <1>4 DEF AttachFresh
<2>2. b \in 1 .. born /\ b \in Count
  BY <1>2, <1>4
<2>3. SockAfter(s, "name", sock[s].record, sock[s].gate, "writer", b, sock[s].id, sock[s].want)
  BY <2>1, <2>2, GoesAsAfter DEF TypeInv, TypeOK, Steps
<2> QED
  BY <1>1, <2>1, <2>2, <2>3
<1> QED
  BY <1>3, <1>4

LEMMA HoldAsDoes ==
  ASSUME TypeInv, NEW s \in Sockets, HoldAs(s)
  PROVE  /\ sock[s].at = "name" /\ Moves(s, "unlock")
         /\ UNCHANGED <<restarts, last, file, map, born, records, locked, fired, evictor>>
         /\ \E b \in 1 .. born, named \in BOOLEAN :
              SessAfter(b, sess[b].id, sess[b].record, sess[b].slot.token, named,
                        sess[b].watchers, sess[b].child)
<1> DEFINE b == sock[s].b
           k == [sess[b] EXCEPT !.slot.named = TRUE]
<1>1. /\ sock[s].at = "name" /\ Goes(s, "unlock")
      /\ UNCHANGED <<restarts, last, file, map, born, records, locked, fired, evictor>>
      /\ sess' = [sess EXCEPT ![b] = k] \/ UNCHANGED sess
  BY DEF HoldAs, At, issuing, gating, ends
<1>2. Moves(s, "unlock")
  BY <1>1, GoesAfter DEF Moves, TypeInv, TypeOK, Steps
<1>3. b \in 1 .. born /\ b \in Births
  BY <1>1, SlotsAssumption DEF TypeInv, TypeOK, InHand, Hand, Births, Count
<1>4. sess[b] \in SessionType /\ sess[b].slot \in Slot /\ sess[b].slot.named \in BOOLEAN
  BY <1>3, SessionFields DEF TypeInv, TypeOK
<1>5. k \in SessionType /\ k.id = sess[b].id /\ k.record = sess[b].record
      /\ k.slot.token = sess[b].slot.token /\ k.slot.named = TRUE
      /\ k.watchers = sess[b].watchers /\ k.child = sess[b].child
  BY <1>4 DEF SessionType, Slot
<1> HIDE DEF k
<1>6. \E named \in BOOLEAN :
        SessAfter(b, sess[b].id, sess[b].record, sess[b].slot.token, named,
                  sess[b].watchers, sess[b].child)
<2>1. CASE sess' = [sess EXCEPT ![b] = k]
<3>1. SessAfter(b, sess[b].id, sess[b].record, sess[b].slot.token, TRUE,
                sess[b].watchers, sess[b].child)
  BY <1>3, <1>5, <2>1 DEF SessAfter, TypeInv, TypeOK
<3> QED
  BY <3>1
<2>2. CASE UNCHANGED sess
<3>1. SessAfter(b, sess[b].id, sess[b].record, sess[b].slot.token, sess[b].slot.named,
                sess[b].watchers, sess[b].child)
  BY <2>2 DEF SessAfter, TypeInv, TypeOK
<3> QED
  BY <3>1, <1>4
<2> QED
  BY <1>1, <2>1, <2>2
<1> QED
  BY <1>1, <1>2, <1>3, <1>6

LEMMA UnlockDoes ==
  ASSUME TypeInv, NEW s \in Sockets, Unlock(s)
  PROVE  /\ sock[s].at = "unlock" /\ Moves(s, "forget")
         /\ locked' = [locked EXCEPT ![sock[s].gate] = None]
         /\ UNCHANGED records /\ Aside
  BY GoesAfter DEF Unlock, At, Moves, Aside, issuing, living, ends, TypeInv, TypeOK, Steps

LEMMA ForgetDoes ==
  ASSUME TypeInv, NEW s \in Sockets, Forget(s)
  PROVE  /\ sock[s].at = "forget" /\ UNCHANGED locked /\ Aside
         /\ records' = IF References(sock[s].gate) = {s}
                       THEN [records EXCEPT ![sock[s].record] = None] ELSE records
         /\ \/ sock[s].role = "none" /\ SockAfter(s, "over", None, None, "none", 0, 0, 0)
            \/ /\ sock[s].role # "none"
               /\ SockAfter(s, "bridge", sock[s].record, None, sock[s].role, sock[s].b,
                            sock[s].id, sock[s].want)
<1> DEFINE k == [sock[s] EXCEPT !.gate = None, !.at = "bridge"]
<1>1. /\ sock[s].at = "forget" /\ UNCHANGED locked /\ Aside /\ sock[s] \in SocketType
      /\ records' = IF References(sock[s].gate) = {s}
                    THEN [records EXCEPT ![sock[s].record] = None] ELSE records
      /\ sock' = [sock EXCEPT ![s] = IF sock[s].role = "none" THEN Over ELSE k]
  BY DEF Forget, At, Aside, issuing, living, ends, TypeInv, TypeOK
<1>2. k \in SocketType /\ k.at = "bridge" /\ k.record = sock[s].record /\ k.gate = None
      /\ k.role = sock[s].role /\ k.b = sock[s].b /\ k.id = sock[s].id /\ k.want = sock[s].want
  BY <1>1 DEF SocketType, Steps, Opt
<1> HIDE DEF k
<1>3. CASE sock[s].role = "none"
  BY <1>1, <1>3, OverAfter DEF TypeInv, TypeOK
<1>4. CASE sock[s].role # "none"
<2>1. sock' = [sock EXCEPT ![s] = k]
  BY <1>1, <1>4
<2>2. SockAfter(s, "bridge", sock[s].record, None, sock[s].role, sock[s].b, sock[s].id,
                sock[s].want)
  BY <1>2, <2>1, SockGoes DEF TypeInv, TypeOK
<2> QED
  BY <1>1, <1>4, <2>2
<1> QED
  BY <1>3, <1>4

(* close and retire: b leaves the list and everybody on it is told. *)
LEMMA EndsDoes ==
  ASSUME TypeInv, NEW b \in Births, Close(b) \/ Retire(b)
  PROVE  /\ b \in 1 .. born /\ UNCHANGED <<restarts, last, file, born, records, locked, sock>>
         /\ UNCHANGED evictor /\ fired' \in [Sockets -> Opt(Reasons)]
         /\ \A s \in Sockets :
              fired'[s] = IF s \in Registered(b) THEN "child-exited" ELSE fired[s]
         /\ map' \in [Ids -> 0 .. born]
         /\ \A i \in Ids : map'[i] = IF i = sess[b].id /\ map[i] = b THEN 0 ELSE map[i]
         /\ \E child \in {"closed", "gone"} :
              SessAfter(b, sess[b].id, sess[b].record, sess[b].slot.token, sess[b].slot.named,
                        sess[b].watchers, child)
<1>1. sess[b] \in SessionType /\ map \in [Ids -> 0 .. born] /\ born \in Nat
  BY SlotsAssumption DEF TypeInv, TypeOK, Listing, Count
<1>2. b \in 1 .. born /\ sess[b].id \in Ids
  BY SlotsAssumption DEF Close, Retire, TypeInv, TypeOK, Listing, Births, Count
<1>3. /\ UNCHANGED <<restarts, last, file, born, records, locked, sock>> /\ EvictAll(b)
      /\ map' = IF map[sess[b].id] = b THEN [map EXCEPT ![sess[b].id] = 0] ELSE map
      /\ \E child \in {"closed", "gone"} : sess' = [sess EXCEPT ![b].child = child]
  BY DEF Close, Retire, issuing, gating
<1>4. /\ UNCHANGED evictor /\ fired' \in [Sockets -> Opt(Reasons)]
      /\ \A s \in Sockets :
           fired'[s] = IF s \in Registered(b) THEN "child-exited" ELSE fired[s]
  BY <1>3 DEF EvictAll, TypeInv, TypeOK, Opt, Reasons
<1>5. /\ map' \in [Ids -> 0 .. born]
      /\ \A i \in Ids : map'[i] = IF i = sess[b].id /\ map[i] = b THEN 0 ELSE map[i]
  BY <1>1, <1>2, <1>3
<1>6. \E child \in {"closed", "gone"} :
        SessAfter(b, sess[b].id, sess[b].record, sess[b].slot.token, sess[b].slot.named,
                  sess[b].watchers, child)
<2>1. PICK child \in {"closed", "gone"} : sess' = [sess EXCEPT ![b].child = child]
  BY <1>3
<2> DEFINE k == [sess[b] EXCEPT !.child = child]
<2>2. k \in SessionType /\ k.id = sess[b].id /\ k.record = sess[b].record
      /\ k.slot = sess[b].slot /\ k.watchers = sess[b].watchers /\ k.child = child
  BY <1>1 DEF SessionType
<2>3. sess' = [sess EXCEPT ![b] = k]
  BY <2>1
<2> HIDE DEF k
<2>4. SessAfter(b, sess[b].id, sess[b].record, sess[b].slot.token, sess[b].slot.named,
                sess[b].watchers, child)
  BY <2>2, <2>3 DEF SessAfter, TypeInv, TypeOK
<2> QED
  BY <2>4
<1> QED
  BY <1>2, <1>3, <1>4, <1>5, <1>6

LEMMA DropDoes ==
  ASSUME TypeInv, NEW s \in Sockets, Drop(s)
  PROVE  /\ sock[s].at = "drop" /\ SockAfter(s, "over", None, None, "none", 0, 0, 0)
         /\ UNCHANGED <<restarts, last, file, map, born, records, locked>>
         /\ fired' = [fired EXCEPT ![s] = None] /\ evictor' = [evictor EXCEPT ![s] = None]
         /\ \E b \in 1 .. born, token \in Opt(Sockets), named \in BOOLEAN,
               watchers \in SUBSET Sockets :
              /\ b = sock[s].b
              /\ token = IF sock[s].role = "writer" /\ sess[b].slot.token = s
                         THEN None ELSE sess[b].slot.token
              /\ watchers = IF sock[s].role = "watcher" THEN sess[b].watchers \ {s}
                            ELSE sess[b].watchers
              /\ SessAfter(b, sess[b].id, sess[b].record, token, named, watchers, sess[b].child)
<1> DEFINE b == sock[s].b
           k == IF sock[s].role = "watcher" THEN [sess[b] EXCEPT !.watchers = @ \ {s}]
                ELSE IF sess[b].slot.token = s THEN [sess[b] EXCEPT !.slot = NoWriter]
                ELSE sess[b]
           token == IF sock[s].role = "writer" /\ sess[b].slot.token = s
                    THEN None ELSE sess[b].slot.token
           watchers == IF sock[s].role = "watcher" THEN sess[b].watchers \ {s}
                       ELSE sess[b].watchers
<1>1. /\ sock[s].at = "drop" /\ UNCHANGED <<restarts, last, file, map, born, records, locked>>
      /\ fired' = [fired EXCEPT ![s] = None] /\ evictor' = [evictor EXCEPT ![s] = None]
      /\ sock' = [sock EXCEPT ![s] = Over]
  BY DEF Drop, Gone, At, issuing, gating
<1>2. SockAfter(s, "over", None, None, "none", 0, 0, 0)
  BY <1>1, OverAfter DEF TypeInv, TypeOK
<1>3. b \in 1 .. born /\ b \in Births /\ sock[s].role \in {"writer", "watcher"}
  BY <1>1, SlotsAssumption, SocketFields DEF TypeInv, TypeOK, InHand, Hand, Births, Count
<1>4. sess[b] \in SessionType /\ sess[b].slot \in Slot /\ sess[b].slot.named \in BOOLEAN
      /\ sess[b].slot.token \in Opt(Sockets) /\ sess[b].watchers \subseteq Sockets
  BY <1>3, SessionFields DEF TypeInv, TypeOK
<1>5. sess' = [sess EXCEPT ![b] = k]
<2>1. sess = [sess EXCEPT ![b] = sess[b]]
  BY DEF TypeInv, TypeOK
<2>2. CASE sock[s].role = "watcher"
  BY <2>2 DEF Drop
<2>3. CASE sock[s].role # "watcher" /\ sess[b].slot.token = s
  BY <2>3 DEF Drop
<2>4. CASE sock[s].role # "watcher" /\ sess[b].slot.token # s
  BY <2>1, <2>4 DEF Drop
<2> QED
  BY <2>2, <2>3, <2>4
<1>6. k \in SessionType /\ k.id = sess[b].id /\ k.record = sess[b].record
      /\ k.slot.token = token /\ k.watchers = watchers /\ k.child = sess[b].child
  BY <1>3, <1>4 DEF SessionType, Slot, NoWriter, Opt
<1>7. k.slot.named \in BOOLEAN /\ token \in Opt(Sockets) /\ watchers \in SUBSET Sockets
  BY <1>4, <1>6, SessionFields DEF Opt
<1> HIDE DEF k, token, watchers
<1>8. SessAfter(b, sess[b].id, sess[b].record, token, k.slot.named, watchers, sess[b].child)
  BY <1>3, <1>5, <1>6 DEF SessAfter, TypeInv, TypeOK
<1>9. \E named \in BOOLEAN :
         SessAfter(b, sess[b].id, sess[b].record, token, named, watchers, sess[b].child)
  BY <1>7, <1>8
<1> QED
  BY <1>1, <1>2, <1>3, <1>7, <1>9 DEF token, watchers

LEMMA RestartDoes ==
  ASSUME TypeInv, Restart
  PROVE  /\ sess' \in [Births -> SessionType] /\ sock' \in [Sockets -> SocketType]
         /\ \A b \in Births :
              /\ sess'[b].id = sess[b].id /\ sess'[b].slot.token = None /\ sess'[b].watchers = {}
              /\ sess'[b].child # "none" => sess[b].child # "none"
         /\ \A s \in Sockets :
              /\ sock[s].at = "idle" => sock'[s] = sock[s]
              /\ sock[s].at # "idle" => sock'[s] = Over
<1>1. \A b \in Births : sess[b] \in SessionType
  BY DEF TypeInv, TypeOK
<1> DEFINE k(b) == [sess[b] EXCEPT !.child = IF @ = "none" THEN @ ELSE "gone",
                                   !.slot = NoWriter, !.watchers = {}]
<1>2. \A b \in Births :
        /\ k(b) \in SessionType /\ k(b).id = sess[b].id /\ k(b).slot = NoWriter
        /\ k(b).watchers = {} /\ (k(b).child # "none" => sess[b].child # "none")
  BY <1>1 DEF SessionType, Slot, NoWriter, Opt
<1>3. sess' = [b \in Births |-> k(b)]
  BY DEF Restart
<1> HIDE DEF k
<1>4. /\ sess' \in [Births -> SessionType]
      /\ \A b \in Births :
           /\ sess'[b].id = sess[b].id /\ sess'[b].slot.token = None /\ sess'[b].watchers = {}
           /\ sess'[b].child # "none" => sess[b].child # "none"
  BY <1>2, <1>3 DEF NoWriter
<1>5. Over \in SocketType
  BY SlotsAssumption DEF Over, Idle, SocketType, Steps, Opt, Count
<1>6. sock' = [s \in Sockets |-> IF sock[s].at = "idle" THEN sock[s] ELSE Over]
  BY DEF Restart, At
<1>7. /\ sock' \in [Sockets -> SocketType]
      /\ \A s \in Sockets :
           /\ sock[s].at = "idle" => sock'[s] = sock[s]
           /\ sock[s].at # "idle" => sock'[s] = Over
  BY <1>5, <1>6 DEF TypeInv, TypeOK
<1> QED
  BY <1>4, <1>7

(* A socket's step keeps the ranges of the others; its own have to hold. *)
LEMMA HandAfter ==
  ASSUME TypeInv, NEW s \in Sockets, born' \in Nat, born <= born', Hand(sock'[s], born'),
         \A t \in Sockets : t # s => sock'[t] = sock[t]
  PROVE  InHand'
<1>1. 1 .. born \subseteq 1 .. born'
  BY SlotsAssumption DEF TypeInv, TypeOK, Count
<1>2. \A t \in Sockets : Hand(sock[t], born)
  BY DEF TypeInv, InHand
<1>3. \A t \in Sockets : t # s => Hand(sock'[t], born')
  BY <1>1, <1>2 DEF Hand
<1> QED
  BY <1>3 DEF InHand

(* A step of one socket that leaves the sessions alone ... *)
LEMMA TypeMove ==
  ASSUME TypeInv, NEW s \in Sockets, UNCHANGED <<restarts, map, sess, born, fired, evictor>>,
         last' \in Count, file' \in Count, records' \in [Records -> Opt(Sockets)],
         locked' \in [Sockets -> Opt(Sockets)], sock' \in [Sockets -> SocketType],
         \A t \in Sockets : t # s => sock'[t] = sock[t], Hand(sock'[s], born)
  PROVE  TypeInv'
<1>1. born \in Nat /\ born <= born' /\ born' \in Nat /\ Hand(sock'[s], born')
  BY SlotsAssumption DEF TypeInv, TypeOK, Count
<1>2. InHand'
  BY <1>1, HandAfter
<1>3. Listing'
  BY DEF TypeInv, Listing
<1>4. TypeOK'
  BY DEF TypeInv, TypeOK
<1> QED
  BY <1>2, <1>3, <1>4 DEF TypeInv

(* ... and one that changes its place in a session. *)
LEMMA TypePlace ==
  ASSUME TypeInv, NEW s \in Sockets, UNCHANGED <<restarts, last, file, map, born, records, locked>>,
         NEW b \in 1 .. born, NEW token, NEW named, NEW watchers,
         SessAfter(b, sess[b].id, sess[b].record, token, named, watchers, sess[b].child),
         fired' \in [Sockets -> Opt(Reasons)], evictor' \in [Sockets -> Opt(Sockets)],
         sock' \in [Sockets -> SocketType],
         \A t \in Sockets : t # s => sock'[t] = sock[t], Hand(sock'[s], born)
  PROVE  TypeInv'
<1>1. born \in Nat /\ born <= born' /\ born' \in Nat /\ Hand(sock'[s], born')
  BY SlotsAssumption DEF TypeInv, TypeOK, Count
<1>2. InHand'
  BY <1>1, HandAfter
<1>3. Listing'
<2>1. b \in Births /\ 1 .. born \subseteq Births
  BY SlotsAssumption DEF TypeInv, TypeOK, Births, Count
<2>2. \A c \in Births : sess'[c].id = sess[c].id /\ sess'[c].child = sess[c].child
  BY <2>1 DEF SessAfter
<2> QED
  BY <2>1, <2>2 DEF TypeInv, Listing
<1>4. TypeOK'
  BY DEF TypeInv, TypeOK, SessAfter
<1> QED
  BY <1>2, <1>3, <1>4 DEF TypeInv

(* A claim and a watch change a place. *)
LEMMA TypeClaim ==
  ASSUME TypeInv, NEW s \in Sockets, UNCHANGED <<restarts, last, file, map, born, records, locked>>,
         NEW b \in 1 .. born, NEW named \in BOOLEAN, NEW takeover \in BOOLEAN,
         Claim(s, b, named, takeover), sock' \in [Sockets -> SocketType],
         \A t \in Sockets : t # s => sock'[t] = sock[t], Hand(sock'[s], born)
  PROVE  TypeInv'
<1>1. b \in Births
  BY SlotsAssumption DEF TypeInv, TypeOK, Births, Count
<1>2. /\ SessAfter(b, sess[b].id, sess[b].record, s, named, sess[b].watchers, sess[b].child)
      /\ fired' \in [Sockets -> Opt(Reasons)] /\ evictor' \in [Sockets -> Opt(Sockets)]
  BY <1>1, ClaimAfter DEF TypeInv, TypeOK
<1> QED
  BY <1>2, TypePlace

LEMMA TypeWatch ==
  ASSUME TypeInv, NEW s \in Sockets, UNCHANGED <<restarts, last, file, map, born, records, locked>>,
         NEW b \in 1 .. born, Watch(s, b), sock' \in [Sockets -> SocketType],
         \A t \in Sockets : t # s => sock'[t] = sock[t], Hand(sock'[s], born)
  PROVE  TypeInv'
<1>1. b \in Births
  BY SlotsAssumption DEF TypeInv, TypeOK, Births, Count
<1>2. SessAfter(b, sess[b].id, sess[b].record, sess[b].slot.token, sess[b].slot.named,
                sess[b].watchers \cup {s}, sess[b].child)
  BY <1>1, WatchAfter DEF TypeInv, TypeOK
<1>3. fired' \in [Sockets -> Opt(Reasons)] /\ evictor' \in [Sockets -> Opt(Sockets)]
  BY DEF Watch, ends, TypeInv, TypeOK
<1> QED
  BY <1>2, <1>3, TypePlace

LEMMA TypeReattach ==
  ASSUME TypeInv, NEW s \in Sockets, NEW want \in Births, NEW takeover \in BOOLEAN,
         Reattach(s, want, takeover)
  PROVE  TypeInv'
<1>1. UNCHANGED <<restarts, last, file, map, born, records, locked>> /\ sock[s].at = "idle"
  BY ReattachDoes
<1>2. sock[s].role = "none"
  BY <1>1 DEF TypeInv, InHand, Hand, Attending
<1>3. CASE Refused(s)
<2>1. Hand(sock'[s], born)
  BY <1>2, <1>3 DEF Refused, Hand, SockAfter, Opening
<2> QED
  BY <1>1, <1>3, <2>1, TypeMove DEF Refused, SockAfter, TypeInv, TypeOK
<1>4. ASSUME NEW b \in 1 .. born, Granted(s, want, takeover, b) PROVE TypeInv'
<2>1. Hand(sock'[s], born)
  BY <1>4 DEF Granted, Hand, SockAfter, Opening, Attending
<2> QED
  BY <1>1, <1>4, <2>1, TypeClaim DEF Granted, SockAfter
<1>5. Refused(s) \/ \E b \in 1 .. born : Granted(s, want, takeover, b)
  BY ReattachDoes
<1> QED
  BY <1>3, <1>4, <1>5

LEMMA TypeReattachAsWatcher ==
  ASSUME TypeInv, NEW s \in Sockets, NEW want \in Births, ReattachAsWatcher(s, want)
  PROVE  TypeInv'
<1>1. /\ UNCHANGED <<restarts, last, file, map, born, records, locked, fired, evictor>>
      /\ sock[s].at = "idle"
  BY ReattachAsWatcherDoes
<1>2. sock[s].role = "none"
  BY <1>1 DEF TypeInv, InHand, Hand, Attending
<1>3. CASE /\ SockAfter(s, "over", sock[s].record, sock[s].gate, sock[s].role, sock[s].b,
                        sock[s].id, sock[s].want)
           /\ UNCHANGED sess
<2>1. Hand(sock'[s], born)
  BY <1>2, <1>3 DEF Hand, SockAfter, Opening
<2> QED
  BY <1>1, <1>3, <2>1, TypeMove DEF SockAfter, TypeInv, TypeOK
<1>4. ASSUME NEW b \in 1 .. born, Watch(s, b),
             SockAfter(s, "bridge", sock[s].record, sock[s].gate, "watcher", b, sock[s].id, want)
      PROVE  TypeInv'
<2>1. Hand(sock'[s], born)
  BY <1>4 DEF Hand, SockAfter, Opening, Attending
<2> QED
  BY <1>1, <1>4, <2>1, TypeWatch DEF SockAfter
<1> QED
  BY <1>3, <1>4, ReattachAsWatcherDoes

LEMMA TypeGates ==
  ASSUME TypeInv, NEW s \in Sockets,
         \/ \E r \in Records : Launch(s, r)
         \/ Acquire(s) \/ FindLive(s) \/ Unlock(s) \/ Forget(s)
         \/ SpawnFails(s) \/ Cancel(s) \/ End(s) \/ Leave(s)
  PROVE  TypeInv'
<1>1. sock \in [Sockets -> SocketType] /\ Hand(sock[s], born)
  BY DEF TypeInv, TypeOK, InHand
<1>2. /\ Aside /\ sock' \in [Sockets -> SocketType] /\ Hand(sock'[s], born)
      /\ \A t \in Sockets : t # s => sock'[t] = sock[t]
<2>1. CASE \E r \in Records : Launch(s, r)
  BY <1>1, <2>1, LaunchDoes DEF SockAfter, Hand, Opening, Attending
<2>2. CASE Acquire(s)
  BY <1>1, <2>2, AcquireDoes DEF Moves, SockAfter, Hand, Opening, Attending
<2>3. CASE FindLive(s)
  BY <1>1, <2>3, FindLiveDoes DEF Moves, SockAfter, Hand, Opening, Attending
<2>4. CASE Unlock(s)
  BY <1>1, <2>4, UnlockDoes DEF Moves, SockAfter, Hand, Opening, Attending
<2>5. CASE Forget(s)
  BY <1>1, <2>5, ForgetDoes DEF Moves, SockAfter, Hand, Opening, Attending
<2>6. CASE SpawnFails(s) \/ Cancel(s) \/ End(s) \/ Leave(s)
  BY <1>1, <2>6, MoveDoes DEF Moves, SockAfter, Hand, Opening, Attending
<2> QED
  BY <2>1, <2>2, <2>3, <2>4, <2>5, <2>6
<1>3. records' \in [Records -> Opt(Sockets)] /\ locked' \in [Sockets -> Opt(Sockets)]
<2>1. CASE \E r \in Records : Launch(s, r)
  BY <2>1, LaunchDoes DEF TypeInv, TypeOK, Opt
<2>2. CASE Acquire(s)
  BY <2>2, AcquireDoes DEF TypeInv, TypeOK, Opt
<2>3. CASE FindLive(s)
  BY <2>3, FindLiveDoes DEF TypeInv, TypeOK
<2>4. CASE Unlock(s)
  BY <2>4, UnlockDoes DEF TypeInv, TypeOK, Opt
<2>5. CASE Forget(s)
  BY <2>5, ForgetDoes DEF TypeInv, TypeOK, Opt
<2>6. CASE SpawnFails(s) \/ Cancel(s) \/ End(s) \/ Leave(s)
  BY <2>6, MoveDoes DEF TypeInv, TypeOK
<2> QED
  BY <2>1, <2>2, <2>3, <2>4, <2>5, <2>6
<1> QED
  BY <1>2, <1>3, TypeMove DEF Aside, TypeInv, TypeOK

LEMMA TypeJoins ==
  ASSUME TypeInv, NEW s \in Sockets, Join(s) \/ JoinWatch(s) \/ AttachFresh(s)
  PROVE  TypeInv'
<1>1. sock \in [Sockets -> SocketType] /\ Hand(sock[s], born)
  BY DEF TypeInv, TypeOK, InHand
<1>2. /\ UNCHANGED <<restarts, last, file, map, born, records, locked>>
      /\ sock[s].at \in {"join", "joinwatch", "fresh"}
  BY JoinDoes, JoinWatchDoes, AttachFreshDoes
<1>3. ASSUME NEW step \in {"joinwatch", "unlock", "reserve"}, Moves(s, step),
             step = "joinwatch" => sock[s].at = "join", UNCHANGED <<sess, fired, evictor>>
      PROVE  TypeInv'
<2>1. Hand(sock'[s], born)
  BY <1>1, <1>2, <1>3 DEF Moves, SockAfter, Hand, Opening, Attending
<2> QED
  BY <1>2, <1>3, <2>1, TypeMove DEF Moves, SockAfter, TypeInv, TypeOK
<1>4. ASSUME NEW b \in 1 .. born, NEW step \in {"name", "unlock"},
             NEW role \in {"writer", "watcher"},
             SockAfter(s, step, sock[s].record, sock[s].gate, role, b, sock[s].id, sock[s].want)
      PROVE  Hand(sock'[s], born)
  BY <1>1, <1>2, <1>4 DEF SockAfter, Hand, Opening, Attending
<1>5. ASSUME NEW b \in 1 .. born, NEW step \in {"name", "unlock"}, NEW named \in BOOLEAN,
             NEW takeover \in BOOLEAN, Claim(s, b, named, takeover),
             SockAfter(s, step, sock[s].record, sock[s].gate, "writer", b, sock[s].id, sock[s].want)
      PROVE  TypeInv'
<2>1. Hand(sock'[s], born)
  BY <1>4, <1>5
<2> QED
  BY <1>2, <1>5, <2>1, TypeClaim DEF SockAfter
<1>6. ASSUME NEW b \in 1 .. born, Watch(s, b),
             SockAfter(s, "unlock", sock[s].record, sock[s].gate, "watcher", b, sock[s].id,
                       sock[s].want)
      PROVE  TypeInv'
<2>1. Hand(sock'[s], born)
  BY <1>4, <1>6
<2> QED
  BY <1>2, <1>6, <2>1, TypeWatch DEF SockAfter
<1>7. CASE Join(s)
  BY <1>3, <1>5, <1>7, JoinDoes
<1>8. CASE JoinWatch(s)
  BY <1>3, <1>6, <1>8, JoinWatchDoes
<1>9. CASE AttachFresh(s)
  BY <1>3, <1>5, <1>9, AttachFreshDoes
<1> QED
  BY <1>7, <1>8, <1>9

LEMMA TypeReserve ==
  ASSUME TypeInv, NEW s \in Sockets, Reserve(s)
  PROVE  TypeInv'
<1>1. sock \in [Sockets -> SocketType] /\ Hand(sock[s], born)
  BY DEF TypeInv, TypeOK, InHand
<1>2. Hand(sock'[s], born)
  BY <1>1, ReserveDoes DEF SockAfter, Hand, Opening, Attending
<1>3. last' \in Count /\ file' \in Count
<2>1. last' \in Ids /\ file' \in {last', file}
  BY ReserveDoes
<2> QED
  BY <2>1, SlotsAssumption DEF TypeInv, TypeOK, Ids, Count
<1> QED
  BY <1>2, <1>3, ReserveDoes, TypeMove DEF SockAfter, TypeInv, TypeOK

LEMMA TypeSpawn ==
  ASSUME TypeInv, NEW s \in Sockets, Spawn(s)
  PROVE  TypeInv'
<1>1. sock \in [Sockets -> SocketType] /\ Hand(sock[s], born) /\ sock[s].at = "build"
  BY SpawnDoes DEF TypeInv, TypeOK, InHand
<1>2. sock[s].id \in Ids
  BY <1>1 DEF Hand
<1>12. /\ born' = born + 1 /\ born' \in Births /\ map' = [map EXCEPT ![sock[s].id] = born']
      /\ \A t \in Sockets : t # s => sock'[t] = sock[t]
  BY SpawnDoes DEF SockAfter
<1>3. born \in Nat /\ born' \in Nat /\ born' \in Count /\ born <= born'
  BY <1>12, SlotsAssumption DEF TypeInv, TypeOK, Births, Count
<1>4. Hand(sock'[s], born')
  BY <1>1, SpawnDoes DEF SockAfter, Hand, Opening, Attending
<1>5. InHand'
  BY <1>12, <1>3, <1>4, HandAfter
<1>6. map' \in [Ids -> Count] /\ \A i \in Ids : map'[i] \in 0 .. born'
<2>1. map \in [Ids -> Count] /\ \A i \in Ids : map[i] \in 0 .. born
  BY DEF TypeInv, TypeOK, Listing
<2>2. \A n \in 0 .. born : n \in 0 .. born'
  BY <1>3
<2>3. born' \in 0 .. born'
  BY <1>3
<2> QED
  BY <1>12, <1>2, <1>3, <2>1, <2>2, <2>3
<1>7. \A c \in Births : c # born' => sess'[c] = sess[c]
  BY SpawnDoes DEF SessAfter
<1>8. sess'[born'].id = sock[s].id
  BY SpawnDoes DEF SessAfter
<1>9. 1 .. born' \subseteq Births /\ \A c \in 1 .. born' : c = born' \/ c \in 1 .. born
  BY <1>12, <1>3, SlotsAssumption DEF Births
<1>10. Listing'
<2>1. \A c \in 1 .. born' : sess'[c].id \in Ids
  BY <1>2, <1>7, <1>8, <1>9 DEF TypeInv, Listing
<2>2. \A c \in Births : sess'[c].child # "none" => c <= born'
  BY <1>12, <1>3, <1>7 DEF TypeInv, Listing, Births
<2> QED
  BY <1>6, <2>1, <2>2 DEF Listing
<1>11. TypeOK'
  BY <1>3, <1>6, SpawnDoes DEF SockAfter, SessAfter, TypeInv, TypeOK
<1> QED
  BY <1>5, <1>10, <1>11 DEF TypeInv

LEMMA TypePlaces ==
  ASSUME TypeInv, NEW s \in Sockets, HoldAs(s) \/ Drop(s)
  PROVE  TypeInv'
<1>1. sock \in [Sockets -> SocketType] /\ Hand(sock[s], born)
  BY DEF TypeInv, TypeOK, InHand
<1>2. CASE HoldAs(s)
<2>1. Hand(sock'[s], born)
  BY <1>1, <1>2, HoldAsDoes DEF Moves, SockAfter, Hand, Opening, Attending
<2>2. fired' \in [Sockets -> Opt(Reasons)] /\ evictor' \in [Sockets -> Opt(Sockets)]
  BY <1>2, HoldAsDoes DEF TypeInv, TypeOK
<2> QED
  BY <1>2, <2>1, <2>2, HoldAsDoes, TypePlace DEF Moves, SockAfter
<1>3. CASE Drop(s)
<2>1. Hand(sock'[s], born)
  BY <1>3, DropDoes DEF SockAfter, Hand, Opening
<2>2. fired' \in [Sockets -> Opt(Reasons)] /\ evictor' \in [Sockets -> Opt(Sockets)]
  BY <1>3, DropDoes DEF TypeInv, TypeOK, Opt
<2> QED
  BY <1>3, <2>1, <2>2, DropDoes, TypePlace DEF SockAfter
<1> QED
  BY <1>2, <1>3

LEMMA TypeEnds ==
  ASSUME TypeInv, NEW b \in Births, Close(b) \/ Retire(b)
  PROVE  TypeInv'
<1>1. UNCHANGED <<restarts, last, file, born, records, locked, sock, evictor>>
  BY EndsDoes
<1>2. born \in Nat /\ 1 .. born \subseteq Births /\ b \in 1 .. born /\ 0 .. born \subseteq Count
  BY EndsDoes, SlotsAssumption DEF TypeInv, TypeOK, Births, Count
<1>3. InHand'
  BY <1>1 DEF TypeInv, InHand
<1>4. sess' \in [Births -> SessionType] /\ \A c \in Births : sess'[c].id = sess[c].id
  BY EndsDoes DEF SessAfter
<1>5. \A c \in Births : c # b => sess'[c] = sess[c]
  BY EndsDoes DEF SessAfter
<1>6. Listing'
<2>0. b <= born
  BY <1>2
<2>1. \A c \in Births : sess'[c].child # "none" => c <= born'
  BY <1>1, <2>0, <1>5 DEF TypeInv, Listing
<2> QED
  BY <1>1, <1>2, <1>4, <2>1, EndsDoes DEF TypeInv, Listing
<1>7. map' \in [Ids -> Count]
  BY <1>2, EndsDoes
<1>8. TypeOK'
  BY <1>1, <1>4, <1>7, EndsDoes DEF TypeInv, TypeOK
<1> QED
  BY <1>3, <1>6, <1>8 DEF TypeInv

LEMMA TypeRestart ==
  ASSUME TypeInv, Restart
  PROVE  TypeInv'
<1>1. born' = born /\ map' = [i \in Ids |-> 0] /\ file' = file
      /\ records' = [r \in Records |-> None] /\ locked' = [s \in Sockets |-> None]
      /\ fired' = [s \in Sockets |-> None] /\ evictor' = [s \in Sockets |-> None]
      /\ last' \in {file, 0} /\ restarts < MaxRestarts /\ restarts' = restarts + 1
  BY Zenon DEF Restart
<1>2. InHand'
<2>1. \A s \in Sockets : Hand(sock[s], born) /\ Hand(Over, born)
  BY DEF TypeInv, InHand, Hand, Over, Idle, Opening
<2> QED
  BY <1>1, <2>1, RestartDoes DEF InHand
<1>3. born \in Nat /\ 1 .. born \subseteq Births /\ 0 \in Count /\ 0 \in 0 .. born
  BY SlotsAssumption DEF TypeInv, TypeOK, Births, Count
<1>4. Listing'
  BY <1>1, <1>3, RestartDoes DEF TypeInv, Listing
<1>5. restarts' \in 0 .. MaxRestarts
  BY <1>1, SlotsAssumption DEF TypeInv, TypeOK
<1>6. TypeOK'
  BY <1>1, <1>3, <1>5, RestartDoes DEF TypeInv, TypeOK, Opt
<1> QED
  BY <1>2, <1>4, <1>6 DEF TypeInv

LEMMA TypeStep == TypeInv /\ [Next]_vars => TypeInv'
<1> SUFFICES ASSUME TypeInv, [Next]_vars PROVE TypeInv'
  OBVIOUS
<1>1. CASE Next
  BY <1>1, TypeReattach, TypeReattachAsWatcher, TypeGates, TypeJoins, TypeReserve, TypeSpawn,
     TypePlaces, TypeEnds, TypeRestart DEF Next, Step, Built
<1>2. CASE UNCHANGED vars
  BY <1>2 DEF vars, TypeInv, TypeOK, InHand, Listing
<1> QED
  BY <1>1, <1>2

(* The state always has its shape (TypeOK). *)
THEOREM SlotsTypeCorrect == Spec => []TypeOK
<1>1. TypeInv => TypeOK
  BY DEF TypeInv
<1> QED
  BY <1>1, TypeInit, TypeStep, PTL DEF Spec

-----------------------------------------------------------------------------
(* The steps by what they do to the seats of a session: nothing, a claim   *)
(* or a watch by a socket that had no seat, or an action of its own.       *)

Others(s) == \A t \in Sockets : t # s => sock'[t] = sock[t]
Listens == UNCHANGED <<last, file, map, born>>
SameSeats ==
    \A c \in Births : /\ sess'[c].id = sess[c].id /\ sess'[c].record = sess[c].record
                      /\ sess'[c].slot.token = sess[c].slot.token
                      /\ sess'[c].watchers = sess[c].watchers

Quiet(s) ==
    /\ Listens /\ SameSeats /\ UNCHANGED <<fired, evictor>> /\ Others(s)
    /\ sock'[s].at # "build" /\ sock'[s].role = sock[s].role
    /\ sock[s].role # "none" => sock'[s].b = sock[s].b

Takes(s, b, role) ==
    /\ Listens /\ Others(s) /\ sock[s].role = "none" /\ \E i \in Ids : b = map[i]
    /\ sock'[s].at # "build" /\ sock'[s].role = role /\ sock'[s].b = b

Claims(s, b, named, takeover) ==
    Takes(s, b, "writer") /\ Claim(s, b, named, takeover) /\ Verdict(s, b, takeover) = "ok"

Watches(s, b) == Takes(s, b, "watcher") /\ Watch(s, b)

Shape ==
    \/ \E s \in Sockets : Quiet(s) \/ Reserve(s) \/ Spawn(s) \/ Drop(s)
    \/ \E s \in Sockets, b \in 1 .. born :
          \/ Watches(s, b)
          \/ \E named \in BOOLEAN, takeover \in BOOLEAN : Claims(s, b, named, takeover)
    \/ \E b \in Births : Close(b) \/ Retire(b)
    \/ Restart

LEMMA Unseated ==
  ASSUME TypeInv, NEW s \in Sockets, sock[s].at \notin Attending
  PROVE  sock[s].role = "none"
  BY DEF TypeInv, InHand, Hand

LEMMA QuietGates ==
  ASSUME TypeInv, NEW s \in Sockets,
         \/ \E r \in Records : Launch(s, r)
         \/ Acquire(s) \/ FindLive(s) \/ Unlock(s) \/ Forget(s)
         \/ SpawnFails(s) \/ Cancel(s) \/ End(s) \/ Leave(s)
  PROVE  Quiet(s)
<1>1. /\ Aside /\ Others(s) /\ sock'[s].at # "build" /\ sock'[s].role = sock[s].role
      /\ sock[s].role # "none" => sock'[s].b = sock[s].b
<2>1. CASE \E r \in Records : Launch(s, r)
  BY <2>1, LaunchDoes DEF SockAfter, Others
<2>2. CASE Acquire(s)
  BY <2>2, AcquireDoes DEF Moves, SockAfter, Others
<2>3. CASE FindLive(s)
  BY <2>3, FindLiveDoes DEF Moves, SockAfter, Others
<2>4. CASE Unlock(s)
  BY <2>4, UnlockDoes DEF Moves, SockAfter, Others
<2>5. CASE Forget(s)
  BY <2>5, ForgetDoes DEF Moves, SockAfter, Others
<2>6. CASE SpawnFails(s) \/ Cancel(s) \/ End(s) \/ Leave(s)
  BY <2>6, MoveDoes, Unseated DEF Moves, SockAfter, Others, Attending
<2> QED
  BY <2>1, <2>2, <2>3, <2>4, <2>5, <2>6
<1> QED
  BY <1>1 DEF Quiet, Listens, SameSeats, Aside

LEMMA ReattachShape ==
  ASSUME TypeInv, NEW s \in Sockets, NEW want \in Births, NEW takeover \in BOOLEAN,
         Reattach(s, want, takeover)
  PROVE  Quiet(s) \/ \E b \in 1 .. born : Claims(s, b, TRUE, takeover)
<1>1. Listens /\ sock[s].at = "idle" /\ want \in 1 .. born
  BY ReattachDoes DEF Listens
<1>2. sock[s].role = "none" /\ sess[want].id \in Ids
  BY <1>1, Unseated DEF Attending, TypeInv, Listing
<1>3. CASE Refused(s)
  BY <1>1, <1>3 DEF Refused, Quiet, SameSeats, Others, SockAfter
<1>4. ASSUME NEW b \in 1 .. born, Granted(s, want, takeover, b)
      PROVE  Claims(s, b, TRUE, takeover)
<2>1. Takes(s, b, "writer")
  BY <1>1, <1>2, <1>4 DEF Granted, Takes, Others, SockAfter
<2> QED
  BY <1>4, <2>1 DEF Granted, Claims
<1>5. Refused(s) \/ \E b \in 1 .. born : Granted(s, want, takeover, b)
  BY ReattachDoes
<1> QED
  BY <1>3, <1>4, <1>5

LEMMA ReattachAsWatcherShape ==
  ASSUME TypeInv, NEW s \in Sockets, NEW want \in Births, ReattachAsWatcher(s, want)
  PROVE  Quiet(s) \/ \E b \in 1 .. born : Watches(s, b)
<1>1. Listens /\ UNCHANGED <<fired, evictor>> /\ sock[s].at = "idle" /\ want \in 1 .. born
  BY ReattachAsWatcherDoes DEF Listens
<1>2. sock[s].role = "none" /\ sess[want].id \in Ids
  BY <1>1, Unseated DEF Attending, TypeInv, Listing
<1>3. CASE /\ SockAfter(s, "over", sock[s].record, sock[s].gate, sock[s].role, sock[s].b,
                        sock[s].id, sock[s].want)
           /\ UNCHANGED sess
  BY <1>1, <1>3 DEF Quiet, SameSeats, Others, SockAfter
<1>4. ASSUME NEW b \in 1 .. born, b = map[sess[want].id], Watch(s, b),
             SockAfter(s, "bridge", sock[s].record, sock[s].gate, "watcher", b, sock[s].id, want)
      PROVE  Watches(s, b)
  BY <1>1, <1>2, <1>4 DEF Watches, Takes, Others, SockAfter
<1> QED
  BY <1>3, <1>4, ReattachAsWatcherDoes

LEMMA JoinShape ==
  ASSUME TypeInv, NEW s \in Sockets, Join(s) \/ JoinWatch(s) \/ AttachFresh(s)
  PROVE  \/ Quiet(s)
         \/ \E b \in 1 .. born :
               \/ Watches(s, b)
               \/ \E named \in BOOLEAN, takeover \in BOOLEAN : Claims(s, b, named, takeover)
<1>1. Listens /\ sock[s].at \in {"join", "joinwatch", "fresh"}
  BY JoinDoes, JoinWatchDoes, AttachFreshDoes DEF Listens
<1>2. sock[s].role = "none" /\ sock[s].id \in Ids
  BY <1>1, Unseated DEF Attending, TypeInv, InHand, Hand
<1>3. ASSUME NEW step \in {"joinwatch", "unlock", "reserve"}, Moves(s, step),
             UNCHANGED <<sess, fired, evictor>>
      PROVE  Quiet(s)
  BY <1>1, <1>3 DEF Quiet, SameSeats, Others, Moves, SockAfter
<1>4. ASSUME NEW b \in 1 .. born, NEW step \in {"name", "unlock"},
             NEW role \in {"writer", "watcher"}, b = map[sock[s].id],
             SockAfter(s, step, sock[s].record, sock[s].gate, role, b, sock[s].id, sock[s].want)
      PROVE  Takes(s, b, role)
  BY <1>1, <1>2, <1>4 DEF Takes, Others, SockAfter
<1>5. CASE Join(s)
  BY <1>3, <1>4, <1>5, JoinDoes DEF Claims
<1>6. CASE JoinWatch(s)
  BY <1>3, <1>4, <1>6, JoinWatchDoes DEF Watches
<1>7. CASE AttachFresh(s)
<2>1. ASSUME NEW b \in 1 .. born PROVE Verdict(s, b, TRUE) = "ok"
  BY DEF Verdict
<2> QED
  BY <1>3, <1>4, <1>7, <2>1, AttachFreshDoes DEF Claims
<1> QED
  BY <1>5, <1>6, <1>7

LEMMA HoldAsShape ==
  ASSUME TypeInv, NEW s \in Sockets, HoldAs(s)
  PROVE  Quiet(s)
<1>1. /\ Listens /\ UNCHANGED <<fired, evictor>> /\ Moves(s, "unlock")
  BY HoldAsDoes DEF Listens
<1>2. SameSeats
  BY HoldAsDoes DEF SessAfter, SameSeats
<1> QED
  BY <1>1, <1>2 DEF Quiet, Others, Moves, SockAfter

LEMMA Shapes == TypeInv /\ Next => Shape
<1> SUFFICES ASSUME TypeInv, Next PROVE Shape
  OBVIOUS
<1> QED
  BY QuietGates, ReattachShape, ReattachAsWatcherShape, JoinShape, HoldAsShape
     DEF Next, Step, Built, Shape

-----------------------------------------------------------------------------
(* Of two sockets of a tab the older claim never evicts the newer.         *)

LEMMA LateStep == TypeInv /\ LateSocketLoses /\ [Next]_vars => LateSocketLoses'
<1> SUFFICES ASSUME TypeInv, LateSocketLoses, [Next]_vars PROVE LateSocketLoses'
  OBVIOUS
<1>1. CASE UNCHANGED evictor
  BY <1>1 DEF LateSocketLoses
<1>2. ASSUME NEW s \in Sockets, NEW b \in 1 .. born, NEW named \in BOOLEAN,
             NEW takeover \in BOOLEAN, Claims(s, b, named, takeover), evictor' # evictor
      PROVE  LateSocketLoses'
<2> DEFINE slot == sess[b].slot
           old == slot.token
<2>1. b \in Births
  BY SlotsAssumption DEF TypeInv, TypeOK, Births, Count
<2>2. old \in Opt(Sockets) /\ slot.named \in BOOLEAN
  BY <2>1, SessionFields DEF TypeInv, TypeOK
<2>3. old # None /\ ~takeover /\ evictor' = [evictor EXCEPT ![old] = s]
  BY <1>2 DEF Claims, Claim
<2>4. old \in Sockets
  BY <2>2, <2>3 DEF Opt
<2>5. Own(s, slot) /\ ~Older(s, old)
  BY <1>2, <2>3 DEF Claims, Verdict
<2>6. HolderOf[old] = HolderOf[s]
  BY <2>2, <2>5 DEF Own, HolderIn
<2> HIDE DEF slot, old
<2> QED
  BY <2>3, <2>4, <2>5, <2>6 DEF LateSocketLoses, TypeInv, TypeOK
<1>3. ASSUME NEW s \in Sockets, Drop(s) PROVE LateSocketLoses'
<2>1. evictor' = [evictor EXCEPT ![s] = None]
  BY <1>3, DropDoes
<2> QED
  BY <2>1 DEF LateSocketLoses, TypeInv, TypeOK
<1>4. CASE Restart
  BY <1>4 DEF Restart, LateSocketLoses
<1>5. ASSUME NEW s \in Sockets, Quiet(s) \/ Reserve(s) \/ Spawn(s) PROVE UNCHANGED evictor
  BY <1>5, ReserveDoes, SpawnDoes DEF Quiet
<1>6. ASSUME NEW s \in Sockets, NEW b \in 1 .. born, Watches(s, b) PROVE UNCHANGED evictor
  BY <1>6 DEF Watches, Watch, ends
<1>7. ASSUME NEW b \in Births, Close(b) \/ Retire(b) PROVE UNCHANGED evictor
  BY <1>7, EndsDoes
<1>8. CASE Next
<2>1. Shape
  BY <1>8, Shapes
<2> QED
  BY <2>1, <1>1, <1>2, <1>3, <1>4, <1>5, <1>6, <1>7 DEF Shape
<1>9. CASE UNCHANGED vars
  BY <1>1, <1>9 DEF vars
<1> QED
  BY <1>8, <1>9

(* Without a take-over a socket loses its slot only to a socket of its own *)
(* tab that is not older, in any order of arrival (attach_as).             *)
THEOREM LateSocketAlwaysLoses == Spec => []LateSocketLoses
<1>1. Init => LateSocketLoses
  BY DEF Init, LateSocketLoses
<1> QED
  BY <1>1, TypeInit, TypeStep, LateStep, PTL DEF Spec

-----------------------------------------------------------------------------
(* The ids of one daemon's life: a listed session is listed under its own  *)
(* id, and an id that is issued and not yet spawned is nobody else's.      *)

Issued(s) == sock[s].at = "build"

IdInv ==
    /\ \A i \in Ids : map[i] # 0 => sess[map[i]].id = i /\ i <= last
    /\ \A s \in Sockets : Issued(s) => map[sock[s].id] = 0 /\ sock[s].id <= last
    /\ \A s, t \in Sockets : Issued(s) /\ Issued(t) /\ s # t => sock[s].id # sock[t].id

LEMMA IdKept ==
  ASSUME TypeInv, IdInv, UNCHANGED <<map, last, born>>,
         \A c \in Births : sess'[c].id = sess[c].id,
         \A t \in Sockets : sock'[t].at = "build" => sock'[t] = sock[t]
  PROVE  IdInv'
<1>1. \A i \in Ids : map[i] # 0 => map[i] \in Births
  BY SlotsAssumption DEF TypeInv, TypeOK, Count, Births
<1> QED
  BY <1>1 DEF IdInv, Issued

LEMMA ClaimSeats ==
  ASSUME TypeInv, NEW s \in Sockets, NEW b \in 1 .. born, NEW named \in BOOLEAN,
         NEW takeover \in BOOLEAN, Claim(s, b, named, takeover)
  PROVE  /\ b \in Births
         /\ SessAfter(b, sess[b].id, sess[b].record, s, named, sess[b].watchers, sess[b].child)
<1>1. b \in Births
  BY SlotsAssumption DEF TypeInv, TypeOK, Births, Count
<1> QED
  BY <1>1, ClaimAfter DEF TypeInv, TypeOK

LEMMA WatchSeats ==
  ASSUME TypeInv, NEW s \in Sockets, NEW b \in 1 .. born, Watch(s, b)
  PROVE  /\ b \in Births
         /\ SessAfter(b, sess[b].id, sess[b].record, sess[b].slot.token, sess[b].slot.named,
                      sess[b].watchers \cup {s}, sess[b].child)
<1>1. b \in Births
  BY SlotsAssumption DEF TypeInv, TypeOK, Births, Count
<1> QED
  BY <1>1, WatchAfter DEF TypeInv, TypeOK

LEMMA IdStep == TypeInv /\ IdInv /\ [Next]_vars => IdInv'
<1> SUFFICES ASSUME TypeInv, IdInv, [Next]_vars PROVE IdInv'
  OBVIOUS
<1>0. \A i \in Ids : map[i] # 0 => map[i] \in Births /\ map[i] \in 1 .. born
  BY SlotsAssumption DEF TypeInv, TypeOK, Listing, Count, Births
<1>1. ASSUME NEW s \in Sockets, Quiet(s) PROVE IdInv'
  BY <1>1, IdKept DEF Quiet, Listens, SameSeats, Others
<1>2. ASSUME NEW s \in Sockets, NEW b \in 1 .. born, NEW named \in BOOLEAN,
             NEW takeover \in BOOLEAN, Claims(s, b, named, takeover)
      PROVE  IdInv'
<2>1. \A c \in Births : sess'[c].id = sess[c].id
  BY <1>2, ClaimSeats DEF Claims, SessAfter
<2> QED
  BY <1>2, <2>1, IdKept DEF Claims, Takes, Listens, Others
<1>3. ASSUME NEW s \in Sockets, NEW b \in 1 .. born, Watches(s, b) PROVE IdInv'
<2>1. \A c \in Births : sess'[c].id = sess[c].id
  BY <1>3, WatchSeats DEF Watches, SessAfter
<2> QED
  BY <1>3, <2>1, IdKept DEF Watches, Takes, Listens, Others
<1>4. ASSUME NEW s \in Sockets, Drop(s) PROVE IdInv'
<2>1. \A c \in Births : sess'[c].id = sess[c].id
  BY <1>4, DropDoes DEF SessAfter
<2>2. /\ UNCHANGED <<map, last, born>> /\ sock'[s].at = "over"
      /\ \A t \in Sockets : t # s => sock'[t] = sock[t]
  BY <1>4, DropDoes DEF SockAfter
<2> QED
  BY <2>1, <2>2, IdKept
<1>5. ASSUME NEW s \in Sockets, Reserve(s) PROVE IdInv'
<2>1. /\ UNCHANGED <<map, sess>> /\ last' = last + 1 /\ last' \in Ids
      /\ sock'[s].id = last' /\ sock'[s].at = "build"
      /\ \A t \in Sockets : t # s => sock'[t] = sock[t]
  BY <1>5, ReserveDoes DEF SockAfter
<2>2. last \in Nat /\ \A t \in Sockets : sock[t].id \in Nat
  BY SlotsAssumption, SocketFields DEF TypeInv, TypeOK, Count
<2>3. map[last'] = 0
  BY <2>1, <2>2 DEF IdInv
<2>4. \A i \in Ids : map'[i] # 0 => sess'[map'[i]].id = i /\ i <= last'
  BY <2>1, <2>2 DEF IdInv, Ids
<2>5. \A t \in Sockets : Issued(t) => sock[t].id <= last /\ sock[t].id # last'
  BY <2>1, <2>2 DEF IdInv
<2>6. \A t \in Sockets : Issued(t)' => map'[sock'[t].id] = 0 /\ sock'[t].id <= last'
  BY <2>1, <2>2, <2>3, <2>5 DEF IdInv, Issued
<2>7. \A t, u \in Sockets : Issued(t)' /\ Issued(u)' /\ t # u => sock'[t].id # sock'[u].id
  BY <2>1, <2>5 DEF IdInv, Issued
<2> QED
  BY <2>4, <2>6, <2>7 DEF IdInv, Issued
<1>6. ASSUME NEW s \in Sockets, Spawn(s) PROVE IdInv'
<2>1. /\ Issued(s) /\ sock[s].id \in Ids /\ born' = born + 1 /\ born' \in Births /\ last' = last
      /\ map' = [map EXCEPT ![sock[s].id] = born']
      /\ sess'[born'].id = sock[s].id /\ sock'[s].at = "fresh"
      /\ \A t \in Sockets : t # s => sock'[t] = sock[t]
      /\ \A c \in Births : c # born' => sess'[c] = sess[c]
  BY <1>6, SpawnDoes DEF SockAfter, SessAfter, Issued, TypeInv, InHand, Hand
<2>2. born \in Nat /\ map \in [Ids -> Count]
  BY SlotsAssumption DEF TypeInv, TypeOK, Count
<2>3. \A i \in Ids : map'[i] # 0 => sess'[map'[i]].id = i /\ i <= last'
  <3>1. ASSUME NEW i \in Ids, i # sock[s].id, map[i] # 0 PROVE sess'[map[i]].id = i /\ i <= last
    BY <1>0, <2>1, <2>2, <3>1 DEF IdInv
  <3> QED
    BY <2>1, <2>2, <3>1 DEF IdInv
<2>4. \A t \in Sockets : Issued(t)' => map'[sock'[t].id] = 0 /\ sock'[t].id <= last'
  <3>1. ASSUME NEW t \in Sockets, Issued(t)' PROVE map'[sock'[t].id] = 0 /\ sock'[t].id <= last'
    <4>1. t # s /\ sock'[t] = sock[t] /\ Issued(t) /\ sock[t].id \in Ids
      BY <2>1, <3>1 DEF Issued, TypeInv, InHand, Hand
    <4> QED
      BY <2>1, <2>2, <4>1 DEF IdInv
  <3> QED
    BY <3>1
<2>5. \A t, u \in Sockets : Issued(t)' /\ Issued(u)' /\ t # u => sock'[t].id # sock'[u].id
  BY <2>1 DEF IdInv, Issued
<2> QED
  BY <2>3, <2>4, <2>5 DEF IdInv, Issued
<1>7. ASSUME NEW b \in Births, Close(b) \/ Retire(b) PROVE IdInv'
<2>1. /\ UNCHANGED <<last, sock>>
      /\ \A i \in Ids : map'[i] = 0 \/ map'[i] = map[i]
      /\ \A c \in Births : sess'[c].id = sess[c].id
  BY <1>7, EndsDoes DEF SessAfter
<2>2. \A s \in Sockets : Issued(s) => sock[s].id \in Ids
  BY DEF Issued, TypeInv, InHand, Hand
<2> QED
  BY <1>0, <2>1, <2>2 DEF IdInv, Issued
<1>8. CASE Restart
<2>1. \A s \in Sockets : sock'[s].at # "build"
  BY <1>8, RestartDoes DEF Over, Idle
<2>2. map' = [i \in Ids |-> 0]
  BY <1>8 DEF Restart
<2> QED
  BY <2>1, <2>2 DEF IdInv, Issued
<1>9. CASE Next
<2>1. Shape
  BY <1>9, Shapes
<2> QED
  BY <2>1, <1>1, <1>2, <1>3, <1>4, <1>5, <1>6, <1>7, <1>8 DEF Shape
<1>10. CASE UNCHANGED vars
  BY <1>10 DEF vars, IdInv, Issued
<1> QED
  BY <1>9, <1>10

-----------------------------------------------------------------------------
(* The seats: a session's slot and its watchers are the sockets that have  *)
(* a role there, and a socket whose session left the list has been told.   *)

SeatInv ==
    /\ \A s \in Sockets : sock[s].role = "writer" /\ fired[s] = None =>
           sess[sock[s].b].slot.token = s
    /\ \A s \in Sockets : sock[s].role = "watcher" => s \in sess[sock[s].b].watchers
    /\ \A b \in Births : LET s == sess[b].slot.token IN
           s # None => sock[s].role = "writer" /\ sock[s].b = b
    /\ \A s \in Sockets : sock[s].role # "none" /\ ~Live(sock[s].b) => fired[s] # None

LEMMA SeatsAreHeld == TypeInv /\ SeatInv => SlotIsTheWriter /\ NobodyOrphaned
<1> SUFFICES ASSUME TypeInv, SeatInv PROVE SlotIsTheWriter /\ NobodyOrphaned
  OBVIOUS
<1>1. \A s \in Sockets : sock[s].role # "none" => sock[s].at # "over"
  BY DEF TypeInv, InHand, Hand, Attending
<1>2. \A b \in Births : sess[b].slot.token \in Opt(Sockets)
  BY SessionFields DEF TypeInv, TypeOK
<1>3. SlotIsTheWriter
  BY <1>1, <1>2 DEF SeatInv, SlotIsTheWriter, Holds, Opt
<1>4. NobodyOrphaned
  BY DEF SeatInv, NobodyOrphaned, Holds
<1> QED
  BY <1>3, <1>4

LEMMA SeatQuiet ==
  ASSUME TypeInv, SeatInv, NEW s \in Sockets, Quiet(s)
  PROVE  SeatInv'
<1>1. /\ UNCHANGED <<map, born, fired>> /\ SameSeats
      /\ \A t \in Sockets : /\ sock'[t].role = sock[t].role
                            /\ sock[t].role # "none" => sock'[t].b = sock[t].b
  BY DEF Quiet, Listens, Others
<1>2. \A t \in Sockets : sock[t].role # "none" => sock[t].b \in Births
  BY SlotsAssumption DEF TypeInv, TypeOK, InHand, Hand, Births, Count
<1>3. \A b \in Births : sess[b].slot.token \in Opt(Sockets)
  BY SessionFields DEF TypeInv, TypeOK
<1> QED
  BY <1>1, <1>2, <1>3 DEF SeatInv, SameSeats, Live, Opt

LEMMA SeatClaim ==
  ASSUME TypeInv, IdInv, SeatInv, NEW s \in Sockets, NEW b \in 1 .. born, NEW named \in BOOLEAN,
         NEW takeover \in BOOLEAN, Claims(s, b, named, takeover)
  PROVE  SeatInv'
<1> DEFINE old == sess[b].slot.token
<1>1. /\ UNCHANGED <<map, born>> /\ sock[s].role = "none" /\ sock'[s].role = "writer"
      /\ sock'[s].b = b /\ \A t \in Sockets : t # s => sock'[t] = sock[t]
  BY DEF Claims, Takes, Listens, Others
<1>2. /\ b \in Births /\ \A c \in Births : c # b => sess'[c] = sess[c]
      /\ sess'[b].id = sess[b].id /\ sess'[b].slot.token = s /\ sess'[b].watchers = sess[b].watchers
  BY ClaimSeats DEF Claims, SessAfter
<1>3. \A c \in Births : sess[c].slot.token \in Opt(Sockets)
  BY SessionFields DEF TypeInv, TypeOK
<1>4. \A t \in Sockets : sock[t].role # "none" => sock[t].b \in Births
  BY SlotsAssumption DEF TypeInv, TypeOK, InHand, Hand, Births, Count
<1>5. Live(b)
  BY <1>2, SlotsAssumption DEF Claims, Takes, IdInv, Live
<1>6. \A c \in Births : map'[sess'[c].id] = map[sess[c].id]
  BY <1>1, <1>2
<1>7. \A t \in Sockets : fired'[t] # None <=> (fired[t] # None \/ t = old)
  <2>1. fired' = IF old = None THEN fired ELSE [fired EXCEPT ![old] = "taken-over"]
    BY DEF Claims, Claim
  <2> QED
    BY <2>1, <1>2, <1>3, SlotsAssumption DEF TypeInv, TypeOK, Opt
<1>8. ASSUME NEW t \in Sockets, sock'[t].role = "writer", fired'[t] = None
      PROVE  sess'[sock'[t].b].slot.token = t
<2>1. CASE t = s
  BY <1>1, <1>2, <2>1
<2>2. CASE t # s
<3>1. sock'[t] = sock[t] /\ sock[t].role = "writer" /\ sock[t].b \in Births
  BY <1>1, <1>4, <1>8, <2>2
<3>2. fired[t] = None /\ t # old
  BY <1>7, <1>8
<3>3. sess[sock[t].b].slot.token = t
  BY <3>1, <3>2 DEF SeatInv
<3>4. sock[t].b # b
  BY <3>2, <3>3
<3> QED
  BY <1>2, <3>1, <3>3, <3>4
<2> QED
  BY <2>1, <2>2
<1>9. ASSUME NEW t \in Sockets, sock'[t].role = "watcher"
      PROVE  t \in sess'[sock'[t].b].watchers
<2>1. CASE t = s
  BY <1>1, <1>2, <1>9, <2>1
<2>2. CASE t # s
<3>1. sock'[t] = sock[t] /\ t \in sess[sock[t].b].watchers /\ sock[t].b \in Births
  BY <1>1, <1>4, <1>9, <2>2 DEF SeatInv
<3>2. \A c \in Births : sess[c].watchers \subseteq sess'[c].watchers
  BY <1>2
<3> QED
  BY <3>1, <3>2
<2> QED
  BY <2>1, <2>2
<1>10. ASSUME NEW c \in Births, sess'[c].slot.token # None
       PROVE  LET t == sess'[c].slot.token IN sock'[t].role = "writer" /\ sock'[t].b = c
<2>1. CASE c = b
  BY <1>1, <1>2, <2>1
<2>2. CASE c # b
<3> DEFINE u == sess[c].slot.token
<3>1. sess'[c].slot.token = u /\ u # None
  BY <1>2, <1>10, <2>2
<3>2. u \in Sockets /\ sock[u].role = "writer" /\ sock[u].b = c
  BY <1>3, <3>1 DEF SeatInv, Opt
<3>3. u # s
  BY <1>1, <3>2
<3> QED
  BY <1>1, <3>1, <3>2, <3>3
<2> QED
  BY <2>1, <2>2
<1>11. ASSUME NEW t \in Sockets, sock'[t].role # "none", map'[sess'[sock'[t].b].id] # sock'[t].b
       PROVE  fired'[t] # None
<2>1. t # s
  BY <1>1, <1>2, <1>5, <1>6, <1>11 DEF Live
<2>2. sock'[t] = sock[t] /\ sock[t].role # "none" /\ sock[t].b \in Births
  BY <1>1, <1>4, <1>11, <2>1
<2>3. ~Live(sock[t].b)
  BY <1>6, <1>11, <2>2 DEF Live
<2> QED
  BY <1>7, <2>2, <2>3 DEF SeatInv
<1> QED
  BY <1>8, <1>9, <1>10, <1>11 DEF SeatInv, Live

LEMMA SeatWatch ==
  ASSUME TypeInv, IdInv, SeatInv, NEW s \in Sockets, NEW b \in 1 .. born, Watches(s, b)
  PROVE  SeatInv'
<1>1. /\ UNCHANGED <<map, born, fired>> /\ sock[s].role = "none" /\ sock'[s].role = "watcher"
      /\ sock'[s].b = b /\ \A t \in Sockets : t # s => sock'[t] = sock[t]
  BY DEF Watches, Watch, Takes, Listens, Others, ends
<1>2. /\ b \in Births /\ \A c \in Births : c # b => sess'[c] = sess[c]
      /\ sess'[b].id = sess[b].id /\ sess'[b].slot.token = sess[b].slot.token
      /\ sess'[b].watchers = sess[b].watchers \cup {s}
  BY WatchSeats DEF Watches, SessAfter
<1>3. \A c \in Births : sess[c].slot.token \in Opt(Sockets)
  BY SessionFields DEF TypeInv, TypeOK
<1>4. \A t \in Sockets : sock[t].role # "none" => sock[t].b \in Births
  BY SlotsAssumption DEF TypeInv, TypeOK, InHand, Hand, Births, Count
<1>5. Live(b)
  BY <1>2, SlotsAssumption DEF Watches, Takes, IdInv, Live
<1>6. \A c \in Births : map'[sess'[c].id] = map[sess[c].id]
  BY <1>1, <1>2
<1>7. \A t \in Sockets : sock'[t].role = "writer" /\ fired'[t] = None =>
          sess'[sock'[t].b].slot.token = t
  BY <1>1, <1>2, <1>4 DEF SeatInv
<1>8. ASSUME NEW t \in Sockets, sock'[t].role = "watcher"
      PROVE  t \in sess'[sock'[t].b].watchers
<2>1. CASE t = s
  BY <1>1, <1>2, <1>8, <2>1
<2>2. CASE t # s
<3>1. sock'[t] = sock[t] /\ t \in sess[sock[t].b].watchers /\ sock[t].b \in Births
  BY <1>1, <1>4, <1>8, <2>2 DEF SeatInv
<3>2. \A c \in Births : sess[c].watchers \subseteq sess'[c].watchers
  BY <1>2
<3> QED
  BY <3>1, <3>2
<2> QED
  BY <2>1, <2>2
<1>9. ASSUME NEW c \in Births, sess'[c].slot.token # None
      PROVE  LET t == sess'[c].slot.token IN sock'[t].role = "writer" /\ sock'[t].b = c
  BY <1>1, <1>2, <1>3, <1>9 DEF SeatInv, Opt
<1>10. ASSUME NEW t \in Sockets, sock'[t].role # "none", map'[sess'[sock'[t].b].id] # sock'[t].b
       PROVE  fired'[t] # None
<2>1. t # s
  BY <1>1, <1>2, <1>5, <1>6, <1>10 DEF Live
<2>2. sock'[t] = sock[t] /\ sock[t].role # "none" /\ sock[t].b \in Births
  BY <1>1, <1>4, <1>10, <2>1
<2>3. ~Live(sock[t].b)
  BY <1>6, <1>10, <2>2 DEF Live
<2> QED
  BY <1>1, <2>2, <2>3 DEF SeatInv
<1> QED
  BY <1>7, <1>8, <1>9, <1>10 DEF SeatInv, Live

LEMMA SeatSpawn ==
  ASSUME TypeInv, IdInv, SeatInv, NEW s \in Sockets, Spawn(s)
  PROVE  SeatInv'
<1>1. /\ sock[s].at = "build" /\ born' = born + 1 /\ born' \in Births /\ UNCHANGED fired
      /\ map' = [map EXCEPT ![sock[s].id] = born']
      /\ sess'[born'].slot.token = None
      /\ sock'[s].role = "none" /\ \A t \in Sockets : t # s => sock'[t] = sock[t]
      /\ \A c \in Births : c # born' => sess'[c] = sess[c]
  BY SpawnDoes DEF SockAfter, SessAfter
<1>2. map[sock[s].id] = 0 /\ sock[s].id \in Ids /\ sock[s].role = "none"
  BY <1>1, Unseated DEF IdInv, Issued, TypeInv, InHand, Hand, Attending
<1>3. born \in Nat /\ 1 .. born \subseteq Births /\ born' \notin 1 .. born
  BY <1>1, SlotsAssumption DEF TypeInv, TypeOK, Births, Count
<1>4. \A t \in Sockets : sock'[t].role # "none" =>
          t # s /\ sock'[t] = sock[t] /\ sock[t].role # "none" /\ sock[t].b \in 1 .. born
  BY <1>1 DEF TypeInv, InHand, Hand
<1>5. \A c \in 1 .. born : sess'[c] = sess[c]
  BY <1>1, <1>3
<1>6. \A c \in 1 .. born : Live(c) => map'[sess[c].id] = c
  BY <1>1, <1>2, <1>3 DEF Live, TypeInv, TypeOK, Listing
<1>7. \A c \in Births : sess[c].slot.token \in Opt(Sockets)
  BY SessionFields DEF TypeInv, TypeOK
<1>8. ASSUME NEW c \in Births, sess'[c].slot.token # None
      PROVE  LET t == sess'[c].slot.token IN sock'[t].role = "writer" /\ sock'[t].b = c
<2>1. c # born' /\ sess'[c] = sess[c]
  BY <1>1, <1>8
<2> QED
  BY <1>1, <1>2, <1>7, <1>8, <2>1 DEF SeatInv, Opt
<1>9. \A t \in Sockets : sock'[t].role = "writer" /\ fired'[t] = None =>
          sess'[sock'[t].b].slot.token = t
  BY <1>1, <1>4, <1>5 DEF SeatInv
<1>10. \A t \in Sockets : sock'[t].role = "watcher" => t \in sess'[sock'[t].b].watchers
  BY <1>4, <1>5 DEF SeatInv
<1>11. \A t \in Sockets : sock'[t].role # "none" /\ map'[sess'[sock'[t].b].id] # sock'[t].b =>
          fired'[t] # None
  BY <1>1, <1>4, <1>5, <1>6 DEF SeatInv
<1> QED
  BY <1>8, <1>9, <1>10, <1>11 DEF SeatInv, Live

LEMMA SeatEnds ==
  ASSUME TypeInv, SeatInv, NEW b \in Births, Close(b) \/ Retire(b)
  PROVE  SeatInv'
<1>1. /\ UNCHANGED <<born, sock>> /\ sess'[b].id = sess[b].id
      /\ \A c \in Births : c # b => sess'[c] = sess[c]
      /\ sess'[b].slot.token = sess[b].slot.token /\ sess'[b].watchers = sess[b].watchers
      /\ \A t \in Sockets : fired'[t] = IF t \in Registered(b) THEN "child-exited" ELSE fired[t]
      /\ \A i \in Ids : map'[i] = IF i = sess[b].id /\ map[i] = b THEN 0 ELSE map[i]
  BY EndsDoes DEF SessAfter
<1>2. \A t \in Sockets : sock[t].role # "none" => sock[t].b \in Births /\ sess[sock[t].b].id \in Ids
  BY SlotsAssumption DEF TypeInv, TypeOK, InHand, Hand, Listing, Births, Count
<1>3. \A t \in Sockets : fired[t] # None => fired'[t] # None
  BY <1>1, SlotsAssumption
<1>4. \A c \in Births : sess'[c].slot.token = sess[c].slot.token
                        /\ sess'[c].watchers = sess[c].watchers /\ sess'[c].id = sess[c].id
  BY <1>1
<1>5. ASSUME NEW t \in Sockets, sock[t].role # "none", map'[sess[sock[t].b].id] # sock[t].b
      PROVE  fired'[t] # None
<2>1. CASE fired[t] # None
  BY <1>3, <2>1
<2>2. CASE fired[t] = None /\ sock[t].b = b
<3>1. t \in Registered(b)
  BY <1>5, <2>2, SlotsAssumption, SocketFields DEF SeatInv, Registered, TypeInv, TypeOK
<3> QED
  BY <1>1, <3>1, SlotsAssumption
<2>3. CASE fired[t] = None /\ sock[t].b # b
<3>1. Live(sock[t].b)
  BY <1>5, <2>3 DEF SeatInv
<3>2. map'[sess[sock[t].b].id] = sock[t].b
  BY <1>1, <1>2, <1>5, <2>3, <3>1 DEF Live
<3> QED
  BY <1>5, <3>2
<2> QED
  BY <2>1, <2>2, <2>3
<1> QED
  BY <1>1, <1>2, <1>3, <1>4, <1>5 DEF SeatInv, Live

LEMMA SeatDrop ==
  ASSUME TypeInv, SeatInv, NEW s \in Sockets, Drop(s)
  PROVE  SeatInv'
<1>1. /\ UNCHANGED <<map, born>> /\ sock[s].at = "drop" /\ sock'[s].role = "none"
      /\ \A t \in Sockets : t # s => sock'[t] = sock[t]
      /\ fired' = [fired EXCEPT ![s] = None]
  BY DropDoes DEF SockAfter
<1>2. PICK b \in 1 .. born :
        /\ b = sock[s].b
        /\ sess'[b].slot.token = IF sock[s].role = "writer" /\ sess[b].slot.token = s
                                 THEN None ELSE sess[b].slot.token
        /\ sess[b].watchers \ {s} \subseteq sess'[b].watchers
        /\ sess'[b].id = sess[b].id
        /\ \A c \in Births : c # b => sess'[c] = sess[c]
<2>1. PICK b \in 1 .. born, token \in Opt(Sockets), named \in BOOLEAN,
           watchers \in SUBSET Sockets :
        /\ b = sock[s].b
        /\ token = IF sock[s].role = "writer" /\ sess[b].slot.token = s
                   THEN None ELSE sess[b].slot.token
        /\ watchers = IF sock[s].role = "watcher" THEN sess[b].watchers \ {s}
                      ELSE sess[b].watchers
        /\ SessAfter(b, sess[b].id, sess[b].record, token, named, watchers, sess[b].child)
  BY DropDoes
<2>2. sess[b].watchers \ {s} \subseteq watchers
  BY <2>1
<2> QED
  BY <2>1, <2>2 DEF SessAfter
<1>3. \A c \in Births : sess[c].slot.token \in Opt(Sockets)
  BY SessionFields DEF TypeInv, TypeOK
<1>4. \A t \in Sockets : sock'[t].role # "none" =>
          /\ t # s /\ sock'[t] = sock[t] /\ sock[t].role # "none" /\ sock[t].b \in Births
          /\ fired'[t] = fired[t]
  BY <1>1, SlotsAssumption DEF TypeInv, TypeOK, InHand, Hand, Births, Count
<1>5. ASSUME NEW t \in Sockets, sock'[t].role = "writer", fired'[t] = None
      PROVE  sess'[sock'[t].b].slot.token = t
<2>1. /\ t # s /\ sock'[t] = sock[t] /\ sock[t].role = "writer" /\ sock[t].b \in Births
      /\ fired[t] = None
  BY <1>4, <1>5
<2>2. sess[sock[t].b].slot.token = t
  BY <2>1 DEF SeatInv
<2>3. CASE sock[t].b = b
  BY <1>2, <2>1, <2>2, <2>3
<2>4. CASE sock[t].b # b
  BY <1>2, <2>1, <2>2, <2>4
<2> QED
  BY <2>3, <2>4
<1>6. ASSUME NEW t \in Sockets, sock'[t].role = "watcher"
      PROVE  t \in sess'[sock'[t].b].watchers
<2>1. t # s /\ sock'[t] = sock[t] /\ sock[t].role = "watcher" /\ sock[t].b \in Births
  BY <1>4, <1>6
<2>2. t \in sess[sock[t].b].watchers
  BY <2>1 DEF SeatInv
<2>3. CASE sock[t].b = b
  BY <1>2, <2>1, <2>2, <2>3
<2>4. CASE sock[t].b # b
  BY <1>2, <2>1, <2>2, <2>4
<2> QED
  BY <2>3, <2>4
<1>7. ASSUME NEW c \in Births, sess'[c].slot.token # None
      PROVE  LET t == sess'[c].slot.token IN sock'[t].role = "writer" /\ sock'[t].b = c
<2> DEFINE u == sess[c].slot.token
<2>1. sess'[c].slot.token = u
  BY <1>2, <1>7
<2>2. u \in Sockets /\ sock[u].role = "writer" /\ sock[u].b = c
  BY <1>3, <1>7, <2>1 DEF SeatInv, Opt
<2>3. u # s
  BY <1>2, <1>7, <2>1, <2>2
<2> QED
  BY <1>1, <2>1, <2>2, <2>3
<1>8. \A c \in Births : map'[sess'[c].id] = map[sess[c].id]
  BY <1>1, <1>2
<1>9. \A t \in Sockets : sock'[t].role # "none" /\ map'[sess'[sock'[t].b].id] # sock'[t].b =>
          fired'[t] # None
  BY <1>4, <1>8 DEF SeatInv, Live
<1> QED
  BY <1>5, <1>6, <1>7, <1>9 DEF SeatInv, Live

LEMMA SeatRestart ==
  ASSUME TypeInv, Restart
  PROVE  SeatInv'
<1>1. \A s \in Sockets : sock'[s].role = "none"
  BY RestartDoes, Unseated DEF Over, Idle, Attending
<1>2. \A b \in Births : sess'[b].slot.token = None
  BY RestartDoes
<1> QED
  BY <1>1, <1>2 DEF SeatInv

LEMMA SeatReserve ==
  ASSUME TypeInv, SeatInv, NEW s \in Sockets, Reserve(s)
  PROVE  SeatInv'
<1>1. /\ UNCHANGED <<map, sess, fired>>
      /\ \A t \in Sockets : sock'[t].role = sock[t].role /\ sock'[t].b = sock[t].b
  BY ReserveDoes DEF SockAfter
<1>2. \A b \in Births : sess[b].slot.token \in Opt(Sockets)
  BY SessionFields DEF TypeInv, TypeOK
<1> QED
  BY <1>1, <1>2 DEF SeatInv, Live, Opt

LEMMA SeatStep == TypeInv /\ IdInv /\ SeatInv /\ [Next]_vars => SeatInv'
<1> SUFFICES ASSUME TypeInv, IdInv, SeatInv, [Next]_vars PROVE SeatInv'
  OBVIOUS
<1>1. CASE Next
<2>1. Shape
  BY <1>1, Shapes
<2> QED
  BY <2>1, SeatQuiet, SeatReserve, SeatSpawn, SeatDrop, SeatWatch, SeatClaim, SeatEnds,
     SeatRestart DEF Shape
<1>2. CASE UNCHANGED vars
  BY <1>2 DEF vars, SeatInv, Live
<1> QED
  BY <1>1, <1>2

LEMMA SeatInit == Init => IdInv /\ SeatInv
<1> SUFFICES ASSUME Init PROVE IdInv /\ SeatInv
  OBVIOUS
<1>1. \A i \in Ids : map[i] = 0
  BY DEF Init
<1>2. \A s \in Sockets : sock[s].at = "idle" /\ sock[s].role = "none"
  BY DEF Init, Idle
<1>3. \A b \in Births : sess[b].slot.token = None
  BY DEF Init, Unborn, NoWriter
<1> QED
  BY <1>1, <1>2, <1>3 DEF IdInv, Issued, SeatInv

LEMMA SeatsAlways == Spec => [](TypeInv /\ IdInv /\ SeatInv)
  BY TypeInit, SeatInit, TypeStep, IdStep, SeatStep, PTL DEF Spec

(* A writer that was not told to stop is the one the slot names, and a     *)
(* taken slot has an owner that will release it.                           *)
THEOREM SlotIsAlwaysTheWriters == Spec => []SlotIsTheWriter
  BY SeatsAlways, SeatsAreHeld, PTL

(* Everybody attached to a session that left the list has been told, in    *)
(* whatever order the attach and the end of the session came.              *)
THEOREM NobodyIsEverOrphaned == Spec => []NobodyOrphaned
  BY SeatsAlways, SeatsAreHeld, PTL

-----------------------------------------------------------------------------
(* The gates: the launches of a record in their critical section share the *)
(* gate the table names, and its lock lets one of them in.                 *)

Critical == {"find", "join", "joinwatch", "reserve", "build", "fresh", "name", "unlock"}

GateInv ==
    /\ \A s \in Sockets : sock[s].at \in Opening => records[sock[s].record] = sock[s].gate
    /\ \A s \in Sockets : sock[s].at \in Critical => locked[sock[s].gate] = s

(* Of the launches of one record, one is in its critical section. *)
LEMMA OneInside ==
  ASSUME GateInv, NEW s \in Sockets, NEW t \in Sockets, sock[s].at \in Critical,
         sock[t].at \in Critical, sock[s].record = sock[t].record
  PROVE  s = t
<1>1. sock[s].at \in Opening /\ sock[t].at \in Opening
  BY DEF Critical, Opening
<1>2. sock[s].gate = sock[t].gate
  BY <1>1 DEF GateInv
<1> QED
  BY <1>2 DEF GateInv

LEMMA ReattachMoves ==
  ASSUME TypeInv, NEW s \in Sockets, NEW want \in Births, NEW takeover \in BOOLEAN,
         Reattach(s, want, takeover)
  PROVE  UNCHANGED <<records, locked>> /\ Others(s) /\ sock'[s].at \in {"over", "bridge"}
<1>1. UNCHANGED <<records, locked>>
  BY ReattachDoes
<1>2. CASE Refused(s)
  BY <1>1, <1>2 DEF Refused, Others, SockAfter
<1>3. ASSUME NEW b \in 1 .. born, Granted(s, want, takeover, b)
      PROVE  Others(s) /\ sock'[s].at \in {"over", "bridge"}
  BY <1>3 DEF Granted, Others, SockAfter
<1>4. Refused(s) \/ \E b \in 1 .. born : Granted(s, want, takeover, b)
  BY ReattachDoes
<1> QED
  BY <1>1, <1>2, <1>3, <1>4

(* A socket that goes on inside, or stays outside. *)
GoesOn(s) ==
    /\ UNCHANGED <<records, locked>> /\ Others(s)
    /\ sock'[s].at \in Opening => /\ sock[s].at \in Opening
                                  /\ sock'[s].record = sock[s].record
                                  /\ sock'[s].gate = sock[s].gate
    /\ sock'[s].at \in Critical => sock[s].at \in Critical

LEMMA GateGoesOn ==
  ASSUME GateInv, NEW s \in Sockets, GoesOn(s)
  PROVE  GateInv'
<1>1. \A t \in Sockets : sock'[t].at \in Opening => sock[t].at \in Opening
          /\ sock'[t].record = sock[t].record /\ sock'[t].gate = sock[t].gate
  BY DEF GoesOn, Others
<1>2. \A t \in Sockets : sock'[t].at \in Critical => sock[t].at \in Critical
          /\ sock'[t].at \in Opening
  BY DEF GoesOn, Others, Critical, Opening
<1> QED
  BY <1>1, <1>2 DEF GateInv, GoesOn

LEMMA GoOn ==
  ASSUME TypeInv, NEW s \in Sockets,
         \/ \E want \in Births : ReattachAsWatcher(s, want)
         \/ \E want \in Births, takeover \in BOOLEAN : Reattach(s, want, takeover)
         \/ FindLive(s) \/ Join(s) \/ JoinWatch(s) \/ Reserve(s) \/ Spawn(s) \/ AttachFresh(s)
         \/ HoldAs(s) \/ Drop(s) \/ SpawnFails(s) \/ Cancel(s) \/ End(s) \/ Leave(s)
  PROVE  GoesOn(s)
<1> USE DEF GoesOn, Others, Moves, SockAfter, Opening, Critical
<1>1. CASE \E want \in Births : ReattachAsWatcher(s, want)
  BY <1>1, ReattachAsWatcherDoes
<1>2. ASSUME NEW want \in Births, NEW takeover \in BOOLEAN, Reattach(s, want, takeover)
      PROVE  GoesOn(s)
<2>1. UNCHANGED <<records, locked>> /\ Others(s) /\ sock'[s].at \in {"over", "bridge"}
  BY <1>2, ReattachMoves
<2> QED
  BY <2>1
<1>3. CASE FindLive(s)
  BY <1>3, FindLiveDoes
<1>4. CASE Join(s)
  BY <1>4, JoinDoes
<1>5. CASE JoinWatch(s)
  BY <1>5, JoinWatchDoes
<1>6. CASE Reserve(s)
  BY <1>6, ReserveDoes
<1>7. CASE Spawn(s)
  BY <1>7, SpawnDoes
<1>8. CASE AttachFresh(s)
  BY <1>8, AttachFreshDoes
<1>9. CASE HoldAs(s)
  BY <1>9, HoldAsDoes
<1>10. CASE Drop(s)
  BY <1>10, DropDoes
<1>11. CASE SpawnFails(s) \/ Cancel(s) \/ End(s) \/ Leave(s)
  BY <1>11, MoveDoes
<1> QED
  BY <1>1, <1>2, <1>3, <1>4, <1>5, <1>6, <1>7, <1>8, <1>9, <1>10, <1>11

LEMMA GateLaunch ==
  ASSUME TypeInv, GateInv, NEW s \in Sockets, NEW r \in Records, Launch(s, r)
  PROVE  GateInv'
<1>1. /\ records' = [records EXCEPT ![r] = IF records[r] = None THEN s ELSE records[r]]
      /\ UNCHANGED locked /\ sock'[s].at = "wait" /\ sock'[s].record = r
      /\ sock'[s].gate = IF records[r] = None THEN s ELSE records[r]
      /\ \A t \in Sockets : t # s => sock'[t] = sock[t]
  BY LaunchDoes DEF SockAfter
<1>2. \A t \in Sockets : sock[t].at \in Opening =>
          /\ sock[t].record \in Records /\ sock[t].gate \in Sockets
          /\ records[sock[t].record] # None /\ records[sock[t].record] = sock[t].gate
  BY SlotsAssumption DEF GateInv, TypeInv, InHand, Hand
<1>3. records \in [Records -> Opt(Sockets)]
  BY DEF TypeInv, TypeOK
<1>4. \A t \in Sockets : sock'[t].at \in Opening => records'[sock'[t].record] = sock'[t].gate
  BY <1>1, <1>2, <1>3
<1>5. \A t \in Sockets : sock'[t].at \in Critical => locked'[sock'[t].gate] = t
  BY <1>1 DEF GateInv, Critical
<1> QED
  BY <1>4, <1>5 DEF GateInv

LEMMA GateLocks ==
  ASSUME TypeInv, GateInv, NEW s \in Sockets, Acquire(s) \/ Unlock(s)
  PROVE  GateInv'
<1>1. /\ UNCHANGED records /\ sock'[s].record = sock[s].record /\ sock'[s].gate = sock[s].gate
      /\ sock[s].at \in Opening /\ \A t \in Sockets : t # s => sock'[t] = sock[t]
  BY AcquireDoes, UnlockDoes DEF Moves, SockAfter, Opening
<1>2. /\ sock[s].gate \in Sockets /\ locked \in [Sockets -> Opt(Sockets)]
      /\ \A t \in Sockets : sock[t].at \in Critical => sock[t].gate \in Sockets
  BY <1>1 DEF TypeInv, TypeOK, InHand, Hand, Critical, Opening
<1>3. \A t \in Sockets : sock'[t].at \in Opening => records'[sock'[t].record] = sock'[t].gate
  BY <1>1 DEF GateInv
<1>4. CASE Acquire(s)
<2>1. locked[sock[s].gate] = None /\ locked' = [locked EXCEPT ![sock[s].gate] = s]
  BY <1>4, AcquireDoes
<2>2. \A t \in Sockets : sock[t].at \in Critical => sock[t].gate # sock[s].gate
  BY <2>1, SlotsAssumption DEF GateInv
<2>3. \A t \in Sockets : sock'[t].at \in Critical => locked'[sock'[t].gate] = t
  BY <1>1, <1>2, <2>1, <2>2 DEF GateInv
<2> QED
  BY <1>3, <2>3 DEF GateInv
<1>5. CASE Unlock(s)
<2>1. /\ sock[s].at \in Critical /\ sock'[s].at \notin Critical
      /\ locked' = [locked EXCEPT ![sock[s].gate] = None]
  BY <1>5, UnlockDoes DEF Moves, SockAfter, Critical
<2>2. \A t \in Sockets : sock[t].at \in Critical /\ t # s => sock[t].gate # sock[s].gate
  BY <2>1 DEF GateInv
<2>3. \A t \in Sockets : sock'[t].at \in Critical => locked'[sock'[t].gate] = t
  BY <1>1, <1>2, <2>1, <2>2 DEF GateInv
<2> QED
  BY <1>3, <2>3 DEF GateInv
<1> QED
  BY <1>4, <1>5

LEMMA GateForget ==
  ASSUME TypeInv, GateInv, NEW s \in Sockets, Forget(s)
  PROVE  GateInv'
<1>1. /\ UNCHANGED locked /\ sock'[s].at \notin Opening /\ sock'[s].at \notin Critical
      /\ sock[s].at \in Opening /\ \A t \in Sockets : t # s => sock'[t] = sock[t]
      /\ records' = IF References(sock[s].gate) = {s}
                    THEN [records EXCEPT ![sock[s].record] = None] ELSE records
  BY ForgetDoes DEF SockAfter, Opening, Critical
<1>2. records[sock[s].record] = sock[s].gate /\ sock[s].record \in Records
  BY <1>1 DEF GateInv, TypeInv, InHand, Hand
<1>3. records \in [Records -> Opt(Sockets)]
  BY DEF TypeInv, TypeOK
<1>4. ASSUME NEW t \in Sockets, sock'[t].at \in Opening
      PROVE  records'[sock'[t].record] = sock'[t].gate
<2>1. t # s /\ sock'[t] = sock[t] /\ records[sock[t].record] = sock[t].gate
      /\ sock[t].record \in Records
  BY <1>1, <1>4 DEF GateInv, TypeInv, InHand, Hand
<2>2. CASE References(sock[s].gate) = {s}
<3>1. t \notin References(sock[s].gate)
  BY <2>1, <2>2
<3>2. sock[t].record # sock[s].record
  BY <1>2, <2>1, <3>1 DEF References
<3> QED
  BY <1>1, <1>3, <2>1, <2>2, <3>2
<2>3. CASE References(sock[s].gate) # {s}
  BY <1>1, <2>1, <2>3
<2> QED
  BY <2>2, <2>3
<1>5. \A t \in Sockets : sock'[t].at \in Critical => locked'[sock'[t].gate] = t
  BY <1>1 DEF GateInv
<1> QED
  BY <1>4, <1>5 DEF GateInv

LEMMA GateRestart ==
  ASSUME TypeInv, Restart
  PROVE  GateInv'
<1>1. \A s \in Sockets : sock'[s].at \in {"idle", "over"}
  BY RestartDoes DEF Over, Idle
<1> QED
  BY <1>1 DEF GateInv, Opening, Critical

LEMMA GateStep == TypeInv /\ GateInv /\ [Next]_vars => GateInv'
<1> SUFFICES ASSUME TypeInv, GateInv, [Next]_vars PROVE GateInv'
  OBVIOUS
<1>1. ASSUME NEW b \in Births, Close(b) \/ Retire(b) PROVE GateInv'
<2>1. UNCHANGED <<sock, records, locked>>
  BY <1>1, EndsDoes
<2> QED
  BY <2>1 DEF GateInv
<1>2. CASE Next
  BY <1>1, <1>2, GoOn, GateGoesOn, GateLaunch, GateLocks, GateForget, GateRestart
     DEF Next, Step, Built
<1>3. CASE UNCHANGED vars
  BY <1>3 DEF vars, GateInv
<1> QED
  BY <1>2, <1>3

-----------------------------------------------------------------------------
(* One session per record: while a launch decides, nobody else spawns for  *)
(* its record, so what it found is still what there is.                    *)

Deciding == {"join", "joinwatch", "reserve", "build"}

Alone(s) ==
    \A i \in Ids : map[i] # 0 /\ sess[map[i]].record = sock[s].record =>
        sock[s].at \in {"join", "joinwatch"} /\ i = sock[s].id

OneInv ==
    /\ OneSessionPerRecord
    /\ \A s \in Sockets : sock[s].at \in Deciding => Alone(s)

(* The steps by what they do to the records of the listed sessions. *)
LEMMA RecordsKept ==
  ASSUME TypeInv, Next
  PROVE  \/ Restart \/ \E s \in Sockets : Spawn(s)
         \/ /\ \A c \in Births : sess'[c].record = sess[c].record
            /\ \A i \in Ids : map'[i] = 0 \/ map'[i] = map[i]
<1>1. Shape
  BY Shapes
<1>2. ASSUME NEW s \in Sockets, Quiet(s) \/ Reserve(s) \/ Drop(s)
      PROVE  UNCHANGED map /\ \A c \in Births : sess'[c].record = sess[c].record
<2>1. CASE Quiet(s)
  BY <2>1 DEF Quiet, Listens, SameSeats
<2>2. CASE Reserve(s)
  BY <2>2, ReserveDoes
<2>3. CASE Drop(s)
  BY <2>3, DropDoes DEF SessAfter
<2> QED
  BY <1>2, <2>1, <2>2, <2>3
<1>3. ASSUME NEW s \in Sockets, NEW b \in 1 .. born, Watches(s, b)
      PROVE  UNCHANGED map /\ \A c \in Births : sess'[c].record = sess[c].record
  BY <1>3, WatchSeats DEF Watches, Takes, Listens, SessAfter
<1>4. ASSUME NEW s \in Sockets, NEW b \in 1 .. born, NEW named \in BOOLEAN,
             NEW takeover \in BOOLEAN, Claims(s, b, named, takeover)
      PROVE  UNCHANGED map /\ \A c \in Births : sess'[c].record = sess[c].record
  BY <1>4, ClaimSeats DEF Claims, Takes, Listens, SessAfter
<1>5. ASSUME NEW b \in Births, Close(b) \/ Retire(b)
      PROVE  /\ \A c \in Births : sess'[c].record = sess[c].record
             /\ \A i \in Ids : map'[i] = 0 \/ map'[i] = map[i]
  BY <1>5, EndsDoes DEF SessAfter
<1> QED
  BY <1>1, <1>2, <1>3, <1>4, <1>5 DEF Shape

(* A launch that decides has just looked, or decided before. *)
LEMMA Decides ==
  ASSUME TypeInv, OneInv, Next, NEW t \in Sockets, sock'[t].at \in Deciding, ~Restart
  PROVE  \/ sock'[t] = sock[t]
         \/ /\ UNCHANGED <<map, sess>> /\ Alone(t)'
<1>1. ASSUME NEW s \in Sockets, Others(s), sock'[s].at \notin Deciding PROVE sock'[t] = sock[t]
  BY <1>1 DEF Others
<1>2. ASSUME NEW s \in Sockets, ~(FindLive(s) \/ Join(s) \/ JoinWatch(s) \/ Reserve(s)),
             \/ Step(s) \/ Built(s) \/ Cancel(s) \/ Leave(s)
             \/ \E want \in Births : ReattachAsWatcher(s, want)
             \/ \E want \in Births, takeover \in BOOLEAN : Reattach(s, want, takeover)
             \/ \E r \in Records : Launch(s, r)
      PROVE  sock'[t] = sock[t]
<2> USE DEF Others, Moves, SockAfter, Deciding
<2>1. CASE \E want \in Births : ReattachAsWatcher(s, want)
  BY <1>1, <2>1, ReattachAsWatcherDoes
<2>2. ASSUME NEW want \in Births, NEW takeover \in BOOLEAN, Reattach(s, want, takeover)
      PROVE  sock'[t] = sock[t]
  <3>1. Others(s) /\ sock'[s].at \in {"over", "bridge"}
    BY <2>2, ReattachMoves
  <3> QED
    BY <1>1, <3>1
<2>3. CASE \E r \in Records : Launch(s, r)
  BY <1>1, <2>3, LaunchDoes
<2>4. CASE Acquire(s)
  BY <1>1, <2>4, AcquireDoes
<2>5. CASE Spawn(s)
  BY <1>1, <2>5, SpawnDoes
<2>6. CASE AttachFresh(s)
  BY <1>1, <2>6, AttachFreshDoes
<2>7. CASE HoldAs(s)
  BY <1>1, <2>7, HoldAsDoes
<2>8. CASE Unlock(s)
  BY <1>1, <2>8, UnlockDoes
<2>9. CASE Forget(s)
  BY <1>1, <2>9, ForgetDoes
<2>10. CASE Drop(s)
  BY <1>1, <2>10, DropDoes
<2>11. CASE SpawnFails(s) \/ Cancel(s) \/ End(s) \/ Leave(s)
  BY <1>1, <2>11, MoveDoes
<2> QED
  BY <1>2, <2>1, <2>2, <2>3, <2>4, <2>5, <2>6, <2>7, <2>8, <2>9, <2>10, <2>11 DEF Step, Built
<1>3. ASSUME NEW s \in Sockets, FindLive(s) \/ Join(s) \/ JoinWatch(s) \/ Reserve(s)
      PROVE  sock'[t] = sock[t] \/ (UNCHANGED <<map, sess>> /\ Alone(t)')
<2>0. CASE t # s
<3>1. Others(s)
  BY <1>3, FindLiveDoes, JoinDoes, JoinWatchDoes, ReserveDoes DEF Others, Moves, SockAfter
<3> QED
  BY <2>0, <3>1 DEF Others
<2> USE DEF Moves, SockAfter, Deciding
<2>1. CASE t = s /\ FindLive(s)
<3>1. /\ UNCHANGED <<map, sess>> /\ sock'[s].record = sock[s].record
      /\ \/ \E i \in Ids : /\ map[i] # 0 /\ sess[map[i]].record = sock[s].record
                           /\ sock'[s].at = "join" /\ sock'[s].id = i
         \/ \A i \in Ids : map[i] # 0 => sess[map[i]].record # sock[s].record
  BY <2>1, FindLiveDoes DEF Aside
<3> QED
  BY <2>1, <3>1 DEF Alone, OneInv, OneSessionPerRecord
<2>2. CASE t = s /\ Join(s)
<3>1. /\ UNCHANGED <<map, sess>> /\ sock[s].at = "join"
      /\ sock'[s].record = sock[s].record /\ sock'[s].id = sock[s].id
      /\ sock'[s].at = "joinwatch" \/ (sock'[s].at = "reserve" /\ map[sock[s].id] = 0)
  BY <2>2, JoinDoes
<3> QED
  BY <2>2, <3>1 DEF Alone, OneInv
<2>3. CASE t = s /\ JoinWatch(s)
<3>1. /\ UNCHANGED <<map, sess>> /\ sock[s].at = "joinwatch"
      /\ sock'[s].record = sock[s].record /\ sock'[s].id = sock[s].id
      /\ sock'[s].at = "reserve" /\ map[sock[s].id] = 0
  BY <2>3, JoinWatchDoes
<3> QED
  BY <2>3, <3>1 DEF Alone, OneInv
<2>4. CASE t = s /\ Reserve(s)
<3>1. /\ UNCHANGED <<map, sess>> /\ sock[s].at = "reserve"
      /\ sock'[s].record = sock[s].record /\ sock'[s].at = "build"
  BY <2>4, ReserveDoes
<3> QED
  BY <2>4, <3>1 DEF Alone, OneInv
<2> QED
  BY <1>3, <2>0, <2>1, <2>2, <2>3, <2>4
<1>4. ASSUME NEW b \in Births, Close(b) \/ Retire(b) PROVE sock'[t] = sock[t]
  BY <1>4, EndsDoes
<1> QED
  BY <1>2, <1>3, <1>4 DEF Next

LEMMA OneSpawn ==
  ASSUME TypeInv, GateInv, OneInv, NEW s \in Sockets, Spawn(s)
  PROVE  OneInv'
<1>1. /\ sock[s].at = "build" /\ born' = born + 1 /\ born' \in Births
      /\ map' = [map EXCEPT ![sock[s].id] = born']
      /\ sess'[born'].record = sock[s].record
      /\ sock'[s].at = "fresh" /\ \A t \in Sockets : t # s => sock'[t] = sock[t]
      /\ \A c \in Births : c # born' => sess'[c] = sess[c]
  BY SpawnDoes DEF SockAfter, SessAfter
<1>2. sock[s].id \in Ids /\ map \in [Ids -> Count] /\ born \in Nat
  BY <1>1, SlotsAssumption DEF TypeInv, TypeOK, InHand, Hand, Count
<1>3. \A i \in Ids : map[i] # 0 => map[i] \in Births /\ map[i] # born'
  BY <1>1, <1>2, SlotsAssumption DEF TypeInv, TypeOK, Listing, Births, Count
<1>4. \A i \in Ids : map'[i] # 0 =>
          \/ i = sock[s].id /\ sess'[map'[i]].record = sock[s].record
          \/ i # sock[s].id /\ map'[i] = map[i] /\ sess'[map'[i]] = sess[map[i]]
  BY <1>1, <1>2, <1>3
<1>5. \A i \in Ids : map[i] # 0 => sess[map[i]].record # sock[s].record
  BY <1>1 DEF OneInv, Alone, Deciding
<1>6. OneSessionPerRecord'
  BY <1>4, <1>5 DEF OneInv, OneSessionPerRecord
<1>7. ASSUME NEW t \in Sockets, sock'[t].at \in Deciding PROVE Alone(t)'
<2>1. t # s /\ sock'[t] = sock[t] /\ sock[t].at \in Critical /\ sock[s].at \in Critical
  BY <1>1, <1>7 DEF Deciding, Critical
<2>2. sock[t].record # sock[s].record
  BY <2>1, OneInside
<2>3. Alone(t)
  BY <1>7, <2>1 DEF OneInv
<2> QED
  BY <1>4, <2>1, <2>2, <2>3 DEF Alone
<1> QED
  BY <1>6, <1>7 DEF OneInv

LEMMA OneStep == TypeInv /\ GateInv /\ OneInv /\ [Next]_vars => OneInv'
<1> SUFFICES ASSUME TypeInv, GateInv, OneInv, [Next]_vars PROVE OneInv'
  OBVIOUS
<1>1. CASE Restart
<2>1. \A s \in Sockets : sock'[s].at \notin Deciding
  BY <1>1, RestartDoes DEF Over, Idle, Deciding
<2>2. map' = [i \in Ids |-> 0]
  BY <1>1 DEF Restart
<2> QED
  BY <2>1, <2>2 DEF OneInv, OneSessionPerRecord
<1>2. CASE /\ Next /\ ~Restart
           /\ \A c \in Births : sess'[c].record = sess[c].record
           /\ \A i \in Ids : map'[i] = 0 \/ map'[i] = map[i]
<2>1. \A i \in Ids : map[i] # 0 => map[i] \in Births
  BY SlotsAssumption DEF TypeInv, TypeOK, Births, Count
<2>2. \A i \in Ids : map'[i] # 0 =>
          map'[i] = map[i] /\ sess'[map'[i]].record = sess[map[i]].record
  BY <1>2, <2>1
<2>3. OneSessionPerRecord'
  BY <2>2 DEF OneInv, OneSessionPerRecord
<2>4. ASSUME NEW t \in Sockets, sock'[t].at \in Deciding PROVE Alone(t)'
<3>1. CASE sock'[t] = sock[t]
  BY <2>2, <2>4, <3>1 DEF OneInv, Alone
<3>2. CASE Alone(t)'
  BY <3>2
<3> QED
  BY <1>2, <2>4, <3>1, <3>2, Decides
<2> QED
  BY <2>3, <2>4 DEF OneInv
<1>3. CASE Next
  BY <1>1, <1>2, <1>3, OneSpawn, RecordsKept
<1>4. CASE UNCHANGED vars
  BY <1>4 DEF vars, OneInv, OneSessionPerRecord, Alone
<1> QED
  BY <1>3, <1>4

(* A window record never has two live sessions, however the launches of    *)
(* two pages, their cancels and the ends of sessions interleave.           *)
THEOREM OneSessionPerRecordAlways == Spec => []OneSessionPerRecord
<1>1. Init => GateInv /\ OneInv
<2> SUFFICES ASSUME Init PROVE GateInv /\ OneInv
  OBVIOUS
<2>1. \A s \in Sockets : sock[s].at = "idle"
  BY DEF Init, Idle
<2>2. \A i \in Ids : map[i] = 0
  BY DEF Init
<2> QED
  BY <2>1, <2>2 DEF GateInv, OneInv, OneSessionPerRecord, Opening, Critical, Deciding
<1>2. OneInv => OneSessionPerRecord
  BY DEF OneInv
<1> QED
  BY <1>1, <1>2, TypeInit, TypeStep, GateStep, OneStep, PTL DEF Spec

-----------------------------------------------------------------------------
(* Reattach by id: when every issued id is recorded, no id is ever issued  *)
(* twice, so the id a page knew still names the session it knew.           *)

ReachInv ==
    Recorded = {TRUE} =>
        /\ file = last
        /\ \A b \in 1 .. born : sess[b].id <= last
        /\ \A b, c \in 1 .. born : sess[b].id = sess[c].id => b = c
        /\ \A s \in Sockets : Issued(s) => \A b \in 1 .. born : sess[b].id # sock[s].id

LEMMA ReachKept ==
  ASSUME TypeInv, ReachInv, UNCHANGED <<last, file, born>>,
         \A c \in Births : sess'[c].id = sess[c].id,
         \A t \in Sockets : sock'[t].at = "build" => sock'[t] = sock[t]
  PROVE  ReachInv'
<1>1. 1 .. born \subseteq Births
  BY SlotsAssumption DEF TypeInv, TypeOK, Count, Births
<1> QED
  BY <1>1 DEF ReachInv, Issued

LEMMA ReachStep == TypeInv /\ IdInv /\ ReachInv /\ [Next]_vars => ReachInv'
<1> SUFFICES ASSUME TypeInv, IdInv, ReachInv, [Next]_vars, Recorded = {TRUE} PROVE ReachInv'
  BY DEF ReachInv
<1>1. ASSUME NEW s \in Sockets, Quiet(s) PROVE ReachInv'
  BY <1>1, ReachKept DEF Quiet, Listens, SameSeats, Others
<1>2. ASSUME NEW s \in Sockets, NEW b \in 1 .. born, NEW named \in BOOLEAN,
             NEW takeover \in BOOLEAN, Claims(s, b, named, takeover)
      PROVE  ReachInv'
<2>1. \A c \in Births : sess'[c].id = sess[c].id
  BY <1>2, ClaimSeats DEF Claims, SessAfter
<2> QED
  BY <1>2, <2>1, ReachKept DEF Claims, Takes, Listens, Others
<1>3. ASSUME NEW s \in Sockets, NEW b \in 1 .. born, Watches(s, b) PROVE ReachInv'
<2>1. \A c \in Births : sess'[c].id = sess[c].id
  BY <1>3, WatchSeats DEF Watches, SessAfter
<2> QED
  BY <1>3, <2>1, ReachKept DEF Watches, Takes, Listens, Others
<1>4. ASSUME NEW s \in Sockets, Drop(s) PROVE ReachInv'
<2>1. \A c \in Births : sess'[c].id = sess[c].id
  BY <1>4, DropDoes DEF SessAfter
<2>2. /\ UNCHANGED <<last, file, born>> /\ sock'[s].at = "over"
      /\ \A t \in Sockets : t # s => sock'[t] = sock[t]
  BY <1>4, DropDoes DEF SockAfter
<2> QED
  BY <2>1, <2>2, ReachKept
<1>5. ASSUME NEW s \in Sockets, Reserve(s) PROVE ReachInv'
<2>1. /\ UNCHANGED <<sess, born>> /\ last' = last + 1 /\ file' = last'
      /\ sock'[s].id = last' /\ \A t \in Sockets : t # s => sock'[t] = sock[t]
  BY <1>5, ReserveDoes DEF SockAfter
<2>2. last \in Nat /\ \A b \in 1 .. born : sess[b].id \in Nat
  BY SlotsAssumption DEF TypeInv, TypeOK, Listing, Ids, Count
<2>3. \A b \in 1 .. born : sess[b].id <= last' /\ sess[b].id # last'
  BY <2>1, <2>2 DEF ReachInv
<2> QED
  BY <2>1, <2>3 DEF ReachInv, Issued
<1>6. ASSUME NEW s \in Sockets, Spawn(s) PROVE ReachInv'
<2>1. /\ Issued(s) /\ born' = born + 1 /\ born' \in Births /\ UNCHANGED <<last, file>>
      /\ sess'[born'].id = sock[s].id /\ sock'[s].at = "fresh"
      /\ \A t \in Sockets : t # s => sock'[t] = sock[t]
      /\ \A c \in Births : c # born' => sess'[c] = sess[c]
  BY <1>6, SpawnDoes DEF SockAfter, SessAfter, Issued
<2>2. born \in Nat /\ 1 .. born \subseteq Births
  BY SlotsAssumption DEF TypeInv, TypeOK, Count, Births
<2>3. \A c \in 1 .. born' : c = born' \/ (c \in 1 .. born /\ c # born')
  BY <2>1, <2>2
<2>4. \A c \in 1 .. born : sess'[c] = sess[c]
  BY <2>1, <2>2
<2>5. \A c \in 1 .. born' : sess'[c].id <= last'
  BY <2>1, <2>3, <2>4 DEF ReachInv, IdInv
<2>6. \A b, c \in 1 .. born' : sess'[b].id = sess'[c].id => b = c
  BY <2>1, <2>3, <2>4 DEF ReachInv
<2>7. \A t \in Sockets : Issued(t)' => \A c \in 1 .. born' : sess'[c].id # sock'[t].id
  BY <2>1, <2>3, <2>4 DEF ReachInv, IdInv, Issued
<2> QED
  BY <2>1, <2>5, <2>6, <2>7 DEF ReachInv, Issued
<1>7. ASSUME NEW b \in Births, Close(b) \/ Retire(b) PROVE ReachInv'
<2>1. UNCHANGED <<last, file, born, sock>> /\ \A c \in Births : sess'[c].id = sess[c].id
  BY <1>7, EndsDoes DEF SessAfter
<2> QED
  BY <2>1, ReachKept
<1>8. CASE Restart
<2>1. last' = file
<3>1. PICK ok \in Recorded : last' = IF ok THEN file ELSE 0
  BY <1>8, Zenon DEF Restart
<3>2. ok = TRUE
  BY <3>1
<3> QED
  BY <3>1, <3>2, Zenon
<2>2. UNCHANGED <<file, born>> /\ \A c \in Births : sess'[c].id = sess[c].id
  BY <1>8, RestartDoes DEF Restart
<2>3. \A s \in Sockets : sock'[s].at # "build"
  BY <1>8, RestartDoes DEF Over, Idle
<2>4. last' = last
  BY <2>1 DEF ReachInv
<2> QED
  BY <2>2, <2>3, <2>4, ReachKept
<1>9. CASE Next
<2>1. Shape
  BY <1>9, Shapes
<2> QED
  BY <2>1, <1>1, <1>2, <1>3, <1>4, <1>5, <1>6, <1>7, <1>8 DEF Shape
<1>10. CASE UNCHANGED vars
  BY <1>10 DEF vars, ReachInv, Issued
<1> QED
  BY <1>9, <1>10

WantInv ==
    \A s \in Sockets : sock[s].want # 0 =>
        /\ sock[s].at \in {"bridge", "drop"}
        /\ Recorded = {TRUE} => sock[s].b = sock[s].want

Wants(s) ==
    /\ Others(s)
    /\ \/ sock'[s].want = 0
       \/ /\ sock'[s].want = sock[s].want
          /\ sock[s].at \in {"bridge", "drop"} =>
                 sock'[s].at \in {"bridge", "drop"} /\ sock'[s].b = sock[s].b

LEMMA WantsKept ==
  ASSUME TypeInv, NEW s \in Sockets,
         \/ Step(s) \/ Built(s) \/ Cancel(s) \/ Leave(s)
         \/ \E r \in Records : Launch(s, r)
  PROVE  Wants(s)
<1> USE DEF Wants, Others, Moves, SockAfter
<1>1. CASE \E r \in Records : Launch(s, r)
  BY <1>1, LaunchDoes
<1>2. CASE Acquire(s)
  BY <1>2, AcquireDoes
<1>3. CASE FindLive(s)
  BY <1>3, FindLiveDoes
<1>4. CASE Join(s)
  BY <1>4, JoinDoes
<1>5. CASE JoinWatch(s)
  BY <1>5, JoinWatchDoes
<1>6. CASE Reserve(s)
  BY <1>6, ReserveDoes
<1>7. CASE Spawn(s)
  BY <1>7, SpawnDoes
<1>8. CASE AttachFresh(s)
  BY <1>8, AttachFreshDoes
<1>9. CASE HoldAs(s)
  BY <1>9, HoldAsDoes
<1>10. CASE Unlock(s)
  BY <1>10, UnlockDoes
<1>11. CASE Forget(s)
  BY <1>11, ForgetDoes
<1>12. CASE Drop(s)
  BY <1>12, DropDoes
<1>13. CASE SpawnFails(s) \/ Cancel(s) \/ End(s) \/ Leave(s)
  BY <1>13, MoveDoes
<1> QED
  BY <1>1, <1>2, <1>3, <1>4, <1>5, <1>6, <1>7, <1>8, <1>9, <1>10, <1>11, <1>12, <1>13
     DEF Step, Built

(* The session listed under the id of a known session is that session. *)
LEMMA SameSession ==
  ASSUME TypeInv, IdInv, ReachInv, Recorded = {TRUE}, NEW want \in 1 .. born, NEW b \in 1 .. born,
         b = map[sess[want].id]
  PROVE  b = want
<1>1. sess[want].id \in Ids /\ b # 0
  BY DEF TypeInv, Listing
<1>2. sess[b].id = sess[want].id
  BY <1>1 DEF IdInv
<1> QED
  BY <1>2 DEF ReachInv

LEMMA WantStep == TypeInv /\ IdInv /\ ReachInv /\ WantInv /\ [Next]_vars => WantInv'
<1> SUFFICES ASSUME TypeInv, IdInv, ReachInv, WantInv, [Next]_vars PROVE WantInv'
  OBVIOUS
<1>1. ASSUME NEW s \in Sockets, Wants(s) PROVE WantInv'
  BY <1>1 DEF WantInv, Wants, Others
<1>2. ASSUME NEW s \in Sockets, NEW want \in 1 .. born, sock[s].at = "idle", Others(s),
             \/ sock'[s].want = sock[s].want
             \/ \E b \in 1 .. born : /\ b = map[sess[want].id] /\ sock'[s].at = "bridge"
                                     /\ sock'[s].b = b /\ sock'[s].want = want
      PROVE  WantInv'
<2>1. sock[s].want = 0
  BY <1>2 DEF WantInv
<2>2. sock'[s].want # 0 => /\ sock'[s].at \in {"bridge", "drop"}
                           /\ Recorded = {TRUE} => sock'[s].b = sock'[s].want
  BY <1>2, <2>1, SameSession
<2> QED
  BY <1>2, <2>2 DEF WantInv, Others
<1>3. ASSUME NEW s \in Sockets, NEW want \in Births, ReattachAsWatcher(s, want) PROVE WantInv'
<2>1. /\ sock[s].at = "idle" /\ want \in 1 .. born /\ Others(s)
      /\ \/ sock'[s].want = sock[s].want
         \/ \E b \in 1 .. born : /\ b = map[sess[want].id] /\ sock'[s].at = "bridge"
                                 /\ sock'[s].b = b /\ sock'[s].want = want
  BY <1>3, ReattachAsWatcherDoes DEF SockAfter, Others
<2> QED
  BY <1>2, <2>1
<1>4. ASSUME NEW s \in Sockets, NEW want \in Births, NEW takeover \in BOOLEAN,
             Reattach(s, want, takeover)
      PROVE  WantInv'
<2>1. sock[s].at = "idle" /\ want \in 1 .. born /\ Others(s)
  BY <1>4, ReattachDoes, ReattachMoves
<2>2. CASE Refused(s)
  BY <1>2, <2>1, <2>2 DEF Refused, SockAfter
<2>3. ASSUME NEW b \in 1 .. born, Granted(s, want, takeover, b) PROVE WantInv'
  BY <1>2, <2>1, <2>3 DEF Granted, SockAfter
<2>4. Refused(s) \/ \E b \in 1 .. born : Granted(s, want, takeover, b)
  BY <1>4, ReattachDoes
<2> QED
  BY <2>2, <2>3, <2>4
<1>5. ASSUME NEW b \in Births, Close(b) \/ Retire(b) PROVE WantInv'
<2>1. UNCHANGED sock
  BY <1>5, EndsDoes
<2> QED
  BY <2>1 DEF WantInv
<1>6. CASE Restart
<2>1. \A s \in Sockets : sock[s].at = "idle" => sock[s].want = 0
  BY DEF WantInv
<2>2. \A s \in Sockets : sock'[s].want = 0
  BY <1>6, <2>1, RestartDoes DEF Over, Idle
<2> QED
  BY <2>2 DEF WantInv
<1>7. CASE Next
  BY <1>1, <1>3, <1>4, <1>5, <1>6, <1>7, WantsKept DEF Next
<1>8. CASE UNCHANGED vars
  BY <1>8 DEF vars, WantInv
<1> QED
  BY <1>7, <1>8

(* A page that reattaches by an id reaches the session it knew, across any *)
(* number of restarts, when every issued id was recorded.                  *)
THEOREM ReattachAlwaysReachesItsSession == Spec => []ReattachReachesItsSession
<1>1. Init => ReachInv /\ WantInv
<2> SUFFICES ASSUME Init PROVE ReachInv /\ WantInv
  OBVIOUS
<2>1. \A s \in Sockets : sock[s].at = "idle" /\ sock[s].want = 0
  BY DEF Init, Idle
<2>2. file = last /\ 1 .. born = {}
  BY DEF Init
<2> QED
  BY <2>1, <2>2 DEF ReachInv, WantInv, Issued
<1>2. WantInv => ReattachReachesItsSession
  BY DEF WantInv, ReattachReachesItsSession
<1> QED
  BY <1>1, <1>2, TypeInit, SeatInit, TypeStep, IdStep, ReachStep, WantStep, PTL DEF Spec
=============================================================================
