--------------------------- MODULE AttentionProofs ---------------------------
(***************************************************************************)
(* Theorems about Attention, for every fleet of daemons, whoever peers     *)
(* with whom, and any number of windows, sessions, waits and faults.       *)
(***************************************************************************)
EXTENDS Attention, TLAPS

-----------------------------------------------------------------------------
(* The inductive invariant.                                                 *)

ConsoleType == [sid : 0 .. MaxSessions, agent : Agents, waits : Stops, turns : Stops]
MarksType == [handled : SUBSET [sid : 1 .. MaxSessions, count : Stops], open : SUBSET ReqId,
              firing : SUBSET ReqId]
SenderType == [sent : SUBSET Message, todo : SUBSET Message]

HistoryOK ==
    history \in [got : [Daemons -> SUBSET Message], twice : [Daemons -> SUBSET Message],
                 unsure : [Daemons -> SUBSET Message], hidden : SUBSET ReqId,
                 reissued : SUBSET Daemons]

(* A console counts within the stops of its window, and its session is one   *)
(* of those its daemon handed out.                                           *)
Counted ==
    \A r \in Records :
        /\ console[r].waits + console[r].turns <= stops[r]
        /\ console[r].sid <= last[Home[r]]
        /\ console[r].sid = 0 => console[r] = Gone

(* The session of the request still runs.                                    *)
Live(i) == i.sid = console[i.of].sid

(* The marks of a daemon open requests of its own consoles, with ids it      *)
(* handed out, about turns that a running console has ended and that a tick  *)
(* has looked at.                                                            *)
Opens(d, k) ==
    \A i \in k.open \cup k.firing :
        /\ Home[i.of] = d /\ i.sid <= last[d] /\ i.turn # 0
        /\ Live(i) => i.turn <= console[i.of].turns
        /\ \E h \in k.handled : h.sid = i.sid /\ i.turn <= h.count
OpenIds == \A d \in Daemons : Opens(d, marks[d])

(* The ids of the daemon never started again: its record was not lost.       *)
Sound(d) == d \notin history.reissued

(* A dismissed request of a running session is still among the open ones, so *)
(* that a later turn cannot open it.                                         *)
DismissedIds ==
    \A d \in Daemons : \A i \in dismissed[d] : Sound(d) =>
        /\ Home[i.of] = d /\ i.sid <= last[d] /\ i.turn # 0
        /\ Live(i) => i \in marks[d].open

(* What a daemon has to send and what it delivered is about its own requests *)
(* and its peers', about no session to come and no wait to come, and about a *)
(* finished turn only while the home still keeps it open.                    *)
About(d, m) ==
    /\ Home[m.id.of] \in {d} \cup PeersOf[d]
    /\ m.id.sid <= last[Home[m.id.of]]
    /\ Live(m.id) => IF m.id.turn = 0 THEN m.wait <= console[m.id.of].waits
                     ELSE m.id \in marks[Home[m.id.of]].open
MessageIds ==
    \A d \in Daemons : \A m \in sender[d].todo \cup history.got[d] :
        Sound(Home[m.id.of]) => About(d, m)

(* The opening the message is about lasts and is listed.                     *)
Current(m) ==
    /\ Live(m.id)
    /\ IF m.id.turn = 0
       THEN console[m.id.of].agent = "waiting" /\ m.wait = console[m.id.of].waits
       ELSE m.id \notin dismissed[Home[m.id.of]]

(* What a daemon delivered about a listed request is among its sent ids, and *)
(* it has nothing to send that it delivered before, but for what it cannot   *)
(* be sure of.                                                               *)
Known(d, m) == m \in history.got[d] /\ m \notin history.unsure[d]
Remembered ==
    \A d \in Daemons : \A m \in Message : Sound(Home[m.id.of]) /\ Known(d, m) =>
        /\ Current(m) => m \in sender[d].sent
        /\ m \notin sender[d].todo

Shape == TypeOK /\ HistoryOK /\ Counted
IInv ==
    /\ Shape /\ OpenIds /\ DismissedIds /\ MessageIds /\ Remembered
    /\ OneMessageEach /\ NothingOpensHidden

-----------------------------------------------------------------------------
(* The fields of the records.                                               *)

LEMMA Fields ==
  ASSUME Shape
  PROVE  /\ \A r \in Records : /\ console[r] \in ConsoleType
                               /\ console[r].sid \in 0 .. MaxSessions
                               /\ console[r].agent \in Agents
                               /\ console[r].waits \in Stops /\ console[r].turns \in Stops
                               /\ stops[r] \in Stops /\ Home[r] \in Daemons
         /\ \A d \in Daemons : /\ marks[d] \in MarksType /\ marks[d].open \subseteq ReqId
                               /\ sender[d] \in SenderType /\ sender[d].todo \subseteq Message
                               /\ sender[d].sent \subseteq Message
                               /\ dismissed[d] \subseteq ReqId /\ last[d] \in 0 .. MaxSessions
                               /\ marks[d].firing \subseteq ReqId /\ idFile[d] \in 0 .. MaxSessions
                               /\ marks[d].handled \subseteq [sid : 1 .. MaxSessions, count : Stops]
                               /\ history.got[d] \subseteq Message
         /\ MaxSessions \in Nat /\ MaxStops \in Nat /\ MaxFaults \in Nat
  BY AttentionAssumption DEF Shape, TypeOK, HistoryOK, ConsoleType, MarksType, SenderType

LEMMA IdFields ==
  ASSUME NEW i \in ReqId
  PROVE  i.of \in Records /\ i.sid \in 1 .. MaxSessions /\ i.turn \in Stops
  BY DEF ReqId

LEMMA MessageFields ==
  ASSUME NEW m \in Message
  PROVE  m.id \in ReqId /\ m.wait \in Stops
  BY DEF Message

LEMMA InitShape == Init => Shape
<1> SUFFICES ASSUME Init PROVE Shape
  OBVIOUS
<1>1. Gone \in ConsoleType /\ Gone.sid = 0 /\ Gone.waits = 0 /\ Gone.turns = 0
  BY AttentionAssumption DEF Gone, ConsoleType, Agents, Stops
<1>2. NoMarks \in MarksType /\ NoSends \in SenderType
  BY DEF NoMarks, NoSends, MarksType, SenderType
<1>3. TypeOK
  BY <1>1, <1>2, AttentionAssumption DEF Init, TypeOK, Stops, ConsoleType, MarksType, SenderType
<1>4. HistoryOK
  BY DEF Init, HistoryOK
<1>5. Counted
  BY <1>1, AttentionAssumption DEF Init, Counted
<1> QED
  BY <1>3, <1>4, <1>5 DEF Shape

LEMMA InitInv == Init => IInv
<1> SUFFICES ASSUME Init PROVE IInv
  OBVIOUS
<1>1. Shape
  BY InitShape
<1>2. OpenIds /\ DismissedIds /\ MessageIds /\ Remembered
  BY DEF Init, OpenIds, Opens, DismissedIds, MessageIds, Remembered, Known, NoMarks, NoSends
<1>3. OneMessageEach /\ NothingOpensHidden
  BY DEF Init, OneMessageEach, NothingOpensHidden
<1> QED
  BY <1>1, <1>2, <1>3 DEF IInv

-----------------------------------------------------------------------------
(* The steps of one console.                                                *)

(* The window gets this console, the others keep theirs.                    *)
ConsoleAfter(r, k) ==
    /\ console' \in [Records -> ConsoleType]
    /\ \A x \in Records : x # r => console'[x] = console[x]
    /\ console'[r] = k

(* The history forgets at most, and with what a daemon delivered also       *)
(* whether it can be sure of it.                                            *)
Forgets ==
    /\ HistoryOK'
    /\ \A d \in Daemons :
          /\ history'.got[d] \subseteq history.got[d]
          /\ history'.twice[d] \subseteq history.twice[d]
          /\ history.unsure[d] \cap history'.got[d] \subseteq history'.unsure[d]
    /\ history'.hidden = history.hidden /\ history'.reissued = history.reissued

(* A console starts or ends; or it goes on with its counts, and waits only   *)
(* with one wait more.                                                       *)
ConsoleStep(r) ==
    /\ ConsoleAfter(r, console'[r]) /\ Forgets
    /\ UNCHANGED <<marks, dismissed, sender>>
    /\ \A d \in Daemons : last[d] <= last'[d]
    /\ \/ console'[r].sid = 0 \/ console'[r].sid > last[Home[r]]
       \/ /\ console'[r].sid = console[r].sid
          /\ console[r].waits <= console'[r].waits /\ console[r].turns <= console'[r].turns
          /\ console'[r].agent = "waiting" => console[r].waits < console'[r].waits

LEMMA Becomes ==
  ASSUME NEW r \in Records, NEW k \in ConsoleType, Shape, console' = [console EXCEPT ![r] = k]
  PROVE  ConsoleAfter(r, k)
  BY DEF Shape, TypeOK, ConsoleAfter, ConsoleType

LEMMA ForgetForgets ==
  ASSUME Shape, NEW over, Forget(over)
  PROVE  Forgets /\ told' \subseteq told
<1> DEFINE got == [d \in Daemons |-> history.got[d] \ over]
           twice == [d \in Daemons |-> history.twice[d] \ over]
           unsure == [d \in Daemons |-> history.unsure[d] \ over]
<1>1. /\ history' = [history EXCEPT !.got = got, !.twice = twice, !.unsure = unsure]
      /\ told' = told \ over
  BY DEF Forget
<1>2. {got, twice, unsure} \subseteq [Daemons -> SUBSET Message]
  BY DEF Shape, HistoryOK
<1>3. \A d \in Daemons : got[d] \subseteq history.got[d] /\ twice[d] \subseteq history.twice[d]
                        /\ history.unsure[d] \cap got[d] \subseteq unsure[d]
  OBVIOUS
<1> HIDE DEF got, twice, unsure
<1>4. history'.got = got /\ history'.twice = twice /\ history'.unsure = unsure
      /\ history'.hidden = history.hidden /\ history'.reissued = history.reissued /\ HistoryOK'
  BY <1>1, <1>2 DEF Shape, HistoryOK
<1> QED
  BY <1>1, <1>3, <1>4 DEF Forgets

LEMMA SameForgets ==
  ASSUME Shape, history' = history
  PROVE  Forgets
  BY DEF Forgets, Shape, HistoryOK

LEMMA FaultAside ==
  ASSUME Shape, NEW f, Fault(f)
  PROVE  faults' \in 0 .. MaxFaults
  BY Fields DEF Fault, Shape, TypeOK

LEMMA NewConsole ==
  ASSUME Shape, NEW r \in Records, OpenConsole(r)
  PROVE  Shape' /\ ConsoleStep(r)
<1> DEFINE d == Home[r]
           k == [Gone EXCEPT !.sid = last[d] + 1, !.agent = "done"]
<1>1. d \in Daemons /\ last[d] \in 0 .. MaxSessions /\ MaxSessions \in Nat /\ MaxStops \in Nat
      /\ last[d] < MaxSessions /\ \A x \in Records : stops[x] \in Stops
  BY Fields DEF OpenConsole
<1>2. k \in ConsoleType /\ k.sid = last[d] + 1 /\ k.agent = "done" /\ k.waits = 0 /\ k.turns = 0
  <2>1. last[d] + 1 \in 0 .. MaxSessions /\ "done" \in Agents
    BY <1>1 DEF Agents
  <2>2. Gone \in ConsoleType /\ Gone.waits = 0 /\ Gone.turns = 0
    BY <1>1 DEF Gone, ConsoleType, Agents, Stops
  <2> QED
    BY <2>1, <2>2 DEF ConsoleType
<1>3. console' = [console EXCEPT ![r] = k]
  BY DEF OpenConsole
<1>4. last' = [last EXCEPT ![d] = last[d] + 1]
  BY DEF OpenConsole
<1> HIDE DEF k, d
<1>5. ConsoleAfter(r, k)
  BY <1>2, <1>3, Becomes
<1>6. last' \in [Daemons -> 0 .. MaxSessions] /\ last'[d] = last[d] + 1
      /\ \A x \in Daemons : last[x] <= last'[x]
  BY <1>1, <1>4 DEF Shape, TypeOK
<1>7. UNCHANGED <<aged, stops, mark, marks, dismissed, present, bots, claimed, sender, told,
                  history>>
  BY DEF OpenConsole, asking, fleet, telling, ghosts
<1>11. faults' \in 0 .. MaxFaults
  BY FaultAside DEF OpenConsole, NoFault, Shape, TypeOK
<1>12. idFile' \in [Daemons -> 0 .. MaxSessions]
  BY <1>1 DEF OpenConsole, Shape, TypeOK, d
<1>8. TypeOK'
  BY <1>5, <1>6, <1>7, <1>11, <1>12 DEF Shape, TypeOK, ConsoleAfter, ConsoleType
<1>9. Counted'
  <2> SUFFICES ASSUME NEW x \in Records
               PROVE  /\ console'[x].waits + console'[x].turns <= stops'[x]
                      /\ console'[x].sid <= last'[Home[x]]
                      /\ console'[x].sid = 0 => console'[x] = Gone
    BY DEF Counted
  <2>1. CASE x = r
    BY <2>1, <1>1, <1>2, <1>5, <1>6, <1>7 DEF ConsoleAfter, d, Stops
  <2>2. CASE x # r
    <3>1. console'[x] = console[x] /\ stops'[x] = stops[x] /\ Home[x] \in Daemons
          /\ last[Home[x]] \in Int /\ last'[Home[x]] \in Int /\ console[x].sid \in Int
      BY <2>2, <1>5, <1>6, <1>7, Fields DEF ConsoleAfter
    <3> QED
      BY <3>1, <1>6 DEF Shape, Counted
  <2> QED
    BY <2>1, <2>2
<1>10. HistoryOK' /\ Forgets
  BY <1>7, SameForgets DEF Shape, Forgets
<1> QED
  BY <1>1, <1>2, <1>5, <1>6, <1>7, <1>8, <1>9, <1>10 DEF Shape, ConsoleStep, ConsoleAfter, d

(* The other steps keep the ids their daemon handed out.                     *)
LEMMA OldConsole ==
  ASSUME Shape, NEW r \in Records, NEW k \in ConsoleType, ConsoleAfter(r, k),
         aged' \subseteq ReqId, stops' \in [Records -> Stops], told' \subseteq told, HistoryOK',
         UNCHANGED <<last, idFile, mark, marks, dismissed, present, bots, claimed, sender, faults>>,
         k.waits + k.turns <= stops'[r], k.sid \in {0, console[r].sid}, k.sid = 0 => k = Gone,
         \A x \in Records : stops[x] <= stops'[x]
  PROVE  Shape'
<1>1. TypeOK'
  BY DEF Shape, TypeOK, ConsoleAfter, ConsoleType
<1>2. Counted'
  <2> SUFFICES ASSUME NEW x \in Records
               PROVE  /\ console'[x].waits + console'[x].turns <= stops'[x]
                      /\ console'[x].sid <= last'[Home[x]]
                      /\ console'[x].sid = 0 => console'[x] = Gone
    BY DEF Counted
  <2>1. /\ console[x].waits + console[x].turns <= stops[x]
        /\ console[x].sid <= last[Home[x]]
        /\ console[x].sid = 0 => console[x] = Gone
        /\ last[Home[x]] \in Nat /\ last' = last /\ console[x].sid \in Nat
    BY Fields DEF Shape, Counted
  <2>2. CASE x = r
    BY <2>1, <2>2 DEF ConsoleAfter
  <2>3. CASE x # r
    <3>1. console'[x] = console[x] /\ stops[x] <= stops'[x] /\ stops[x] \in Int /\ stops'[x] \in Int
          /\ console[x].waits \in Int /\ console[x].turns \in Int
      BY <2>3, Fields DEF ConsoleAfter, Stops
    <3> QED
      BY <2>1, <3>1
  <2> QED
    BY <2>2, <2>3
<1> QED
  BY <1>1, <1>2 DEF Shape

LEMMA ConsoleCloses ==
  ASSUME Shape, NEW r \in Records, CloseConsole(r)
  PROVE  Shape' /\ ConsoleStep(r)
<1>1. Gone \in ConsoleType /\ Gone.sid = 0 /\ Gone.waits = 0 /\ Gone.turns = 0
  BY AttentionAssumption DEF Gone, ConsoleType, Agents, Stops
<1>2. ConsoleAfter(r, Gone)
  BY <1>1, Becomes DEF CloseConsole
<1>3. Forgets /\ told' \subseteq told
  BY ForgetForgets DEF CloseConsole
<1>4. /\ UNCHANGED <<last, idFile, stops, mark, marks, dismissed, present, bots, claimed, sender, faults>>
      /\ aged' \subseteq aged
  BY DEF CloseConsole, asking, fleet, ids
<1>5. /\ aged' \subseteq ReqId /\ stops' \in [Records -> Stops]
      /\ stops[r] >= 0 /\ \A x \in Records : stops[x] \in Int
      /\ \A d \in Daemons : last[d] \in Int
  BY <1>4, Fields DEF Shape, TypeOK, Stops
<1>6. Shape'
  BY <1>1, <1>2, <1>3, <1>4, <1>5, OldConsole DEF Forgets
<1> QED
  BY <1>1, <1>2, <1>3, <1>4, <1>5, <1>6 DEF ConsoleStep, ConsoleAfter

LEMMA AgentGoesOn ==
  ASSUME Shape, NEW r \in Records, AgentWorks(r) \/ AgentRests(r)
  PROVE  Shape' /\ ConsoleStep(r)
<1>0. PICK agent \in {"working", "done"} :
        /\ console' = [console EXCEPT ![r].agent = agent] /\ console[r].agent # "none"
        /\ WaitOver(r) /\ UNCHANGED <<ids, stops, asking, fleet, sender, faults>>
  BY DEF AgentWorks, AgentRests
<1> DEFINE k == [console[r] EXCEPT !.agent = agent]
<1>1. k \in ConsoleType /\ k.sid = console[r].sid /\ k.waits = console[r].waits
      /\ k.turns = console[r].turns /\ k.agent # "waiting"
  BY <1>0, Fields DEF ConsoleType, Agents
<1>2. console' = [console EXCEPT ![r] = k]
  BY <1>0
<1>3. console[r].sid # 0 /\ console[r].waits + console[r].turns <= stops[r]
  BY <1>0 DEF Shape, Counted, Gone
<1> HIDE DEF k
<1>4. ConsoleAfter(r, k)
  BY <1>1, <1>2, Becomes
<1>5. Forgets /\ told' \subseteq told
  BY <1>0, ForgetForgets DEF WaitOver
<1>6. /\ UNCHANGED <<last, idFile, stops, mark, marks, dismissed, present, bots, claimed, sender, faults>>
      /\ aged' \subseteq aged
  BY <1>0 DEF WaitOver, asking, fleet, ids
<1>7. /\ aged' \subseteq ReqId /\ stops' \in [Records -> Stops]
      /\ \A x \in Records : stops[x] \in Int
      /\ \A d \in Daemons : last[d] \in Int
      /\ console[r].waits \in Int /\ console[r].turns \in Int
  BY <1>6, Fields DEF Shape, TypeOK, Stops
<1>8. Shape'
  BY <1>1, <1>3, <1>4, <1>5, <1>6, <1>7, OldConsole DEF Forgets
<1> QED
  BY <1>1, <1>4, <1>5, <1>6, <1>7, <1>8 DEF ConsoleStep, ConsoleAfter

LEMMA AgentStops ==
  ASSUME Shape, NEW r \in Records, AgentWaits(r)
  PROVE  Shape' /\ ConsoleStep(r)
<1> DEFINE k == [console[r] EXCEPT !.agent = "waiting", !.waits = console[r].waits + 1]
<1>1. /\ console[r].sid # 0 /\ console[r].waits + console[r].turns <= stops[r]
      /\ stops[r] < MaxStops /\ stops[r] \in Stops /\ MaxStops \in Nat
      /\ console[r].waits \in Stops /\ console[r].turns \in Stops
  BY Fields DEF AgentWaits, Shape, Counted, Gone
<1>2. k \in ConsoleType /\ k.sid = console[r].sid /\ k.waits = console[r].waits + 1
      /\ k.turns = console[r].turns
  <2>1. console[r].waits + 1 \in Stops /\ "waiting" \in Agents /\ console[r] \in ConsoleType
    BY <1>1, Fields DEF Agents, Stops
  <2> QED
    BY <2>1 DEF ConsoleType
<1>3. console' = [console EXCEPT ![r] = k] /\ stops' = [stops EXCEPT ![r] = stops[r] + 1]
  BY DEF AgentWaits
<1> HIDE DEF k
<1>4. ConsoleAfter(r, k)
  BY <1>2, <1>3, Becomes
<1>5. /\ UNCHANGED <<last, idFile, mark, marks, dismissed, present, bots, claimed, sender, faults, aged,
                     told, history>>
  BY DEF AgentWaits, asking, fleet, telling, ids, ghosts
<1>6. Forgets
  BY <1>5, SameForgets
<1>7. /\ aged' \subseteq ReqId /\ stops' \in [Records -> Stops] /\ stops'[r] = stops[r] + 1
      /\ \A x \in Records : stops[x] <= stops'[x]
      /\ \A d \in Daemons : last[d] \in Int
  BY <1>1, <1>3, <1>5, Fields DEF Shape, TypeOK, Stops
<1>8. k.waits + k.turns <= stops'[r]
  BY <1>1, <1>2, <1>7 DEF Stops
<1>9. Shape'
  BY <1>1, <1>2, <1>4, <1>5, <1>6, <1>7, <1>8, OldConsole DEF Forgets
<1> QED
  BY <1>1, <1>2, <1>4, <1>5, <1>6, <1>7, <1>9 DEF ConsoleStep, ConsoleAfter, Stops

LEMMA TurnStops ==
  ASSUME Shape, NEW r \in Records, TurnEnds(r)
  PROVE  Shape' /\ ConsoleStep(r)
<1> DEFINE k == [console[r] EXCEPT !.agent = "done", !.turns = console[r].turns + 1]
<1>1. /\ console[r].sid # 0 /\ console[r].waits + console[r].turns <= stops[r]
      /\ stops[r] < MaxStops /\ stops[r] \in Stops /\ MaxStops \in Nat
      /\ console[r].waits \in Stops /\ console[r].turns \in Stops
  BY Fields DEF TurnEnds, Shape, Counted, Gone
<1>2. k \in ConsoleType /\ k.sid = console[r].sid /\ k.waits = console[r].waits
      /\ k.turns = console[r].turns + 1 /\ k.agent = "done"
  <2>1. console[r].turns + 1 \in Stops /\ "done" \in Agents /\ console[r] \in ConsoleType
    BY <1>1, Fields DEF Agents, Stops
  <2> QED
    BY <2>1 DEF ConsoleType
<1>3. console' = [console EXCEPT ![r] = k] /\ stops' = [stops EXCEPT ![r] = stops[r] + 1]
  BY DEF TurnEnds
<1> HIDE DEF k
<1>6. ConsoleAfter(r, k)
  BY <1>2, <1>3, Becomes
<1>7. /\ UNCHANGED <<last, idFile, mark, marks, dismissed, present, bots, claimed, sender, faults, aged, told,
                     history>>
  BY DEF TurnEnds, asking, fleet, telling, ids
<1>8. Forgets
  BY <1>7, SameForgets
<1>9. /\ aged' \subseteq ReqId /\ stops' \in [Records -> Stops] /\ stops'[r] = stops[r] + 1
      /\ \A x \in Records : stops[x] <= stops'[x]
      /\ \A d \in Daemons : last[d] \in Int
  BY <1>1, <1>3, <1>7, Fields DEF Shape, TypeOK, Stops
<1>10. k.waits + k.turns <= stops'[r]
  BY <1>1, <1>2, <1>9 DEF Stops
<1>11. Shape'
  BY <1>1, <1>2, <1>6, <1>7, <1>8, <1>9, <1>10, OldConsole DEF Forgets
<1> QED
  BY <1>1, <1>2, <1>6, <1>7, <1>8, <1>9, <1>11 DEF ConsoleStep, ConsoleAfter, Stops

-----------------------------------------------------------------------------
(* What a console step keeps.                                               *)

(* A request whose session runs after the step ran before it, with no more   *)
(* counted than after.                                                       *)
LEMMA LiveBefore ==
  ASSUME Shape, Shape', NEW r \in Records, ConsoleStep(r), NEW i \in ReqId,
         i.sid <= last[Home[i.of]], Live(i)'
  PROVE  /\ Live(i)
         /\ console[i.of].waits <= console'[i.of].waits
         /\ console[i.of].turns <= console'[i.of].turns
         /\ console'[i.of].agent = "waiting" =>
              \/ console[i.of].waits < console'[i.of].waits
              \/ console'[i.of] = console[i.of]
<1>1. /\ i.of \in Records /\ i.sid \in 1 .. MaxSessions /\ last[Home[i.of]] \in Int
      /\ console[i.of].waits \in Int /\ console[i.of].turns \in Int
  BY IdFields, Fields DEF Stops
<1>2. i.sid = console'[i.of].sid
  BY DEF Live
<1>3. CASE i.of = r
  <2>1. i.sid <= last[Home[r]] /\ i.sid = console'[r].sid /\ i.sid # 0
    BY <1>1, <1>2, <1>3
  <2>2. ~(console'[r].sid > last[Home[r]])
    BY <2>1, <1>1, <1>3
  <2> QED
    BY <1>3, <2>1, <2>2 DEF ConsoleStep, Live
<1>4. CASE i.of # r
  BY <1>1, <1>2, <1>4 DEF ConsoleStep, ConsoleAfter, Live
<1> QED
  BY <1>3, <1>4

LEMMA ConsoleKeeps ==
  ASSUME IInv, NEW r \in Records, ConsoleStep(r), Shape'
  PROVE  IInv'
<1>1. /\ UNCHANGED <<marks, dismissed, sender>>
      /\ \A d \in Daemons : /\ history'.got[d] \subseteq history.got[d]
                            /\ history'.twice[d] \subseteq history.twice[d]
                            /\ \A m : Known(d, m)' => Known(d, m)
      /\ \A d \in Daemons : last[d] <= last'[d]
      /\ history'.reissued = history.reissued /\ history'.hidden = history.hidden
  BY DEF ConsoleStep, Forgets, Known
<1>2. /\ Shape /\ OpenIds /\ DismissedIds /\ MessageIds /\ Remembered
  BY DEF IInv
<1>3. ASSUME NEW d \in Daemons, NEW n \in Int, n <= last[d]
      PROVE  n <= last'[d]
  <2>1. last[d] \in Int /\ last'[d] \in Int /\ last[d] <= last'[d]
    BY <1>1, <1>2, Fields DEF Shape, TypeOK
  <2> QED
    BY <1>3, <2>1
<1>4. OpenIds'
  <2> SUFFICES ASSUME NEW d \in Daemons, NEW i \in marks[d].open \cup marks[d].firing
               PROVE  /\ Home[i.of] = d /\ i.sid <= last'[d] /\ i.turn # 0
                      /\ Live(i)' => i.turn <= console'[i.of].turns
                      /\ \E h \in marks[d].handled : h.sid = i.sid /\ i.turn <= h.count
    BY <1>1 DEF OpenIds, Opens
  <2>1. i \in ReqId /\ i.of \in Records /\ i.sid \in Int /\ i.turn \in Int
    BY <1>2, Fields, IdFields DEF Stops
  <2>2. /\ Home[i.of] = d /\ i.sid <= last[d] /\ i.turn # 0
        /\ Live(i) => i.turn <= console[i.of].turns
        /\ \E h \in marks[d].handled : h.sid = i.sid /\ i.turn <= h.count
    BY <1>2 DEF OpenIds, Opens
  <2>3. ASSUME Live(i)' PROVE i.turn <= console'[i.of].turns
    <3>1. Live(i) /\ console[i.of].turns <= console'[i.of].turns
      BY <1>2, <2>1, <2>2, <2>3, LiveBefore
    <3>2. console[i.of].turns \in Int /\ console'[i.of].turns \in Int
      BY <1>2, <2>1, Fields DEF Shape, TypeOK, Stops
    <3> QED
      BY <2>1, <2>2, <3>1, <3>2
  <2> QED
    BY <1>3, <2>1, <2>2, <2>3
<1>5. DismissedIds'
  <2> SUFFICES ASSUME NEW d \in Daemons, NEW i \in dismissed[d], Sound(d)
               PROVE  /\ Home[i.of] = d /\ i.sid <= last'[d] /\ i.turn # 0
                      /\ Live(i)' => i \in marks[d].open
    BY <1>1 DEF DismissedIds, Sound
  <2>1. i \in ReqId /\ i.sid \in Int
    BY <1>2, Fields, IdFields
  <2>2. Home[i.of] = d /\ i.sid <= last[d] /\ i.turn # 0 /\ (Live(i) => i \in marks[d].open)
    BY <1>2 DEF DismissedIds
  <2>3. Live(i)' => Live(i)
    BY <1>2, <2>1, <2>2, LiveBefore
  <2> QED
    BY <1>3, <2>1, <2>2, <2>3
<1>6. ASSUME NEW d \in Daemons, NEW m \in Message, About(d, m)
      PROVE  About(d, m)'
  <2>1. m.id \in ReqId /\ m.id.of \in Records /\ m.id.sid \in Int /\ Home[m.id.of] \in Daemons
        /\ m.wait \in Int
    BY <1>2, Fields, IdFields, MessageFields DEF Stops
  <2>2. m.id.sid <= last[Home[m.id.of]]
    BY <1>6 DEF About
  <2>3. m.id.sid <= last'[Home[m.id.of]]
    BY <1>3, <2>1, <2>2
  <2>4. ASSUME Live(m.id)'
        PROVE  IF m.id.turn = 0 THEN m.wait <= console'[m.id.of].waits
               ELSE m.id \in marks'[Home[m.id.of]].open
    <3>1. Live(m.id) /\ console[m.id.of].waits <= console'[m.id.of].waits
      BY <1>2, <2>1, <2>2, <2>4, LiveBefore
    <3>2. console[m.id.of].waits \in Int /\ console'[m.id.of].waits \in Int
      BY <1>2, <2>1, Fields DEF Shape, TypeOK, Stops
    <3> QED
      BY <1>1, <1>6, <2>1, <3>1, <3>2 DEF About
  <2> QED
    BY <1>6, <2>3, <2>4 DEF About
<1>7. MessageIds'
  <2> SUFFICES ASSUME NEW d \in Daemons, NEW m \in sender[d].todo \cup history'.got[d],
                      Sound(Home[m.id.of])
               PROVE  About(d, m)'
    BY <1>1 DEF MessageIds, Sound
  <2>1. m \in sender[d].todo \cup history.got[d] /\ m \in Message
    BY <1>1, <1>2, Fields
  <2> QED
    BY <1>2, <1>6, <2>1 DEF MessageIds
<1>8. ASSUME NEW d \in Daemons, NEW m \in Message, About(d, m), Current(m)'
      PROVE  Current(m)
  <2>1. m.id \in ReqId /\ m.id.of \in Records /\ m.id.sid \in Int /\ Home[m.id.of] \in Daemons
        /\ m.wait \in Int
    BY <1>2, Fields, IdFields, MessageFields DEF Stops
  <2>2. m.id.sid <= last[Home[m.id.of]] /\ Live(m.id)'
    BY <1>8 DEF About, Current
  <2>3. /\ Live(m.id)
        /\ console'[m.id.of].agent = "waiting" =>
              \/ console[m.id.of].waits < console'[m.id.of].waits
              \/ console'[m.id.of] = console[m.id.of]
    BY <1>2, <2>1, <2>2, LiveBefore
  <2>4. CASE m.id.turn = 0
    <3>1. console'[m.id.of].agent = "waiting" /\ m.wait = console'[m.id.of].waits
      BY <1>8, <2>4 DEF Current
    <3>2. m.wait <= console[m.id.of].waits
      BY <1>8, <2>3, <2>4 DEF About
    <3>3. console[m.id.of].waits \in Int /\ console'[m.id.of].waits \in Int
      BY <1>2, <2>1, Fields DEF Shape, TypeOK, Stops
    <3>4. console'[m.id.of] = console[m.id.of]
      BY <2>1, <2>3, <3>1, <3>2, <3>3
    <3> QED
      BY <2>3, <2>4, <3>1, <3>4 DEF Current
  <2>5. CASE m.id.turn # 0
    BY <1>1, <1>8, <2>3, <2>5 DEF Current
  <2> QED
    BY <2>4, <2>5
<1>9. Remembered'
  <2> SUFFICES ASSUME NEW d \in Daemons, NEW m \in Message, Sound(Home[m.id.of]), Known(d, m)'
               PROVE  (Current(m)' => m \in sender[d].sent) /\ m \notin sender[d].todo
    BY <1>1 DEF Remembered, Sound
  <2>1. Known(d, m) /\ About(d, m)
    BY <1>1, <1>2 DEF Known, MessageIds
  <2> QED
    BY <1>2, <1>8, <2>1 DEF Remembered
<1>10. OneMessageEach' /\ NothingOpensHidden'
  BY <1>1 DEF IInv, OneMessageEach, NothingOpensHidden
<1> QED
  BY <1>4, <1>5, <1>7, <1>9, <1>10 DEF IInv

-----------------------------------------------------------------------------
(* The steps that touch neither console nor message.                        *)

LEMMA DismissKeeps ==
  ASSUME IInv, NEW d \in Daemons, NEW i \in Requests(d), Dismiss(d, i)
  PROVE  IInv'
<1>1. /\ UNCHANGED <<console, last, idFile, aged, stops, mark, marks, present, bots, claimed,
                     sender, told, faults, history>>
      /\ dismissed' = [dismissed EXCEPT ![d] = @ \cup {i}]
  BY DEF Dismiss, consoles, fleet, telling, ids, ghosts
<1>2. Shape /\ OpenIds /\ DismissedIds /\ MessageIds /\ Remembered
  BY DEF IInv
<1>3. i \in marks[d].open /\ i.turn # 0
  BY DEF Dismiss, Requests, ListOf, Waiting
<1>4. i \in ReqId
  BY <1>2, <1>3, Fields
<1>5. /\ dismissed' \in [Daemons -> SUBSET ReqId]
      /\ \A x \in Daemons : dismissed[x] \subseteq dismissed'[x]
      /\ \A x \in Daemons : \A j \in dismissed'[x] : j \in dismissed[x] \/ (x = d /\ j = i)
  BY <1>1, <1>2, <1>4 DEF Shape, TypeOK
<1>6. Shape'
  BY <1>1, <1>2, <1>5 DEF Shape, TypeOK, HistoryOK, Counted
<1>7. OpenIds' /\ MessageIds'
  BY <1>1, <1>2 DEF OpenIds, Opens, MessageIds, About, Live, Sound
<1>8. DismissedIds'
  <2> SUFFICES ASSUME NEW x \in Daemons, NEW j \in dismissed'[x], Sound(x)
               PROVE  /\ Home[j.of] = x /\ j.sid <= last[x] /\ j.turn # 0
                      /\ Live(j) => j \in marks[x].open
    BY <1>1 DEF DismissedIds, Live, Sound
  <2>1. CASE j \in dismissed[x]
    BY <1>2, <2>1 DEF DismissedIds
  <2>2. CASE x = d /\ j = i
    BY <1>2, <1>3, <2>2 DEF OpenIds, Opens
  <2> QED
    BY <1>5, <2>1, <2>2
<1>9. Remembered'
  <2>1. ASSUME NEW m \in Message, Current(m)' PROVE Current(m)
    <3>1. Home[m.id.of] \in Daemons
      BY <1>2, Fields, MessageFields, IdFields
    <3> QED
      BY <1>1, <1>5, <2>1, <3>1 DEF Current, Live
  <2> QED
    BY <1>1, <1>2, <2>1 DEF Remembered, Known, Sound
<1>10. OneMessageEach' /\ NothingOpensHidden'
  BY <1>1 DEF IInv, OneMessageEach, NothingOpensHidden
<1> QED
  BY <1>6, <1>7, <1>8, <1>9, <1>10 DEF IInv

(* Neither the consoles nor the daemons' lists and sends change.             *)
Aside ==
    /\ UNCHANGED <<console, last, stops, marks, dismissed, sender, history>>
    /\ TypeOK'

LEMMA AsideKeeps ==
  ASSUME IInv, Aside
  PROVE  IInv'
<1>1. Shape' /\ OpenIds' /\ DismissedIds'
  BY DEF IInv, Aside, Shape, HistoryOK, Counted, OpenIds, Opens, DismissedIds, Live, Sound
<1>2. MessageIds' /\ Remembered'
  BY DEF IInv, Aside, MessageIds, Remembered, Known, About, Current, Live, Sound
<1>3. OneMessageEach' /\ NothingOpensHidden'
  BY DEF IInv, Aside, OneMessageEach, NothingOpensHidden
<1> QED
  BY <1>1, <1>2, <1>3 DEF IInv

LEMMA AgesAside ==
  ASSUME Shape, NEW d \in Daemons, NEW i \in Requests(d), Ages(i)
  PROVE  Aside
<1>1. i \in ReqId
  <2>1. CASE i \in marks[d].open
    BY <2>1, Fields
  <2>2. CASE i \notin marks[d].open
    <3>1. PICK r \in Records : console[r].agent = "waiting" /\ i = Waiting(r)
      BY <2>2 DEF Requests, ListOf, Here
    <3>2. console[r].sid # 0 /\ console[r].sid \in 0 .. MaxSessions /\ MaxSessions \in Nat
          /\ MaxStops \in Nat
      BY <3>1, Fields DEF Shape, Counted, Gone
    <3> QED
      BY <3>1, <3>2 DEF Waiting, ReqId, Stops
  <2> QED
    BY <2>1, <2>2
<1>2. UNCHANGED <<console, last, idFile, stops, mark, marks, dismissed, present, bots, claimed,
                  sender, told, faults, history>> /\ aged' = aged \cup {i}
  BY DEF Ages, asking, fleet, telling, ids, ghosts
<1> QED
  BY <1>1, <1>2 DEF Aside, Shape, TypeOK

LEMMA MarkAside ==
  ASSUME Shape, NEW r \in Records, Mark(r)
  PROVE  Aside
<1>1. UNCHANGED <<console, last, idFile, aged, stops, marks, dismissed, present, bots, claimed,
                  sender, told, faults, history>> /\ mark' = [mark EXCEPT ![r] = ~mark[r]]
  BY DEF Mark, consoles, fleet, telling, ids
<1>2. mark' \in [Records -> BOOLEAN]
  BY <1>1, Zenon DEF Shape, TypeOK
<1> QED
  BY <1>1, <1>2 DEF Aside, Shape, TypeOK

LEMMA FleetAside ==
  ASSUME Shape,
         \/ \E d \in Daemons : Presence(d) \/ BotChanges(d) \/ Lapse(d)
         \/ \E at \in SUBSET Daemons \ {{}} : ClaimRounds(at)
  PROVE  Aside
<1>1. UNCHANGED <<console, last, idFile, aged, stops, mark, marks, dismissed, sender, told, history>>
  BY DEF Presence, BotChanges, Lapse, ClaimRounds, consoles, asking, telling, ids, ghosts
<1>2. present' \subseteq Daemons
  BY DEF Presence, BotChanges, Lapse, ClaimRounds, Shape, TypeOK
<1>3. bots' \subseteq Daemons
  BY DEF Presence, BotChanges, Lapse, ClaimRounds, Shape, TypeOK
<1>4. claimed' \subseteq Daemons
  BY DEF Presence, BotChanges, Lapse, ClaimRounds, Shape, TypeOK
<1>5. faults' \in 0 .. MaxFaults
  <2>1. faults' = faults \/ \E f : Fault(f)
    BY DEF Presence, BotChanges, Lapse, ClaimRounds, NoFault
  <2> QED
    BY <2>1, FaultAside DEF Shape, TypeOK
<1> QED
  BY <1>1, <1>2, <1>3, <1>4, <1>5 DEF Aside, Shape, TypeOK

-----------------------------------------------------------------------------
(* The send in flight.                                                      *)

(* The daemon's send loses messages, and remembers no fewer.                *)
LEMMA SendKeeps ==
  ASSUME IInv, NEW d \in Daemons, NEW k \in SenderType, sender' = [sender EXCEPT ![d] = k],
         k.todo \subseteq sender[d].todo, sender[d].sent \subseteq k.sent,
         UNCHANGED <<console, last, idFile, aged, stops, mark, marks, dismissed, present, bots,
                     claimed, told, history>>,
         faults' \in 0 .. MaxFaults
  PROVE  IInv'
<1>1. /\ sender' \in [Daemons -> SenderType] /\ sender'[d] = k
      /\ \A x \in Daemons : x # d => sender'[x] = sender[x]
  BY DEF IInv, Shape, TypeOK, SenderType
<1>2. Shape' /\ OpenIds' /\ DismissedIds'
  BY <1>1 DEF IInv, Shape, TypeOK, HistoryOK, Counted, OpenIds, Opens, DismissedIds, Live, Sound,
              SenderType
<1>3. \A x \in Daemons : sender'[x].todo \subseteq sender[x].todo
                          /\ sender[x].sent \subseteq sender'[x].sent
  BY <1>1
<1>4. MessageIds' /\ Remembered'
  BY <1>3 DEF IInv, MessageIds, Remembered, Known, About, Current, Live, Sound
<1>5. OneMessageEach' /\ NothingOpensHidden'
  BY DEF IInv, OneMessageEach, NothingOpensHidden
<1> QED
  BY <1>2, <1>4, <1>5 DEF IInv

LEMMA DeliverOffKeeps ==
  ASSUME IInv, NEW d \in Daemons, DeliverOff(d)
  PROVE  IInv'
<1> DEFINE k == [sender[d] EXCEPT !.todo = {}]
<1>1. k \in SenderType /\ k.todo = {} /\ k.sent = sender[d].sent
  BY Fields DEF IInv, SenderType
<1>2. sender' = [sender EXCEPT ![d] = k]
  BY DEF DeliverOff
<1>3. UNCHANGED <<console, last, idFile, aged, stops, mark, marks, dismissed, present, bots,
                  claimed, history, told, faults>>
  BY DEF DeliverOff, consoles, asking, fleet, ids, ghosts
<1>4. faults' \in 0 .. MaxFaults
  BY <1>3 DEF IInv, Shape, TypeOK
<1> HIDE DEF k
<1> QED
  BY <1>1, <1>2, <1>3, <1>4, SendKeeps

(* A message reaches the operator: the daemon remembers it, or cannot be     *)
(* sure of it.                                                               *)
LEMMA ReachKeeps ==
  ASSUME IInv, NEW d \in Daemons, NEW m \in sender[d].todo, NEW unknown \in SUBSET {m},
         Reaches(d, m, unknown), NEW k \in SenderType, sender' = [sender EXCEPT ![d] = k],
         k.todo = sender[d].todo \ {m}, sender[d].sent \subseteq k.sent,
         m \in k.sent \cup unknown,
         UNCHANGED <<console, last, idFile, aged, stops, mark, marks, dismissed, present, bots,
                     claimed>>,
         faults' \in 0 .. MaxFaults
  PROVE  IInv'
<1>1. Shape /\ OpenIds /\ DismissedIds /\ MessageIds /\ Remembered
  BY DEF IInv
<1>2. m \in Message
  BY <1>1, Fields
<1>3. Sound(Home[m.id.of]) => ~Known(d, m) /\ About(d, m)
  BY <1>1, <1>2 DEF Remembered, MessageIds
<1>4. /\ sender' \in [Daemons -> SenderType] /\ sender'[d] = k
      /\ \A x \in Daemons : x # d => sender'[x] = sender[x]
  BY <1>1 DEF Shape, TypeOK, SenderType
<1> DEFINE got == [history.got EXCEPT ![d] = @ \cup {m}]
           twice == [history.twice EXCEPT ![d] =
                       IF m \in history.got[d] \ history.unsure[d] THEN @ \cup {m} ELSE @]
           unsure == [history.unsure EXCEPT ![d] = (@ \ {m}) \cup unknown]
<1>5. history' = [history EXCEPT !.got = got, !.twice = twice, !.unsure = unsure]
  BY <1>1 DEF Reaches, Shape, HistoryOK
<1>6. /\ got \in [Daemons -> SUBSET Message] /\ got[d] = history.got[d] \cup {m}
      /\ unsure \in [Daemons -> SUBSET Message]
      /\ unsure[d] = (history.unsure[d] \ {m}) \cup unknown
      /\ \A x \in Daemons : x # d => got[x] = history.got[x] /\ unsure[x] = history.unsure[x]
  BY <1>1, <1>2 DEF Shape, HistoryOK
<1>7. /\ twice \in [Daemons -> SUBSET Message]
      /\ \A x \in Daemons : \A n \in twice[x] : n \in history.twice[x] \/ (n = m /\ Known(d, m))
  BY <1>1, <1>2 DEF Shape, HistoryOK, Known
<1> HIDE DEF got, twice, unsure
<1>8. HistoryOK' /\ history'.got = got /\ history'.twice = twice /\ history'.unsure = unsure
      /\ history'.hidden = history.hidden /\ history'.reissued = history.reissued
  BY <1>1, <1>5, <1>6, <1>7 DEF Shape, HistoryOK
<1>9. Shape' /\ OpenIds' /\ DismissedIds'
  <2>1. told' \subseteq Message
    BY <1>1, <1>2 DEF Reaches, Shape, TypeOK
  <2>2. TypeOK'
    BY <1>1, <1>4, <2>1 DEF Shape, TypeOK, SenderType
  <2> QED
    BY <1>1, <1>8, <2>2 DEF Shape, Counted, OpenIds, Opens, DismissedIds, Live, Sound
<1>10. \A x \in Daemons, n \in Message : About(x, n) => About(x, n)'
  BY DEF About, Live
<1>11. \A n \in Message : Current(n)' => Current(n)
  BY DEF Current, Live
<1>12. MessageIds'
  <2> SUFFICES ASSUME NEW x \in Daemons, NEW n \in sender'[x].todo \cup history'.got[x],
                      Sound(Home[n.id.of])
               PROVE  About(x, n)'
    BY <1>8 DEF MessageIds, Sound
  <2>1. (n \in sender[x].todo \cup history.got[x] \/ (x = d /\ n = m)) /\ n \in Message
    BY <1>1, <1>2, <1>4, <1>6, <1>8, Fields
  <2> QED
    BY <1>1, <1>3, <1>10, <2>1 DEF MessageIds
<1>13. Remembered'
  <2> SUFFICES ASSUME NEW x \in Daemons, NEW n \in Message, Sound(Home[n.id.of]), Known(x, n)'
               PROVE  (Current(n)' => n \in sender'[x].sent) /\ n \notin sender'[x].todo
    BY <1>8 DEF Remembered, Sound
  <2>1. CASE x = d /\ n = m
    BY <1>4, <1>6, <1>8, <2>1 DEF Known
  <2>2. CASE ~(x = d /\ n = m)
    <3>1. Known(x, n)
      BY <1>6, <1>8, <2>2 DEF Known
    <3> QED
      BY <1>1, <1>4, <1>11, <3>1 DEF Remembered
  <2> QED
    BY <2>1, <2>2
<1>14. OneMessageEach' /\ NothingOpensHidden'
  BY <1>3, <1>7, <1>8 DEF IInv, OneMessageEach, NothingOpensHidden, Sound
<1> QED
  BY <1>9, <1>12, <1>13, <1>14 DEF IInv

LEMMA DeliverFailsKeeps ==
  ASSUME IInv, NEW d \in Daemons, DeliverFails(d)
  PROVE  IInv'
<1>1. Shape
  BY DEF IInv
<1>2. PICK m \in sender[d].todo :
        /\ sender' = [sender EXCEPT ![d].todo = @ \ {m}]
        /\ Reaches(d, m, {m}) \/ UNCHANGED <<told, history>>
  BY DEF DeliverFails
<1> DEFINE k == [sender[d] EXCEPT !.todo = sender[d].todo \ {m}]
<1>3. k \in SenderType /\ k.todo = sender[d].todo \ {m} /\ k.sent = sender[d].sent
  BY <1>1, Fields DEF SenderType
<1>4. sender' = [sender EXCEPT ![d] = k]
  BY <1>2
<1>5. UNCHANGED <<console, last, idFile, aged, stops, mark, marks, dismissed, present, bots, claimed>>
  BY DEF DeliverFails, consoles, asking, fleet, ids
<1>6. faults' \in 0 .. MaxFaults
  BY <1>1, FaultAside DEF DeliverFails
<1> HIDE DEF k
<1>7. CASE Reaches(d, m, {m})
  BY <1>3, <1>4, <1>5, <1>6, <1>7, ReachKeeps
<1>8. CASE UNCHANGED <<told, history>>
  BY <1>3, <1>4, <1>5, <1>6, <1>8, SendKeeps
<1> QED
  BY <1>2, <1>7, <1>8

LEMMA DeliverKeeps ==
  ASSUME IInv, NEW d \in Daemons, Deliver(d)
  PROVE  IInv'
<1>1. Shape
  BY DEF IInv
<1>2. PICK m \in sender[d].todo :
        /\ sender' = [sender EXCEPT ![d].todo = @ \ {m}, ![d].sent = @ \cup {m}]
        /\ Reaches(d, m, {})
        /\ UNCHANGED <<consoles, asking, fleet, faults>>
  BY DEF Deliver
<1> DEFINE k == [sender[d] EXCEPT !.todo = sender[d].todo \ {m}, !.sent = sender[d].sent \cup {m}]
<1>3. k \in SenderType /\ k.todo = sender[d].todo \ {m} /\ k.sent = sender[d].sent \cup {m}
  BY <1>1, Fields DEF SenderType
<1>4. sender' = [sender EXCEPT ![d] = k]
  BY <1>1, <1>2, Fields DEF Shape, TypeOK, SenderType
<1>5. /\ UNCHANGED <<console, last, idFile, aged, stops, mark, marks, dismissed, present, bots, claimed>>
      /\ faults' \in 0 .. MaxFaults
  BY <1>1, <1>2 DEF consoles, asking, fleet, ids, Shape, TypeOK
<1> HIDE DEF k
<1> QED
  BY <1>2, <1>3, <1>4, <1>5, ReachKeeps

-----------------------------------------------------------------------------
(* A restart.                                                               *)

LEMMA RestartKeeps ==
  ASSUME IInv, NEW d \in Daemons, Restart(d)
  PROVE  IInv'
<1>1. Shape /\ OpenIds /\ DismissedIds /\ MessageIds /\ Remembered
  BY DEF IInv
<1>2. Gone \in ConsoleType /\ Gone.sid = 0 /\ Gone.waits = 0 /\ Gone.turns = 0
  BY AttentionAssumption DEF Gone, ConsoleType, Agents, Stops
<1>3. NoMarks \in MarksType /\ NoMarks.open = {} /\ NoMarks.firing = {} /\ NoSends \in SenderType
      /\ NoSends.sent = {} /\ NoSends.todo = {}
  BY DEF NoMarks, NoSends, MarksType, SenderType
<1>4. /\ console' = [r \in Records |-> IF Home[r] = d THEN Gone ELSE console[r]]
      /\ marks' = [marks EXCEPT ![d] = NoMarks]
      /\ sender' = [sender EXCEPT ![d] = NoSends]
      /\ UNCHANGED <<idFile, stops, mark, dismissed, bots>>
  BY DEF Restart
<1>22. PICK n \in {idFile[d], 0} :
        /\ last' = [last EXCEPT ![d] = n]
        /\ history' = [history EXCEPT
               !.got     = [x \in Daemons |-> {m \in @[x] : x # d /\ Home[m.id.of] # d}],
               !.twice   = [x \in Daemons |-> {m \in @[x] : x # d /\ Home[m.id.of] # d}],
               !.unsure  = [x \in Daemons |-> {m \in @[x] : x # d /\ Home[m.id.of] # d}],
               !.reissued = IF n < last[d] THEN @ \cup {d} ELSE @]
  BY DEF Restart
<1>23. /\ last' \in [Daemons -> 0 .. MaxSessions] /\ last'[d] = n /\ n \in 0 .. MaxSessions
       /\ \A x \in Daemons : x # d => last'[x] = last[x]
       /\ last[d] \in 0 .. MaxSessions /\ MaxSessions \in Nat
  BY <1>1, <1>22, Fields DEF Shape, TypeOK
<1>5. aged' \subseteq ReqId /\ told' \subseteq Message /\ faults' \in 0 .. MaxFaults
      /\ present' \subseteq Daemons /\ claimed' \subseteq Daemons
  BY <1>1, FaultAside DEF Restart, Shape, TypeOK
<1>6. /\ console' \in [Records -> ConsoleType]
      /\ \A r \in Records : Home[r] = d => console'[r] = Gone
      /\ \A r \in Records : Home[r] # d => console'[r] = console[r]
  BY <1>1, <1>2, <1>4, Fields DEF Shape, TypeOK, ConsoleType
<1>7. /\ marks' \in [Daemons -> MarksType] /\ marks'[d].open = {} /\ marks'[d].firing = {}
      /\ \A x \in Daemons : x # d => marks'[x] = marks[x]
  BY <1>1, <1>3, <1>4 DEF Shape, TypeOK, MarksType
<1>8. /\ sender' \in [Daemons -> SenderType] /\ sender'[d].todo = {} /\ sender'[d].sent = {}
      /\ \A x \in Daemons : x # d => sender'[x] = sender[x]
  BY <1>1, <1>3, <1>4 DEF Shape, TypeOK, SenderType
<1> DEFINE got == [x \in Daemons |-> {m \in history.got[x] : x # d /\ Home[m.id.of] # d}]
           twice == [x \in Daemons |-> {m \in history.twice[x] : x # d /\ Home[m.id.of] # d}]
           unsure == [x \in Daemons |-> {m \in history.unsure[x] : x # d /\ Home[m.id.of] # d}]
           reissued == IF n < last[d] THEN history.reissued \cup {d} ELSE history.reissued
<1>9. history' = [history EXCEPT !.got = got, !.twice = twice, !.unsure = unsure,
                                 !.reissued = reissued]
  BY <1>22
<1>10. /\ {got, twice, unsure} \subseteq [Daemons -> SUBSET Message] /\ reissued \subseteq Daemons
       /\ got[d] = {} /\ \A x \in Daemons : got[x] \subseteq history.got[x]
                                           /\ twice[x] \subseteq history.twice[x]
       /\ history.reissued \subseteq reissued
       /\ \A x \in Daemons : x \notin reissued => x \notin history.reissued /\ (x = d => ~(n < last[d]))
  BY <1>1 DEF Shape, HistoryOK
<1>25. \A x \in Daemons : \A m \in got[x] :
           m \in history.got[x] /\ Home[m.id.of] # d /\ (m \in history.unsure[x] => m \in unsure[x])
  OBVIOUS
<1> HIDE DEF got, twice, unsure, reissued
<1>11. HistoryOK' /\ history'.got = got /\ history'.twice = twice /\ history'.unsure = unsure
       /\ history'.hidden = history.hidden /\ history'.reissued = reissued
  BY <1>1, <1>9, <1>10 DEF Shape, HistoryOK
<1>24. ASSUME NEW x \in Daemons, Sound(x)'
       PROVE  Sound(x) /\ \A s \in Int : s <= last[x] => s <= last'[x]
  BY <1>10, <1>11, <1>23, <1>24 DEF Sound
<1>12. Shape'
  <2>1. TypeOK'
    BY <1>1, <1>4, <1>5, <1>6, <1>7, <1>8, <1>23
    DEF Shape, TypeOK, ConsoleType, MarksType, SenderType
  <2>2. Counted'
    <3> SUFFICES ASSUME NEW x \in Records
                 PROVE  /\ console'[x].waits + console'[x].turns <= stops[x]
                        /\ console'[x].sid <= last'[Home[x]]
                        /\ console'[x].sid = 0 => console'[x] = Gone
      BY <1>4 DEF Counted
    <3>1. CASE Home[x] = d
      <4>1. stops[x] >= 0 /\ last'[Home[x]] >= 0 /\ console'[x] = Gone
        BY <1>1, <1>6, <1>23, <3>1, Fields DEF Stops
      <4> QED
        BY <1>2, <4>1
    <3>2. CASE Home[x] # d
      BY <1>1, <1>6, <1>23, <3>2, Fields DEF Shape, Counted
    <3> QED
      BY <3>1, <3>2
  <2> QED
    BY <1>11, <2>1, <2>2 DEF Shape
<1>13. ASSUME NEW i \in ReqId, Home[i.of] = d
       PROVE  ~Live(i)'
  BY <1>2, <1>6, <1>13, IdFields DEF Live
<1>14. ASSUME NEW i \in ReqId, Home[i.of] # d
       PROVE  console'[i.of] = console[i.of] /\ (Live(i)' <=> Live(i))
              /\ marks'[Home[i.of]] = marks[Home[i.of]]
  BY <1>1, <1>6, <1>7, <1>14, IdFields, Fields DEF Live
<1>15. OpenIds'
  <2> SUFFICES ASSUME NEW x \in Daemons, NEW i \in marks'[x].open \cup marks'[x].firing
               PROVE  /\ Home[i.of] = x /\ i.sid <= last'[x] /\ i.turn # 0
                      /\ Live(i)' => i.turn <= console'[i.of].turns
                      /\ \E h \in marks'[x].handled : h.sid = i.sid /\ i.turn <= h.count
    BY DEF OpenIds, Opens
  <2>1. x # d /\ i \in marks[x].open \cup marks[x].firing /\ i \in ReqId /\ marks'[x] = marks[x]
    BY <1>1, <1>7, Fields
  <2>2. /\ Home[i.of] = x /\ i.sid <= last[x] /\ i.turn # 0
        /\ Live(i) => i.turn <= console[i.of].turns
        /\ \E h \in marks[x].handled : h.sid = i.sid /\ i.turn <= h.count
    BY <1>1, <2>1 DEF OpenIds, Opens
  <2> QED
    BY <1>14, <1>23, <2>1, <2>2
<1>16. DismissedIds'
  <2> SUFFICES ASSUME NEW x \in Daemons, NEW i \in dismissed[x], Sound(x)'
               PROVE  /\ Home[i.of] = x /\ i.sid <= last'[x] /\ i.turn # 0
                      /\ Live(i)' => i \in marks'[x].open
    BY <1>4 DEF DismissedIds
  <2>1. i \in ReqId /\ i.sid \in Int
    BY <1>1, Fields, IdFields
  <2>2. Home[i.of] = x /\ i.sid <= last[x] /\ i.turn # 0 /\ (Live(i) => i \in marks[x].open)
    BY <1>1, <1>24 DEF DismissedIds
  <2> QED
    BY <1>13, <1>14, <1>24, <2>1, <2>2
<1>17. ASSUME NEW x \in Daemons, NEW m \in Message, About(x, m), Sound(Home[m.id.of])'
       PROVE  About(x, m)'
  <2>1. m.id \in ReqId /\ m.id.sid \in Int /\ Home[m.id.of] \in Daemons
    BY <1>1, MessageFields, IdFields, Fields
  <2>2. m.id.sid <= last'[Home[m.id.of]]
    BY <1>17, <1>24, <2>1 DEF About
  <2>3. CASE Home[m.id.of] = d
    BY <1>13, <1>17, <2>1, <2>2, <2>3 DEF About
  <2>4. CASE Home[m.id.of] # d
    BY <1>14, <1>17, <2>1, <2>2, <2>4 DEF About
  <2> QED
    BY <2>3, <2>4
<1>18. ASSUME NEW m \in Message, Home[m.id.of] # d, Current(m)'
       PROVE  Current(m)
  <2>1. m.id \in ReqId
    BY MessageFields
  <2> QED
    BY <1>4, <1>14, <1>18, <2>1 DEF Current
<1>19. MessageIds'
  <2> SUFFICES ASSUME NEW x \in Daemons, NEW m \in sender'[x].todo \cup history'.got[x],
                      Sound(Home[m.id.of])'
               PROVE  About(x, m)'
    BY DEF MessageIds
  <2>1. m \in sender[x].todo \cup history.got[x] /\ m \in Message
    BY <1>1, <1>8, <1>10, <1>11, Fields
  <2>2. Home[m.id.of] \in Daemons
    BY <1>1, <2>1, MessageFields, IdFields, Fields
  <2> QED
    BY <1>1, <1>17, <1>24, <2>1, <2>2 DEF MessageIds
<1>20. Remembered'
  <2> SUFFICES ASSUME NEW x \in Daemons, NEW m \in Message, Sound(Home[m.id.of])', Known(x, m)'
               PROVE  (Current(m)' => m \in sender'[x].sent) /\ m \notin sender'[x].todo
    BY DEF Remembered
  <2>3. m \in got[x] /\ m \notin unsure[x]
    BY <1>11 DEF Known
  <2>5. x # d
    BY <1>10, <2>3
  <2>4. m \in history.got[x] /\ Home[m.id.of] # d /\ m \notin history.unsure[x]
    BY <1>25, <2>3
  <2>1. Known(x, m) /\ Home[m.id.of] # d /\ x # d /\ sender'[x] = sender[x]
    BY <1>8, <2>4, <2>5 DEF Known
  <2>2. Sound(Home[m.id.of])
    BY <1>1, <1>24, MessageFields, IdFields, Fields
  <2> QED
    BY <1>1, <1>18, <2>1, <2>2 DEF Remembered
<1>21. OneMessageEach' /\ NothingOpensHidden'
  BY <1>10, <1>11 DEF IInv, OneMessageEach, NothingOpensHidden
<1> QED
  BY <1>12, <1>15, <1>16, <1>19, <1>20, <1>21 DEF IInv

-----------------------------------------------------------------------------
(* A tick: what it opens.                                                   *)

LEMMA HandledType ==
  ASSUME Shape, NEW d \in Daemons
  PROVE  Handled(d) \subseteq [sid : 1 .. MaxSessions, count : Stops]
<1> SUFFICES ASSUME NEW r \in Ended(d)
             PROVE  console[r].sid \in 1 .. MaxSessions /\ console[r].turns \in Stops
  BY DEF Handled
<1>1. r \in Records /\ console[r].turns > 0
  BY DEF Ended, Here
<1>2. console[r].turns \in Stops /\ console[r].sid \in 0 .. MaxSessions /\ MaxSessions \in Nat
  BY <1>1, Fields
<1>3. console[r].sid # 0
  BY <1>1 DEF Shape, Counted, Gone
<1> QED
  BY <1>2, <1>3

(* A fresh turn is none a tick looked at, so its request is not open; it was *)
(* dismissed before only where ids started again.                           *)
LEMMA FiredFields ==
  ASSUME IInv, NEW d \in Daemons, NEW r \in Fires(d)
  PROVE  LET i == Done(r, console[r].turns) IN
         /\ i \in ReqId /\ Home[i.of] = d /\ i.sid <= last[d] /\ i.turn # 0
         /\ i.of = r /\ i.sid = console[r].sid /\ i.turn = console[r].turns
         /\ r \in Ended(d) /\ (i \in dismissed[d] => ~Sound(d))
<1>1. Shape /\ OpenIds /\ DismissedIds
  BY DEF IInv
<1>2. /\ r \in Records /\ Home[r] = d /\ console[r].turns > 0 /\ r \in Ended(d)
      /\ \A h \in marks[d].handled : h.sid = console[r].sid => console[r].turns > h.count
  BY DEF Fires, Fresh, Ended, Here
<1>3. console[r].turns \in Stops /\ console[r].sid \in 0 .. MaxSessions /\ MaxSessions \in Nat
  BY <1>1, <1>2, Fields
<1>4. console[r].sid # 0 /\ console[r].sid <= last[d]
  BY <1>1, <1>2 DEF Shape, Counted, Gone
<1>5. console[r].sid \in 1 .. MaxSessions
  BY <1>3, <1>4
<1> DEFINE i == Done(r, console[r].turns)
<1>6. i \in ReqId /\ i.of = r /\ i.sid = console[r].sid /\ i.turn = console[r].turns
  BY <1>2, <1>3, <1>5 DEF Done, ReqId
<1> HIDE DEF i
<1>7. ASSUME i \in dismissed[d], Sound(d)
      PROVE  FALSE
  <2>1. i \in marks[d].open
    BY <1>1, <1>6, <1>7 DEF DismissedIds, Live
  <2>2. PICK h \in marks[d].handled : h.sid = i.sid /\ i.turn <= h.count
    BY <1>1, <2>1 DEF OpenIds, Opens
  <2>3. h.count \in Int /\ i.turn \in Int /\ i.turn > h.count
    BY <1>1, <1>2, <1>3, <1>6, <2>2, Fields DEF Stops
  <2> QED
    BY <2>2, <2>3
<1> QED
  BY <1>2, <1>3, <1>4, <1>6, <1>7 DEF i, Stops

(* What a tick looks at, with the requests it opens.                        *)
LEMMA LooksOpens ==
  ASSUME IInv, NEW d \in Daemons, NEW fires \in SUBSET Fires(d), Looks(d, fires)
  PROVE  \E k \in MarksType :
            /\ marks' = [marks EXCEPT ![d] = k] /\ k.open = StillOpen(d) /\ Opens(d, k)
            /\ \A i \in marks[d].open : Live(i) => i \in k.open
<1>1. Shape /\ OpenIds
  BY DEF IInv
<1> DEFINE firing == {Done(r, console[r].turns) : r \in fires}
           k == [handled |-> Handled(d), open |-> StillOpen(d), firing |-> firing]
<1>2. marks[d].open \subseteq ReqId
  BY <1>1, Fields
<1>3. StillOpen(d) \subseteq ReqId /\ firing \subseteq ReqId
  BY <1>2, FiredFields DEF StillOpen
<1>4. k \in MarksType /\ k.open = StillOpen(d) /\ k.handled = Handled(d) /\ k.firing = firing
  BY <1>1, <1>3, HandledType DEF MarksType
<1>5. ASSUME NEW r \in Ended(d)
      PROVE  \E h \in Handled(d) : h.sid = console[r].sid /\ h.count = console[r].turns
  <2>1. [sid |-> console[r].sid, count |-> console[r].turns] \in Handled(d)
    BY DEF Handled
  <2> QED
    BY <2>1
<1>6. ASSUME NEW i \in StillOpen(d) \cup firing
      PROVE  /\ Home[i.of] = d /\ i.sid <= last[d] /\ i.turn # 0
             /\ i.turn <= console[i.of].turns
             /\ \E h \in Handled(d) : h.sid = i.sid /\ i.turn <= h.count
  <2>1. CASE i \in StillOpen(d)
    <3>1. i \in marks[d].open /\ i.of \in Ended(d) /\ console[i.of].sid = i.sid
      BY <2>1 DEF StillOpen
    <3>2. /\ Home[i.of] = d /\ i.sid <= last[d] /\ i.turn # 0
          /\ i.turn <= console[i.of].turns
      BY <1>1, <3>1 DEF OpenIds, Opens, Live
    <3> QED
      BY <1>5, <3>1, <3>2
  <2>2. CASE i \in firing
    <3>1. PICK r \in fires : i = Done(r, console[r].turns)
      BY <2>2
    <3>2. /\ Home[i.of] = d /\ i.sid <= last[d] /\ i.turn # 0 /\ i.of = r
          /\ i.sid = console[r].sid /\ i.turn = console[r].turns /\ r \in Ended(d)
          /\ i.turn \in Stops
      BY <3>1, FiredFields DEF ReqId
    <3> QED
      BY <1>5, <3>2 DEF Stops
  <2> QED
    BY <1>6, <2>1, <2>2
<1>7. Opens(d, k)
  BY <1>4, <1>6 DEF Opens
<1>8. ASSUME NEW i \in marks[d].open, Live(i)
      PROVE  i \in StillOpen(d)
  <2>1. /\ i.of \in Records /\ Home[i.of] = d /\ i.turn # 0 /\ i.turn <= console[i.of].turns
        /\ i.turn \in Stops /\ console[i.of].turns \in Stops
    BY <1>1, <1>2, <1>8, IdFields, Fields DEF OpenIds, Opens
  <2> QED
    BY <1>8, <2>1 DEF StillOpen, Ended, Here, Live, Stops
<1>9. marks' = [marks EXCEPT ![d] = k]
  BY DEF Looks
<1> HIDE DEF k
<1> QED
  BY <1>4, <1>7, <1>8, <1>9

(* The marks of a daemon change to others that open its requests, the lists  *)
(* of the running sessions included.                                         *)
MarksAfter(d, k) ==
    /\ k \in MarksType /\ marks' = [marks EXCEPT ![d] = k] /\ Opens(d, k)
    /\ \A i \in marks[d].open : Live(i) => i \in k.open
    /\ UNCHANGED <<console, last, stops, dismissed>> /\ history'.reissued = history.reissued

LEMMA MarksKeep ==
  ASSUME IInv, NEW d \in Daemons, NEW k, MarksAfter(d, k)
  PROVE  /\ marks' \in [Daemons -> MarksType] /\ marks'[d] = k
         /\ \A x \in Daemons : x # d => marks'[x] = marks[x]
         /\ OpenIds' /\ DismissedIds'
         /\ \A x \in Daemons, m \in Message : About(x, m) => About(x, m)'
         /\ \A m : Current(m)' <=> Current(m)
         /\ \A x : Sound(x)' <=> Sound(x)
<1>1. Shape /\ OpenIds /\ DismissedIds
  BY DEF IInv
<1>2. /\ marks' \in [Daemons -> MarksType] /\ marks'[d] = k
      /\ \A x \in Daemons : x # d => marks'[x] = marks[x]
  BY <1>1 DEF MarksAfter, Shape, TypeOK, MarksType
<1>3. /\ \A i : Live(i)' <=> Live(i)
      /\ \A x : Sound(x)' <=> Sound(x)
  BY DEF MarksAfter, Live, Sound
<1>4. \A m : Current(m)' <=> Current(m)
  BY <1>3 DEF MarksAfter, Current
<1>5. OpenIds'
  <2> SUFFICES ASSUME NEW x \in Daemons PROVE Opens(x, marks[x])'
    BY DEF OpenIds
  <2>1. Opens(x, marks'[x])
    BY <1>1, <1>2 DEF OpenIds, MarksAfter
  <2> QED
    BY <1>3, <2>1 DEF Opens, MarksAfter
<1>6. DismissedIds'
  <2> SUFFICES ASSUME NEW x \in Daemons, NEW i \in dismissed[x], Sound(x)
               PROVE  /\ Home[i.of] = x /\ i.sid <= last[x] /\ i.turn # 0
                      /\ Live(i) => i \in marks'[x].open
    BY <1>3 DEF DismissedIds, MarksAfter
  <2>1. /\ Home[i.of] = x /\ i.sid <= last[x] /\ i.turn # 0
        /\ Live(i) => i \in marks[x].open
    BY <1>1 DEF DismissedIds
  <2> QED
    BY <1>2, <2>1 DEF MarksAfter
<1>7. ASSUME NEW x \in Daemons, NEW m \in Message, About(x, m)
      PROVE  About(x, m)'
  <2>1. Home[m.id.of] \in Daemons
    BY <1>1, MessageFields, IdFields, Fields
  <2>2. ASSUME Live(m.id), m.id \in marks[Home[m.id.of]].open
        PROVE  m.id \in marks'[Home[m.id.of]].open
    BY <1>2, <2>1, <2>2 DEF MarksAfter
  <2> QED
    BY <1>3, <1>7, <2>2 DEF About, MarksAfter
<1> QED
  BY <1>2, <1>3, <1>4, <1>5, <1>6, <1>7

(* What the list of a daemon holds, from these open requests.               *)
LEMMA Listed ==
  ASSUME Shape, NEW x \in Daemons, NEW open \in SUBSET ReqId,
         \A i \in open : Home[i.of] = x /\ i.turn # 0,
         NEW i \in ListOf(x, open)
  PROVE  /\ i \in ReqId /\ Home[i.of] = x /\ Live(i) /\ i \notin dismissed[x]
         /\ IF i.turn = 0 THEN console[i.of].agent = "waiting" ELSE i \in open
<1>1. i \notin dismissed[x]
  BY DEF ListOf
<1>2. CASE i \in open
  <2>1. i.sid = console[i.of].sid
    <3>1. CASE \E r \in Here(x) : i = Waiting(r)
      BY <3>1 DEF Waiting, Here
    <3>2. CASE ~\E r \in Here(x) : i = Waiting(r)
      BY <3>2 DEF ListOf
    <3> QED
      BY <3>1, <3>2
  <2> QED
    BY <1>1, <1>2, <2>1 DEF Live
<1>3. CASE i \notin open
  <2>1. PICK r \in Records : Home[r] = x /\ console[r].agent = "waiting" /\ i = Waiting(r)
    BY <1>3 DEF ListOf, Here
  <2>2. console[r].sid # 0 /\ console[r].sid \in 0 .. MaxSessions /\ MaxSessions \in Nat
        /\ MaxStops \in Nat
    BY <2>1, Fields DEF Shape, Counted, Gone
  <2>3. i.of = r /\ i.sid = console[r].sid /\ i.turn = 0
    BY <2>1 DEF Waiting
  <2>4. i \in ReqId
    BY <2>1, <2>2 DEF Waiting, ReqId, Stops
  <2> QED
    BY <1>1, <2>1, <2>3, <2>4 DEF Live
<1> QED
  BY <1>2, <1>3

LEMMA ListedBack ==
  ASSUME NEW x \in Daemons, NEW open \in SUBSET ReqId, NEW i \in ReqId,
         Home[i.of] = x, Live(i), i \notin dismissed[x],
         IF i.turn = 0 THEN console[i.of].agent = "waiting" ELSE i \in open
  PROVE  i \in ListOf(x, open)
<1>1. i.of \in Here(x)
  BY IdFields DEF Here
<1>2. CASE i.turn = 0
  <2>1. i = Waiting(i.of)
    BY <1>2 DEF Live, Waiting, ReqId
  <2> QED
    BY <1>1, <1>2, <2>1 DEF ListOf
<1>3. CASE i.turn # 0
  BY <1>3 DEF ListOf, Live
<1> QED
  BY <1>2, <1>3

LEMMA MessageOfFields ==
  ASSUME Shape, NEW i \in ReqId
  PROVE  /\ MessageOf(i) \in Message /\ MessageOf(i).id = i
         /\ i.turn = 0 => MessageOf(i).wait = console[i.of].waits
<1>1. console[i.of].waits \in Stops /\ 0 \in Stops
  BY Fields, IdFields DEF Stops
<1> QED
  BY <1>1 DEF MessageOf, Message

-----------------------------------------------------------------------------
(* A tick: what it sends.                                                   *)

LEMMA TickKeeps ==
  ASSUME IInv, NEW d \in Daemons, NEW k, MarksAfter(d, k),
         NEW silent \in SUBSET PeersOf[d], NEW unread \in SUBSET PeersOf[d],
         Notify(d, ListOf(d, k.open), silent, unread),
         UNCHANGED <<idFile, aged, present, bots, claimed, told>>,
         mark' \in [Records -> BOOLEAN], faults' \in 0 .. MaxFaults
  PROVE  IInv'
<1>1. Shape /\ OpenIds /\ DismissedIds /\ MessageIds /\ Remembered
  BY DEF IInv
<1> DEFINE open == k.open
           peers == PeersOf[d] \ (silent \cup unread)
           own == ListOf(d, open)
           all == own \cup UNION {Requests(p) : p \in peers}
           sent == Keeps(d, all, silent)
           there == present \cap ({d} \cup peers) # {}
           todo == {MessageOf(i) : i \in Due(all, sent, there)}
           unknown == {m \in sender[d].sent \ sent : Home[m.id.of] \in unread}
           n == [sent |-> sent, todo |-> todo]
           unsure == [history.unsure EXCEPT ![d] = @ \cup unknown]
<1>2. /\ open \subseteq ReqId
      /\ \A i \in open : Home[i.of] = d /\ i.turn # 0
      /\ \A i \in marks[d].open : Live(i) => i \in open
  BY DEF MarksAfter, MarksType, Opens
<1>3. \/ sender' = sender /\ history' = history
      \/ sender' = [sender EXCEPT ![d] = n] /\ history' = [history EXCEPT !.unsure = unsure]
  BY <1>1 DEF Notify, Shape, HistoryOK
<1>4. UNCHANGED <<console, last, idFile, aged, stops, dismissed, present, bots, claimed, told>>
  BY DEF MarksAfter
<1>5. ASSUME NEW i \in all
      PROVE  /\ i \in ReqId /\ Home[i.of] \in {d} \cup PeersOf[d] /\ Live(i)
             /\ i \notin dismissed[Home[i.of]]
             /\ IF i.turn = 0 THEN console[i.of].agent = "waiting"
                ELSE i \in (IF Home[i.of] = d THEN open ELSE marks[Home[i.of]].open)
  <2>1. CASE i \in own
    BY <1>1, <1>2, <2>1, Listed
  <2>2. CASE i \notin own
    <3>1. PICK p \in peers : i \in ListOf(p, marks[p].open)
      BY <1>5, <2>2 DEF Requests
    <3>2. p \in Daemons /\ p \in PeersOf[d]
      BY AttentionAssumption
    <3>3. marks[p].open \in SUBSET ReqId /\ \A j \in marks[p].open : Home[j.of] = p /\ j.turn # 0
      BY <1>1, <3>2, Fields DEF OpenIds, Opens
    <3>4. /\ i \in ReqId /\ Home[i.of] = p /\ Live(i) /\ i \notin dismissed[p]
          /\ IF i.turn = 0 THEN console[i.of].agent = "waiting" ELSE i \in marks[p].open
      BY <1>1, <3>1, <3>2, <3>3, Listed
    <3> QED
      BY <1>1, <1>2, <3>2, <3>4 DEF OpenIds, Opens
  <2> QED
    BY <2>1, <2>2
<1>6. ASSUME NEW i \in ReqId, Home[i.of] \in {d} \cup PeersOf[d],
             Home[i.of] \notin silent \cup unread \/ Home[i.of] = d,
             Live(i), i \notin dismissed[Home[i.of]],
             IF i.turn = 0 THEN console[i.of].agent = "waiting" ELSE i \in marks[Home[i.of]].open
      PROVE  i \in all
  <2>1. CASE Home[i.of] = d
    <3>1. open \in SUBSET ReqId
      BY <1>2
    <3>2. i.turn # 0 => i \in open
      BY <1>2, <1>6, <2>1
    <3>3. i \in own
      BY <1>6, <2>1, <3>1, <3>2, ListedBack
    <3> QED
      BY <3>3
  <2>2. CASE Home[i.of] # d
    <3>1. Home[i.of] \in peers /\ Home[i.of] \in Daemons
      BY <1>6, <2>2, AttentionAssumption
    <3>2. i \in ListOf(Home[i.of], marks[Home[i.of]].open)
      BY <1>1, <1>6, <3>1, ListedBack, Fields
    <3> QED
      BY <3>1, <3>2 DEF Requests
  <2> QED
    BY <2>1, <2>2
<1>7. n \in SenderType /\ n.sent = sent /\ n.todo = todo /\ unknown \subseteq Message
  <2>1. sent \subseteq Message /\ unknown \subseteq Message
    BY <1>1, Fields DEF Keeps
  <2>2. todo \subseteq Message
    BY <1>1, <1>5, MessageOfFields DEF Due
  <2> QED
    BY <2>1, <2>2 DEF SenderType
<1>8. ASSUME NEW m \in Message, About(d, m), Current(m), m \in sender[d].sent,
             Sound(Home[m.id.of])
      PROVE  m \in sent \cup unknown
  <2>1. m.id \in ReqId
    BY MessageFields
  <2>2. CASE Home[m.id.of] \in silent \cup unread
    BY <1>8, <2>2 DEF Keeps
  <2>3. CASE Home[m.id.of] \notin silent \cup unread
    <3>1. /\ Home[m.id.of] \in {d} \cup PeersOf[d] /\ Live(m.id)
          /\ IF m.id.turn = 0 THEN console[m.id.of].agent = "waiting"
             ELSE m.id \in marks[Home[m.id.of]].open
      BY <1>8 DEF About, Current
    <3>2. m.id \notin dismissed[Home[m.id.of]]
      BY <1>1, <1>8, <2>1, Fields, IdFields DEF Current, DismissedIds
    <3>3. m.id \in all
      BY <1>6, <2>1, <2>3, <3>1, <3>2
    <3> QED
      BY <1>8, <3>3 DEF Keeps
  <2> QED
    BY <2>2, <2>3
<1>9. ASSUME NEW m \in todo
      PROVE  /\ m \in Message /\ Current(m) /\ m \notin sent
             /\ \A o \in sent : o.id # m.id
             /\ Home[m.id.of] \in {d} \cup PeersOf[d]
             /\ m.id.sid <= last[Home[m.id.of]]
             /\ IF m.id.turn = 0 THEN m.wait <= console[m.id.of].waits
                ELSE m.id \in (IF Home[m.id.of] = d THEN open ELSE marks[Home[m.id.of]].open)
  <2>1. PICK i \in all : m = MessageOf(i) /\ \A o \in sent : o.id # i
    BY DEF Due
  <2>2. m.id = i /\ m \in Message /\ i \in ReqId /\ (i.turn = 0 => m.wait = console[i.of].waits)
    BY <1>1, <1>5, <2>1, MessageOfFields
  <2>3. i.of \in Records /\ Home[i.of] \in Daemons /\ console[i.of].waits \in Int
        /\ console[i.of].sid <= last[Home[i.of]]
    BY <1>1, <2>2, IdFields, Fields DEF Shape, Counted, Stops
  <2>4. m.id.sid <= last[Home[m.id.of]]
    BY <1>5, <2>2, <2>3 DEF Live
  <2>5. Current(m)
    BY <1>5, <2>2 DEF Current
  <2> QED
    BY <1>5, <2>1, <2>2, <2>3, <2>4, <2>5
<1>10. /\ unsure \in [Daemons -> SUBSET Message] /\ unsure[d] = history.unsure[d] \cup unknown
       /\ \A x \in Daemons : x # d => unsure[x] = history.unsure[x]
  BY <1>1, <1>7 DEF Shape, HistoryOK
<1> HIDE DEF open, peers, own, all, sent, there, todo, unknown, n, unsure
<1>11. /\ HistoryOK' /\ history'.got = history.got /\ history'.twice = history.twice
       /\ history'.hidden = history.hidden /\ history'.reissued = history.reissued
       /\ history'.unsure \in {history.unsure, unsure}
  BY <1>1, <1>3, <1>10 DEF Shape, HistoryOK
<1>12. /\ sender' \in [Daemons -> SenderType]
       /\ \A x \in Daemons : x # d => sender'[x] = sender[x]
       /\ \/ sender'[d] = sender[d] /\ history'.unsure = history.unsure
          \/ sender'[d].sent = sent /\ sender'[d].todo = todo /\ history'.unsure = unsure
  <2>1. CASE sender' = sender /\ history' = history
    BY <1>1, <2>1 DEF Shape, TypeOK, SenderType
  <2>2. CASE sender' = [sender EXCEPT ![d] = n] /\ history' = [history EXCEPT !.unsure = unsure]
    <3>1. history'.unsure = unsure
      BY <1>1, <2>2 DEF Shape, HistoryOK
    <3>2. /\ sender' \in [Daemons -> SenderType] /\ sender'[d] = n
          /\ \A x \in Daemons : x # d => sender'[x] = sender[x]
      BY <1>1, <1>7, <2>2 DEF Shape, TypeOK, SenderType
    <3> QED
      BY <1>7, <3>1, <3>2
  <2> QED
    BY <1>3, <2>1, <2>2
<1>13. /\ marks' \in [Daemons -> MarksType] /\ marks'[d] = k
       /\ \A x \in Daemons : x # d => marks'[x] = marks[x]
       /\ OpenIds' /\ DismissedIds'
       /\ \A x \in Daemons, m \in Message : About(x, m) => About(x, m)'
       /\ \A m : Current(m)' <=> Current(m)
       /\ \A x : Sound(x)' <=> Sound(x)
  BY MarksKeep
<1>14. Shape'
  <2>1. TypeOK'
    BY <1>1, <1>4, <1>12, <1>13 DEF Shape, TypeOK, MarksType, SenderType
  <2> QED
    BY <1>1, <1>4, <1>11, <2>1 DEF Shape, Counted
<1>15. ASSUME NEW m \in todo
       PROVE  About(d, m)'
  <2>1. Home[m.id.of] \in Daemons
    BY <1>1, <1>9, MessageFields, IdFields, Fields
  <2> QED
    BY <1>4, <1>9, <1>13, <2>1 DEF About, open
<1>16. MessageIds'
  <2> SUFFICES ASSUME NEW x \in Daemons, NEW m \in sender'[x].todo \cup history.got[x],
                      Sound(Home[m.id.of])
               PROVE  About(x, m)'
    BY <1>11, <1>13 DEF MessageIds
  <2>1. m \in sender[x].todo \cup history.got[x] \/ (x = d /\ m \in todo)
    BY <1>12
  <2>2. sender[x].todo \subseteq Message /\ history.got[x] \subseteq Message
    BY <1>1, Fields
  <2> QED
    BY <1>1, <1>13, <1>15, <2>1, <2>2 DEF MessageIds
<1>17. Remembered'
  <2> SUFFICES ASSUME NEW x \in Daemons, NEW m \in Message, Sound(Home[m.id.of]), Known(x, m)'
               PROVE  (Current(m) => m \in sender'[x].sent) /\ m \notin sender'[x].todo
    BY <1>13 DEF Remembered
  <2>1. Known(x, m)
    BY <1>10, <1>11 DEF Known
  <2>2. /\ Current(m) => m \in sender[x].sent
        /\ m \notin sender[x].todo /\ About(x, m)
    BY <1>1, <2>1 DEF Remembered, MessageIds, Known
  <2>3. CASE sender'[x] = sender[x]
    BY <2>2, <2>3
  <2>4. CASE x = d /\ sender'[d].sent = sent /\ sender'[d].todo = todo /\ history'.unsure = unsure
    <3>1. m \notin unknown
      BY <1>10, <2>4 DEF Known
    <3>2. Current(m) => m \in sent
      BY <1>8, <2>2, <2>4, <3>1
    <3> QED
      BY <1>9, <2>4, <3>2
  <2> QED
    BY <1>12, <2>3, <2>4
<1>18. OneMessageEach' /\ NothingOpensHidden'
  BY <1>11 DEF IInv, OneMessageEach, NothingOpensHidden
<1> QED
  BY <1>13, <1>14, <1>16, <1>17, <1>18 DEF IInv

(* A tick that opens nothing new, its desk read or not.                     *)
LEMMA TickAgain ==
  ASSUME IInv, NEW d \in Daemons, NEW silent \in SUBSET PeersOf[d],
         NEW unread \in SUBSET PeersOf[d],
         Looks(d, {}), Notify(d, ListOf(d, StillOpen(d)), silent, unread),
         UNCHANGED <<consoles, mark, dismissed, fleet, told>>, faults' \in 0 .. MaxFaults
  PROVE  IInv'
<1>1. Shape /\ {} \in SUBSET Fires(d)
  BY DEF IInv
<1>2. PICK k \in MarksType :
        /\ marks' = [marks EXCEPT ![d] = k] /\ k.open = StillOpen(d) /\ Opens(d, k)
        /\ \A i \in marks[d].open : Live(i) => i \in k.open
  BY <1>1, LooksOpens
<1>3. UNCHANGED <<console, last, idFile, aged, stops, mark, dismissed, present, bots, claimed, told>>
  BY DEF consoles, fleet, ids
<1>4. history'.reissued = history.reissued
  BY <1>1 DEF Notify, Shape, HistoryOK
<1>5. MarksAfter(d, k)
  BY <1>2, <1>3, <1>4 DEF MarksAfter
<1>6. mark' \in [Records -> BOOLEAN]
  BY <1>1, <1>3 DEF Shape, TypeOK
<1> QED
  BY <1>2, <1>3, <1>5, <1>6, TickKeeps

LEMMA ClearsKeep ==
  ASSUME IInv, NEW d \in Daemons, NEW clears, NEW silent \in SUBSET PeersOf[d],
         NEW unread \in SUBSET PeersOf[d],
         TickClears(d, clears, silent, unread), faults' \in 0 .. MaxFaults
  PROVE  IInv'
<1>1. Shape /\ OpenIds
  BY DEF IInv
<1> DEFINE open == marks[d].open \cup marks[d].firing
           k == [marks[d] EXCEPT !.open = open, !.firing = {}]
<1>2. k \in MarksType /\ k.open = open /\ k.firing = {} /\ k.handled = marks[d].handled
  BY <1>1, Fields DEF MarksType
<1>3. marks' = [marks EXCEPT ![d] = k]
  BY <1>1, Fields DEF TickClears, Shape, TypeOK, MarksType
<1>4. Opens(d, k)
  BY <1>1, <1>2 DEF OpenIds, Opens
<1>5. UNCHANGED <<console, last, idFile, aged, stops, dismissed, present, bots, claimed, told>>
  BY DEF TickClears, consoles, fleet, ids
<1>6. Notify(d, ListOf(d, k.open), silent, unread)
  BY <1>2 DEF TickClears
<1>7. history'.reissued = history.reissued
  BY <1>1, <1>6 DEF Notify, Shape, HistoryOK
<1>8. mark' \in [Records -> BOOLEAN]
  BY DEF TickClears
<1>9. MarksAfter(d, k)
  BY <1>2, <1>3, <1>4, <1>5, <1>7 DEF MarksAfter
<1> HIDE DEF k
<1> QED
  BY <1>5, <1>6, <1>8, <1>9, TickKeeps

LEMMA OpensKeep ==
  ASSUME IInv, NEW d \in Daemons, TickOpens(d)
  PROVE  IInv'
<1>1. Shape /\ MessageIds /\ Remembered
  BY DEF IInv
<1>2. PICK k \in MarksType :
        /\ marks' = [marks EXCEPT ![d] = k] /\ Opens(d, k)
        /\ \A i \in marks[d].open : Live(i) => i \in k.open
  BY LooksOpens DEF TickOpens
<1> DEFINE new == {i \in dismissed[d] : \E r \in Fires(d) : i = Done(r, console[r].turns)}
<1>3. /\ UNCHANGED <<console, last, idFile, aged, stops, mark, dismissed, present, bots, claimed,
                     sender, told, faults>>
      /\ history' = [history EXCEPT !.hidden = @ \cup new]
  BY DEF TickOpens, consoles, fleet, telling, ids
<1>4. new \subseteq ReqId /\ \A i \in new : Home[i.of] = d /\ ~Sound(d)
  BY <1>1, Fields, FiredFields
<1> HIDE DEF new
<1>5. /\ HistoryOK' /\ history'.got = history.got /\ history'.twice = history.twice
      /\ history'.unsure = history.unsure /\ history'.hidden = history.hidden \cup new
      /\ history'.reissued = history.reissued
  BY <1>1, <1>3, <1>4 DEF Shape, HistoryOK
<1>6. MarksAfter(d, k)
  BY <1>2, <1>3, <1>5 DEF MarksAfter
<1>7. /\ marks' \in [Daemons -> MarksType] /\ OpenIds' /\ DismissedIds'
      /\ \A x \in Daemons, m \in Message : About(x, m) => About(x, m)'
      /\ \A m : Current(m)' <=> Current(m)
      /\ \A x : Sound(x)' <=> Sound(x)
  BY <1>6, MarksKeep
<1>8. Shape'
  <2>1. TypeOK'
    BY <1>1, <1>3, <1>7 DEF Shape, TypeOK, MarksType
  <2> QED
    BY <1>1, <1>3, <1>5, <2>1 DEF Shape, Counted
<1>9. MessageIds'
  <2>1. \A x \in Daemons : sender[x].todo \cup history.got[x] \subseteq Message
    BY <1>1, Fields
  <2> QED
    BY <1>1, <1>3, <1>5, <1>7, <2>1 DEF MessageIds
<1>10. Remembered'
  BY <1>1, <1>3, <1>5, <1>7 DEF Remembered, Known
<1>11. OneMessageEach' /\ NothingOpensHidden'
  BY <1>4, <1>5 DEF IInv, OneMessageEach, NothingOpensHidden, Sound
<1> QED
  BY <1>7, <1>8, <1>9, <1>10, <1>11 DEF IInv

LEMMA EveryTickKeeps ==
  ASSUME IInv, NEW d \in Daemons, Tick(d) \/ TickUpset(d)
  PROVE  IInv'
<1>1. Shape
  BY DEF IInv
<1>2. faults' \in 0 .. MaxFaults
  <2>1. faults' = faults \/ \E f : Fault(f)
    BY DEF Tick, TickUpset, TickOpens, TickNoDesk, SomeMissed, NoFault
  <2> QED
    BY <1>1, <2>1, FaultAside DEF Shape, TypeOK
<1>3. {} \in SUBSET PeersOf[d]
  OBVIOUS
<1>4. CASE TickOpens(d)
  BY <1>4, OpensKeep
<1>5. CASE TickNoDesk(d)
  BY <1>2, <1>3, <1>5, TickAgain DEF TickNoDesk
<1>6. ASSUME NEW silent \in SUBSET PeersOf[d], NEW unread \in SUBSET PeersOf[d],
             TickWith(d, silent, unread)
      PROVE  IInv'
  BY <1>2, <1>6, TickAgain DEF TickWith
<1>7. ASSUME NEW clears, NEW silent \in SUBSET PeersOf[d], NEW unread \in SUBSET PeersOf[d],
             TickClears(d, clears, silent, unread)
      PROVE  IInv'
  BY <1>2, <1>7, ClearsKeep
<1> QED
  BY <1>3, <1>4, <1>5, <1>6, <1>7 DEF Tick, TickUpset

-----------------------------------------------------------------------------
(* Every step, and the theorems.                                            *)

LEMMA StepInv == IInv /\ [Next]_vars => IInv'
<1> SUFFICES ASSUME IInv, [Next]_vars PROVE IInv'
  OBVIOUS
<1>0. Shape
  BY DEF IInv
<1>1. ASSUME NEW r \in Records, OpenConsole(r) \/ CloseConsole(r) \/ Mark(r)
      PROVE  IInv'
  BY <1>0, <1>1, NewConsole, ConsoleCloses, MarkAside, ConsoleKeeps, AsideKeeps
<1>2. ASSUME NEW r \in Records, AgentWorks(r) \/ AgentWaits(r) \/ TurnEnds(r) \/ AgentRests(r)
      PROVE  IInv'
  BY <1>0, <1>2, AgentGoesOn, AgentStops, TurnStops, ConsoleKeeps
<1>3. ASSUME NEW d \in Daemons, NEW i \in Requests(d), Dismiss(d, i)
      PROVE  IInv'
  BY <1>3, DismissKeeps
<1>4. ASSUME NEW d \in Daemons, NEW i \in Requests(d), Ages(i)
      PROVE  IInv'
  BY <1>0, <1>4, AgesAside, AsideKeeps
<1>5. ASSUME NEW d \in Daemons, Presence(d) \/ BotChanges(d) \/ Lapse(d)
      PROVE  IInv'
  BY <1>0, <1>5, FleetAside, AsideKeeps
<1>6. ASSUME NEW at \in SUBSET Daemons \ {{}}, ClaimRounds(at)
      PROVE  IInv'
  BY <1>0, <1>6, FleetAside, AsideKeeps
<1>7. ASSUME NEW d \in Daemons, Tick(d) \/ TickUpset(d)
      PROVE  IInv'
  BY <1>7, EveryTickKeeps
<1>10. ASSUME NEW d \in Daemons, Deliver(d) \/ DeliverOff(d) \/ DeliverFails(d) \/ Restart(d)
       PROVE  IInv'
  BY <1>10, DeliverKeeps, DeliverOffKeeps, DeliverFailsKeeps, RestartKeeps
<1>11. CASE UNCHANGED vars
  BY <1>0, <1>11, AsideKeeps DEF vars, Aside, Shape, TypeOK
<1>12. CASE Operator
  BY <1>1, <1>3, <1>5, <1>12 DEF Operator
<1>13. CASE Agent
  BY <1>2, <1>13 DEF Agent
<1>14. CASE Clock
  BY <1>4, <1>5, <1>14 DEF Clock
<1>15. CASE Upset
  BY <1>7, <1>10, <1>15 DEF Upset
<1>16. CASE \E d \in Daemons : Daemon(d)
  BY <1>7, <1>10, <1>16 DEF Daemon
<1> QED
  BY <1>6, <1>11, <1>12, <1>13, <1>14, <1>15, <1>16 DEF Next

LEMMA SpecInv == Spec => []IInv
  BY InitInv, StepInv, PTL DEF Spec

(* The state keeps its shape: the counts of a console stay within the stops  *)
(* of its window, and no request is about session 0.                         *)
THEOREM AttentionTypeCorrect == Spec => []TypeOK
<1>1. IInv => TypeOK
  BY DEF IInv, Shape
<1> QED
  BY <1>1, SpecInv, PTL

(* One request is one message, for each daemon and in every fleet: what a    *)
(* daemon delivered about a request that is still listed is among its sent   *)
(* ids, whichever peers stay silent and whenever its claim comes and goes,   *)
(* unless the answer to the send was lost, the descriptor of the request's   *)
(* daemon could not be read since, or that daemon's ids started again.       *)
THEOREM AttentionTellsOnce == Spec => []OneMessageEach
<1>1. IInv => OneMessageEach
  BY DEF IInv
<1> QED
  BY <1>1, SpecInv, PTL

(* No finished turn opens with an id that was dismissed before, at a daemon  *)
(* whose record of issued ids was never lost: the ids outlive a restart, a   *)
(* running session keeps what was dismissed among its open requests, and a   *)
(* tick opens only turns later than those it looked at.                      *)
THEOREM AttentionHidesOnlySeen == Spec => []NothingOpensHidden
<1>1. IInv => NothingOpensHidden
  BY DEF IInv
<1> QED
  BY <1>1, SpecInv, PTL
=============================================================================
