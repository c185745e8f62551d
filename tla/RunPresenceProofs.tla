-------------------------- MODULE RunPresenceProofs --------------------------
(***************************************************************************)
(* Theorems about RunPresence, for every set of runs and readers, every    *)
(* set of process numbers, with and without their reuse, and every set of  *)
(* failures.                                                               *)
(***************************************************************************)
EXTENDS RunPresence, TLAPS

-----------------------------------------------------------------------------
(* Type correctness.                                                       *)

(* A publish leaves a well-typed worker. *)
LEMMA AfterPublishType ==
  ASSUME NEW w \in WorkerType
  PROVE  /\ AfterPublish(w) \in WorkerType
         /\ AfterPublish([w EXCEPT !.last = TRUE]) \in WorkerType
  BY DEF AfterPublish, Ended, NoWorker, WorkerType

(* So does the head of its loop. *)
LEMMA DrainType ==
  ASSUME NEW w \in WorkerType, NEW b \in BOOLEAN
  PROVE  [w EXCEPT !.at = "tick", !.final = b] \in WorkerType
  BY DEF WorkerType

(* The moves of a reader leave a well-typed listing. *)
LEMMA ScanMoves ==
  ASSUME NEW s \in ScanType, NEW lv \in SUBSET Runs
  PROVE  /\ [s EXCEPT !.at = "visit", !.doc = NoRun, !.live = lv] \in ScanType
         /\ [s EXCEPT !.at = "visit", !.doc = NoRun] \in ScanType
         /\ [s EXCEPT !.at = "sweep_doc"] \in ScanType
  BY DEF ScanType

(* Every step keeps the state well-typed. *)
LEMMA TypeStep ==
  ASSUME TypeOK, [Next]_vars
  PROVE  TypeOK'
<1>1. ASSUME NEW r \in Runs, Invoke(r) PROVE TypeOK'
  BY <1>1 DEF Invoke, Goes, Phases, Living, Over, FreePids, LivingRuns,
      files, TypeOK
<1>2. ASSUME NEW r \in Runs, AcquireOpen(r) PROVE TypeOK'
  BY <1>2 DEF AcquireOpen, Goes, Phases, Living, Over, TypeOK
<1>3. ASSUME NEW r \in Runs, AcquireWrite(r) PROVE TypeOK'
  BY <1>3 DEF AcquireWrite, Goes, Phases, Living, Over, TypeOK
<1>4. ASSUME NEW r \in Runs, EarlyExit(r) PROVE TypeOK'
  BY <1>4 DEF EarlyExit, Goes, Phases, Living, Over, files, TypeOK
<1>5. ASSUME NEW r \in Runs, StartDelivery(r) PROVE TypeOK'
<2> DEFINE w == [work[r] EXCEPT !.at = "publish"]
<2>1. w \in WorkerType
  BY DEF TypeOK, WorkerType
<2>2. work' = [work EXCEPT ![r] = w] \/ UNCHANGED work
  BY <1>5 DEF StartDelivery
<2> HIDE DEF w
<2>3. work' \in [Runs -> WorkerType]
  BY <2>1, <2>2 DEF TypeOK
<2>4. /\ run[r] = "locked" /\ run' = [run EXCEPT ![r] = "working"]
      /\ UNCHANGED <<pid, others, flag, lock, docs, sentinels, kept, scan, fate, overlap>>
  BY <1>5 DEF StartDelivery, Goes, files
<2> QED
  BY <2>3, <2>4 DEF TypeOK, Phases, Living, Over
<1>6. ASSUME NEW r \in Runs, Finish(r) PROVE TypeOK'
  BY <1>6 DEF Finish, Goes, Phases, Living, Over, files, TypeOK
<1>7. ASSUME NEW r \in Runs, Join(r) PROVE TypeOK'
  BY <1>7 DEF Join, Goes, Phases, Living, Over, Fates, files, TypeOK
<1>8. ASSUME NEW r \in Runs, KeepFinal(r) PROVE TypeOK'
  BY <1>8 DEF KeepFinal, Goes, Phases, Living, Over, Fates, TypeOK
<1>9. ASSUME NEW r \in Runs, DropDocument(r) PROVE TypeOK'
  BY <1>9 DEF DropDocument, Goes, Phases, Living, Over, TypeOK
<1>10. ASSUME NEW r \in Runs, DropSentinel(r) PROVE TypeOK'
  BY <1>10 DEF DropSentinel, Goes, Phases, Living, Over, TypeOK
<1>11. ASSUME NEW r \in Runs, Unlock(r) PROVE TypeOK'
  BY <1>11 DEF Unlock, Goes, Phases, Living, Over, TypeOK
<1>12. ASSUME NEW r \in Runs, Exit(r) PROVE TypeOK'
  BY <1>12 DEF Exit, Dies, Goes, Ended, NoWorker, Phases, Living, Over,
      files, TypeOK, WorkerType, ScanType, Readers, AtDocument
<1>13. ASSUME NEW r \in Runs, Kill(r) PROVE TypeOK'
  BY <1>13 DEF Kill, Dies, Goes, Ended, NoWorker, Phases, Living, Over,
      Fates, files, TypeOK, WorkerType, ScanType, Readers, AtDocument
<1>14. ASSUME NEW r \in Runs, Drain(r) PROVE TypeOK'
<2> DEFINE w == [work[r] EXCEPT !.at = "tick", !.final = (run[r] # "working")]
<2>1. work[r] \in WorkerType
  BY DEF TypeOK
<2>2. w \in WorkerType
  BY <2>1, DrainType
<2>3. work' = [work EXCEPT ![r] = w]
  BY <1>14 DEF Drain
<2> HIDE DEF w
<2>4. work' \in [Runs -> WorkerType]
  BY <2>2, <2>3 DEF TypeOK
<2> QED
  BY <1>14, <2>4 DEF Drain, HasWorker, files, TypeOK
<1>15. ASSUME NEW r \in Runs, OnTick(r) PROVE TypeOK'
  BY <1>15 DEF OnTick, HasWorker, files, TypeOK, WorkerType, ScanType,
      Readers, AtDocument
<1>16. ASSUME NEW r \in Runs, Publish(r) PROVE TypeOK'
<2>1. work[r] \in WorkerType
  BY DEF TypeOK
<2>2. /\ AfterPublish(work[r]) \in WorkerType
      /\ AfterPublish([work[r] EXCEPT !.last = TRUE]) \in WorkerType
  BY <2>1, AfterPublishType
<2>3. [work[r] EXCEPT !.at = "rename"] \in WorkerType
  BY <2>1 DEF WorkerType
<2>4. work' \in [Runs -> WorkerType]
  BY <1>16, <2>2, <2>3 DEF Publish, HasWorker, TypeOK
<2> QED
  BY <1>16, <2>4 DEF Publish, HasWorker, files, TypeOK
<1>17. ASSUME NEW r \in Runs, Rename(r) PROVE TypeOK'
<2>1. work[r] \in WorkerType
  BY DEF TypeOK
<2>2. /\ AfterPublish(work[r]) \in WorkerType
      /\ AfterPublish([work[r] EXCEPT !.last = TRUE]) \in WorkerType
  BY <2>1, AfterPublishType
<2>3. [work[r] EXCEPT !.at = "rename"] \in WorkerType
  BY <2>1 DEF WorkerType
<2>4. work' \in [Runs -> WorkerType]
  BY <1>17, <2>2, <2>3 DEF Rename, HasWorker, TypeOK
<2> QED
  BY <1>17, <2>4 DEF Rename, HasWorker, files, TypeOK
<1>18. ASSUME NEW x \in Readers, Begin(x) PROVE TypeOK'
<2>1. PICK w \in Runs \cup {NoRun}, opens \in BOOLEAN :
        scan' = [scan EXCEPT ![x] =
                   [Idle EXCEPT !.at = "visit", !.want = w, !.seen = Noted(x, docs),
                                !.todo = IF opens THEN docs ELSE {},
                                !.unreadable = IF opens THEN {} ELSE Noted(x, docs)]]
  BY <1>18 DEF Begin
<2>2. scan'[x] \in ScanType /\ scan'[x].at = "visit"
  BY <2>1 DEF Idle, Noted, TypeOK, ScanType
<2>3. scan' = [scan EXCEPT ![x] = scan'[x]]
  BY <2>1 DEF TypeOK
<2> QED
  BY <1>18, <2>2, <2>3 DEF Begin, files, TypeOK, AtDocument
<1>19. ASSUME NEW x \in Readers, Visit(x) PROVE TypeOK'
<2>1. PICK r \in scan[x].todo :
        \/ scan' = [scan EXCEPT ![x].todo = @ \ {r},
                                ![x].at = IF r \in docs THEN "check" ELSE "visit",
                                ![x].doc = IF r \in docs THEN r ELSE NoRun]
        \/ scan' = [scan EXCEPT ![x].todo = @ \ {r}, ![x].unreadable = @ \cup Noted(x, {r})]
  BY <1>19 DEF Visit
<2>2. scan[x] \in ScanType /\ r \in Runs
  BY DEF TypeOK, ScanType
<2>3. /\ scan'[x] \in ScanType
      /\ scan'[x].at \in AtDocument => scan'[x].doc \in Runs
  BY <1>19, <2>1, <2>2 DEF Visit, Reads, Noted, TypeOK, ScanType, AtDocument
<2>4. scan' = [scan EXCEPT ![x] = scan'[x]]
  BY <2>1 DEF TypeOK
<2> QED
  BY <1>19, <2>3, <2>4 DEF Visit, files, TypeOK
<1>20. ASSUME NEW x \in Readers, CheckAlive(x) PROVE TypeOK'
<2>1. scan[x] \in ScanType /\ scan[x].at = "check" /\ scan[x].doc \in Runs
  BY <1>20 DEF CheckAlive, Reads, TypeOK, AtDocument
<2> DEFINE lv == scan[x].live \cup Noted(x, {scan[x].doc})
           listed == [scan[x] EXCEPT !.at = "visit", !.doc = NoRun, !.live = lv]
           orphan == [scan[x] EXCEPT !.at = "sweep_doc"]
<2>2. lv \in SUBSET Runs
  BY <2>1 DEF ScanType, Noted
<2>3. listed \in ScanType /\ orphan \in ScanType
  BY <2>1, <2>2, ScanMoves
<2>4. listed.at = "visit" /\ orphan.doc = scan[x].doc
  BY <2>1 DEF ScanType
<2>5. \/ scan' = [scan EXCEPT ![x] = listed]
      \/ scan' = [scan EXCEPT ![x] = orphan]
  BY <1>20 DEF CheckAlive, Listed
<2> HIDE DEF listed, orphan, lv
<2>6. /\ scan' \in [Readers -> ScanType]
      /\ scan'[x].at \in AtDocument => scan'[x].doc \in Runs
      /\ \A y \in Readers \ {x} : scan'[y] = scan[y]
  BY <2>1, <2>3, <2>4, <2>5 DEF TypeOK, AtDocument
<2> QED
  BY <1>20, <2>6 DEF CheckAlive, files, TypeOK
<1>21. ASSUME NEW x \in Readers, SweepDocument(x) PROVE TypeOK'
<2> DEFINE next == [scan[x] EXCEPT !.at = "sweep_stop"]
<2>1. scan[x] \in ScanType /\ scan[x].doc \in Runs
  BY <1>21 DEF SweepDocument, Reads, TypeOK, AtDocument
<2>2. next \in ScanType /\ next.doc = scan[x].doc
  BY <2>1 DEF ScanType
<2>3. scan' = [scan EXCEPT ![x] = next]
  BY <1>21 DEF SweepDocument
<2> HIDE DEF next
<2>4. /\ scan' \in [Readers -> ScanType]
      /\ scan'[x].doc \in Runs
      /\ \A y \in Readers \ {x} : scan'[y] = scan[y]
  BY <2>1, <2>2, <2>3 DEF TypeOK
<2>5. docs' \subseteq Runs
  BY <1>21 DEF SweepDocument, TypeOK
<2> QED
  BY <1>21, <2>4, <2>5 DEF SweepDocument, files, TypeOK
<1>22. ASSUME NEW x \in Readers, SweepSentinel(x) PROVE TypeOK'
<2> DEFINE swept == [scan[x] EXCEPT !.at = "visit", !.doc = NoRun]
<2>1. scan[x] \in ScanType
  BY DEF TypeOK
<2>2. swept \in ScanType
  BY <2>1, ScanMoves
<2>3. swept.at = "visit"
  BY <2>1 DEF ScanType
<2>4. scan' = [scan EXCEPT ![x] = swept]
  BY <1>22 DEF SweepSentinel
<2> HIDE DEF swept
<2>5. /\ scan' \in [Readers -> ScanType]
      /\ scan'[x].at \notin AtDocument
      /\ \A y \in Readers \ {x} : scan'[y] = scan[y]
  BY <2>2, <2>3, <2>4 DEF TypeOK, AtDocument
<2>6. sentinels' \subseteq Runs
  BY <1>22 DEF SweepSentinel, TypeOK
<2> QED
  BY <1>22, <2>5, <2>6 DEF SweepSentinel, files, TypeOK
<1>23. ASSUME NEW x \in Readers, EndListing(x) PROVE TypeOK'
<2>1. scan'[x] \in ScanType /\ scan' = [scan EXCEPT ![x] = scan'[x]]
  BY <1>23 DEF EndListing, Reads, Done, Idle, choose_target, TypeOK, ScanType, AtDocument
<2>2. scan'[x].at \in AtDocument => scan'[x].doc \in Runs
  BY <1>23 DEF EndListing, Reads, Done, Idle, choose_target, TypeOK, ScanType, AtDocument
<2> QED
  BY <1>23, <2>1, <2>2 DEF EndListing, files, TypeOK
<1>24. ASSUME NEW x \in Readers, WriteSentinel(x) PROVE TypeOK'
  BY <1>24 DEF WriteSentinel, Reads, Done, Idle, TypeOK, WorkerType,
      ScanType, Readers, AtDocument
<1>25. ASSUME NEW x \in Readers, KillReader(x) PROVE TypeOK'
  BY <1>25 DEF KillReader, Done, Idle, files, TypeOK, WorkerType, ScanType,
      Readers, AtDocument
<1>26. ASSUME NEW p \in Pids, OtherStarts(p) PROVE TypeOK'
  BY <1>26 DEF OtherStarts, files, TypeOK
<1>27. CASE UNCHANGED vars
  BY <1>27 DEF vars, files, TypeOK
<1> QED
  BY <1>1, <1>2, <1>3, <1>4, <1>5, <1>6, <1>7, <1>8, <1>9, <1>10, <1>11,
      <1>12, <1>13, <1>14, <1>15, <1>16, <1>17, <1>18, <1>19, <1>20, <1>21,
      <1>22, <1>23, <1>24, <1>25, <1>26, <1>27 DEF Next, RunStep, Teardown,
      WorkerStep, ReaderStep

(* Type correctness: run phases, workers, readers and files stay in their  *)
(* types, a process that started has a number and a reader that goes on    *)
(* with a document has one in hand.                                        *)
THEOREM TypeCorrect == Spec => []TypeOK
<1>1. Init => TypeOK
  BY PresenceAssumption DEF Init, TypeOK, Phases, WorkerType, NoWorker, ScanType,
     Idle, Fates, AtDocument
<1> QED
  BY <1>1, TypeStep, PTL DEF Spec

-----------------------------------------------------------------------------
(* The documents.                                                          *)

(* Before its worker is started a run has none. *)
Early == {"new", "acquire", "write", "locked", "skipped"}

WorkerBorn == \A r \in Runs : run[r] \in Early => work[r] = NoWorker

(* The runs whose document was written once. *)
Known == {r \in Runs : work[r].last}

(* Whatever a reader found in the directory was written by its run. *)
Written ==
    /\ docs \subseteq Known
    /\ \A x \in Readers :
         /\ scan[x].todo \subseteq Known
         /\ scan[x].seen \subseteq Known
         /\ scan[x].at \in {"check", "sweep_doc", "sweep_stop"} => scan[x].doc \in Known

(* A document is only swept once its process is dead. *)
SweptAreOver ==
    \A x \in Readers : scan[x].at \in {"sweep_doc", "sweep_stop"}
                          => run[scan[x].doc] \notin Living \cup {"new"}

(* LiveDocumentStays, until the guard takes the document. *)
DocumentStays ==
    \A r \in Runs : run[r] \in {"working", "joining", "keep"} /\ work[r].last => r \in docs

(* A publish changes nothing in what the worker knows to be written. *)
LEMMA AfterPublishLast ==
  ASSUME NEW w \in WorkerType
  PROVE  /\ AfterPublish(w).last = w.last
         /\ AfterPublish([w EXCEPT !.last = TRUE]).last = TRUE
  BY DEF AfterPublish, Ended, NoWorker, WorkerType

(* What a step of the worker does: the run and the readers do not move, a  *)
(* document that appears was written by this worker, and the other way     *)
(* round.                                                                  *)
LEMMA WorkerFrame ==
  ASSUME TypeOK, NEW r \in Runs, WorkerStep(r)
  PROVE  /\ run' = run /\ pid' = pid /\ scan' = scan /\ fate' = fate
         /\ overlap' = overlap /\ lock' = lock /\ kept' = kept /\ others' = others
         /\ run[r] \in Living /\ work[r].at \notin {"none", "over"}
         /\ \A s \in Runs \ {r} : work'[s] = work[s]
         /\ work[r].last => work'[r].last
         /\ docs' = docs \/ (docs' = docs \cup {r} /\ work'[r].last)
         /\ work'[r].last => work[r].last \/ r \in docs'
<1>1. CASE Drain(r)
  BY <1>1 DEF Drain, HasWorker, files, TypeOK, WorkerType
<1>2. CASE OnTick(r)
  BY <1>2 DEF OnTick, HasWorker, files, TypeOK, WorkerType
<1>p. /\ AfterPublish(work[r]).last = work[r].last
      /\ AfterPublish([work[r] EXCEPT !.last = TRUE]).last = TRUE
  BY AfterPublishLast DEF TypeOK
<1>3. CASE Publish(r)
  <2>1. /\ \A s \in Runs \ {r} : work'[s] = work[s]
        /\ work'[r].last = work[r].last
    BY <1>3, <1>p DEF Publish, TypeOK, WorkerType
  <2> QED
    BY <1>3, <2>1 DEF Publish, HasWorker, files
<1>4. CASE Rename(r)
  <2>1. \A s \in Runs \ {r} : work'[s] = work[s]
    BY <1>4 DEF Rename, TypeOK
  <2>2. CASE docs' = docs \cup {r} /\ work' = [work EXCEPT ![r] =
                                                AfterPublish([@ EXCEPT !.last = TRUE])]
    BY <1>4, <1>p, <2>1, <2>2 DEF Rename, HasWorker, TypeOK
  <2>3. CASE docs' = docs /\ work' = [work EXCEPT ![r] = AfterPublish(@)]
    BY <1>4, <1>p, <2>1, <2>3 DEF Rename, HasWorker, TypeOK
  <2> QED
    BY <1>4, <2>2, <2>3 DEF Rename
<1> QED
  BY <1>1, <1>2, <1>3, <1>4 DEF WorkerStep

(* What a step of a reader does: no run and no worker moves, and the one   *)
(* document it may remove is the one in its hand.                          *)
LEMMA ReaderFrame ==
  ASSUME TypeOK, NEW x \in Readers, ReaderStep(x) \/ KillReader(x)
  PROVE  /\ run' = run /\ pid' = pid /\ work' = work /\ fate' = fate
         /\ overlap' = overlap /\ lock' = lock /\ kept' = kept /\ others' = others
         /\ \A y \in Readers \ {x} : scan'[y] = scan[y]
         /\ docs' = docs \/ (docs' = docs \ {scan[x].doc} /\ scan[x].at = "sweep_doc")
  BY DEF ReaderStep, Begin, Visit, CheckAlive, SweepDocument, SweepSentinel, EndListing,
     WriteSentinel, KillReader, Reads, Listed, files, TypeOK

(* A worker is not there before start_delivery. *)
LEMMA BornStep ==
  ASSUME TypeOK, WorkerBorn, [Next]_vars
  PROVE  WorkerBorn'
<1>1. ASSUME NEW r \in Runs, Invoke(r) PROVE WorkerBorn'
  BY <1>1 DEF Invoke, Goes, files, WorkerBorn, Early, TypeOK
<1>2. ASSUME NEW r \in Runs, AcquireOpen(r) PROVE WorkerBorn'
  BY <1>2 DEF AcquireOpen, Goes, WorkerBorn, Early, TypeOK
<1>3. ASSUME NEW r \in Runs, AcquireWrite(r) PROVE WorkerBorn'
  BY <1>3 DEF AcquireWrite, Goes, WorkerBorn, Early, TypeOK
<1>4. ASSUME NEW r \in Runs, EarlyExit(r) PROVE WorkerBorn'
  BY <1>4 DEF EarlyExit, Goes, files, WorkerBorn, Early, TypeOK
<1>5. ASSUME NEW r \in Runs, StartDelivery(r) PROVE WorkerBorn'
  BY <1>5 DEF StartDelivery, Goes, files, WorkerBorn, Early, TypeOK
<1>6. ASSUME NEW r \in Runs, Finish(r) PROVE WorkerBorn'
  BY <1>6 DEF Finish, Goes, files, WorkerBorn, Early, TypeOK
<1>7. ASSUME NEW r \in Runs, Join(r) PROVE WorkerBorn'
  BY <1>7 DEF Join, Goes, files, WorkerBorn, Early, TypeOK
<1>8. ASSUME NEW r \in Runs, KeepFinal(r) PROVE WorkerBorn'
  BY <1>8 DEF KeepFinal, Goes, WorkerBorn, Early, TypeOK
<1>9. ASSUME NEW r \in Runs, DropDocument(r) PROVE WorkerBorn'
  BY <1>9 DEF DropDocument, Goes, WorkerBorn, Early, TypeOK
<1>10. ASSUME NEW r \in Runs, DropSentinel(r) PROVE WorkerBorn'
  BY <1>10 DEF DropSentinel, Goes, WorkerBorn, Early, TypeOK
<1>11. ASSUME NEW r \in Runs, Unlock(r) PROVE WorkerBorn'
  BY <1>11 DEF Unlock, Goes, WorkerBorn, Early, TypeOK
<1>12. ASSUME NEW r \in Runs, Exit(r) PROVE WorkerBorn'
  BY <1>12 DEF Exit, Dies, Goes, Ended, NoWorker, files, WorkerBorn, Early,
      TypeOK
<1>13. ASSUME NEW r \in Runs, Kill(r) PROVE WorkerBorn'
  BY <1>13 DEF Kill, Dies, Goes, Ended, NoWorker, files, WorkerBorn, Early,
      TypeOK
<1>14. ASSUME NEW r \in Runs, WorkerStep(r) PROVE WorkerBorn'
  BY <1>14, WorkerFrame DEF WorkerBorn, Early, NoWorker
<1>15. ASSUME NEW x \in Readers, ReaderStep(x) \/ KillReader(x) PROVE WorkerBorn'
  BY <1>15, ReaderFrame DEF WorkerBorn
<1>16. ASSUME NEW p \in Pids, OtherStarts(p) PROVE WorkerBorn'
  BY <1>16 DEF OtherStarts, files, WorkerBorn, Early, TypeOK
<1>17. CASE UNCHANGED vars
  BY <1>17 DEF vars, files, WorkerBorn, Early, TypeOK
<1> QED
  BY <1>1, <1>2, <1>3, <1>4, <1>5, <1>6, <1>7, <1>8, <1>9, <1>10, <1>11,
      <1>12, <1>13, <1>14, <1>15, <1>16, <1>17 DEF Next, RunStep, Teardown

(* Readers only meet documents that were written. *)
LEMMA WrittenStep ==
  ASSUME TypeOK, WorkerBorn, Written, [Next]_vars
  PROVE  Written'
<1>1. ASSUME NEW r \in Runs, StartDelivery(r) PROVE Written'
  BY <1>1 DEF StartDelivery, Goes, files, Written, Known, WorkerBorn, Early,
      NoWorker, TypeOK
<1>2. ASSUME NEW r \in Runs, KeepFinal(r) PROVE Written'
  BY <1>2 DEF KeepFinal, Goes, Written, Known, WorkerBorn, Early, NoWorker,
      TypeOK
<1>3. ASSUME NEW r \in Runs, DropDocument(r) PROVE Written'
  BY <1>3 DEF DropDocument, Goes, Written, Known, WorkerBorn, Early,
      NoWorker, TypeOK
<1>4. ASSUME NEW r \in Runs, Exit(r) PROVE Written'
  BY <1>4 DEF Exit, Dies, Goes, Ended, NoWorker, files, Written, Known,
      WorkerBorn, Early, NoWorker, TypeOK
<1>5. ASSUME NEW r \in Runs, Kill(r) PROVE Written'
  BY <1>5 DEF Kill, Dies, Goes, Ended, NoWorker, files, Written, Known,
      WorkerBorn, Early, NoWorker, TypeOK
<1>6. ASSUME NEW r \in Runs, Invoke(r) \/ AcquireOpen(r) \/ AcquireWrite(r)
    \/ EarlyExit(r) \/ Finish(r) \/ Join(r) \/ DropSentinel(r) \/ Unlock(r)
     PROVE  Written'
  BY <1>6 DEF Invoke, AcquireOpen, AcquireWrite, EarlyExit, Finish, Join,
      DropSentinel, Unlock, Goes, files, Written, Known, WorkerBorn, Early,
      NoWorker, TypeOK
<1>7. ASSUME NEW r \in Runs, WorkerStep(r) PROVE Written'
  BY <1>7, WorkerFrame DEF Written, Known
<1>8. ASSUME NEW x \in Readers, ReaderStep(x) \/ KillReader(x) PROVE Written'
<2> DEFINE Good == /\ scan[x].todo \subseteq Known /\ scan[x].seen \subseteq Known
                   /\ scan[x].at \in {"check", "sweep_doc", "sweep_stop"} => scan[x].doc \in Known
<2>1. ASSUME Begin(x) PROVE Good'
    BY <2>1 DEF Begin, Reads, Noted, Idle, files, Written, Known, TypeOK, ScanType
<2>2. ASSUME Visit(x) PROVE Good'
    BY <2>2 DEF Visit, Reads, files, Written, Known, TypeOK, ScanType
<2>3. ASSUME CheckAlive(x) PROVE Good'
    BY <2>3 DEF CheckAlive, Reads, Listed, files, Written, Known, TypeOK,
        ScanType
<2>4. ASSUME SweepDocument(x) PROVE Good'
    BY <2>4 DEF SweepDocument, Reads, files, Written, Known, TypeOK, ScanType
<2>5. ASSUME SweepSentinel(x) PROVE Good'
    BY <2>5 DEF SweepSentinel, Reads, files, Written, Known, TypeOK, ScanType
<2>6. ASSUME EndListing(x) PROVE Good'
    BY <2>6 DEF EndListing, Reads, Idle, Done, files, Written, Known, TypeOK,
        ScanType
<2>7. ASSUME WriteSentinel(x) PROVE Good'
    BY <2>7 DEF WriteSentinel, Reads, Idle, Done, files, Written, Known,
        TypeOK, ScanType
<2>8. ASSUME KillReader(x) PROVE Good'
    BY <2>8 DEF KillReader, Idle, Done, files, Written, Known, TypeOK,
        ScanType
<2>9. Good'
  BY <1>8, <2>1, <2>2, <2>3, <2>4, <2>5, <2>6, <2>7, <2>8 DEF ReaderStep
<2> QED
  BY <1>8, <2>9, ReaderFrame DEF Written, Known
<1>9. ASSUME NEW p \in Pids, OtherStarts(p) PROVE Written'
  BY <1>9 DEF OtherStarts, files, Written, Known, WorkerBorn, Early,
      NoWorker, TypeOK
<1>10. CASE UNCHANGED vars
  BY <1>10 DEF vars, files, Written, Known, WorkerBorn, Early, NoWorker,
      TypeOK
<1> QED
  BY <1>1, <1>2, <1>3, <1>4, <1>5, <1>6, <1>7, <1>8, <1>9, <1>10 DEF Next,
      RunStep, Teardown

(* A reader that sweeps does so after the death of the process: the number it
   looked up was dead, the run had a number, and no run lives twice. *)
LEMMA SweptStep ==
  ASSUME TypeOK, WorkerBorn, Written, SweptAreOver, [Next]_vars
  PROVE  SweptAreOver'
<1>1. ASSUME NEW r \in Runs, Invoke(r) PROVE SweptAreOver'
  BY <1>1 DEF Invoke, Goes, files, SweptAreOver, TypeOK, AtDocument, Living
<1>2. ASSUME NEW r \in Runs, AcquireOpen(r) PROVE SweptAreOver'
  BY <1>2 DEF AcquireOpen, Goes, SweptAreOver, TypeOK, AtDocument, Living
<1>3. ASSUME NEW r \in Runs, AcquireWrite(r) PROVE SweptAreOver'
  BY <1>3 DEF AcquireWrite, Goes, SweptAreOver, TypeOK, AtDocument, Living
<1>4. ASSUME NEW r \in Runs, EarlyExit(r) PROVE SweptAreOver'
  BY <1>4 DEF EarlyExit, Goes, files, SweptAreOver, TypeOK, AtDocument,
      Living
<1>5. ASSUME NEW r \in Runs, StartDelivery(r) PROVE SweptAreOver'
  BY <1>5 DEF StartDelivery, Goes, files, SweptAreOver, TypeOK, AtDocument,
      Living
<1>6. ASSUME NEW r \in Runs, Finish(r) PROVE SweptAreOver'
  BY <1>6 DEF Finish, Goes, files, SweptAreOver, TypeOK, AtDocument, Living
<1>7. ASSUME NEW r \in Runs, Join(r) PROVE SweptAreOver'
  BY <1>7 DEF Join, Goes, files, SweptAreOver, TypeOK, AtDocument, Living
<1>8. ASSUME NEW r \in Runs, KeepFinal(r) PROVE SweptAreOver'
  BY <1>8 DEF KeepFinal, Goes, SweptAreOver, TypeOK, AtDocument, Living
<1>9. ASSUME NEW r \in Runs, DropDocument(r) PROVE SweptAreOver'
  BY <1>9 DEF DropDocument, Goes, SweptAreOver, TypeOK, AtDocument, Living
<1>10. ASSUME NEW r \in Runs, DropSentinel(r) PROVE SweptAreOver'
  BY <1>10 DEF DropSentinel, Goes, SweptAreOver, TypeOK, AtDocument, Living
<1>11. ASSUME NEW r \in Runs, Unlock(r) PROVE SweptAreOver'
  BY <1>11 DEF Unlock, Goes, SweptAreOver, TypeOK, AtDocument, Living
<1>12. ASSUME NEW r \in Runs, Exit(r) PROVE SweptAreOver'
  BY <1>12 DEF Exit, Dies, Goes, Ended, NoWorker, files, SweptAreOver,
      TypeOK, AtDocument, Living
<1>13. ASSUME NEW r \in Runs, Kill(r) PROVE SweptAreOver'
  BY <1>13 DEF Kill, Dies, Goes, Ended, NoWorker, files, SweptAreOver,
      TypeOK, AtDocument, Living
<1>14. ASSUME NEW r \in Runs, WorkerStep(r) PROVE SweptAreOver'
  BY <1>14, WorkerFrame DEF SweptAreOver
<1>15. ASSUME NEW x \in Readers, ReaderStep(x) \/ KillReader(x) PROVE SweptAreOver'
<2> DEFINE Good == scan[x].at \in {"sweep_doc", "sweep_stop"}
                      => run[scan[x].doc] \notin Living \cup {"new"}
<2>1. ASSUME Begin(x) PROVE Good'
    BY <2>1 DEF Begin, Reads, Idle, files, SweptAreOver, TypeOK, ScanType,
        AtDocument
<2>2. ASSUME Visit(x) PROVE Good'
    BY <2>2 DEF Visit, Reads, files, SweptAreOver, TypeOK, ScanType,
        AtDocument
<2>3. ASSUME CheckAlive(x) PROVE Good'
    <3>1. scan[x].doc \in Known /\ scan[x].doc \in Runs
      BY <2>3 DEF CheckAlive, Reads, Written, Known
    <3>2. run[scan[x].doc] # "new"
      BY <3>1 DEF Known, WorkerBorn, Early, NoWorker
    <3>3. run[scan[x].doc] \in Living => pid_is_alive(pid[scan[x].doc])
      BY <3>1 DEF pid_is_alive, LivingRuns
    <3> QED
      BY <2>3, <3>2, <3>3 DEF CheckAlive, Reads, Listed, SweptAreOver, TypeOK, ScanType
<2>4. ASSUME SweepDocument(x) PROVE Good'
    BY <2>4 DEF SweepDocument, Reads, files, SweptAreOver, TypeOK, ScanType,
        AtDocument
<2>5. ASSUME SweepSentinel(x) PROVE Good'
    BY <2>5 DEF SweepSentinel, Reads, files, SweptAreOver, TypeOK, ScanType,
        AtDocument
<2>6. ASSUME EndListing(x) PROVE Good'
    BY <2>6 DEF EndListing, Reads, Idle, Done, files, SweptAreOver, TypeOK,
        ScanType, AtDocument
<2>7. ASSUME WriteSentinel(x) PROVE Good'
    BY <2>7 DEF WriteSentinel, Reads, Idle, Done, files, SweptAreOver,
        TypeOK, ScanType, AtDocument
<2>8. ASSUME KillReader(x) PROVE Good'
    BY <2>8 DEF KillReader, Idle, Done, files, SweptAreOver, TypeOK,
        ScanType, AtDocument
<2>9. Good'
  BY <1>15, <2>1, <2>2, <2>3, <2>4, <2>5, <2>6, <2>7, <2>8 DEF ReaderStep
<2> QED
  BY <1>15, <2>9, ReaderFrame DEF SweptAreOver
<1>16. ASSUME NEW p \in Pids, OtherStarts(p) PROVE SweptAreOver'
  BY <1>16 DEF OtherStarts, files, SweptAreOver, TypeOK, AtDocument, Living
<1>17. CASE UNCHANGED vars
  BY <1>17 DEF vars, files, SweptAreOver, TypeOK, AtDocument, Living
<1> QED
  BY <1>1, <1>2, <1>3, <1>4, <1>5, <1>6, <1>7, <1>8, <1>9, <1>10, <1>11,
      <1>12, <1>13, <1>14, <1>15, <1>16, <1>17 DEF Next, RunStep, Teardown

(* No step takes the document of a run at work. *)
LEMMA StaysStep ==
  ASSUME TypeOK, WorkerBorn, Written, SweptAreOver, DocumentStays, [Next]_vars
  PROVE  DocumentStays'
<1>1. ASSUME NEW r \in Runs, Invoke(r) PROVE DocumentStays'
  BY <1>1 DEF Invoke, Goes, files, DocumentStays, WorkerBorn, Early,
      NoWorker, TypeOK
<1>2. ASSUME NEW r \in Runs, AcquireOpen(r) PROVE DocumentStays'
  BY <1>2 DEF AcquireOpen, Goes, DocumentStays, WorkerBorn, Early, NoWorker,
      TypeOK
<1>3. ASSUME NEW r \in Runs, AcquireWrite(r) PROVE DocumentStays'
  BY <1>3 DEF AcquireWrite, Goes, DocumentStays, WorkerBorn, Early, NoWorker,
      TypeOK
<1>4. ASSUME NEW r \in Runs, EarlyExit(r) PROVE DocumentStays'
  BY <1>4 DEF EarlyExit, Goes, files, DocumentStays, WorkerBorn, Early,
      NoWorker, TypeOK
<1>5. ASSUME NEW r \in Runs, StartDelivery(r) PROVE DocumentStays'
  BY <1>5 DEF StartDelivery, Goes, files, DocumentStays, WorkerBorn, Early,
      NoWorker, TypeOK
<1>6. ASSUME NEW r \in Runs, Finish(r) PROVE DocumentStays'
  BY <1>6 DEF Finish, Goes, files, DocumentStays, WorkerBorn, Early,
      NoWorker, TypeOK
<1>7. ASSUME NEW r \in Runs, Join(r) PROVE DocumentStays'
  BY <1>7 DEF Join, Goes, files, DocumentStays, WorkerBorn, Early, NoWorker,
      TypeOK
<1>8. ASSUME NEW r \in Runs, KeepFinal(r) PROVE DocumentStays'
  BY <1>8 DEF KeepFinal, Goes, DocumentStays, WorkerBorn, Early, NoWorker,
      TypeOK
<1>9. ASSUME NEW r \in Runs, DropDocument(r) PROVE DocumentStays'
  BY <1>9 DEF DropDocument, Goes, DocumentStays, WorkerBorn, Early, NoWorker,
      TypeOK
<1>10. ASSUME NEW r \in Runs, DropSentinel(r) PROVE DocumentStays'
  BY <1>10 DEF DropSentinel, Goes, DocumentStays, WorkerBorn, Early,
      NoWorker, TypeOK
<1>11. ASSUME NEW r \in Runs, Unlock(r) PROVE DocumentStays'
  BY <1>11 DEF Unlock, Goes, DocumentStays, WorkerBorn, Early, NoWorker,
      TypeOK
<1>12. ASSUME NEW r \in Runs, Exit(r) PROVE DocumentStays'
  BY <1>12 DEF Exit, Dies, Goes, Ended, NoWorker, files, DocumentStays,
      WorkerBorn, Early, NoWorker, TypeOK
<1>13. ASSUME NEW r \in Runs, Kill(r) PROVE DocumentStays'
  BY <1>13 DEF Kill, Dies, Goes, Ended, NoWorker, files, DocumentStays,
      WorkerBorn, Early, NoWorker, TypeOK
<1>14. ASSUME NEW r \in Runs, WorkerStep(r) PROVE DocumentStays'
  BY <1>14, WorkerFrame DEF DocumentStays, TypeOK
<1>15. ASSUME NEW x \in Readers, ReaderStep(x) \/ KillReader(x) PROVE DocumentStays'
  BY <1>15, ReaderFrame DEF DocumentStays, SweptAreOver, Living
<1>16. ASSUME NEW p \in Pids, OtherStarts(p) PROVE DocumentStays'
  BY <1>16 DEF OtherStarts, files, DocumentStays, WorkerBorn, Early,
      NoWorker, TypeOK
<1>17. CASE UNCHANGED vars
  BY <1>17 DEF vars, files, DocumentStays, WorkerBorn, Early, NoWorker,
      TypeOK
<1> QED
  BY <1>1, <1>2, <1>3, <1>4, <1>5, <1>6, <1>7, <1>8, <1>9, <1>10, <1>11,
      <1>12, <1>13, <1>14, <1>15, <1>16, <1>17 DEF Next, RunStep, Teardown

(* What the readers and the runs keep between them. *)
DocumentInv == TypeOK /\ WorkerBorn /\ Written /\ SweptAreOver /\ DocumentStays

LEMMA DocumentInvHolds == Spec => []DocumentInv
<1>1. Init => DocumentInv
  BY PresenceAssumption DEF Init, DocumentInv, TypeOK, Phases, WorkerType, NoWorker,
     ScanType, Idle, Fates, AtDocument, WorkerBorn, Written, Known, SweptAreOver,
     DocumentStays
<1>2. DocumentInv /\ [Next]_vars => DocumentInv'
  BY TypeStep, BornStep, WrittenStep, SweptStep, StaysStep DEF DocumentInv
<1> QED
  BY <1>1, <1>2, PTL DEF Spec

(* A run at work that has published stays in the directory, whatever the   *)
(* readers sweep and whatever process numbers are given away again.        *)
THEOREM DocumentKept == Spec => []LiveDocumentStays
<1>1. DocumentInv => LiveDocumentStays
  BY DEF DocumentInv, DocumentStays, LiveDocumentStays
<1> QED
  BY <1>1, DocumentInvHolds, PTL

-----------------------------------------------------------------------------
(* The stop that names no run.                                             *)

(* During the listing of a stop, every run at work that was there at its   *)
(* beginning is still to visit, in hand, listed, or unreadable.            *)
Listing == {"visit", "check", "sweep_doc", "sweep_stop"}

Accounted ==
    \A x \in Stops : scan[x].at \in Listing =>
        \A r \in scan[x].seen : run[r] = "working" =>
            \/ r \in scan[x].todo \cup scan[x].live \cup scan[x].unreadable
            \/ scan[x].at = "check" /\ r = scan[x].doc

(* The listing loses no run at work: its document is there when it is read, and
   its process is alive when it is looked up. *)
LEMMA AccountedStep ==
  ASSUME DocumentInv, Accounted, [Next]_vars
  PROVE  Accounted'
<1>1. ASSUME NEW r \in Runs, Invoke(r) PROVE Accounted'
  BY <1>1 DEF Invoke, Goes, files, Accounted, Listing, DocumentInv, Written,
      Known, WorkerBorn, Early,
      NoWorker, TypeOK, Readers
<1>2. ASSUME NEW r \in Runs, AcquireOpen(r) PROVE Accounted'
  BY <1>2 DEF AcquireOpen, Goes, Accounted, Listing, DocumentInv, Written,
      Known, WorkerBorn, Early,
      NoWorker, TypeOK, Readers
<1>3. ASSUME NEW r \in Runs, AcquireWrite(r) PROVE Accounted'
  BY <1>3 DEF AcquireWrite, Goes, Accounted, Listing, DocumentInv, Written,
      Known, WorkerBorn, Early,
      NoWorker, TypeOK, Readers
<1>4. ASSUME NEW r \in Runs, EarlyExit(r) PROVE Accounted'
  BY <1>4 DEF EarlyExit, Goes, files, Accounted, Listing, DocumentInv,
      Written, Known, WorkerBorn, Early,
      NoWorker, TypeOK, Readers
<1>5. ASSUME NEW r \in Runs, StartDelivery(r) PROVE Accounted'
  BY <1>5 DEF StartDelivery, Goes, files, Accounted, Listing, DocumentInv,
      Written, Known, WorkerBorn, Early,
      NoWorker, TypeOK, Readers
<1>6. ASSUME NEW r \in Runs, Finish(r) PROVE Accounted'
  BY <1>6 DEF Finish, Goes, files, Accounted, Listing, DocumentInv, Written,
      Known, WorkerBorn, Early,
      NoWorker, TypeOK, Readers
<1>7. ASSUME NEW r \in Runs, Join(r) PROVE Accounted'
  BY <1>7 DEF Join, Goes, files, Accounted, Listing, DocumentInv, Written,
      Known, WorkerBorn, Early,
      NoWorker, TypeOK, Readers
<1>8. ASSUME NEW r \in Runs, KeepFinal(r) PROVE Accounted'
  BY <1>8 DEF KeepFinal, Goes, Accounted, Listing, DocumentInv, Written,
      Known, WorkerBorn, Early,
      NoWorker, TypeOK, Readers
<1>9. ASSUME NEW r \in Runs, DropDocument(r) PROVE Accounted'
  BY <1>9 DEF DropDocument, Goes, Accounted, Listing, DocumentInv, Written,
      Known, WorkerBorn, Early,
      NoWorker, TypeOK, Readers
<1>10. ASSUME NEW r \in Runs, DropSentinel(r) PROVE Accounted'
  BY <1>10 DEF DropSentinel, Goes, Accounted, Listing, DocumentInv, Written,
      Known, WorkerBorn, Early,
      NoWorker, TypeOK, Readers
<1>11. ASSUME NEW r \in Runs, Unlock(r) PROVE Accounted'
  BY <1>11 DEF Unlock, Goes, Accounted, Listing, DocumentInv, Written, Known,
      WorkerBorn, Early,
      NoWorker, TypeOK, Readers
<1>12. ASSUME NEW r \in Runs, Exit(r) PROVE Accounted'
  BY <1>12 DEF Exit, Dies, Goes, Ended, NoWorker, files, Accounted, Listing,
      DocumentInv, Written, Known, WorkerBorn, Early,
      NoWorker, TypeOK,
      Readers
<1>13. ASSUME NEW r \in Runs, Kill(r) PROVE Accounted'
  BY <1>13 DEF Kill, Dies, Goes, Ended, NoWorker, files, Accounted, Listing,
      DocumentInv, Written, Known, WorkerBorn, Early,
      NoWorker, TypeOK,
      Readers
<1>14. ASSUME NEW r \in Runs, WorkerStep(r) PROVE Accounted'
  BY <1>14, WorkerFrame DEF Accounted, DocumentInv
<1>15. ASSUME NEW x \in Readers, ReaderStep(x) \/ KillReader(x) PROVE Accounted'
<2> DEFINE Good == x \in Stops /\ scan[x].at \in Listing =>
                     \A r \in scan[x].seen : run[r] = "working" =>
                         \/ r \in scan[x].todo \cup scan[x].live \cup scan[x].unreadable
                         \/ scan[x].at = "check" /\ r = scan[x].doc
<2>1. ASSUME Begin(x) PROVE Good'
    BY <2>1 DEF Begin, Reads, Noted, Idle, files, Accounted, Listing, Readers,
        DocumentInv, TypeOK, ScanType
<2>2. ASSUME Visit(x) PROVE Good'
    <3>1. \A r \in scan[x].seen : run[r] = "working" => r \in docs
      BY DEF DocumentInv, Written, Known, DocumentStays
    <3> QED
      BY <2>2, <3>1 DEF Visit, Reads, Noted, files, Accounted, Listing, DocumentInv, TypeOK,
         ScanType
<2>3. ASSUME CheckAlive(x) PROVE Good'
    <3>1. \A r \in Runs : run[r] = "working" => pid_is_alive(pid[r])
      BY DEF pid_is_alive, LivingRuns, Living
    <3>2. scan[x].doc \in Runs
      BY <2>3 DEF CheckAlive, Reads, DocumentInv, TypeOK, AtDocument
    <3> QED
      BY <2>3, <3>1, <3>2 DEF CheckAlive, Reads, Listed, Noted, files, Accounted, Listing,
         DocumentInv, TypeOK, ScanType
<2>4. ASSUME SweepDocument(x) PROVE Good'
    <3>1. scan'[x].todo = scan[x].todo /\ scan'[x].live = scan[x].live
          /\ scan'[x].unreadable = scan[x].unreadable
          /\ scan'[x].seen = scan[x].seen /\ run' = run /\ scan[x].at = "sweep_doc"
      BY <2>4 DEF SweepDocument, Reads, DocumentInv, TypeOK, ScanType
    <3> QED
      BY <3>1 DEF Accounted, Listing
<2>5. ASSUME SweepSentinel(x) PROVE Good'
    <3>1. scan'[x].todo = scan[x].todo /\ scan'[x].live = scan[x].live
          /\ scan'[x].unreadable = scan[x].unreadable
          /\ scan'[x].seen = scan[x].seen /\ run' = run /\ scan[x].at = "sweep_stop"
      BY <2>5 DEF SweepSentinel, Reads, DocumentInv, TypeOK, ScanType
    <3> QED
      BY <3>1 DEF Accounted, Listing
<2>6. ASSUME EndListing(x) PROVE Good'
    BY <2>6 DEF EndListing, Reads, Idle, Done, files, Accounted, Listing,
        Readers, DocumentInv, TypeOK, ScanType
<2>7. ASSUME WriteSentinel(x) PROVE Good'
    BY <2>7 DEF WriteSentinel, Reads, Idle, Done, files, Accounted, Listing,
        Readers, DocumentInv, TypeOK, ScanType
<2>8. ASSUME KillReader(x) PROVE Good'
    BY <2>8 DEF KillReader, Idle, Done, files, Accounted, Listing, Readers,
        DocumentInv, TypeOK, ScanType
<2>9. Good'
  BY <1>15, <2>1, <2>2, <2>3, <2>4, <2>5, <2>6, <2>7, <2>8 DEF ReaderStep
<2> QED
  BY <1>15, <2>9, ReaderFrame DEF Accounted, Readers, DocumentInv
<1>16. ASSUME NEW p \in Pids, OtherStarts(p) PROVE Accounted'
  BY <1>16 DEF OtherStarts, files, Accounted, Listing, DocumentInv, Written,
      Known, WorkerBorn, Early,
      NoWorker, TypeOK, Readers
<1>17. CASE UNCHANGED vars
  BY <1>17 DEF vars, files, Accounted, Listing, DocumentInv, Written, Known,
      WorkerBorn, Early,
      NoWorker, TypeOK, Readers
<1> QED
  BY <1>1, <1>2, <1>3, <1>4, <1>5, <1>6, <1>7, <1>8, <1>9, <1>10, <1>11,
      <1>12, <1>13, <1>14, <1>15, <1>16, <1>17 DEF Next, RunStep, Teardown

(* A stop settles on the only run its listing accounts for. *)
LEMMA UnambiguousStep ==
  ASSUME DocumentInv, Accounted, StopIsUnambiguous, [Next]_vars
  PROVE  StopIsUnambiguous'
<1>1. ASSUME NEW r \in Runs, Invoke(r) PROVE StopIsUnambiguous'
  BY <1>1 DEF Invoke, Goes, files, StopIsUnambiguous, DocumentInv, Written,
      Known, WorkerBorn, Early,
      NoWorker, TypeOK, Readers
<1>2. ASSUME NEW r \in Runs, AcquireOpen(r) PROVE StopIsUnambiguous'
  BY <1>2 DEF AcquireOpen, Goes, StopIsUnambiguous, DocumentInv, Written,
      Known, WorkerBorn, Early,
      NoWorker, TypeOK, Readers
<1>3. ASSUME NEW r \in Runs, AcquireWrite(r) PROVE StopIsUnambiguous'
  BY <1>3 DEF AcquireWrite, Goes, StopIsUnambiguous, DocumentInv, Written,
      Known, WorkerBorn, Early,
      NoWorker, TypeOK, Readers
<1>4. ASSUME NEW r \in Runs, EarlyExit(r) PROVE StopIsUnambiguous'
  BY <1>4 DEF EarlyExit, Goes, files, StopIsUnambiguous, DocumentInv,
      Written, Known, WorkerBorn, Early,
      NoWorker, TypeOK, Readers
<1>5. ASSUME NEW r \in Runs, StartDelivery(r) PROVE StopIsUnambiguous'
  BY <1>5 DEF StartDelivery, Goes, files, StopIsUnambiguous, DocumentInv,
      Written, Known, WorkerBorn, Early,
      NoWorker, TypeOK, Readers
<1>6. ASSUME NEW r \in Runs, Finish(r) PROVE StopIsUnambiguous'
  BY <1>6 DEF Finish, Goes, files, StopIsUnambiguous, DocumentInv, Written,
      Known, WorkerBorn, Early,
      NoWorker, TypeOK, Readers
<1>7. ASSUME NEW r \in Runs, Join(r) PROVE StopIsUnambiguous'
  BY <1>7 DEF Join, Goes, files, StopIsUnambiguous, DocumentInv, Written,
      Known, WorkerBorn, Early,
      NoWorker, TypeOK, Readers
<1>8. ASSUME NEW r \in Runs, KeepFinal(r) PROVE StopIsUnambiguous'
  BY <1>8 DEF KeepFinal, Goes, StopIsUnambiguous, DocumentInv, Written,
      Known, WorkerBorn, Early,
      NoWorker, TypeOK, Readers
<1>9. ASSUME NEW r \in Runs, DropDocument(r) PROVE StopIsUnambiguous'
  BY <1>9 DEF DropDocument, Goes, StopIsUnambiguous, DocumentInv, Written,
      Known, WorkerBorn, Early,
      NoWorker, TypeOK, Readers
<1>10. ASSUME NEW r \in Runs, DropSentinel(r) PROVE StopIsUnambiguous'
  BY <1>10 DEF DropSentinel, Goes, StopIsUnambiguous, DocumentInv, Written,
      Known, WorkerBorn, Early,
      NoWorker, TypeOK, Readers
<1>11. ASSUME NEW r \in Runs, Unlock(r) PROVE StopIsUnambiguous'
  BY <1>11 DEF Unlock, Goes, StopIsUnambiguous, DocumentInv, Written, Known,
      WorkerBorn, Early,
      NoWorker, TypeOK, Readers
<1>12. ASSUME NEW r \in Runs, Exit(r) PROVE StopIsUnambiguous'
  BY <1>12 DEF Exit, Dies, Goes, Ended, NoWorker, files, StopIsUnambiguous,
      DocumentInv, Written, Known, WorkerBorn, Early,
      NoWorker, TypeOK,
      Readers
<1>13. ASSUME NEW r \in Runs, Kill(r) PROVE StopIsUnambiguous'
  BY <1>13 DEF Kill, Dies, Goes, Ended, NoWorker, files, StopIsUnambiguous,
      DocumentInv, Written, Known, WorkerBorn, Early,
      NoWorker, TypeOK,
      Readers
<1>14. ASSUME NEW r \in Runs, WorkerStep(r) PROVE StopIsUnambiguous'
  BY <1>14, WorkerFrame DEF StopIsUnambiguous, DocumentInv
<1>15. ASSUME NEW x \in Readers, ReaderStep(x) \/ KillReader(x) PROVE StopIsUnambiguous'
<2> DEFINE Good == x \in Stops /\ scan[x].at = "write" /\ scan[x].want = NoRun =>
                     \A r \in scan[x].seen :
                         run[r] = "working" => r = scan[x].doc \/ r \in scan[x].unreadable
<2>1. ASSUME Begin(x) PROVE Good'
    BY <2>1 DEF Begin, Reads, Idle, files, StopIsUnambiguous, DocumentInv,
        TypeOK, ScanType
<2>2. ASSUME Visit(x) PROVE Good'
    BY <2>2 DEF Visit, Reads, files, StopIsUnambiguous, DocumentInv, TypeOK,
        ScanType
<2>3. ASSUME CheckAlive(x) PROVE Good'
    BY <2>3 DEF CheckAlive, Reads, Listed, files, StopIsUnambiguous,
        DocumentInv, TypeOK, ScanType
<2>4. ASSUME SweepDocument(x) PROVE Good'
    BY <2>4 DEF SweepDocument, Reads, files, StopIsUnambiguous, DocumentInv,
        TypeOK, ScanType
<2>5. ASSUME SweepSentinel(x) PROVE Good'
    BY <2>5 DEF SweepSentinel, Reads, files, StopIsUnambiguous, DocumentInv,
        TypeOK, ScanType
<2>6. ASSUME EndListing(x) PROVE Good'
    <3>1. x \in Stops => \A r \in scan[x].seen :
             run[r] = "working" => r \in scan[x].live \cup scan[x].unreadable
      BY <2>6 DEF EndListing, Reads, Accounted, Listing
    <3>2. run' = run
      BY <2>6 DEF EndListing
    <3>3. scan'[x].at = "write" =>
             /\ scan'[x].doc \in choose_target(scan[x].live, scan[x].want)
             /\ scan'[x].seen = scan[x].seen /\ scan'[x].want = scan[x].want
             /\ scan'[x].unreadable = scan[x].unreadable
      BY <2>6 DEF EndListing, Idle, Done, DocumentInv, TypeOK, ScanType
    <3> QED
      BY <3>1, <3>2, <3>3 DEF choose_target
<2>7. ASSUME WriteSentinel(x) PROVE Good'
    BY <2>7 DEF WriteSentinel, Reads, Idle, Done, files, StopIsUnambiguous,
        DocumentInv, TypeOK, ScanType
<2>8. ASSUME KillReader(x) PROVE Good'
    BY <2>8 DEF KillReader, Idle, Done, files, StopIsUnambiguous,
        DocumentInv, TypeOK, ScanType
<2>9. Good'
  BY <1>15, <2>1, <2>2, <2>3, <2>4, <2>5, <2>6, <2>7, <2>8 DEF ReaderStep
<2> QED
  BY <1>15, <2>9, ReaderFrame DEF StopIsUnambiguous, Readers, DocumentInv
<1>16. ASSUME NEW p \in Pids, OtherStarts(p) PROVE StopIsUnambiguous'
  BY <1>16 DEF OtherStarts, files, StopIsUnambiguous, DocumentInv, Written,
      Known, WorkerBorn, Early,
      NoWorker, TypeOK, Readers
<1>17. CASE UNCHANGED vars
  BY <1>17 DEF vars, files, StopIsUnambiguous, DocumentInv, Written, Known,
      WorkerBorn, Early,
      NoWorker, TypeOK, Readers
<1> QED
  BY <1>1, <1>2, <1>3, <1>4, <1>5, <1>6, <1>7, <1>8, <1>9, <1>10, <1>11,
      <1>12, <1>13, <1>14, <1>15, <1>16, <1>17 DEF Next, RunStep, Teardown

(* `ralphy stop' without --runid never picks one of several runs at work   *)
(* whose documents it could read, for any number of runs and of readers    *)
(* that sweep beside it (list_runs, ralphy-run-snapshot/src/read.rs;       *)
(* choose_target, stop.rs).                                                *)
THEOREM StopUnambiguous == Spec => []StopIsUnambiguous
<1>1. Init => Accounted /\ StopIsUnambiguous
  BY DEF Init, Accounted, Listing, StopIsUnambiguous, Idle, Readers
<1> QED
  BY <1>1, DocumentInvHolds, AccountedStep, UnambiguousStep, PTL DEF Spec

-----------------------------------------------------------------------------
(* The lock.                                                               *)

(* Two runs that live at the same time both know it (overlap). *)
Crowd ==
    \A r, s \in Runs : r # s /\ run[r] \in Living /\ run[s] \in Living
                          => r \in overlap /\ s \in overlap

(* A run that starts beside others puts them all in overlap. *)
LEMMA CrowdStep ==
  ASSUME TypeOK, Crowd, [Next]_vars
  PROVE  Crowd'
<1>1. ASSUME NEW r \in Runs, Invoke(r) PROVE Crowd'
  BY <1>1 DEF Invoke, Goes, files, Crowd, LivingRuns, Living, TypeOK
<1>2. ASSUME NEW r \in Runs, AcquireOpen(r) PROVE Crowd'
  BY <1>2 DEF AcquireOpen, Goes, Crowd, LivingRuns, Living, TypeOK
<1>3. ASSUME NEW r \in Runs, AcquireWrite(r) PROVE Crowd'
  BY <1>3 DEF AcquireWrite, Goes, Crowd, LivingRuns, Living, TypeOK
<1>4. ASSUME NEW r \in Runs, EarlyExit(r) PROVE Crowd'
  BY <1>4 DEF EarlyExit, Goes, files, Crowd, LivingRuns, Living, TypeOK
<1>5. ASSUME NEW r \in Runs, StartDelivery(r) PROVE Crowd'
  BY <1>5 DEF StartDelivery, Goes, files, Crowd, LivingRuns, Living, TypeOK
<1>6. ASSUME NEW r \in Runs, Finish(r) PROVE Crowd'
  BY <1>6 DEF Finish, Goes, files, Crowd, LivingRuns, Living, TypeOK
<1>7. ASSUME NEW r \in Runs, Join(r) PROVE Crowd'
  BY <1>7 DEF Join, Goes, files, Crowd, LivingRuns, Living, TypeOK
<1>8. ASSUME NEW r \in Runs, KeepFinal(r) PROVE Crowd'
  BY <1>8 DEF KeepFinal, Goes, Crowd, LivingRuns, Living, TypeOK
<1>9. ASSUME NEW r \in Runs, DropDocument(r) PROVE Crowd'
  BY <1>9 DEF DropDocument, Goes, Crowd, LivingRuns, Living, TypeOK
<1>10. ASSUME NEW r \in Runs, DropSentinel(r) PROVE Crowd'
  BY <1>10 DEF DropSentinel, Goes, Crowd, LivingRuns, Living, TypeOK
<1>11. ASSUME NEW r \in Runs, Unlock(r) PROVE Crowd'
  BY <1>11 DEF Unlock, Goes, Crowd, LivingRuns, Living, TypeOK
<1>12. ASSUME NEW r \in Runs, Exit(r) PROVE Crowd'
  BY <1>12 DEF Exit, Dies, Goes, Ended, NoWorker, files, Crowd, LivingRuns,
      Living, TypeOK
<1>13. ASSUME NEW r \in Runs, Kill(r) PROVE Crowd'
  BY <1>13 DEF Kill, Dies, Goes, Ended, NoWorker, files, Crowd, LivingRuns,
      Living, TypeOK
<1>14. ASSUME NEW r \in Runs, WorkerStep(r) PROVE Crowd'
  BY <1>14, WorkerFrame DEF Crowd
<1>15. ASSUME NEW x \in Readers, ReaderStep(x) \/ KillReader(x) PROVE Crowd'
  BY <1>15, ReaderFrame DEF Crowd
<1>16. ASSUME NEW p \in Pids, OtherStarts(p) PROVE Crowd'
  BY <1>16 DEF OtherStarts, files, Crowd, LivingRuns, Living, TypeOK
<1>17. CASE UNCHANGED vars
  BY <1>17 DEF vars, files, Crowd, LivingRuns, Living, TypeOK
<1> QED
  BY <1>1, <1>2, <1>3, <1>4, <1>5, <1>6, <1>7, <1>8, <1>9, <1>10, <1>11,
      <1>12, <1>13, <1>14, <1>15, <1>16, <1>17 DEF Next, RunStep, Teardown

(* Only the run itself touches the lock of a run that is alone. *)
LEMMA LockStep ==
  ASSUME TypeOK, Crowd, LoneRunHoldsLock, [Next]_vars
  PROVE  LoneRunHoldsLock'
<1>1. ASSUME NEW r \in Runs, Invoke(r) PROVE LoneRunHoldsLock'
  BY <1>1 DEF Invoke, Goes, files, LoneRunHoldsLock, Crowd, Living, Holding,
      TypeOK
<1>2. ASSUME NEW r \in Runs, AcquireOpen(r) PROVE LoneRunHoldsLock'
  BY <1>2 DEF AcquireOpen, Goes, LoneRunHoldsLock, Crowd, Living, Holding,
      TypeOK
<1>3. ASSUME NEW r \in Runs, AcquireWrite(r) PROVE LoneRunHoldsLock'
  BY <1>3 DEF AcquireWrite, Goes, LoneRunHoldsLock, Crowd, Living, Holding,
      TypeOK
<1>4. ASSUME NEW r \in Runs, EarlyExit(r) PROVE LoneRunHoldsLock'
  BY <1>4 DEF EarlyExit, Goes, files, LoneRunHoldsLock, Crowd, Living,
      Holding, TypeOK
<1>5. ASSUME NEW r \in Runs, StartDelivery(r) PROVE LoneRunHoldsLock'
  BY <1>5 DEF StartDelivery, Goes, files, LoneRunHoldsLock, Crowd, Living,
      Holding, TypeOK
<1>6. ASSUME NEW r \in Runs, Finish(r) PROVE LoneRunHoldsLock'
  BY <1>6 DEF Finish, Goes, files, LoneRunHoldsLock, Crowd, Living, Holding,
      TypeOK
<1>7. ASSUME NEW r \in Runs, Join(r) PROVE LoneRunHoldsLock'
  BY <1>7 DEF Join, Goes, files, LoneRunHoldsLock, Crowd, Living, Holding,
      TypeOK
<1>8. ASSUME NEW r \in Runs, KeepFinal(r) PROVE LoneRunHoldsLock'
  BY <1>8 DEF KeepFinal, Goes, LoneRunHoldsLock, Crowd, Living, Holding,
      TypeOK
<1>9. ASSUME NEW r \in Runs, DropDocument(r) PROVE LoneRunHoldsLock'
  BY <1>9 DEF DropDocument, Goes, LoneRunHoldsLock, Crowd, Living, Holding,
      TypeOK
<1>10. ASSUME NEW r \in Runs, DropSentinel(r) PROVE LoneRunHoldsLock'
  BY <1>10 DEF DropSentinel, Goes, LoneRunHoldsLock, Crowd, Living, Holding,
      TypeOK
<1>11. ASSUME NEW r \in Runs, Unlock(r) PROVE LoneRunHoldsLock'
  BY <1>11 DEF Unlock, Goes, LoneRunHoldsLock, Crowd, Living, Holding, TypeOK
<1>12. ASSUME NEW r \in Runs, Exit(r) PROVE LoneRunHoldsLock'
  BY <1>12 DEF Exit, Dies, Goes, Ended, NoWorker, files, LoneRunHoldsLock,
      Crowd, Living, Holding, TypeOK
<1>13. ASSUME NEW r \in Runs, Kill(r) PROVE LoneRunHoldsLock'
  BY <1>13 DEF Kill, Dies, Goes, Ended, NoWorker, files, LoneRunHoldsLock,
      Crowd, Living, Holding, TypeOK
<1>14. ASSUME NEW r \in Runs, WorkerStep(r) PROVE LoneRunHoldsLock'
  BY <1>14, WorkerFrame DEF LoneRunHoldsLock
<1>15. ASSUME NEW x \in Readers, ReaderStep(x) \/ KillReader(x) PROVE LoneRunHoldsLock'
  BY <1>15, ReaderFrame DEF LoneRunHoldsLock
<1>16. ASSUME NEW p \in Pids, OtherStarts(p) PROVE LoneRunHoldsLock'
  BY <1>16 DEF OtherStarts, files, LoneRunHoldsLock, Crowd, Living, Holding,
      TypeOK
<1>17. CASE UNCHANGED vars
  BY <1>17 DEF vars, files, LoneRunHoldsLock, Crowd, Living, Holding, TypeOK
<1> QED
  BY <1>1, <1>2, <1>3, <1>4, <1>5, <1>6, <1>7, <1>8, <1>9, <1>10, <1>11,
      <1>12, <1>13, <1>14, <1>15, <1>16, <1>17 DEF Next, RunStep, Teardown

(* The lock file names a run that is alone, through stale, torn and        *)
(* leftover files of earlier runs.                                         *)
THEOREM LoneLock == Spec => []LoneRunHoldsLock
<1>1. Init => Crowd /\ LoneRunHoldsLock
  BY DEF Init, Crowd, LoneRunHoldsLock, Living, Holding
<1> QED
  BY <1>1, TypeCorrect, TypeStep, CrowdStep, LockStep, PTL DEF Spec

-----------------------------------------------------------------------------
(* The end of a run.                                                       *)

(* A run whose worker was joined: the worker does nothing any more, and    *)
(* what the guard did to the document stays done.                          *)
JoinedPhases == {"keep", "drop_doc", "drop_stop", "unlock", "exit", "gone"}

Joined ==
    \A r \in Runs : fate[r] = "joined" =>
        /\ run[r] \in JoinedPhases
        /\ work[r].at \in {"none", "over"}
        /\ run[r] # "keep" => r \notin docs /\ (work[r].last => r \in kept)

(* The document of a joined run is moved once and does not come back. *)
LEMMA JoinedStep ==
  ASSUME DocumentInv, Joined, [Next]_vars
  PROVE  Joined'
<1>1. ASSUME NEW r \in Runs, Invoke(r) PROVE Joined'
  BY <1>1 DEF Invoke, Goes, files, Joined, JoinedPhases, DocumentInv,
      DocumentStays, TypeOK, WorkerType
<1>2. ASSUME NEW r \in Runs, AcquireOpen(r) PROVE Joined'
  BY <1>2 DEF AcquireOpen, Goes, Joined, JoinedPhases, DocumentInv,
      DocumentStays, TypeOK, WorkerType
<1>3. ASSUME NEW r \in Runs, AcquireWrite(r) PROVE Joined'
  BY <1>3 DEF AcquireWrite, Goes, Joined, JoinedPhases, DocumentInv,
      DocumentStays, TypeOK, WorkerType
<1>4. ASSUME NEW r \in Runs, EarlyExit(r) PROVE Joined'
  BY <1>4 DEF EarlyExit, Goes, files, Joined, JoinedPhases, DocumentInv,
      DocumentStays, TypeOK, WorkerType
<1>5. ASSUME NEW r \in Runs, StartDelivery(r) PROVE Joined'
  BY <1>5 DEF StartDelivery, Goes, files, Joined, JoinedPhases, DocumentInv,
      DocumentStays, TypeOK, WorkerType
<1>6. ASSUME NEW r \in Runs, Finish(r) PROVE Joined'
  BY <1>6 DEF Finish, Goes, files, Joined, JoinedPhases, DocumentInv,
      DocumentStays, TypeOK, WorkerType
<1>7. ASSUME NEW r \in Runs, Join(r) PROVE Joined'
  BY <1>7 DEF Join, Goes, files, Joined, JoinedPhases, DocumentInv,
      DocumentStays, TypeOK, WorkerType
<1>8. ASSUME NEW r \in Runs, KeepFinal(r) PROVE Joined'
  BY <1>8 DEF KeepFinal, Goes, Joined, JoinedPhases, DocumentInv,
      DocumentStays, TypeOK, WorkerType
<1>9. ASSUME NEW r \in Runs, DropDocument(r) PROVE Joined'
  BY <1>9 DEF DropDocument, Goes, Joined, JoinedPhases, DocumentInv,
      DocumentStays, TypeOK, WorkerType
<1>10. ASSUME NEW r \in Runs, DropSentinel(r) PROVE Joined'
  BY <1>10 DEF DropSentinel, Goes, Joined, JoinedPhases, DocumentInv,
      DocumentStays, TypeOK, WorkerType
<1>11. ASSUME NEW r \in Runs, Unlock(r) PROVE Joined'
  BY <1>11 DEF Unlock, Goes, Joined, JoinedPhases, DocumentInv,
      DocumentStays, TypeOK, WorkerType
<1>12. ASSUME NEW r \in Runs, Exit(r) PROVE Joined'
  BY <1>12 DEF Exit, Dies, Goes, Ended, NoWorker, files, Joined,
      JoinedPhases, DocumentInv, DocumentStays, TypeOK, WorkerType
<1>13. ASSUME NEW r \in Runs, Kill(r) PROVE Joined'
  BY <1>13 DEF Kill, Dies, Goes, Ended, NoWorker, files, Joined,
      JoinedPhases, DocumentInv, DocumentStays, TypeOK, WorkerType
<1>14. ASSUME NEW r \in Runs, WorkerStep(r) PROVE Joined'
  BY <1>14, WorkerFrame DEF Joined, DocumentInv
<1>15. ASSUME NEW x \in Readers, ReaderStep(x) \/ KillReader(x) PROVE Joined'
  BY <1>15, ReaderFrame DEF Joined, DocumentInv
<1>16. ASSUME NEW p \in Pids, OtherStarts(p) PROVE Joined'
  BY <1>16 DEF OtherStarts, files, Joined, JoinedPhases, DocumentInv,
      DocumentStays, TypeOK, WorkerType
<1>17. CASE UNCHANGED vars
  BY <1>17 DEF vars, files, Joined, JoinedPhases, DocumentInv, DocumentStays,
      TypeOK, WorkerType
<1> QED
  BY <1>1, <1>2, <1>3, <1>4, <1>5, <1>6, <1>7, <1>8, <1>9, <1>10, <1>11,
      <1>12, <1>13, <1>14, <1>15, <1>16, <1>17 DEF Next, RunStep, Teardown

(* A run that ended on its own, with its worker joined in time, left the   *)
(* panel for good and kept its last document.                              *)
THEOREM LeftThePanel == Spec => []EndedRunLeftThePanel
<1>1. Init => Joined
  BY DEF Init, Joined
<1>2. Joined => EndedRunLeftThePanel
  BY DEF Joined, EndedRunLeftThePanel
<1> QED
  BY <1>1, <1>2, DocumentInvHolds, JoinedStep, PTL DEF Spec

=============================================================================
