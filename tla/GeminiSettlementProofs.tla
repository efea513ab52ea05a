----------------------- MODULE GeminiSettlementProofs -----------------------
(***************************************************************************)
(* Safety of the settlement, for any number of clients and pollers, and of *)
(* faults and leases that end early.  Shape says what a step may rely on:  *)
(* there is a record once anybody settles, and a copy at every write.      *)
(***************************************************************************)
EXTENDS GeminiSettlement, TLAPS

\* Before the record exists nobody is further than its creation.
RecordKnown ==
  record = None =>
    ~pending /\ \A w \in Workers : At(w, "idle") \/ (At(w, "create") /\ w \in Clients)

\* Steps that use the copy of the record, under the lease or at the end of a deletion.
Settling == {"save", "schedule", "charge", "mark", "count", "reschedule", "giveUp"}
Deleting == {"saveDeleted", "scheduleDeleted"}

CopyHeld == \A w \in Workers : worker[w].pc \in Settling \cup Deleting => worker[w].copy # None

Shape == TypeOK /\ RecordKnown /\ CopyHeld

\* While no lease has ended early, who settles holds the lease.
LeaseHeld == lapses = 0 => \A w \in Workers : worker[w].pc \in Leased => lease = w

\* Then nobody who settles has an outdated copy, unless a deletion has written.
CopiesFresh ==
  lapses = 0 /\ ~deleted => ~torn /\ \A w \in outdated : worker[w].pc \notin Settling

\* The steps whose copy is still to be written.
Writing == {"save", "schedule", "charge", "mark", "giveUp", "saveDeleted"}

\* While no update was lost the record's mark stays, and so does that of every
\* copy to be written.
MarkStays ==
  ~torn =>
    /\ counted < 2
    /\ counted > 0 => record # None /\ record.rated
    /\ \A w \in Workers \ outdated :
         worker[w].pc \in Writing => record # None /\ (record.rated => worker[w].copy.rated)

IInv == Shape /\ MarksTellTheTruth /\ LeaseHeld /\ CopiesFresh /\ MarkStays

-----------------------------------------------------------------------------
(***************************************************************************)
(* Shape.                                                                  *)
(***************************************************************************)
States == [pc : Steps, task : {"none", "post", "read", "notFound", "stream", "delete"},
           answer : Answers, copy : Records \cup {None}]

LEMMA RestTyped == AtRest \in States /\ AtRest.pc = "idle" /\ AtRest.copy = None
BY DEF AtRest, States, Steps, Nothing, Answers

LEMMA MergeTyped ==
  ASSUME NEW r \in Records, NEW a \in Answers
  PROVE  Merge(r, a) \in Records /\ Merge(r, a).billed = r.billed /\ Merge(r, a).rated = r.rated
<1> DEFINE over == IF a.status = "same" THEN r.over ELSE a.status = "over"
           final == IF a.usage THEN over ELSE r.final
           review == r.review /\ ~(a.usage /\ over)
<1>1. over \in BOOLEAN
  <2>1. r.over \in BOOLEAN
    BY DEF Records
  <2> QED BY <2>1, Zenon
<1>2. final \in BOOLEAN
  <2>1. r.final \in BOOLEAN
    BY DEF Records
  <2> HIDE DEF over
  <2> QED BY <1>1, <2>1, Zenon
<1>3. review \in BOOLEAN
  BY Zenon
<1>4. Merge(r, a) = [r EXCEPT !.over = over, !.final = final, !.review = review]
  BY Zenon DEF Merge
<1> HIDE DEF over, final, review
<1> QED BY <1>1, <1>2, <1>3, <1>4 DEF Records

LEMMA HeardTyped == Heard \subseteq Answers
BY DEF Heard, Answers

\* What the step of a worker leaves to show: the worker's new state is one, with a
\* copy where it needs one, and everything else keeps its type.
Moved(w) ==
  /\ worker' = [worker EXCEPT ![w] = worker'[w]]
  /\ worker'[w] \in States
  /\ worker'[w].pc \in Settling \cup Deleting => worker'[w].copy # None

Typed ==
  /\ job \in {"none", "running", "finished", "gone"}
  /\ record \in Records \cup {None}
  /\ pending \in BOOLEAN
  /\ lease \in Workers \cup {Free}
  /\ charged \in 0..1
  /\ counted \in 0..2
  /\ outdated \subseteq Workers
  /\ torn \in BOOLEAN
  /\ deleted \in BOOLEAN
  /\ faults \in 0..MaxFaults
  /\ lapses \in 0..MaxLapses

LEMMA ShapeIfMoved ==
  ASSUME Shape, NEW w \in Workers, Moved(w), Typed', record' # None \/ RecordKnown'
  PROVE  Shape'
<1>1. worker \in [Workers -> States]
  BY DEF Shape, TypeOK, States
<1>2. worker' \in [Workers -> States]
  BY <1>1 DEF Moved
<1>3. TypeOK'
  BY <1>2 DEF TypeOK, Typed, States
<1>4. RecordKnown'
  BY DEF RecordKnown
<1>5. CopyHeld'
  <2> SUFFICES ASSUME NEW v \in Workers, worker'[v].pc \in Settling \cup Deleting
               PROVE  worker'[v].copy # None
    BY DEF CopyHeld
  <2>1. CASE v = w
    BY <2>1 DEF Moved
  <2>2. CASE v # w
    BY <2>2, <1>1 DEF Shape, CopyHeld, Moved
  <2> QED BY <2>1, <2>2
<1> QED BY <1>3, <1>4, <1>5 DEF Shape

\* Who is past the creation finds a record.
LEMMA RecordThere ==
  ASSUME Shape, NEW w \in Workers, worker[w].pc \notin {"idle", "create"}
  PROVE  record # None
BY DEF Shape, RecordKnown, At

LEMMA WorkerTyped ==
  ASSUME Shape, NEW w \in Workers
  PROVE  /\ worker \in [Workers -> States] /\ worker[w] \in States
         /\ worker[w].pc \in Settling \cup Deleting => worker[w].copy \in Records /\ worker[w].copy # None
BY DEF Shape, TypeOK, CopyHeld, States

\* What is left of a worker after an observation, and after an error.
LEMMA ObservedRests ==
  ASSUME Shape, NEW w \in Workers, Observed(w)
  PROVE  /\ worker' = [worker EXCEPT ![w] = worker'[w]]
         /\ worker'[w] \in States
         /\ worker'[w].pc \in {"idle", "stream"}
         /\ worker'[w].copy = None
<1>1. worker \in [Workers -> States]
  BY WorkerTyped
<1>2. /\ [AtRest EXCEPT !.pc = "stream", !.task = "stream"] \in States
      /\ [AtRest EXCEPT !.pc = "stream", !.task = "stream"].pc = "stream"
      /\ [AtRest EXCEPT !.pc = "stream", !.task = "stream"].copy = None
  BY DEF AtRest, States, Steps, Nothing, Answers
<1> QED BY <1>1, <1>2, RestTyped DEF Observed, Rest

LEMMA ThrownRests ==
  ASSUME Shape, NEW w \in Workers, Thrown(w)
  PROVE  /\ worker' = [worker EXCEPT ![w] = worker'[w]]
         /\ worker'[w] \in States
         /\ worker'[w].pc \in {"idle", "create", "lock", "requeue"}
         /\ worker'[w].pc = "create" => worker[w].pc = "create"
         /\ worker'[w].pc \in {"lock", "requeue"} => worker[w].pc # "create" \/ w \in Pollers
         /\ worker'[w].copy \in {worker[w].copy, None}
<1>1. worker \in [Workers -> States] /\ worker[w] \in States
  BY WorkerTyped
<1>2. /\ [AtRest EXCEPT !.pc = "lock", !.task = "read"] \in States
      /\ [AtRest EXCEPT !.pc = "lock", !.task = "read"].pc = "lock"
      /\ [AtRest EXCEPT !.pc = "lock", !.task = "read"].copy = None
      /\ [AtRest EXCEPT !.pc = "requeue", !.task = "read"] \in States
      /\ [AtRest EXCEPT !.pc = "requeue", !.task = "read"].pc = "requeue"
      /\ [AtRest EXCEPT !.pc = "requeue", !.task = "read"].copy = None
  BY DEF AtRest, States, Steps, Nothing, Answers
<1>3. LET s == [worker[w] EXCEPT !.task = "read", !.answer.usage = FALSE]
      IN  s \in States /\ s.pc = worker[w].pc /\ s.copy = worker[w].copy
  BY <1>1 DEF States, Answers
<1>4. CASE worker' = [worker EXCEPT ![w].task = "read", ![w].answer.usage = FALSE] /\ At(w, "create")
  <2>1. worker'[w] = [worker[w] EXCEPT !.task = "read", !.answer.usage = FALSE]
    BY <1>1, <1>4
  <2>2. worker' = [worker EXCEPT ![w] = worker'[w]]
    BY <1>1, <1>4
  <2> QED BY <1>3, <1>4, <2>1, <2>2 DEF At
<1>5. CASE LastObservation(w) /\ ~At(w, "create")
  BY <1>1, <1>2, <1>5 DEF LastObservation, At
<1>6. CASE /\ worker' = [worker EXCEPT ![w] = [AtRest EXCEPT !.pc = "requeue", !.task = "read"]]
           /\ w \in Pollers
  BY <1>1, <1>2, <1>6
<1>7. CASE Rest(w)
  BY <1>1, <1>7, RestTyped DEF Rest
<1> QED BY <1>4, <1>5, <1>6, <1>7 DEF Thrown

LEMMA NextShape ==
  ASSUME Shape, [Next]_vars
  PROVE  Shape'
<1> USE DEF history, done, bounds, At
<1>1. ASSUME NEW w \in Workers, Fetch(w) PROVE Shape'
  <2>1. w \in Workers /\ Typed
    BY <1>1 DEF Workers, Shape, TypeOK, Typed
  <2>2. worker \in [Workers -> States] /\ worker[w] \in States
        /\ (worker[w].pc \in Settling \cup Deleting => worker[w].copy \in Records /\ worker[w].copy # None)
    BY <2>1, WorkerTyped
  <2>3. record # None
    BY <1>1, <2>1, RecordThere DEF Fetch
  <2>4. Moved(w)
    <3>1. PICK a \in Heard :
            worker' = [worker EXCEPT ![w].pc = "lock", ![w].answer = a]
      BY <1>1 DEF Fetch
    <3>2. a \in Answers
      BY HeardTyped
    <3>3. worker'[w] = [worker[w] EXCEPT !.pc = "lock", !.answer = a]
      BY <3>1, <2>1, <2>2
    <3>4. worker'[w] \in States
      BY <3>3, <3>2, <2>2 DEF States, Steps, Leased
    <3>5. worker'[w].pc \notin Settling \cup Deleting
      BY <3>3, <2>2 DEF States, Settling, Deleting
    <3> QED BY <3>1, <3>4, <3>5, <2>1, <2>2 DEF Moved
  <2>5. Typed' /\ record' # None
    BY <1>1, <2>1, <2>2, HeardTyped, <2>3, NoneIsNoRecord DEF Fetch, Typed
  <2> QED BY <2>1, <2>4, <2>5, ShapeIfMoved
<1>2. ASSUME NEW w \in Workers, NotFound(w) PROVE Shape'
  <2>1. w \in Workers /\ Typed
    BY <1>2 DEF Workers, Shape, TypeOK, Typed
  <2>2. worker \in [Workers -> States] /\ worker[w] \in States
        /\ (worker[w].pc \in Settling \cup Deleting => worker[w].copy \in Records /\ worker[w].copy # None)
    BY <2>1, WorkerTyped
  <2>3. record # None
    BY <1>2, <2>1, RecordThere DEF NotFound, Rest
  <2>4. Moved(w)
    BY <1>2, <2>1, <2>2, RestTyped, <2>3
       DEF NotFound, Rest, Moved, Typed, States, Steps, Leased, Settling, Deleting
  <2>5. Typed' /\ record' # None
    BY <1>2, <2>1, <2>2, RestTyped, <2>3, NoneIsNoRecord DEF NotFound, Rest, Typed
  <2> QED BY <2>1, <2>4, <2>5, ShapeIfMoved
<1>3. ASSUME NEW w \in Workers, CallFails(w) PROVE Shape'
  <2>1. w \in Workers /\ Typed
    BY <1>3 DEF Workers, Shape, TypeOK, Typed
  <2>2. worker \in [Workers -> States] /\ worker[w] \in States
        /\ (worker[w].pc \in Settling \cup Deleting => worker[w].copy \in Records /\ worker[w].copy # None)
    BY <2>1, WorkerTyped
  <2>3. record # None
    BY <1>3, <2>1, RecordThere DEF CallFails, Fault, Goto, Rest
  <2>4. Moved(w)
    BY <1>3, <2>1, <2>2, RestTyped, <2>3
       DEF CallFails, Fault, Goto, Rest, Moved, Typed, States, Steps, Leased, Settling, Deleting
  <2>5. Typed' /\ record' # None
    BY <1>3, <2>1, <2>2, RestTyped, <2>3, BoundsAreNat, NoneIsNoRecord
       DEF CallFails, Fault, Goto, Rest, Typed
  <2> QED BY <2>1, <2>4, <2>5, ShapeIfMoved
<1>4. ASSUME NEW w \in Workers, ObserveLock(w) PROVE Shape'
  <2>1. w \in Workers /\ Typed
    BY <1>4 DEF Workers, Shape, TypeOK, Typed
  <2>2. worker \in [Workers -> States] /\ worker[w] \in States
        /\ (worker[w].pc \in Settling \cup Deleting => worker[w].copy \in Records /\ worker[w].copy # None)
    BY <2>1, WorkerTyped
  <2>3. record # None
    BY <1>4, <2>1, RecordThere DEF ObserveLock, Lock, Goto
  <2>4. Moved(w)
    BY <1>4, <2>1, <2>2, <2>3
       DEF ObserveLock, Lock, Goto, Moved, Typed, States, Steps, Leased, Answers, Nothing,
           AtRest, Settling, Deleting
  <2>5. Typed' /\ record' # None
    BY <1>4, <2>1, <2>2, <2>3, NoneIsNoRecord DEF ObserveLock, Lock, Goto, Typed
  <2> QED BY <2>1, <2>4, <2>5, ShapeIfMoved
<1>5. ASSUME NEW w \in Workers, Busy(w) PROVE Shape'
  <2>1. w \in Workers /\ Typed
    BY <1>5 DEF Workers, Shape, TypeOK, Typed
  <2>2. worker \in [Workers -> States] /\ worker[w] \in States
        /\ (worker[w].pc \in Settling \cup Deleting => worker[w].copy \in Records /\ worker[w].copy # None)
    BY <2>1, WorkerTyped
  <2>3. record # None
    BY <1>5, <2>1, RecordThere DEF Busy, Observed, Rest
  <2>4. Moved(w)
    BY <1>5, <2>1, <2>2, ObservedRests DEF Busy, Moved, Settling, Deleting
  <2>5. Typed' /\ record' # None
    BY <1>5, <2>1, <2>2, RestTyped, <2>3, NoneIsNoRecord DEF Busy, Observed, Rest, Typed
  <2> QED BY <2>1, <2>4, <2>5, ShapeIfMoved
<1>6. ASSUME NEW w \in Workers, ReadAndMerge(w) PROVE Shape'
  <2>1. w \in Workers /\ Typed
    BY <1>6 DEF Workers, Shape, TypeOK, Typed
  <2>2. worker \in [Workers -> States] /\ worker[w] \in States
        /\ (worker[w].pc \in Settling \cup Deleting => worker[w].copy \in Records /\ worker[w].copy # None)
    BY <2>1, WorkerTyped
  <2>3. record # None
    BY <1>6, <2>1, RecordThere DEF ReadAndMerge
  <2>4. Moved(w)
    <3>1. Merge(record, worker[w].answer) \in Records
      BY <2>1, <2>2, <2>3, MergeTyped DEF Typed, States
    <3>2. worker'[w] = [worker[w] EXCEPT !.pc = "save", !.copy = Merge(record, worker[w].answer)]
      BY <1>6, <2>2 DEF ReadAndMerge
    <3>3. worker' = [worker EXCEPT ![w] = worker'[w]]
      BY <1>6, <2>2 DEF ReadAndMerge
    <3> QED BY <3>1, <3>2, <3>3, <2>2, NoneIsNoRecord DEF Moved, States, Steps, Leased
  <2>5. Typed' /\ record' # None
    BY <1>6, <2>1, <2>2, MergeTyped, NoneIsNoRecord, <2>3, NoneIsNoRecord
       DEF ReadAndMerge, Typed
  <2> QED BY <2>1, <2>4, <2>5, ShapeIfMoved
<1>7. ASSUME NEW w \in Workers, Save(w) PROVE Shape'
  <2>1. w \in Workers /\ Typed
    BY <1>7 DEF Workers, Shape, TypeOK, Typed
  <2>2. worker \in [Workers -> States] /\ worker[w] \in States
        /\ (worker[w].pc \in Settling \cup Deleting => worker[w].copy \in Records /\ worker[w].copy # None)
    BY <2>1, WorkerTyped
  <2>3. record # None
    BY <1>7, <2>1, RecordThere DEF Save, Overwrite, Goto, AfterSave
  <2>4. Moved(w)
    BY <1>7, <2>1, <2>2, <2>3
       DEF Save, Overwrite, Goto, AfterSave, Moved, Typed, States, Steps, Leased, Answers,
           Nothing, AtRest, Settling, Deleting
  <2>5. Typed' /\ record' # None
    BY <1>7, <2>1, <2>2, <2>3, NoneIsNoRecord
       DEF Save, Overwrite, Goto, AfterSave, Typed, Settling, Deleting
  <2> QED BY <2>1, <2>4, <2>5, ShapeIfMoved
<1>8. ASSUME NEW w \in Workers, Schedule(w) PROVE Shape'
  <2>1. w \in Workers /\ Typed
    BY <1>8 DEF Workers, Shape, TypeOK, Typed
  <2>2. worker \in [Workers -> States] /\ worker[w] \in States
        /\ (worker[w].pc \in Settling \cup Deleting => worker[w].copy \in Records /\ worker[w].copy # None)
    BY <2>1, WorkerTyped
  <2>3. record # None
    BY <1>8, <2>1, RecordThere DEF Schedule, Goto, NeedsProcessing, NeedsRateLimit, Records
  <2>4. Moved(w)
    BY <1>8, <2>1, <2>2, <2>3, NoneIsNoRecord
       DEF Schedule, Goto, NeedsProcessing, NeedsRateLimit, Records, Moved, Typed, States,
           Steps, Leased, Answers, Nothing, AtRest, Settling, Deleting
  <2>5. Typed' /\ record' # None
    BY <1>8, <2>1, <2>2, <2>3, NoneIsNoRecord
       DEF Schedule, Goto, NeedsProcessing, NeedsRateLimit, Records, Typed
  <2> QED BY <2>1, <2>4, <2>5, ShapeIfMoved
<1>9. ASSUME NEW w \in Workers, Charge(w) PROVE Shape'
  <2>1. w \in Workers /\ Typed
    BY <1>9 DEF Workers, Shape, TypeOK, Typed
  <2>2. worker \in [Workers -> States] /\ worker[w] \in States
        /\ (worker[w].pc \in Settling \cup Deleting => worker[w].copy \in Records /\ worker[w].copy # None)
    BY <2>1, WorkerTyped
  <2>3. record # None
    BY <1>9, <2>1, RecordThere DEF Charge, AddTotal, Fault, Goto, Records
  <2>4. Moved(w)
    BY <1>9, <2>1, <2>2, <2>3, NoneIsNoRecord
       DEF Charge, AddTotal, Fault, Goto, Records, Moved, Typed, States, Steps, Leased, Answers,
           Nothing, AtRest, Settling, Deleting
  <2>5. Typed' /\ record' # None
    BY <1>9, <2>1, <2>2, <2>3, BoundsAreNat, NoneIsNoRecord
       DEF Charge, AddTotal, Fault, Goto, Records, Typed
  <2> QED BY <2>1, <2>4, <2>5, ShapeIfMoved
<1>10. ASSUME NEW w \in Workers, Count(w) PROVE Shape'
  <2>1. w \in Workers /\ Typed
    BY <1>10 DEF Workers, Shape, TypeOK, Typed
  <2>2. worker \in [Workers -> States] /\ worker[w] \in States
        /\ (worker[w].pc \in Settling \cup Deleting => worker[w].copy \in Records /\ worker[w].copy # None)
    BY <2>1, WorkerTyped
  <2>3. record # None
    BY <1>10, <2>1, RecordThere DEF Count, CountOnce, Fault, Goto, Records
  <2>4. Moved(w)
    BY <1>10, <2>1, <2>2, <2>3, NoneIsNoRecord
       DEF Count, CountOnce, Fault, Goto, Records, Moved, Typed, States, Steps, Leased, Answers,
           Nothing, AtRest, Settling, Deleting
  <2>5. Typed' /\ record' # None
    <3>1. counted \in 0..2 /\ counted # 2 => counted + 1 \in 0..2
      BY SMT
    <3>2. counted' \in 0..2 /\ record' \in Records
      BY <1>10, <2>1, <2>3, <3>1 DEF Count, CountOnce, Typed, Records
    <3> QED BY <1>10, <2>1, <2>3, <3>2, BoundsAreNat, NoneIsNoRecord
               DEF Count, CountOnce, Fault, Typed
  <2> QED BY <2>1, <2>4, <2>5, ShapeIfMoved
<1>11. ASSUME NEW w \in Workers, Unlock(w) PROVE Shape'
  <2>1. w \in Workers /\ Typed
    BY <1>11 DEF Workers, Shape, TypeOK, Typed
  <2>2. worker \in [Workers -> States] /\ worker[w] \in States
        /\ (worker[w].pc \in Settling \cup Deleting => worker[w].copy \in Records /\ worker[w].copy # None)
    BY <2>1, WorkerTyped
  <2>3. record # None
    BY <1>11, <2>1, RecordThere DEF Unlock, GiveBack, Observed, Rest
  <2>4. Moved(w)
    <3>1. CASE worker[w].task = "delete"
      <4> DEFINE next == IF worker[w].answer.status = "over" THEN "remove" ELSE "cancel"
                 s == [AtRest EXCEPT !.pc = next, !.task = "delete"]
      <4>1. worker' = [worker EXCEPT ![w] = s]
        BY <1>11, <3>1 DEF Unlock
      <4>2. s \in States /\ s.pc \in {"remove", "cancel"}
        BY DEF AtRest, States, Steps, Nothing, Answers
      <4> HIDE DEF s
      <4> QED BY <4>1, <4>2, <2>2 DEF Moved, Settling, Deleting
    <3>2. CASE worker[w].task # "delete"
      BY <1>11, <3>2, <2>1, <2>2, ObservedRests DEF Unlock, Moved, Settling, Deleting
    <3> QED BY <3>1, <3>2
  <2>5. Typed' /\ record' # None
    BY <1>11, <2>1, <2>2, RestTyped, <2>3, NoneIsNoRecord
       DEF Unlock, GiveBack, Observed, Rest, Typed
  <2> QED BY <2>1, <2>4, <2>5, ShapeIfMoved
<1>12. ASSUME NEW w \in Workers, Abort(w) PROVE Shape'
  <2>1. w \in Workers /\ Typed
    BY <1>12 DEF Workers, Shape, TypeOK, Typed
  <2>2. worker \in [Workers -> States] /\ worker[w] \in States
        /\ (worker[w].pc \in Settling \cup Deleting => worker[w].copy \in Records /\ worker[w].copy # None)
    BY <2>1, WorkerTyped
  <2>3. record # None
    BY <1>12, <2>1, RecordThere DEF Abort, GiveBack, Thrown, LastObservation, Rest
  <2>4. Moved(w)
    BY <1>12, <2>1, <2>2, ThrownRests DEF Abort, Moved, Settling, Deleting
  <2>5. Typed' /\ record' # None
    BY <1>12, <2>1, <2>2, RestTyped, <2>3, NoneIsNoRecord
       DEF Abort, GiveBack, Thrown, LastObservation, Rest, Typed
  <2> QED BY <2>1, <2>4, <2>5, ShapeIfMoved
<1>13. ASSUME NEW w \in Workers, RedisFails(w) PROVE Shape'
  <2>1. w \in Workers /\ Typed
    BY <1>13 DEF Workers, Shape, TypeOK, Typed
  <2>2. worker \in [Workers -> States] /\ worker[w] \in States
        /\ (worker[w].pc \in Settling \cup Deleting => worker[w].copy \in Records /\ worker[w].copy # None)
    BY <2>1, WorkerTyped
  <2>4. Moved(w)
    <3>1. CASE worker[w].pc \in Leased \ {"unlock", "abort"}
      BY <1>13, <3>1, <2>2
         DEF RedisFails, Goto, Moved, States, Steps, Leased, Settling, Deleting
    <3>2. CASE worker[w].pc \notin Leased \ {"unlock", "abort"}
      BY <1>13, <3>2, <2>1, <2>2, ThrownRests DEF RedisFails, Moved, Settling, Deleting
    <3> QED BY <3>1, <3>2
  <2>5. Typed'
    BY <1>13, <2>1, <2>2, RestTyped, BoundsAreNat, NoneIsNoRecord
       DEF RedisFails, Fault, Goto, Thrown, LastObservation, Rest, Leased, Typed
  <2>6. record' # None \/ RecordKnown'
    <3>1. CASE worker[w].pc = "create"
      BY <1>13, <3>1, <2>1, <2>2, ThrownRests, WorkersDiffer
         DEF RedisFails, RecordKnown, Shape, Leased
    <3>2. CASE worker[w].pc # "create"
      BY <1>13, <3>2, <2>1, RecordThere DEF RedisFails
    <3> QED BY <3>1, <3>2
  <2> QED BY <2>1, <2>4, <2>5, <2>6, ShapeIfMoved
<1>14. ASSUME NEW w \in Workers, Die(w) PROVE Shape'
  <2>1. w \in Workers /\ Typed
    BY <1>14 DEF Workers, Shape, TypeOK, Typed
  <2>2. worker \in [Workers -> States] /\ worker[w] \in States
        /\ (worker[w].pc \in Settling \cup Deleting => worker[w].copy \in Records /\ worker[w].copy # None)
    BY <2>1, WorkerTyped
  <2>4. Moved(w)
    BY <1>14, <2>1, <2>2, RestTyped
       DEF Die, Fault, Rest, Moved, Typed, States, Steps, Leased, Settling, Deleting
  <2>5. Typed'
    BY <1>14, <2>1, <2>2, RestTyped, BoundsAreNat, NoneIsNoRecord DEF Die, Fault, Rest, Typed
  <2>6. record' # None \/ RecordKnown'
    BY <1>14, <2>1, <2>2, RestTyped, WorkersDiffer, NoneIsNoRecord
       DEF Die, Fault, Rest, RecordKnown, Shape
  <2> QED BY <2>1, <2>4, <2>5, <2>6, ShapeIfMoved
<1>15. ASSUME NEW w \in Clients, Post(w) PROVE Shape'
  <2>1. w \in Workers /\ Typed
    BY <1>15 DEF Workers, Shape, TypeOK, Typed
  <2>2. worker \in [Workers -> States] /\ worker[w] \in States
        /\ (worker[w].pc \in Settling \cup Deleting => worker[w].copy \in Records /\ worker[w].copy # None)
    BY <2>1, WorkerTyped
  <2>4. Moved(w)
    <3>1. PICK task \in {"post", "stream"}, usage \in BOOLEAN :
            worker' = [worker EXCEPT ![w] =
                        [@ EXCEPT !.pc = "create", !.task = task,
                                  !.answer = [status |-> IF job' = "running" THEN "running" ELSE "over",
                                              usage |-> usage]]]
      BY <1>15 DEF Post
    <3>2. [status |-> IF job' = "running" THEN "running" ELSE "over", usage |-> usage] \in Answers
      BY DEF Answers
    <3>3. worker'[w] = [worker[w] EXCEPT !.pc = "create", !.task = task,
                                       !.answer = [status |-> IF job' = "running" THEN "running" ELSE "over",
                                                   usage |-> usage]]
      BY <3>1, <2>1, <2>2
    <3>4. worker'[w] \in States
      BY <3>3, <3>2, <2>2 DEF States, Steps, Leased
    <3>5. worker'[w].pc \notin Settling \cup Deleting
      BY <3>3, <2>2 DEF States, Settling, Deleting
    <3> QED BY <3>1, <3>4, <3>5, <2>1, <2>2 DEF Moved
  <2>5. Typed'
    BY <1>15, <2>1, <2>2, NoneIsNoRecord DEF Post, Typed
  <2>6. record' # None \/ RecordKnown'
    BY <1>15, <2>1, <2>2, WorkersDiffer, NoneIsNoRecord DEF Post, RecordKnown, Shape
  <2> QED BY <2>1, <2>4, <2>5, <2>6, ShapeIfMoved
<1>16. ASSUME NEW w \in Clients, Create(w) PROVE Shape'
  <2>1. w \in Workers /\ Typed
    BY <1>16 DEF Workers, Shape, TypeOK, Typed
  <2>2. worker \in [Workers -> States] /\ worker[w] \in States
        /\ (worker[w].pc \in Settling \cup Deleting => worker[w].copy \in Records /\ worker[w].copy # None)
    BY <2>1, WorkerTyped
  <2>4. Moved(w)
    BY <1>16, <2>1, <2>2, NoneIsNoRecord
       DEF Create, Goto, Records, Moved, Typed, States, Steps, Leased, Answers, Nothing, AtRest,
           Settling, Deleting
  <2>5. Typed'
    <3>1. record' \in Records \cup {None}
      <4>1. CASE record = None
        <5>1. PICK stored \in BOOLEAN :
                record' = [over |-> worker[w].answer.status = "over", final |-> FALSE,
                           billed |-> FALSE, rated |-> FALSE, stored |-> stored, review |-> FALSE]
          BY <1>16, <4>1 DEF Create
        <5>2. (worker[w].answer.status = "over") \in BOOLEAN
          OBVIOUS
        <5> QED BY <5>1, <5>2 DEF Records
      <4> QED BY <1>16, <4>1, <2>1 DEF Create, Typed
    <3> QED BY <1>16, <2>1, <3>1 DEF Create, Typed
  <2>6. record' # None \/ RecordKnown'
    <3>1. CASE record = None
      <4>1. PICK stored \in BOOLEAN :
              record' = [over |-> worker[w].answer.status = "over", final |-> FALSE,
                         billed |-> FALSE, rated |-> FALSE, stored |-> stored, review |-> FALSE]
        BY <1>16, <3>1 DEF Create
      <4>2. (worker[w].answer.status = "over") \in BOOLEAN
        OBVIOUS
      <4>3. record' \in Records
        BY <4>1, <4>2 DEF Records
      <4> QED BY <4>3, NoneIsNoRecord
    <3>2. CASE record # None
      BY <1>16, <3>2 DEF Create
    <3> QED BY <3>1, <3>2
  <2> QED BY <2>1, <2>4, <2>5, <2>6, ShapeIfMoved
<1>17. ASSUME NEW w \in Clients, Ask(w) PROVE Shape'
  <2>1. w \in Workers /\ Typed
    BY <1>17 DEF Workers, Shape, TypeOK, Typed
  <2>2. worker \in [Workers -> States] /\ worker[w] \in States
        /\ (worker[w].pc \in Settling \cup Deleting => worker[w].copy \in Records /\ worker[w].copy # None)
    BY <2>1, WorkerTyped
  <2>3. record # None
    BY <1>17, <2>1, RecordThere DEF Ask, Known
  <2>4. Moved(w)
    <3>1. PICK task \in {"read", "stream", "delete"}, step \in {"fetch", "cancel"} :
            worker' = [worker EXCEPT ![w].pc = step, ![w].task = task]
      BY <1>17 DEF Ask
    <3>3. worker'[w] = [worker[w] EXCEPT !.pc = step, !.task = task]
      BY <3>1, <2>1, <2>2
    <3>4. worker'[w] \in States
      BY <3>3, <2>2 DEF States, Steps, Leased
    <3>5. worker'[w].pc \notin Settling \cup Deleting
      BY <3>3, <2>2 DEF States, Settling, Deleting
    <3> QED BY <3>1, <3>4, <3>5, <2>1, <2>2 DEF Moved
  <2>5. Typed' /\ record' # None
    BY <1>17, <2>1, <2>2, <2>3, NoneIsNoRecord DEF Ask, Known, Typed
  <2> QED BY <2>1, <2>4, <2>5, ShapeIfMoved
<1>18. ASSUME NEW w \in Clients, Cancel(w) PROVE Shape'
  <2>1. w \in Workers /\ Typed
    BY <1>18 DEF Workers, Shape, TypeOK, Typed
  <2>2. worker \in [Workers -> States] /\ worker[w] \in States
        /\ (worker[w].pc \in Settling \cup Deleting => worker[w].copy \in Records /\ worker[w].copy # None)
    BY <2>1, WorkerTyped
  <2>3. record # None
    BY <1>18, <2>1, RecordThere DEF Cancel
  <2>4. Moved(w)
    <3>1. PICK usage \in BOOLEAN :
            worker' = [worker EXCEPT ![w].pc = "lock",
                                     ![w].answer = [status |-> "over", usage |-> usage]]
      BY <1>18 DEF Cancel
    <3>2. [status |-> "over", usage |-> usage] \in Answers
      BY DEF Answers
    <3>3. worker'[w] = [worker[w] EXCEPT !.pc = "lock", !.answer = [status |-> "over", usage |-> usage]]
      BY <3>1, <2>1, <2>2
    <3>4. worker'[w] \in States
      BY <3>3, <3>2, <2>2 DEF States, Steps, Leased
    <3>5. worker'[w].pc \notin Settling \cup Deleting
      BY <3>3, <2>2 DEF States, Settling, Deleting
    <3> QED BY <3>1, <3>4, <3>5, <2>1, <2>2 DEF Moved
  <2>5. Typed' /\ record' # None
    BY <1>18, <2>1, <2>2, <2>3, NoneIsNoRecord DEF Cancel, Typed
  <2> QED BY <2>1, <2>4, <2>5, ShapeIfMoved
<1>19. ASSUME NEW w \in Clients, Interrupted(w) PROVE Shape'
  <2>1. w \in Workers /\ Typed
    BY <1>19 DEF Workers, Shape, TypeOK, Typed
  <2>2. worker \in [Workers -> States] /\ worker[w] \in States
        /\ (worker[w].pc \in Settling \cup Deleting => worker[w].copy \in Records /\ worker[w].copy # None)
    BY <2>1, WorkerTyped
  <2>3. record # None
    BY <1>19, <2>1, RecordThere DEF Interrupted, LastObservation
  <2>4. Moved(w)
    BY <1>19, <2>1, <2>2, RestTyped, <2>3
       DEF Interrupted, LastObservation, Moved, Typed, States, Steps, Leased, Settling, Deleting
  <2>5. Typed' /\ record' # None
    BY <1>19, <2>1, <2>2, RestTyped, <2>3, NoneIsNoRecord
       DEF Interrupted, LastObservation, Typed
  <2> QED BY <2>1, <2>4, <2>5, ShapeIfMoved
<1>20. ASSUME NEW w \in Clients, Remove(w) PROVE Shape'
  <2>1. w \in Workers /\ Typed
    BY <1>20 DEF Workers, Shape, TypeOK, Typed
  <2>2. worker \in [Workers -> States] /\ worker[w] \in States
        /\ (worker[w].pc \in Settling \cup Deleting => worker[w].copy \in Records /\ worker[w].copy # None)
    BY <2>1, WorkerTyped
  <2>3. record # None
    BY <1>20, <2>1, RecordThere DEF Remove, Goto
  <2>4. Moved(w)
    BY <1>20, <2>1, <2>2, <2>3
       DEF Remove, Goto, Moved, Typed, States, Steps, Leased, Answers, Nothing, AtRest,
           Settling, Deleting
  <2>5. Typed' /\ record' # None
    BY <1>20, <2>1, <2>2, <2>3, NoneIsNoRecord DEF Remove, Goto, Typed
  <2> QED BY <2>1, <2>4, <2>5, ShapeIfMoved
<1>21. ASSUME NEW w \in Clients, GetSaved(w) PROVE Shape'
  <2>1. w \in Workers /\ Typed
    BY <1>21 DEF Workers, Shape, TypeOK, Typed
  <2>2. worker \in [Workers -> States] /\ worker[w] \in States
        /\ (worker[w].pc \in Settling \cup Deleting => worker[w].copy \in Records /\ worker[w].copy # None)
    BY <2>1, WorkerTyped
  <2>3. record # None
    BY <1>21, <2>1, RecordThere DEF GetSaved, Records
  <2>4. Moved(w)
    <3> DEFINE c == [record EXCEPT !.stored = FALSE]
    <3>1. c \in Records /\ c # None
      BY <2>1, <2>3, NoneIsNoRecord DEF Typed, Records
    <3>2. worker' = [worker EXCEPT ![w].pc = "saveDeleted", ![w].copy = c]
      BY <1>21 DEF GetSaved
    <3> HIDE DEF c
    <3>3. worker'[w] = [worker[w] EXCEPT !.pc = "saveDeleted", !.copy = c]
      BY <3>2, <2>1, <2>2
    <3>4. worker'[w] \in States /\ worker'[w].copy # None
      BY <3>1, <3>3, <2>2 DEF States, Steps
    <3> QED BY <3>2, <3>4, <2>1, <2>2 DEF Moved
  <2>5. Typed' /\ record' # None
    BY <1>21, <2>1, <2>2, NoneIsNoRecord, <2>3, NoneIsNoRecord DEF GetSaved, Records, Typed
  <2> QED BY <2>1, <2>4, <2>5, ShapeIfMoved
<1>22. ASSUME NEW w \in Clients, ScheduleDeleted(w) PROVE Shape'
  <2>1. w \in Workers /\ Typed
    BY <1>22 DEF Workers, Shape, TypeOK, Typed
  <2>2. worker \in [Workers -> States] /\ worker[w] \in States
        /\ (worker[w].pc \in Settling \cup Deleting => worker[w].copy \in Records /\ worker[w].copy # None)
    BY <2>1, WorkerTyped
  <2>3. record # None
    BY <1>22, <2>1, RecordThere
       DEF ScheduleDeleted, Rest, NeedsProcessing, NeedsRateLimit, Records
  <2>4. Moved(w)
    BY <1>22, <2>1, <2>2, RestTyped, <2>3, NoneIsNoRecord
       DEF ScheduleDeleted, Rest, NeedsProcessing, NeedsRateLimit, Records, Moved, Typed,
           States, Steps, Leased, Settling, Deleting
  <2>5. Typed' /\ record' # None
    BY <1>22, <2>1, <2>2, RestTyped, <2>3, NoneIsNoRecord
       DEF ScheduleDeleted, Rest, NeedsProcessing, NeedsRateLimit, Records, Typed
  <2> QED BY <2>1, <2>4, <2>5, ShapeIfMoved
<1>23. ASSUME NEW w \in Pollers, Poll(w) PROVE Shape'
  <2>1. w \in Workers /\ Typed
    BY <1>23 DEF Workers, Shape, TypeOK, Typed
  <2>2. worker \in [Workers -> States] /\ worker[w] \in States
        /\ (worker[w].pc \in Settling \cup Deleting => worker[w].copy \in Records /\ worker[w].copy # None)
    BY <2>1, WorkerTyped
  <2>3. record # None
    BY <1>23 DEF Poll, Shape, RecordKnown
  <2>4. Moved(w)
    <3> DEFINE a == [status |-> IF record.over THEN "over" ELSE "running", usage |-> TRUE]
               step == IF record.stored THEN "fetch" ELSE "defer"
    <3>1. a \in Answers /\ step \in {"fetch", "defer"}
      BY DEF Answers
    <3>2. \/ worker' = [worker EXCEPT ![w].pc = "lock", ![w].task = "read", ![w].answer = a]
          \/ worker' = [worker EXCEPT ![w].pc = step, ![w].task = "read"]
      BY <1>23, <2>2, Zenon DEF Poll
    <3> HIDE DEF a, step
    <3>3. \/ worker'[w] = [worker[w] EXCEPT !.pc = "lock", !.task = "read", !.answer = a]
          \/ worker'[w] = [worker[w] EXCEPT !.pc = step, !.task = "read"]
      BY <3>2, <2>1, <2>2
    <3>4. worker' = [worker EXCEPT ![w] = worker'[w]]
      BY <3>2, <2>1, <2>2
    <3>5. worker'[w] \in States /\ worker'[w].pc \in {"lock", "fetch", "defer"}
      BY <3>1, <3>3, <2>2 DEF States, Steps
    <3> QED BY <3>4, <3>5 DEF Moved, Settling, Deleting
  <2>5. Typed' /\ record' # None
    BY <1>23, <2>1, <2>2, <2>3, NoneIsNoRecord DEF Poll, Typed
  <2> QED BY <2>1, <2>4, <2>5, ShapeIfMoved
<1>24. ASSUME NEW w \in Pollers, DeferLock(w) PROVE Shape'
  <2>1. w \in Workers /\ Typed
    BY <1>24 DEF Workers, Shape, TypeOK, Typed
  <2>2. worker \in [Workers -> States] /\ worker[w] \in States
        /\ (worker[w].pc \in Settling \cup Deleting => worker[w].copy \in Records /\ worker[w].copy # None)
    BY <2>1, WorkerTyped
  <2>3. record # None
    BY <1>24, <2>1, RecordThere DEF DeferLock, Lock, Goto
  <2>4. Moved(w)
    BY <1>24, <2>1, <2>2, <2>3
       DEF DeferLock, Lock, Goto, Moved, Typed, States, Steps, Leased, Answers, Nothing, AtRest,
           Settling, Deleting
  <2>5. Typed' /\ record' # None
    BY <1>24, <2>1, <2>2, <2>3, NoneIsNoRecord DEF DeferLock, Lock, Goto, Typed
  <2> QED BY <2>1, <2>4, <2>5, ShapeIfMoved
<1>25. ASSUME NEW w \in Pollers, Review(w) PROVE Shape'
  <2>1. w \in Workers /\ Typed
    BY <1>25 DEF Workers, Shape, TypeOK, Typed
  <2>2. worker \in [Workers -> States] /\ worker[w] \in States
        /\ (worker[w].pc \in Settling \cup Deleting => worker[w].copy \in Records /\ worker[w].copy # None)
    BY <2>1, WorkerTyped
  <2>3. record # None
    BY <1>25, <2>1, RecordThere DEF Review, Records
  <2>4. Moved(w)
    <3>1. /\ record \in Records /\ record # None
          /\ [record EXCEPT !.review = TRUE] \in Records
          /\ [record EXCEPT !.review = TRUE] # None
      BY <2>1, <2>3, NoneIsNoRecord DEF Typed, Records
    <3>2. PICK step \in {"reschedule", "giveUp"}, c \in Records :
            worker' = [worker EXCEPT ![w] = [@ EXCEPT !.pc = step, !.copy = c]]
      BY <1>25, <3>1 DEF Review
    <3>3. worker'[w] = [worker[w] EXCEPT !.pc = step, !.copy = c]
      BY <3>2, <2>1, <2>2
    <3>4. worker'[w] \in States /\ worker'[w].copy # None
      BY <3>3, <2>2, NoneIsNoRecord DEF States, Steps, Leased
    <3> QED BY <3>2, <3>4, <2>1, <2>2 DEF Moved
  <2>5. Typed' /\ record' # None
    BY <1>25, <2>1, <2>2, NoneIsNoRecord, <2>3, NoneIsNoRecord DEF Review, Records, Typed
  <2> QED BY <2>1, <2>4, <2>5, ShapeIfMoved
<1>26. ASSUME NEW w \in Pollers, Requeue(w) PROVE Shape'
  <2>1. w \in Workers /\ Typed
    BY <1>26 DEF Workers, Shape, TypeOK, Typed
  <2>2. worker \in [Workers -> States] /\ worker[w] \in States
        /\ (worker[w].pc \in Settling \cup Deleting => worker[w].copy \in Records /\ worker[w].copy # None)
    BY <2>1, WorkerTyped
  <2>3. record # None
    BY <1>26, <2>1, RecordThere DEF Requeue, Rest
  <2>4. Moved(w)
    BY <1>26, <2>1, <2>2, RestTyped, <2>3
       DEF Requeue, Rest, Moved, Typed, States, Steps, Leased, Settling, Deleting
  <2>5. Typed' /\ record' # None
    BY <1>26, <2>1, <2>2, RestTyped, <2>3, NoneIsNoRecord DEF Requeue, Rest, Typed
  <2> QED BY <2>1, <2>4, <2>5, ShapeIfMoved
<1>27. CASE Finish \/ Vanish \/ Lapse
  BY <1>27, BoundsAreNat DEF Finish, Vanish, Lapse, Shape, TypeOK, RecordKnown, CopyHeld
<1>28. CASE UNCHANGED vars
  BY <1>28 DEF vars, Shape, TypeOK, RecordKnown, CopyHeld
<1> QED
  BY <1>1, <1>2, <1>3, <1>4, <1>5, <1>6, <1>7, <1>8, <1>9, <1>10, <1>11, <1>12, <1>13, <1>14,
     <1>15, <1>16, <1>17, <1>18, <1>19, <1>20, <1>21, <1>22, <1>23, <1>24, <1>25, <1>26, <1>27,
     <1>28
     DEF Next, Asking, Polling, Observing, Failing

-----------------------------------------------------------------------------
(***************************************************************************)
(* Most steps neither write the record nor make a copy of it.              *)
(***************************************************************************)
Keeps ==
  /\ UNCHANGED <<record, done, torn, deleted>>
  /\ outdated' \subseteq outdated
  /\ \A v \in Workers :
       /\ worker'[v].copy \in {worker[v].copy, None}
       /\ worker'[v].pc \in Settling \cup Deleting =>
            /\ worker'[v].copy = worker[v].copy
            /\ v \in outdated' <=> v \in outdated
            /\ worker[v].pc \in Settling \cup Deleting
            /\ worker'[v].pc \in Settling => worker[v].pc \in Settling
            /\ worker'[v].pc \in Writing => worker[v].pc \in Writing
            /\ worker'[v].pc = worker[v].pc \/ Schedule(v)

LEMMA KeepsIfMoved ==
  ASSUME Shape, NEW w \in Workers,
         worker' = [worker EXCEPT ![w] = worker'[w]],
         worker'[w].pc \notin Settling \cup Deleting,
         worker'[w].copy \in {worker[w].copy, None},
         outdated' \in {outdated, outdated \ {w}},
         UNCHANGED <<record, done, torn, deleted>>
  PROVE  Keeps
<1>1. \A v \in Workers : v # w => worker'[v] = worker[v]
  BY WorkerTyped
<1> QED BY <1>1 DEF Keeps

\* The steps that make a copy of the record, or write it.
Reads(w) == ReadAndMerge(w) \/ Review(w) \/ GetSaved(w)
Writes(w) == Create(w) \/ Save(w) \/ Charge(w) \/ Count(w)

LEMMA StepsKeep ==
  ASSUME Shape, [Next]_vars
  PROVE  Keeps \/ \E w \in Workers : Reads(w) \/ Writes(w)
<1> USE DEF history, done, bounds, At
<1>1. ASSUME NEW w \in Workers, Fetch(w) PROVE Keeps
  <2>1. w \in Workers /\ worker \in [Workers -> States] /\ worker[w] \in States
    BY <1>1, WorkerTyped DEF Workers
  <2>2. /\ worker' = [worker EXCEPT ![w] = worker'[w]]
        /\ worker'[w].pc \notin Settling \cup Deleting
        /\ worker'[w].copy \in {worker[w].copy, None}
    <3>1. PICK a \in Heard : worker' = [worker EXCEPT ![w].pc = "lock", ![w].answer = a]
      BY <1>1 DEF Fetch
    <3>2. worker'[w] = [worker[w] EXCEPT !.pc = "lock", !.answer = a]
      BY <3>1, <2>1
    <3>3. worker'[w].pc = "lock" /\ worker'[w].copy = worker[w].copy
      BY <3>2, <2>1 DEF States
    <3> QED BY <3>1, <3>3, <2>1 DEF Settling, Deleting
  <2> QED BY <1>1, <2>1, <2>2, KeepsIfMoved DEF Fetch
<1>2. ASSUME NEW w \in Workers, NotFound(w) PROVE Keeps
  <2>1. w \in Workers /\ worker \in [Workers -> States] /\ worker[w] \in States
    BY <1>2, WorkerTyped DEF Workers
  <2>2. /\ worker' = [worker EXCEPT ![w] = worker'[w]]
        /\ worker'[w].pc \notin Settling \cup Deleting
        /\ worker'[w].copy \in {worker[w].copy, None}
    BY <1>2, <2>1, RestTyped DEF NotFound, Rest, States, Settling, Deleting
  <2> QED BY <1>2, <2>1, <2>2, KeepsIfMoved DEF NotFound
<1>3. ASSUME NEW w \in Workers, CallFails(w) PROVE Keeps
  <2>1. w \in Workers /\ worker \in [Workers -> States] /\ worker[w] \in States
    BY <1>3, WorkerTyped DEF Workers
  <2>2. /\ worker' = [worker EXCEPT ![w] = worker'[w]]
        /\ worker'[w].pc \notin Settling \cup Deleting
        /\ worker'[w].copy \in {worker[w].copy, None}
    BY <1>3, <2>1, RestTyped DEF CallFails, Goto, Rest, States, Settling, Deleting
  <2> QED BY <1>3, <2>1, <2>2, KeepsIfMoved DEF CallFails
<1>4. ASSUME NEW w \in Workers, ObserveLock(w) PROVE Keeps
  <2>1. w \in Workers /\ worker \in [Workers -> States] /\ worker[w] \in States
    BY <1>4, WorkerTyped DEF Workers
  <2>2. /\ worker' = [worker EXCEPT ![w] = worker'[w]]
        /\ worker'[w].pc \notin Settling \cup Deleting
        /\ worker'[w].copy \in {worker[w].copy, None}
    BY <1>4, <2>1 DEF ObserveLock, Lock, Goto, States, Settling, Deleting
  <2> QED BY <1>4, <2>1, <2>2, KeepsIfMoved DEF ObserveLock
<1>5. ASSUME NEW w \in Workers, Busy(w) PROVE Keeps
  <2>1. w \in Workers /\ worker \in [Workers -> States] /\ worker[w] \in States
    BY <1>5, WorkerTyped DEF Workers
  <2>2. /\ worker' = [worker EXCEPT ![w] = worker'[w]]
        /\ worker'[w].pc \notin Settling \cup Deleting
        /\ worker'[w].copy \in {worker[w].copy, None}
    BY <1>5, <2>1, ObservedRests DEF Busy, States, Settling, Deleting
  <2> QED BY <1>5, <2>1, <2>2, KeepsIfMoved DEF Busy
<1>6. ASSUME NEW w \in Workers, Unlock(w) PROVE Keeps
  <2>1. w \in Workers /\ worker \in [Workers -> States] /\ worker[w] \in States
    BY <1>6, WorkerTyped DEF Workers
  <2>2. /\ worker' = [worker EXCEPT ![w] = worker'[w]]
        /\ worker'[w].pc \notin Settling \cup Deleting
        /\ worker'[w].copy \in {worker[w].copy, None}
    <3>1. CASE worker[w].task = "delete"
      <4> DEFINE next == IF worker[w].answer.status = "over" THEN "remove" ELSE "cancel"
                 s == [AtRest EXCEPT !.pc = next, !.task = "delete"]
      <4>1. worker' = [worker EXCEPT ![w] = s]
        BY <1>6, <3>1 DEF Unlock
      <4>2. s.pc \in {"remove", "cancel"} /\ s.copy = None
        BY DEF AtRest
      <4> HIDE DEF s
      <4> QED BY <4>1, <4>2, <2>1 DEF Settling, Deleting
    <3>2. CASE worker[w].task # "delete"
      BY <1>6, <3>2, <2>1, ObservedRests DEF Unlock, Settling, Deleting
    <3> QED BY <3>1, <3>2
  <2> QED BY <1>6, <2>1, <2>2, KeepsIfMoved DEF Unlock
<1>7. ASSUME NEW w \in Workers, Abort(w) PROVE Keeps
  <2>1. w \in Workers /\ worker \in [Workers -> States] /\ worker[w] \in States
    BY <1>7, WorkerTyped DEF Workers
  <2>2. /\ worker' = [worker EXCEPT ![w] = worker'[w]]
        /\ worker'[w].pc \notin Settling \cup Deleting
        /\ worker'[w].copy \in {worker[w].copy, None}
    BY <1>7, <2>1, ThrownRests DEF Abort, States, Settling, Deleting
  <2> QED BY <1>7, <2>1, <2>2, KeepsIfMoved DEF Abort
<1>8. ASSUME NEW w \in Workers, RedisFails(w) PROVE Keeps
  <2>1. w \in Workers /\ worker \in [Workers -> States] /\ worker[w] \in States
    BY <1>8, WorkerTyped DEF Workers
  <2>2. /\ worker' = [worker EXCEPT ![w] = worker'[w]]
        /\ worker'[w].pc \notin Settling \cup Deleting
        /\ worker'[w].copy \in {worker[w].copy, None}
    BY <1>8, <2>1, ThrownRests DEF RedisFails, Goto, States, Settling, Deleting
  <2> QED BY <1>8, <2>1, <2>2, KeepsIfMoved DEF RedisFails
<1>9. ASSUME NEW w \in Workers, Die(w) PROVE Keeps
  <2>1. w \in Workers /\ worker \in [Workers -> States] /\ worker[w] \in States
    BY <1>9, WorkerTyped DEF Workers
  <2>2. /\ worker' = [worker EXCEPT ![w] = worker'[w]]
        /\ worker'[w].pc \notin Settling \cup Deleting
        /\ worker'[w].copy \in {worker[w].copy, None}
    BY <1>9, <2>1, RestTyped DEF Die, Rest, States, Settling, Deleting
  <2> QED BY <1>9, <2>1, <2>2, KeepsIfMoved DEF Die
<1>10. ASSUME NEW w \in Clients, Post(w) PROVE Keeps
  <2>1. w \in Workers /\ worker \in [Workers -> States] /\ worker[w] \in States
    BY <1>10, WorkerTyped DEF Workers
  <2>2. /\ worker' = [worker EXCEPT ![w] = worker'[w]]
        /\ worker'[w].pc \notin Settling \cup Deleting
        /\ worker'[w].copy \in {worker[w].copy, None}
    BY <1>10, <2>1 DEF Post, States, Settling, Deleting
  <2> QED BY <1>10, <2>1, <2>2, KeepsIfMoved DEF Post
<1>11. ASSUME NEW w \in Clients, Ask(w) PROVE Keeps
  <2>1. w \in Workers /\ worker \in [Workers -> States] /\ worker[w] \in States
    BY <1>11, WorkerTyped DEF Workers
  <2>2. /\ worker' = [worker EXCEPT ![w] = worker'[w]]
        /\ worker'[w].pc \notin Settling \cup Deleting
        /\ worker'[w].copy \in {worker[w].copy, None}
    <3>1. PICK task \in {"read", "stream", "delete"}, step \in {"fetch", "cancel"} :
            worker' = [worker EXCEPT ![w].pc = step, ![w].task = task]
      BY <1>11 DEF Ask
    <3>2. worker'[w] = [worker[w] EXCEPT !.pc = step, !.task = task]
      BY <3>1, <2>1
    <3> QED BY <3>1, <3>2, <2>1 DEF States, Settling, Deleting
  <2> QED BY <1>11, <2>1, <2>2, KeepsIfMoved DEF Ask
<1>12. ASSUME NEW w \in Clients, Cancel(w) PROVE Keeps
  <2>1. w \in Workers /\ worker \in [Workers -> States] /\ worker[w] \in States
    BY <1>12, WorkerTyped DEF Workers
  <2>2. /\ worker' = [worker EXCEPT ![w] = worker'[w]]
        /\ worker'[w].pc \notin Settling \cup Deleting
        /\ worker'[w].copy \in {worker[w].copy, None}
    <3>1. PICK a \in [status : {"over"}, usage : BOOLEAN] :
            worker' = [worker EXCEPT ![w].pc = "lock", ![w].answer = a]
      BY <1>12 DEF Cancel
    <3>2. worker'[w] = [worker[w] EXCEPT !.pc = "lock", !.answer = a]
      BY <3>1, <2>1
    <3>3. worker'[w].pc = "lock" /\ worker'[w].copy = worker[w].copy
      BY <3>2, <2>1 DEF States
    <3> QED BY <3>1, <3>3, <2>1 DEF Settling, Deleting
  <2> QED BY <1>12, <2>1, <2>2, KeepsIfMoved DEF Cancel
<1>13. ASSUME NEW w \in Clients, Interrupted(w) PROVE Keeps
  <2>1. w \in Workers /\ worker \in [Workers -> States] /\ worker[w] \in States
    BY <1>13, WorkerTyped DEF Workers
  <2>2. /\ worker' = [worker EXCEPT ![w] = worker'[w]]
        /\ worker'[w].pc \notin Settling \cup Deleting
        /\ worker'[w].copy \in {worker[w].copy, None}
    BY <1>13, <2>1, RestTyped DEF Interrupted, LastObservation, States, Settling, Deleting
  <2> QED BY <1>13, <2>1, <2>2, KeepsIfMoved DEF Interrupted
<1>14. ASSUME NEW w \in Clients, Remove(w) PROVE Keeps
  <2>1. w \in Workers /\ worker \in [Workers -> States] /\ worker[w] \in States
    BY <1>14, WorkerTyped DEF Workers
  <2>2. /\ worker' = [worker EXCEPT ![w] = worker'[w]]
        /\ worker'[w].pc \notin Settling \cup Deleting
        /\ worker'[w].copy \in {worker[w].copy, None}
    BY <1>14, <2>1 DEF Remove, Goto, States, Settling, Deleting
  <2> QED BY <1>14, <2>1, <2>2, KeepsIfMoved DEF Remove
<1>15. ASSUME NEW w \in Clients, ScheduleDeleted(w) PROVE Keeps
  <2>1. w \in Workers /\ worker \in [Workers -> States] /\ worker[w] \in States
    BY <1>15, WorkerTyped DEF Workers
  <2>2. /\ worker' = [worker EXCEPT ![w] = worker'[w]]
        /\ worker'[w].pc \notin Settling \cup Deleting
        /\ worker'[w].copy \in {worker[w].copy, None}
    BY <1>15, <2>1, RestTyped DEF ScheduleDeleted, Rest, States, Settling, Deleting
  <2> QED BY <1>15, <2>1, <2>2, KeepsIfMoved DEF ScheduleDeleted
<1>16. ASSUME NEW w \in Pollers, Poll(w) PROVE Keeps
  <2>1. w \in Workers /\ worker \in [Workers -> States] /\ worker[w] \in States
    BY <1>16, WorkerTyped DEF Workers
  <2>2. /\ worker' = [worker EXCEPT ![w] = worker'[w]]
        /\ worker'[w].pc \notin Settling \cup Deleting
        /\ worker'[w].copy \in {worker[w].copy, None}
    BY <1>16, <2>1 DEF Poll, States, Settling, Deleting
  <2> QED BY <1>16, <2>1, <2>2, KeepsIfMoved DEF Poll
<1>17. ASSUME NEW w \in Pollers, DeferLock(w) PROVE Keeps
  <2>1. w \in Workers /\ worker \in [Workers -> States] /\ worker[w] \in States
    BY <1>17, WorkerTyped DEF Workers
  <2>2. /\ worker' = [worker EXCEPT ![w] = worker'[w]]
        /\ worker'[w].pc \notin Settling \cup Deleting
        /\ worker'[w].copy \in {worker[w].copy, None}
    BY <1>17, <2>1 DEF DeferLock, Lock, Goto, States, Settling, Deleting
  <2> QED BY <1>17, <2>1, <2>2, KeepsIfMoved DEF DeferLock
<1>18. ASSUME NEW w \in Pollers, Requeue(w) PROVE Keeps
  <2>1. w \in Workers /\ worker \in [Workers -> States] /\ worker[w] \in States
    BY <1>18, WorkerTyped DEF Workers
  <2>2. /\ worker' = [worker EXCEPT ![w] = worker'[w]]
        /\ worker'[w].pc \notin Settling \cup Deleting
        /\ worker'[w].copy \in {worker[w].copy, None}
    BY <1>18, <2>1, RestTyped DEF Requeue, Rest, States, Settling, Deleting
  <2> QED BY <1>18, <2>1, <2>2, KeepsIfMoved DEF Requeue
<1>19. ASSUME NEW w \in Workers, Schedule(w) PROVE Keeps
  <2>1. worker \in [Workers -> States] /\ worker[w] \in States
    BY <1>19, WorkerTyped
  <2>2. /\ worker'[w].copy = worker[w].copy
        /\ \A v \in Workers : v # w => worker'[v] = worker[v]
    BY <1>19, <2>1 DEF Schedule, Goto, States
  <2>3. /\ worker'[w].pc \in {"charge", "mark", "unlock"}
        /\ worker'[w].pc \in {"charge", "mark"} => worker[w].pc = "schedule"
    BY <1>19, <2>1 DEF Schedule, Goto, States
  <2> QED BY <1>19, <2>2, <2>3 DEF Schedule, Keeps, Settling, Deleting, Writing
<1>20. CASE Finish \/ Vanish \/ Lapse \/ UNCHANGED vars
  BY <1>20 DEF Finish, Vanish, Lapse, vars, Keeps
<1>21. Clients \subseteq Workers /\ Pollers \subseteq Workers
  BY DEF Workers
<1> QED
  BY <1>1, <1>2, <1>3, <1>4, <1>5, <1>6, <1>7, <1>8, <1>9, <1>10, <1>11, <1>12, <1>13, <1>14,
     <1>15, <1>16, <1>17, <1>18, <1>19, <1>20, <1>21
     DEF Next, Asking, Polling, Observing, Failing, Reads, Writes

\* A copy of the record has its marks, and is not outdated.
LEMMA ReadsCopy ==
  ASSUME Shape, NEW w \in Workers, Reads(w)
  PROVE  /\ record \in Records
         /\ UNCHANGED <<record, done, torn, deleted, lapses>>
         /\ outdated' = outdated \ {w}
         /\ worker'[w].copy.billed = record.billed /\ worker'[w].copy.rated = record.rated
         /\ \A v \in Workers : v # w => worker'[v] = worker[v]
<1> USE DEF done, history, bounds, At
<1>1. worker \in [Workers -> States] /\ worker[w] \in States
  BY WorkerTyped
<1>2. record \in Records
  BY <1>1, RecordThere DEF Reads, ReadAndMerge, Review, GetSaved, Shape, TypeOK
<1>3. CASE ReadAndMerge(w)
  <2>1. worker[w].answer \in Answers
    BY <1>1 DEF States
  <2>2. worker'[w].copy = Merge(record, worker[w].answer)
    BY <1>1, <1>3 DEF ReadAndMerge, States
  <2> QED BY <1>1, <1>2, <1>3, <2>1, <2>2, MergeTyped DEF ReadAndMerge
<1>4. CASE Review(w)
  <2>1. worker'[w].copy \in {record, [record EXCEPT !.review = TRUE]}
    BY <1>1, <1>4 DEF Review, States
  <2> QED BY <1>1, <1>2, <1>4, <2>1 DEF Review, Records
<1>5. CASE GetSaved(w)
  <2>1. worker'[w].copy = [record EXCEPT !.stored = FALSE]
    BY <1>1, <1>5 DEF GetSaved, States
  <2> QED BY <1>1, <1>2, <1>5, <2>1 DEF GetSaved, Records
<1> QED BY <1>3, <1>4, <1>5 DEF Reads

\* What is written, and by whom.
LEMMA CreateWrites ==
  ASSUME Shape, NEW w \in Workers, Create(w)
  PROVE  /\ UNCHANGED <<done, torn, deleted, lapses, outdated, lease>>
         /\ record # None => record' = record
         /\ record = None => record'.billed = FALSE /\ record'.rated = FALSE
         /\ worker'[w].pc = "lock" /\ worker'[w].copy = worker[w].copy
         /\ \A v \in Workers : v # w => worker'[v] = worker[v]
BY WorkerTyped DEF Create, Goto, States, done, history, bounds

LEMMA SaveWrites ==
  ASSUME Shape, NEW w \in Workers, Save(w)
  PROVE  /\ worker[w].pc \in {"save", "mark", "giveUp", "saveDeleted"}
         /\ worker[w].copy \in Records /\ record' = worker[w].copy
         /\ torn' = (torn \/ w \in outdated)
         /\ deleted' = (deleted \/ worker[w].pc = "saveDeleted")
         /\ outdated' = {v \in Workers \ {w} : worker[v].copy # None}
         /\ UNCHANGED <<done, lapses, lease>>
         /\ worker'[w].copy = worker[w].copy
         /\ worker'[w].pc \in {"schedule", "count", "reschedule", "scheduleDeleted"}
         /\ worker'[w].pc # "scheduleDeleted" => worker[w].pc # "saveDeleted"
         /\ \A v \in Workers : v # w => worker'[v] = worker[v]
BY WorkerTyped
   DEF Save, Overwrite, Goto, AfterSave, At, States, done, bounds, Settling, Deleting

LEMMA ChargeWrites ==
  ASSUME Shape, NEW w \in Workers, Charge(w)
  PROVE  /\ UNCHANGED <<record, counted, torn, deleted, lapses, outdated, lease>>
         /\ worker[w].pc = "charge" /\ worker'[w].pc = "mark"
         /\ worker[w].copy \in Records
         /\ charged' \in {charged, 1}
         /\ \/ charged' = 1 /\ worker'[w].copy = [worker[w].copy EXCEPT !.billed = TRUE]
            \/ worker'[w].copy = worker[w].copy
         /\ \A v \in Workers : v # w => worker'[v] = worker[v]
<1>1. worker \in [Workers -> States] /\ worker[w] \in States /\ charged \in 0..1
  BY WorkerTyped DEF Shape, TypeOK
<1>2. worker[w].copy \in Records
  BY WorkerTyped DEF Charge, At, Settling
<1> QED BY <1>1, <1>2 DEF Charge, AddTotal, Fault, Goto, At, States, history, bounds

LEMMA CountWrites ==
  ASSUME Shape, NEW w \in Workers, Count(w)
  PROVE  /\ UNCHANGED <<charged, torn, deleted, lapses, lease>>
         /\ worker[w].pc = "count" /\ worker'[w].pc = "reschedule"
         /\ worker[w].copy \in Records /\ record \in Records
         /\ \/ CountOnce(w) /\ worker'[w].copy = [worker[w].copy EXCEPT !.rated = TRUE]
            \/ /\ CountOnce(w) \/ UNCHANGED <<counted, record, outdated>>
               /\ worker'[w].copy = worker[w].copy
         /\ \A v \in Workers : v # w => worker'[v] = worker[v]
<1>1. worker \in [Workers -> States] /\ worker[w] \in States
  BY WorkerTyped
<1>2. worker[w].copy \in Records /\ record \in Records
  BY WorkerTyped, RecordThere DEF Count, At, Settling, Shape, TypeOK
<1>3. /\ UNCHANGED <<charged, torn, deleted, lapses, lease>> /\ worker[w].pc = "count"
  BY DEF Count, At, Fault, bounds
<1>4. CASE CountOnce(w) /\ worker' = [worker EXCEPT ![w].pc = "reschedule", ![w].copy.rated = TRUE]
  BY <1>1, <1>2, <1>3, <1>4 DEF States
<1>5. CASE /\ CountOnce(w) \/ UNCHANGED <<counted, record, outdated>>
           /\ Goto(w, "reschedule")
  BY <1>1, <1>2, <1>3, <1>5 DEF Goto, States
<1> QED BY <1>4, <1>5 DEF Count

-----------------------------------------------------------------------------
(***************************************************************************)
(* Marks are true.                                                         *)
(***************************************************************************)
LEMMA NextMarks ==
  ASSUME Shape, MarksTellTheTruth, [Next]_vars
  PROVE  MarksTellTheTruth'
<1>1. /\ charged \in 0..1 /\ counted \in 0..2
      /\ \A v \in Workers : worker[v].copy \in Records \cup {None}
  BY DEF Shape, TypeOK
<1>2. CASE Keeps
  BY <1>2 DEF Keeps, MarksTellTheTruth, Truthful, done
<1>3. ASSUME NEW w \in Workers, Reads(w) PROVE MarksTellTheTruth'
  BY <1>3, ReadsCopy, NoneIsNoRecord DEF MarksTellTheTruth, Truthful, done
<1>4. ASSUME NEW w \in Workers, Create(w) PROVE MarksTellTheTruth'
  BY <1>4, CreateWrites DEF MarksTellTheTruth, Truthful, done
<1>5. ASSUME NEW w \in Workers, Save(w) PROVE MarksTellTheTruth'
  BY <1>5, SaveWrites, NoneIsNoRecord DEF MarksTellTheTruth, Truthful, done
<1>6. ASSUME NEW w \in Workers, Charge(w) PROVE MarksTellTheTruth'
  <2>1. /\ UNCHANGED <<record, counted>> /\ worker[w].copy \in Records /\ charged' \in {charged, 1}
        /\ \A v \in Workers : v # w => worker'[v] = worker[v]
    BY <1>6, ChargeWrites
  <2>2. Truthful(record)'
    BY <2>1 DEF MarksTellTheTruth, Truthful
  <2>3. ASSUME NEW v \in Workers, v # w PROVE Truthful(worker[v].copy)'
    BY <2>1, <2>3 DEF MarksTellTheTruth, Truthful
  <2>4. (worker[w].copy.billed => charged = 1) /\ (worker[w].copy.rated => counted > 0)
    BY <2>1, NoneIsNoRecord DEF MarksTellTheTruth, Truthful
  <2>5. Truthful(worker[w].copy)'
    <3>1. CASE charged' = 1 /\ worker'[w].copy = [worker[w].copy EXCEPT !.billed = TRUE]
      <4>1. worker'[w].copy.rated = worker[w].copy.rated
        BY <3>1, <2>1 DEF Records
      <4> QED BY <3>1, <4>1, <2>1, <2>4 DEF Truthful
    <3>2. CASE worker'[w].copy = worker[w].copy
      BY <3>2, <2>1, <2>4 DEF Truthful
    <3> QED BY <3>1, <3>2, <1>6, ChargeWrites
  <2> QED BY <2>2, <2>3, <2>5 DEF MarksTellTheTruth
<1>7. ASSUME NEW w \in Workers, Count(w) PROVE MarksTellTheTruth'
  <2>1. record \in Records /\ record.billed \in BOOLEAN /\ record.rated \in BOOLEAN
    BY <1>7, CountWrites DEF Records
  <2>2. /\ record.billed => charged = 1
        /\ record.rated => counted > 0
    BY <2>1, NoneIsNoRecord DEF MarksTellTheTruth, Truthful
  <2>3. CASE CountOnce(w)
    <3>1. counted' > 0 /\ (record' = record \/ record' = [record EXCEPT !.rated = TRUE])
      BY <1>1, <2>2, <2>3 DEF CountOnce
    <3>2. charged' = charged /\ record'.billed = record.billed
      BY <1>7, <2>1, <3>1, CountWrites DEF Records
    <3>3. \A v \in Workers : worker'[v].copy # None /\ worker'[v].copy.billed => charged = 1
      <4> SUFFICES ASSUME NEW v \in Workers, worker'[v].copy # None, worker'[v].copy.billed
                   PROVE  charged = 1
        OBVIOUS
      <4>1. CASE v # w
        BY <4>1, <1>7, CountWrites DEF MarksTellTheTruth, Truthful
      <4>2. CASE v = w
        <5>1. worker[w].copy \in Records /\ worker[w].copy # None
          BY <1>7, CountWrites, NoneIsNoRecord
        <5>2. worker'[w].copy \in {worker[w].copy, [worker[w].copy EXCEPT !.rated = TRUE]}
          BY <1>7, CountWrites
        <5>3. worker'[w].copy.billed = worker[w].copy.billed
          BY <5>1, <5>2 DEF Records
        <5> QED BY <4>2, <5>1, <5>3 DEF MarksTellTheTruth, Truthful
      <4> QED BY <4>1, <4>2
    <3> QED BY <2>2, <3>1, <3>2, <3>3 DEF MarksTellTheTruth, Truthful
  <2>4. CASE ~CountOnce(w)
    BY <1>7, <2>4, CountWrites DEF MarksTellTheTruth, Truthful
  <2> QED BY <2>3, <2>4
<1> QED BY <1>2, <1>3, <1>4, <1>5, <1>6, <1>7, StepsKeep DEF Writes

-----------------------------------------------------------------------------
(***************************************************************************)
(* Who settles holds the lease, as long as none has ended early.           *)
(***************************************************************************)
\* A step that leaves the lease and takes nobody into its scope.
LeaseKept ==
  /\ UNCHANGED <<lease, lapses>>
  /\ \A v \in Workers : worker'[v].pc \in Leased => worker[v].pc \in Leased

LEMMA LeaseIfKept ==
  ASSUME LeaseHeld, LeaseKept
  PROVE  LeaseHeld'
BY DEF LeaseHeld, LeaseKept

LEMMA NextLease ==
  ASSUME Shape, LeaseHeld, [Next]_vars
  PROVE  LeaseHeld'
<1> USE DEF history, done, bounds, At
<1>1. worker \in [Workers -> States] /\ lapses \in Nat
  BY BoundsAreNat DEF Shape, TypeOK, States
<1>2. Free \notin Workers /\ Clients \subseteq Workers /\ Pollers \subseteq Workers
  BY WorkersDiffer DEF Workers
<1>3. ASSUME NEW w \in Workers, NotFound(w) PROVE LeaseHeld'
  BY <1>3, <1>1, <1>2, LeaseIfKept DEF NotFound, Rest, AtRest, LeaseKept, States, Leased
<1>4. ASSUME NEW w \in Workers, CallFails(w) PROVE LeaseHeld'
  BY <1>4, <1>1, <1>2, LeaseIfKept
     DEF CallFails, Fault, Goto, Rest, AtRest, LeaseKept, States, Leased
<1>5. ASSUME NEW w \in Workers, Busy(w) PROVE LeaseHeld'
  BY <1>5, <1>1, <1>2, LeaseIfKept, ObservedRests DEF Busy, LeaseKept, States, Leased
<1>6. ASSUME NEW w \in Workers, ReadAndMerge(w) PROVE LeaseHeld'
  BY <1>6, <1>1, <1>2, LeaseIfKept DEF ReadAndMerge, LeaseKept, States, Leased
<1>7. ASSUME NEW w \in Workers, Save(w) PROVE LeaseHeld'
  BY <1>7, <1>1, <1>2, LeaseIfKept
     DEF Save, Goto, AfterSave, Overwrite, LeaseKept, States, Leased
<1>8. ASSUME NEW w \in Workers, Schedule(w) PROVE LeaseHeld'
  BY <1>8, <1>1, <1>2, LeaseIfKept DEF Schedule, Goto, LeaseKept, States, Leased
<1>9. ASSUME NEW w \in Workers, Die(w) PROVE LeaseHeld'
  BY <1>9, <1>1, <1>2, LeaseIfKept DEF Die, Fault, Rest, AtRest, LeaseKept, States, Leased
<1>10. ASSUME NEW w \in Clients, Create(w) PROVE LeaseHeld'
  BY <1>10, <1>1, <1>2, LeaseIfKept DEF Create, Goto, LeaseKept, States, Leased
<1>11. ASSUME NEW w \in Clients, Interrupted(w) PROVE LeaseHeld'
  BY <1>11, <1>1, <1>2, LeaseIfKept
     DEF Interrupted, LastObservation, AtRest, LeaseKept, States, Leased
<1>12. ASSUME NEW w \in Clients, Remove(w) PROVE LeaseHeld'
  BY <1>12, <1>1, <1>2, LeaseIfKept DEF Remove, Goto, LeaseKept, States, Leased
<1>13. ASSUME NEW w \in Clients, GetSaved(w) PROVE LeaseHeld'
  BY <1>13, <1>1, <1>2, LeaseIfKept DEF GetSaved, LeaseKept, States, Leased
<1>14. ASSUME NEW w \in Clients, ScheduleDeleted(w) PROVE LeaseHeld'
  BY <1>14, <1>1, <1>2, LeaseIfKept DEF ScheduleDeleted, Rest, AtRest, LeaseKept, States, Leased
<1>15. ASSUME NEW w \in Pollers, Poll(w) PROVE LeaseHeld'
  BY <1>15, <1>1, <1>2, LeaseIfKept DEF Poll, LeaseKept, States, Leased
<1>16. ASSUME NEW w \in Pollers, Review(w) PROVE LeaseHeld'
  BY <1>16, <1>1, <1>2, LeaseIfKept DEF Review, LeaseKept, States, Leased
<1>17. ASSUME NEW w \in Pollers, Requeue(w) PROVE LeaseHeld'
  BY <1>17, <1>1, <1>2, LeaseIfKept DEF Requeue, Rest, AtRest, LeaseKept, States, Leased
<1>18. ASSUME NEW w \in Workers, Fetch(w) PROVE LeaseHeld'
  <2>1. PICK a \in Heard :
          worker' = [worker EXCEPT ![w].pc = "lock", ![w].answer = a]
    BY <1>18 DEF Fetch
  <2>2. worker'[w].pc \notin Leased /\ \A v \in Workers : v # w => worker'[v] = worker[v]
    BY <1>1, <1>2, <2>1 DEF States, Leased
  <2> QED BY <1>18, <2>2, LeaseIfKept DEF Fetch, LeaseKept
<1>19. ASSUME NEW w \in Clients, Post(w) PROVE LeaseHeld'
  <2>1. PICK task \in {"post", "stream"}, usage \in BOOLEAN :
          worker' = [worker EXCEPT ![w] =
                      [@ EXCEPT !.pc = "create", !.task = task,
                                !.answer = [status |-> IF job' = "running" THEN "running" ELSE "over",
                                            usage |-> usage]]]
    BY <1>19 DEF Post
  <2>2. worker'[w].pc \notin Leased /\ \A v \in Workers : v # w => worker'[v] = worker[v]
    BY <1>1, <1>2, <2>1 DEF States, Leased
  <2> QED BY <1>19, <2>2, LeaseIfKept DEF Post, LeaseKept
<1>20. ASSUME NEW w \in Clients, Ask(w) PROVE LeaseHeld'
  <2>1. PICK task \in {"read", "stream", "delete"}, step \in {"fetch", "cancel"} :
          worker' = [worker EXCEPT ![w].pc = step, ![w].task = task]
    BY <1>20 DEF Ask
  <2>2. worker'[w].pc \notin Leased /\ \A v \in Workers : v # w => worker'[v] = worker[v]
    BY <1>1, <1>2, <2>1 DEF States, Leased
  <2> QED BY <1>20, <2>2, LeaseIfKept DEF Ask, LeaseKept
<1>21. ASSUME NEW w \in Clients, Cancel(w) PROVE LeaseHeld'
  <2>1. PICK usage \in BOOLEAN :
          worker' = [worker EXCEPT ![w].pc = "lock",
                                   ![w].answer = [status |-> "over", usage |-> usage]]
    BY <1>21 DEF Cancel
  <2>2. worker'[w].pc \notin Leased /\ \A v \in Workers : v # w => worker'[v] = worker[v]
    BY <1>1, <1>2, <2>1 DEF States, Leased
  <2> QED BY <1>21, <2>2, LeaseIfKept DEF Cancel, LeaseKept
<1>22. ASSUME NEW w \in Workers, Charge(w) PROVE LeaseHeld'
  BY <1>22, <1>1, ChargeWrites, LeaseIfKept DEF LeaseKept, Leased
<1>23. ASSUME NEW w \in Workers, Count(w) PROVE LeaseHeld'
  BY <1>23, <1>1, CountWrites, LeaseIfKept DEF LeaseKept, Leased
<1>24. ASSUME NEW w \in Workers, ObserveLock(w) PROVE LeaseHeld'
  <2>1. /\ lease = Free /\ lease' = w /\ lapses' = lapses
        /\ \A v \in Workers : v # w => worker'[v] = worker[v]
    BY <1>24, <1>1, <1>2 DEF ObserveLock, Lock, Goto
  <2> QED BY <1>2, <2>1 DEF LeaseHeld
<1>25. ASSUME NEW w \in Pollers, DeferLock(w) PROVE LeaseHeld'
  <2>1. /\ lease = Free /\ lease' = w /\ lapses' = lapses
        /\ \A v \in Workers : v # w => worker'[v] = worker[v]
    BY <1>25, <1>1, <1>2 DEF DeferLock, Lock, Goto
  <2> QED BY <1>2, <2>1 DEF LeaseHeld
<1>26. ASSUME NEW w \in Workers, Unlock(w) PROVE LeaseHeld'
  <2>1. worker'[w].pc \notin Leased /\ \A v \in Workers : v # w => worker'[v] = worker[v]
    <3>1. CASE worker[w].task = "delete"
      <4> DEFINE next == IF worker[w].answer.status = "over" THEN "remove" ELSE "cancel"
                 s == [AtRest EXCEPT !.pc = next, !.task = "delete"]
      <4>1. worker' = [worker EXCEPT ![w] = s]
        BY <1>26, <3>1 DEF Unlock
      <4>2. s.pc \in {"remove", "cancel"}
        BY DEF AtRest
      <4> HIDE DEF s
      <4> QED BY <1>1, <4>1, <4>2 DEF Leased
    <3>2. CASE worker[w].task # "delete"
      BY <1>26, <1>1, <3>2, ObservedRests DEF Unlock, Leased
    <3> QED BY <3>1, <3>2
  <2>2. worker[w].pc \in Leased /\ lapses' = lapses /\ (lease # w => lease' = lease)
    BY <1>26 DEF Unlock, GiveBack, Leased
  <2> QED BY <2>1, <2>2 DEF LeaseHeld
<1>27. ASSUME NEW w \in Workers, Abort(w) PROVE LeaseHeld'
  <2>1. worker'[w].pc \notin Leased /\ \A v \in Workers : v # w => worker'[v] = worker[v]
    BY <1>27, <1>1, ThrownRests DEF Abort, Leased
  <2>2. worker[w].pc \in Leased /\ lapses' = lapses /\ (lease # w => lease' = lease)
    BY <1>27 DEF Abort, GiveBack, Leased
  <2> QED BY <2>1, <2>2 DEF LeaseHeld
<1>28. ASSUME NEW w \in Workers, RedisFails(w) PROVE LeaseHeld'
  <2>1. CASE worker[w].pc \in Leased \ {"unlock", "abort"}
    BY <1>28, <1>1, <2>1, LeaseIfKept DEF RedisFails, Fault, Goto, LeaseKept, States, Leased
  <2>2. CASE worker[w].pc \notin Leased \ {"unlock", "abort"}
    <3>1. worker'[w].pc \notin Leased /\ \A v \in Workers : v # w => worker'[v] = worker[v]
      BY <1>28, <1>1, <2>2, ThrownRests DEF RedisFails, Leased
    <3>2. lapses' = lapses /\ (lease # Free => lease' = lease)
      BY <1>28 DEF RedisFails, Fault
    <3> QED BY <1>2, <3>1, <3>2 DEF LeaseHeld
  <2> QED BY <2>1, <2>2
<1>29. CASE Lapse
  BY <1>29, <1>1, <1>2 DEF Lapse, LeaseHeld
<1>30. CASE Finish \/ Vanish \/ UNCHANGED vars
  BY <1>30 DEF Finish, Vanish, vars, LeaseHeld
<1> QED
  BY <1>3, <1>4, <1>5, <1>6, <1>7, <1>8, <1>9, <1>10, <1>11, <1>12, <1>13, <1>14, <1>15, <1>16,
     <1>17, <1>18, <1>19, <1>20, <1>21, <1>22, <1>23, <1>24, <1>25, <1>26, <1>27, <1>28, <1>29,
     <1>30
     DEF Next, Asking, Polling, Observing, Failing

-----------------------------------------------------------------------------
(***************************************************************************)
(* Outdated copies, and the mark of the count.                             *)
(***************************************************************************)
LEMMA NextLapses ==
  ASSUME Shape, [Next]_vars
  PROVE  lapses' = 0 => lapses = 0
<1>1. lapses \in Nat
  BY BoundsAreNat DEF Shape, TypeOK
<1>2. lapses' \in {lapses, lapses + 1}
  BY DEF Next, vars, bounds, Fault, Asking, Polling, Observing, Failing, Finish, Vanish, Lapse,
     Post, Create, Ask, Cancel, Interrupted, Remove, GetSaved, ScheduleDeleted, Poll, DeferLock,
     Review, Requeue, Fetch, NotFound, ObserveLock, Busy, ReadAndMerge, Save, Schedule, Charge,
     Count, Unlock, Abort, CallFails, RedisFails, Die
<1> QED BY <1>1, <1>2

LEMMA NextFresh ==
  ASSUME Shape, LeaseHeld, CopiesFresh, [Next]_vars
  PROVE  CopiesFresh'
<1>1. SUFFICES ASSUME lapses' = 0, ~deleted'
               PROVE  ~torn' /\ \A w \in outdated' : worker'[w].pc \notin Settling
  BY DEF CopiesFresh
<1>2. /\ torn \in BOOLEAN /\ deleted \in BOOLEAN /\ outdated \subseteq Workers
      /\ outdated' \subseteq Workers
  BY NextShape DEF Shape, TypeOK
<1>3. lapses = 0 /\ \A w \in Workers : worker[w].pc \in Settling => lease = w
  BY <1>1, NextLapses DEF LeaseHeld, Settling, Leased
<1>4. CASE Keeps
  BY <1>1, <1>2, <1>3, <1>4 DEF Keeps, CopiesFresh
<1>5. ASSUME NEW w \in Workers, Reads(w)
      PROVE  ~torn' /\ \A v \in outdated' : worker'[v].pc \notin Settling
  BY <1>1, <1>2, <1>3, <1>5, ReadsCopy DEF CopiesFresh
<1>6. ASSUME NEW w \in Workers, Create(w)
      PROVE  ~torn' /\ \A v \in outdated' : worker'[v].pc \notin Settling
  BY <1>1, <1>2, <1>3, <1>6, CreateWrites DEF CopiesFresh, Settling
<1>7. ASSUME NEW w \in Workers, Save(w)
      PROVE  ~torn' /\ \A v \in outdated' : worker'[v].pc \notin Settling
  <2>1. worker[w].pc \in Settling /\ ~deleted
    BY <1>1, <1>2, <1>7, SaveWrites DEF Settling
  <2>2. w \notin outdated /\ ~torn
    BY <1>3, <2>1 DEF CopiesFresh
  <2> QED BY <1>2, <1>3, <1>7, <2>1, <2>2, SaveWrites
<1>8. ASSUME NEW w \in Workers, Charge(w)
      PROVE  ~torn' /\ \A v \in outdated' : worker'[v].pc \notin Settling
  BY <1>1, <1>2, <1>3, <1>8, ChargeWrites DEF CopiesFresh, Settling
<1>9. ASSUME NEW w \in Workers, Count(w)
      PROVE  ~torn' /\ \A v \in outdated' : worker'[v].pc \notin Settling
  <2>1. worker[w].pc \in Settling /\ ~deleted
    BY <1>1, <1>9, CountWrites DEF Settling
  <2>2. outdated' \subseteq outdated \cup (Workers \ {w})
    BY <1>9, CountWrites DEF CountOnce
  <2> QED BY <1>2, <1>3, <1>9, <2>1, <2>2, CountWrites DEF CopiesFresh
<1> QED BY <1>4, <1>5, <1>6, <1>7, <1>8, <1>9, StepsKeep DEF Writes

LEMMA NextStays ==
  ASSUME Shape, MarkStays, [Next]_vars
  PROVE  MarkStays'
<1> DEFINE Stays(r, v) == worker'[v].pc \in Writing => r # None /\ (r.rated => worker'[v].copy.rated)
<1>1. SUFFICES ASSUME ~torn'
               PROVE  /\ counted' < 2
                      /\ counted' > 0 => record' # None /\ record'.rated
                      /\ \A v \in Workers \ outdated' : Stays(record', v)
  BY DEF MarkStays
<1>2. torn \in BOOLEAN /\ counted \in 0..2 /\ outdated \subseteq Workers /\ record \in Records \cup {None}
  BY DEF Shape, TypeOK
<1>3. CASE Keeps
  <2>1. ~torn /\ counted' = counted /\ record' = record
    BY <1>1, <1>3 DEF Keeps, done
  <2>2. ASSUME NEW v \in Workers \ outdated', worker'[v].pc \in Writing
        PROVE  worker'[v].copy = worker[v].copy /\ worker[v].pc \in Writing /\ v \notin outdated
    BY <1>3, <2>2 DEF Keeps, Writing, Settling, Deleting
  <2> QED BY <2>1, <2>2 DEF MarkStays
<1>4. ASSUME NEW w \in Workers, Reads(w)
      PROVE  /\ counted' < 2
             /\ counted' > 0 => record' # None /\ record'.rated
             /\ \A v \in Workers \ outdated' : Stays(record', v)
  BY <1>1, <1>4, ReadsCopy, NoneIsNoRecord DEF MarkStays, done
<1>5. ASSUME NEW w \in Workers, Create(w)
      PROVE  /\ counted' < 2
             /\ counted' > 0 => record' # None /\ record'.rated
             /\ \A v \in Workers \ outdated' : Stays(record', v)
  <2>1. ~torn /\ counted' = counted /\ outdated' = outdated
    BY <1>1, <1>5, CreateWrites DEF done
  <2>2. CASE record # None
    BY <1>5, <2>1, <2>2, CreateWrites DEF MarkStays, Writing
  <2>3. CASE record = None
    BY <1>2, <1>5, <2>1, <2>3, CreateWrites DEF MarkStays, Writing
  <2> QED BY <2>2, <2>3
<1>6. ASSUME NEW w \in Workers, Save(w)
      PROVE  /\ counted' < 2
             /\ counted' > 0 => record' # None /\ record'.rated
             /\ \A v \in Workers \ outdated' : Stays(record', v)
  <2>1. ~torn /\ w \notin outdated /\ counted' = counted
    BY <1>1, <1>2, <1>6, SaveWrites DEF done
  <2>2. worker[w].copy \in Records /\ record' = worker[w].copy /\ record' # None
    BY <1>6, SaveWrites, NoneIsNoRecord
  <2>3. counted > 0 => worker[w].copy.rated
    BY <1>6, <2>1, SaveWrites DEF MarkStays, Writing
  <2>4. ASSUME NEW v \in Workers \ outdated', v # w
        PROVE  worker'[v].pc \notin Writing
    BY <1>6, <2>4, SaveWrites, WorkerTyped DEF Writing, Settling, Deleting
  <2>5. worker'[w].copy = record'
    BY <1>6, <2>2, SaveWrites
  <2> QED BY <2>1, <2>2, <2>3, <2>4, <2>5 DEF MarkStays
<1>7. ASSUME NEW w \in Workers, Charge(w)
      PROVE  /\ counted' < 2
             /\ counted' > 0 => record' # None /\ record'.rated
             /\ \A v \in Workers \ outdated' : Stays(record', v)
  <2>1. ~torn /\ counted' = counted /\ record' = record /\ outdated' = outdated
    BY <1>1, <1>7, ChargeWrites
  <2>2. worker'[w].copy.rated = worker[w].copy.rated /\ worker[w].pc \in Writing
    BY <1>7, ChargeWrites DEF Records, Writing
  <2> QED BY <1>7, <2>1, <2>2, ChargeWrites DEF MarkStays
<1>8. ASSUME NEW w \in Workers, Count(w)
      PROVE  /\ counted' < 2
             /\ counted' > 0 => record' # None /\ record'.rated
             /\ \A v \in Workers \ outdated' : Stays(record', v)
  <2>1. ~torn /\ worker'[w].pc \notin Writing /\ \A v \in Workers : v # w => worker'[v] = worker[v]
    BY <1>1, <1>8, CountWrites DEF Writing
  <2>2. CASE UNCHANGED <<counted, record, outdated>>
    BY <2>1, <2>2 DEF MarkStays
  <2>3. CASE CountOnce(w) /\ ~record.rated
    <3>1. record \in Records
      BY <1>8, CountWrites
    <3>2. counted = 0
      BY <1>2, <2>1, <2>3 DEF MarkStays
    <3>3. counted' = 1 /\ record' = [record EXCEPT !.rated = TRUE]
          /\ outdated' = outdated \cup {v \in Workers \ {w} : worker[v].copy # None}
      BY <2>3, <3>2 DEF CountOnce
    <3>4. record' # None /\ record'.rated
      BY <3>1, <3>3, NoneIsNoRecord DEF Records
    <3>5. ASSUME NEW v \in Workers \ outdated', v # w
          PROVE  worker'[v].pc \notin Writing
      BY <2>1, <3>3, <3>5, WorkerTyped DEF Writing, Settling, Deleting
    <3> QED BY <2>1, <3>3, <3>4, <3>5
  <2> QED BY <1>8, <2>2, <2>3, CountWrites DEF CountOnce
<1> QED BY <1>3, <1>4, <1>5, <1>6, <1>7, <1>8, StepsKeep DEF Writes

-----------------------------------------------------------------------------
LEMMA InitIInv == Init => IInv
<1> SUFFICES ASSUME Init PROVE IInv
  OBVIOUS
<1>1. \A w \in Workers : worker[w] = AtRest
  BY DEF Init
<1>2. TypeOK
  <2>1. worker \in [Workers -> States]
    BY RestTyped DEF Init
  <2>2. 0 \in 0..MaxFaults /\ 0 \in 0..MaxLapses
    BY BoundsAreNat
  <2>3. /\ job \in {"none", "running", "finished", "gone"}
        /\ record \in Records \cup {None} /\ pending \in BOOLEAN
        /\ lease \in Workers \cup {Free}
        /\ charged \in 0..1 /\ counted \in 0..2
        /\ outdated \subseteq Workers /\ torn \in BOOLEAN /\ deleted \in BOOLEAN
        /\ faults \in 0..MaxFaults /\ lapses \in 0..MaxLapses
    <3>1. job \in {"none", "running", "finished", "gone"}
      BY DEF Init
    <3>2. record \in Records \cup {None} /\ lease \in Workers \cup {Free} /\ outdated \subseteq Workers
      BY DEF Init
    <3>3. pending \in BOOLEAN /\ torn \in BOOLEAN /\ deleted \in BOOLEAN
      BY DEF Init
    <3>4. charged \in 0..1 /\ counted \in 0..2
      BY DEF Init
    <3>5. faults \in 0..MaxFaults /\ lapses \in 0..MaxLapses
      BY <2>2 DEF Init
    <3> QED BY <3>1, <3>2, <3>3, <3>4, <3>5
  <2> QED BY <2>1, <2>3 DEF TypeOK, States
<1>3. RecordKnown /\ CopyHeld /\ LeaseHeld /\ CopiesFresh /\ MarkStays
  BY <1>1, RestTyped DEF Init, RecordKnown, CopyHeld, LeaseHeld, CopiesFresh, MarkStays, At,
                         Settling, Deleting, Leased, Writing
<1>4. MarksTellTheTruth
  BY <1>1, RestTyped DEF Init, MarksTellTheTruth, Truthful
<1> QED BY <1>2, <1>3, <1>4 DEF IInv, Shape

LEMMA NextIInv == IInv /\ [Next]_vars => IInv'
BY NextShape, NextMarks, NextLease, NextFresh, NextStays DEF IInv

LEMMA AlwaysIInv == Spec => []IInv
BY InitIInv, NextIInv, PTL DEF Spec

\* Every variable keeps its type, the charge is made at most once.
THEOREM TypeCorrect == Spec => []TypeOK
<1>1. IInv => TypeOK
  BY DEF IInv, Shape
<1> QED BY <1>1, AlwaysIInv, PTL

\* A mark in the record or in anybody's copy is of something done, whatever
\* commands failed, servers died and leases ended.
THEOREM MarksTrue == Spec => []MarksTellTheTruth
<1>1. IInv => MarksTellTheTruth
  BY DEF IInv
<1> QED BY <1>1, AlwaysIInv, PTL

\* An update is lost only to a deletion or to a lease that ended too early.
THEOREM LostExplained == Spec => []LostUpdatesExplained
<1>1. IInv => LostUpdatesExplained
  <2>1. IInv => lapses \in Nat
    BY BoundsAreNat DEF IInv, Shape, TypeOK
  <2> QED BY <2>1 DEF IInv, CopiesFresh, LostUpdatesExplained
<1> QED BY <1>1, AlwaysIInv, PTL

\* The usage is counted twice only after an update was lost.
THEOREM CountedOnceIfWhole == Spec => []CountedOnceUnlessTorn
<1>1. IInv => CountedOnceUnlessTorn
  <2>1. IInv => counted \in 0..2
    BY DEF IInv, Shape, TypeOK
  <2> QED BY <2>1 DEF IInv, MarkStays, CountedOnceUnlessTorn
<1> QED BY <1>1, AlwaysIInv, PTL

-----------------------------------------------------------------------------
(***************************************************************************)
(* Final usage is not lost sight of.                                       *)
(***************************************************************************)
\* What is final is not left to a person.
Unreviewed(r) == r # None => ~(r.final /\ r.review)

FinalUnreviewed == Unreviewed(record) /\ \A w \in Workers : Unreviewed(worker[w].copy)

\* Whoever schedules after a deletion has written it.
DeletionWritten == \A w \in Workers : At(w, "scheduleDeleted") => deleted

\* What the holder of the lease still has to do separates its copy from the record.
Accurate(w) ==
  LET copy == worker[w].copy IN
  /\ worker[w].pc \in {"schedule", "charge", "count"} => copy = record
  /\ At(w, "mark") => copy \in {record, [record EXCEPT !.billed = TRUE]}
  /\ At(w, "reschedule") => record \in {copy, [copy EXCEPT !.rated = TRUE]}
  /\ At(w, "giveUp") => ~copy.final

CopiesAccurate == lapses = 0 /\ ~deleted => \A w \in Workers : Accurate(w)

Settled == record.billed /\ record.rated

\* As long as nothing fails and no update can be lost, final usage is on the poll's
\* list, settled, or about to be put on the list.
Tracked ==
  faults = 0 /\ lapses = 0 /\ ~deleted /\ Evidence =>
    pending \/ Settled \/ \E w \in Workers : At(w, "schedule")

EInv == FinalUnreviewed /\ DeletionWritten /\ CopiesAccurate /\ Tracked

\* What a copy of the record is at each step that makes one.
LEMMA ReadsWhat ==
  ASSUME Shape, Unreviewed(record), NEW w \in Workers, Reads(w)
  PROVE  /\ record \in Records
         /\ UNCHANGED <<record, pending, deleted, faults>>
         /\ worker[w].pc \in {"merge", "review", "getSaved"}
         /\ worker'[w].pc \in {"save", "reschedule", "giveUp", "saveDeleted"}
         /\ Unreviewed(worker'[w].copy)
         /\ worker'[w].pc = "reschedule" => worker'[w].copy = record
         /\ worker'[w].pc = "giveUp" => ~worker'[w].copy.final
         /\ \A v \in Workers : v # w => worker'[v] = worker[v]
<1> USE DEF done, history, bounds, At
<1>1. worker \in [Workers -> States] /\ worker[w] \in States /\ record \in Records
  BY WorkerTyped, ReadsCopy
<1>2. ~(record.final /\ record.review)
  BY <1>1, NoneIsNoRecord DEF Unreviewed
<1>3. CASE ReadAndMerge(w)
  <2> DEFINE a == worker[w].answer
             over == IF a.status = "same" THEN record.over ELSE a.status = "over"
             final == IF a.usage THEN over ELSE record.final
             review == record.review /\ ~(a.usage /\ over)
  <2>1. worker'[w].pc = "save" /\ worker'[w].copy = Merge(record, a)
    BY <1>1, <1>3 DEF ReadAndMerge, States
  <2>2. Merge(record, a) = [record EXCEPT !.over = over, !.final = final, !.review = review]
    BY Zenon DEF Merge
  <2>3. ~(final /\ review)
    BY <1>2, Zenon
  <2> HIDE DEF over, final, review
  <2>4. worker'[w].copy.final = final /\ worker'[w].copy.review = review
    BY <1>1, <2>1, <2>2 DEF Records
  <2>5. Unreviewed(worker'[w].copy)
    BY <2>3, <2>4, Zenon DEF Unreviewed
  <2> QED BY <1>1, <1>3, <2>1, <2>5 DEF ReadAndMerge
<1>4. CASE Review(w)
  <2>1. \/ worker'[w].pc = "reschedule" /\ worker'[w].copy = record
        \/ /\ worker'[w].pc = "giveUp" /\ ~record.final
           /\ worker'[w].copy = [record EXCEPT !.review = TRUE]
    BY <1>1, <1>4 DEF Review, States
  <2> QED BY <1>1, <1>2, <1>4, <2>1 DEF Review, Records, Unreviewed
<1>5. CASE GetSaved(w)
  <2>1. worker'[w].pc = "saveDeleted" /\ worker'[w].copy = [record EXCEPT !.stored = FALSE]
    BY <1>1, <1>5 DEF GetSaved, States
  <2> QED BY <1>1, <1>2, <1>5, <2>1 DEF GetSaved, Records, Unreviewed
<1> QED BY <1>3, <1>4, <1>5 DEF Reads

\* Nothing undoes a deletion, and nothing takes a failure back.
LEMMA NextCount ==
  ASSUME Shape, [Next]_vars
  PROVE  (deleted => deleted') /\ (faults' = 0 => faults = 0)
<1>1. faults \in Nat
  BY BoundsAreNat DEF Shape, TypeOK
<1>2. faults' \in {faults, faults + 1}
  BY DEF Next, vars, bounds, Fault, Asking, Polling, Observing, Failing, Finish, Vanish, Lapse,
     Post, Create, Ask, Cancel, Interrupted, Remove, GetSaved, ScheduleDeleted, Poll, DeferLock,
     Review, Requeue, Fetch, NotFound, ObserveLock, Busy, ReadAndMerge, Save, Schedule, Charge,
     Count, Unlock, Abort, CallFails, RedisFails, Die
<1>3. deleted => deleted'
  BY StepsKeep, ReadsCopy, CreateWrites, SaveWrites, ChargeWrites, CountWrites DEF Keeps, Writes
<1> QED BY <1>1, <1>2, <1>3

\* Only who schedules takes the record off the poll's list.
LEMMA NextPending ==
  ASSUME [Next]_vars, pending, ~pending'
  PROVE  \/ \E w \in Workers : Schedule(w)
         \/ \E w \in Workers : ScheduleDeleted(w)
<1>1. Clients \subseteq Workers
  BY DEF Workers
<1> QED
  BY <1>1 DEF Next, vars, Asking, Polling, Observing, Failing, Finish, Vanish, Lapse, Post, Create,
     Ask, Cancel, Interrupted, Remove, GetSaved, Poll, DeferLock, Review, Requeue, Fetch, NotFound,
     ObserveLock, Busy, ReadAndMerge, Save, Charge, Count, Unlock, Abort, CallFails, RedisFails, Die

\* Without a failure, who is about to schedule does it.
LEMMA ScheduleNext ==
  ASSUME Shape, [Next]_vars, faults' = 0, NEW v \in Workers, At(v, "schedule")
  PROVE  At(v, "schedule")' \/ Schedule(v)
<1> USE DEF At
<1>1. worker \in [Workers -> States] /\ faults \in Nat /\ worker[v].pc = "schedule"
  BY WorkerTyped, BoundsAreNat DEF Shape, TypeOK
<1>2. ASSUME NEW w \in Workers, Fetch(w) PROVE worker'[v] = worker[v]
  BY <1>1, <1>2 DEF Fetch
<1>3. ASSUME NEW w \in Workers, NotFound(w) PROVE worker'[v] = worker[v]
  BY <1>1, <1>3 DEF NotFound, Rest
<1>4. ASSUME NEW w \in Workers, ObserveLock(w) PROVE worker'[v] = worker[v]
  BY <1>1, <1>4 DEF ObserveLock, Lock, Goto
<1>5. ASSUME NEW w \in Workers, ReadAndMerge(w) PROVE worker'[v] = worker[v]
  BY <1>1, <1>5 DEF ReadAndMerge
<1>6. ASSUME NEW w \in Workers, Save(w) PROVE worker'[v] = worker[v]
  BY <1>1, <1>6 DEF Save, Goto
<1>7. ASSUME NEW w \in Workers, Charge(w) PROVE worker'[v] = worker[v]
  BY <1>1, <1>7 DEF Charge, Goto
<1>8. ASSUME NEW w \in Workers, Count(w) PROVE worker'[v] = worker[v]
  BY <1>1, <1>8 DEF Count, Goto
<1>9. ASSUME NEW w \in Workers, Unlock(w) PROVE worker'[v] = worker[v]
  BY <1>1, <1>9 DEF Unlock, Observed, Rest
<1>10. ASSUME NEW w \in Workers, Abort(w) PROVE worker'[v] = worker[v]
  BY <1>1, <1>10 DEF Abort, Thrown, LastObservation, Rest
<1>11. ASSUME NEW w \in Workers, Busy(w) PROVE worker'[v] = worker[v]
  BY <1>1, <1>11 DEF Busy, Observed, Rest
<1>12. ASSUME NEW w \in Clients, Post(w) PROVE worker'[v] = worker[v]
  BY <1>1, <1>12 DEF Post
<1>13. ASSUME NEW w \in Clients, Create(w) PROVE worker'[v] = worker[v]
  BY <1>1, <1>13 DEF Create, Goto
<1>14. ASSUME NEW w \in Clients, Ask(w) PROVE worker'[v] = worker[v]
  BY <1>1, <1>14 DEF Ask
<1>15. ASSUME NEW w \in Clients, Cancel(w) PROVE worker'[v] = worker[v]
  BY <1>1, <1>15 DEF Cancel
<1>16. ASSUME NEW w \in Clients, Interrupted(w) PROVE worker'[v] = worker[v]
  BY <1>1, <1>16 DEF Interrupted, LastObservation
<1>17. ASSUME NEW w \in Clients, Remove(w) PROVE worker'[v] = worker[v]
  BY <1>1, <1>17 DEF Remove, Goto
<1>18. ASSUME NEW w \in Clients, GetSaved(w) PROVE worker'[v] = worker[v]
  BY <1>1, <1>18 DEF GetSaved
<1>19. ASSUME NEW w \in Clients, ScheduleDeleted(w) PROVE worker'[v] = worker[v]
  BY <1>1, <1>19 DEF ScheduleDeleted, Rest
<1>20. ASSUME NEW w \in Pollers, Poll(w) PROVE worker'[v] = worker[v]
  BY <1>1, <1>20 DEF Poll
<1>21. ASSUME NEW w \in Pollers, DeferLock(w) PROVE worker'[v] = worker[v]
  BY <1>1, <1>21 DEF DeferLock, Lock, Goto
<1>22. ASSUME NEW w \in Pollers, Review(w) PROVE worker'[v] = worker[v]
  BY <1>1, <1>22 DEF Review
<1>23. ASSUME NEW w \in Pollers, Requeue(w) PROVE worker'[v] = worker[v]
  BY <1>1, <1>23 DEF Requeue, Rest
<1>24. ASSUME NEW w \in Workers, CallFails(w) \/ RedisFails(w) \/ Die(w) PROVE FALSE
  BY <1>1, <1>24 DEF CallFails, RedisFails, Die, Fault
<1>25. ASSUME NEW w \in Workers, Schedule(w) PROVE worker'[v] = worker[v] \/ Schedule(v)
  BY <1>1, <1>25 DEF Schedule, Goto
<1>26. CASE Finish \/ Vanish \/ Lapse \/ UNCHANGED vars
  BY <1>26 DEF Finish, Vanish, Lapse, vars
<1> QED
  BY <1>1, <1>2, <1>3, <1>4, <1>5, <1>6, <1>7, <1>8, <1>9, <1>10, <1>11, <1>12, <1>13, <1>14, <1>15, <1>16, <1>17, <1>18, <1>19, <1>20, <1>21, <1>22, <1>23, <1>24, <1>25, <1>26
     DEF Next, Asking, Polling, Observing, Failing

\* While no lease has ended early, at most one worker settles.
LEMMA SettlesAlone ==
  ASSUME LeaseHeld, lapses = 0, NEW v \in Workers, NEW w \in Workers,
         worker[v].pc \in Leased, worker[w].pc \in Leased
  PROVE  v = w
BY DEF LeaseHeld

LEMMA NextUnreviewed ==
  ASSUME Shape, FinalUnreviewed, [Next]_vars
  PROVE  FinalUnreviewed'
<1>1. Unreviewed(record) /\ \A v \in Workers : Unreviewed(worker[v].copy)
  BY DEF FinalUnreviewed
<1>2. SUFFICES Unreviewed(record') /\ \A v \in Workers : Unreviewed(worker'[v].copy)
  BY DEF FinalUnreviewed, Unreviewed
<1>3. CASE Keeps
  <2>1. record' = record /\ \A v \in Workers : worker'[v].copy \in {worker[v].copy, None}
    BY <1>3 DEF Keeps
  <2> QED BY <1>1, <2>1 DEF Unreviewed
<1>4. ASSUME NEW w \in Workers, Reads(w)
      PROVE  Unreviewed(record') /\ \A v \in Workers : Unreviewed(worker'[v].copy)
  BY <1>1, <1>4, ReadsWhat
<1>5. ASSUME NEW w \in Workers, Create(w)
      PROVE  Unreviewed(record') /\ \A v \in Workers : Unreviewed(worker'[v].copy)
  <2>1. record' = record \/ record'.review = FALSE
    BY <1>5 DEF Create
  <2> QED BY <1>1, <1>5, <2>1, CreateWrites DEF Unreviewed
<1>6. ASSUME NEW w \in Workers, Save(w)
      PROVE  Unreviewed(record') /\ \A v \in Workers : Unreviewed(worker'[v].copy)
  BY <1>1, <1>6, SaveWrites
<1>7. ASSUME NEW w \in Workers, Charge(w)
      PROVE  Unreviewed(record') /\ \A v \in Workers : Unreviewed(worker'[v].copy)
  <2>1. worker'[w].copy.final = worker[w].copy.final /\ worker'[w].copy.review = worker[w].copy.review
    BY <1>7, ChargeWrites DEF Records
  <2>2. worker[w].copy # None
    BY <1>7, ChargeWrites, NoneIsNoRecord
  <2> QED BY <1>1, <1>7, <2>1, <2>2, ChargeWrites DEF Unreviewed
<1>8. ASSUME NEW w \in Workers, Count(w)
      PROVE  Unreviewed(record') /\ \A v \in Workers : Unreviewed(worker'[v].copy)
  <2>1. worker'[w].copy.final = worker[w].copy.final /\ worker'[w].copy.review = worker[w].copy.review
    BY <1>8, CountWrites DEF Records
  <2>2. record'.final = record.final /\ record'.review = record.review
    BY <1>8, CountWrites DEF CountOnce, Records
  <2>3. worker[w].copy # None /\ record # None
    BY <1>8, CountWrites, NoneIsNoRecord
  <2> QED BY <1>1, <1>8, <2>1, <2>2, <2>3, CountWrites DEF Unreviewed
<1> QED BY <1>3, <1>4, <1>5, <1>6, <1>7, <1>8, StepsKeep DEF Writes

LEMMA NextWritten ==
  ASSUME Shape, FinalUnreviewed, DeletionWritten, [Next]_vars
  PROVE  DeletionWritten'
<1> USE DEF At
<1>1. SUFFICES ASSUME NEW v \in Workers, worker'[v].pc = "scheduleDeleted"
               PROVE  deleted'
  BY DEF DeletionWritten
<1>2. CASE worker[v].pc = "scheduleDeleted"
  BY <1>2, NextCount DEF DeletionWritten
<1>3. CASE worker[v].pc # "scheduleDeleted"
  <2>1. CASE Keeps
    <3>1. Schedule(v)
      BY <1>1, <1>3, <2>1 DEF Keeps, Deleting
    <3> QED BY <1>1, <3>1, WorkerTyped DEF Schedule, Goto, States
  <2>2. ASSUME NEW w \in Workers, Reads(w) PROVE FALSE
    BY <1>1, <1>3, <2>2, ReadsWhat DEF FinalUnreviewed
  <2>3. ASSUME NEW w \in Workers, Create(w) \/ Charge(w) \/ Count(w) PROVE FALSE
    BY <1>1, <1>3, <2>3, CreateWrites, ChargeWrites, CountWrites
  <2>4. ASSUME NEW w \in Workers, Save(w) PROVE deleted'
    <3>1. v = w
      BY <1>1, <1>3, <2>4, SaveWrites
    <3>2. worker'[w].pc = AfterSave(w)
      BY <2>4, WorkerTyped DEF Save, Goto, States
    <3>3. worker[w].pc = "saveDeleted"
      BY <1>1, <3>1, <3>2 DEF AfterSave
    <3> QED BY <2>4, <3>3, SaveWrites
  <2> QED BY <2>1, <2>2, <2>3, <2>4, StepsKeep DEF Writes
<1> QED BY <1>2, <1>3

LEMMA NextAccurate ==
  ASSUME Shape, LeaseHeld, FinalUnreviewed, CopiesAccurate, [Next]_vars
  PROVE  CopiesAccurate'
<1> USE DEF At
<1> DEFINE Step(v) == worker'[v].pc
           Copy(v) == worker'[v].copy
           Goal(v) ==
             /\ Step(v) \in {"schedule", "charge", "count"} => Copy(v) = record'
             /\ Step(v) = "mark" => Copy(v) \in {record', [record' EXCEPT !.billed = TRUE]}
             /\ Step(v) = "reschedule" => record' \in {Copy(v), [Copy(v) EXCEPT !.rated = TRUE]}
             /\ Step(v) = "giveUp" => ~Copy(v).final
<1>1. SUFFICES ASSUME lapses' = 0, ~deleted', NEW v \in Workers
               PROVE  Goal(v)
  BY DEF CopiesAccurate, Accurate
<1>2. lapses = 0 /\ ~deleted
  BY <1>1, NextLapses, NextCount
<1>3. Accurate(v) /\ worker[v] \in States /\ worker[v].pc \in Steps
  BY <1>2, WorkerTyped DEF CopiesAccurate, States
<1>4. ASSUME worker'[v] = worker[v], record' = record \/ worker[v].pc \notin Leased
      PROVE  Goal(v)
  BY <1>3, <1>4 DEF Accurate, Leased
<1>5. CASE Keeps
  <2>1. record' = record
    BY <1>5 DEF Keeps
  <2>2. CASE Schedule(v)
    <3>1. /\ worker'[v].copy = worker[v].copy
          /\ worker'[v].pc \in {"charge", "mark", "unlock"}
          /\ worker'[v].pc \in {"charge", "mark"} => worker[v].pc = "schedule"
      BY <2>2, WorkerTyped DEF Schedule, Goto, States
    <3> QED BY <1>3, <2>1, <3>1 DEF Accurate
  <2>3. CASE ~Schedule(v)
    <3>1. Step(v) \in Settling => Step(v) = worker[v].pc /\ Copy(v) = worker[v].copy
      BY <1>5, <2>3 DEF Keeps
    <3> QED BY <1>3, <2>1, <3>1 DEF Accurate, Settling
  <2> QED BY <2>2, <2>3
<1>6. ASSUME NEW w \in Workers, Reads(w) PROVE Goal(v)
  <2>1. CASE v # w
    BY <1>4, <1>6, <2>1, ReadsWhat DEF FinalUnreviewed
  <2>2. CASE v = w
    BY <1>6, <2>2, ReadsWhat DEF FinalUnreviewed
  <2> QED BY <2>1, <2>2
<1>7. ASSUME NEW w \in Workers, Create(w) PROVE Goal(v)
  <2>1. CASE v # w
    <3>1. record = None => worker[v].pc \notin Leased
      BY DEF Shape, RecordKnown, Leased
    <3> QED BY <1>4, <1>7, <2>1, <3>1, CreateWrites
  <2>2. CASE v = w
    BY <1>7, <2>2, CreateWrites
  <2> QED BY <2>1, <2>2
<1>8. ASSUME NEW w \in Workers, Save(w) PROVE Goal(v)
  <2>1. worker[w].pc \in {"save", "mark", "giveUp"}
    BY <1>1, <1>8, SaveWrites
  <2>2. CASE v # w
    <3>1. worker[v].pc \notin Leased
      BY <1>2, <2>1, <2>2, SettlesAlone DEF Leased
    <3> QED BY <1>4, <1>8, <2>2, <3>1, SaveWrites
  <2>3. CASE v = w
    <3>1. Copy(v) = record' /\ Step(v) \in {"schedule", "count", "reschedule", "scheduleDeleted"}
      BY <1>8, <2>3, SaveWrites
    <3> QED BY <3>1
  <2> QED BY <2>2, <2>3
<1>9. ASSUME NEW w \in Workers, Charge(w) PROVE Goal(v)
  <2>1. CASE v # w
    BY <1>4, <1>9, <2>1, ChargeWrites
  <2>2. CASE v = w
    <3>1. worker[v].copy = record
      BY <1>3, <1>9, <2>2, ChargeWrites DEF Accurate
    <3> QED BY <1>9, <2>2, <3>1, ChargeWrites
  <2> QED BY <2>1, <2>2
<1>10. ASSUME NEW w \in Workers, Count(w) PROVE Goal(v)
  <2>1. CASE v # w
    <3>1. worker[v].pc \notin Leased
      BY <1>2, <1>10, <2>1, SettlesAlone, CountWrites DEF Leased
    <3> QED BY <1>4, <1>10, <2>1, <3>1, CountWrites
  <2>2. CASE v = w
    <3> DEFINE rated == [record EXCEPT !.rated = TRUE]
    <3>1. worker[v].copy = record /\ record \in Records /\ Step(v) = "reschedule"
      BY <1>3, <1>10, <2>2, CountWrites DEF Accurate
    <3>2. CountOnce(v) => record' = rated
      <4>1. record.rated => record = rated
        BY <3>1 DEF Records
      <4> QED BY <4>1 DEF CountOnce
    <3>3. CASE CountOnce(v) /\ Copy(v) = rated
      BY <3>1, <3>2, <3>3
    <3>4. CASE record' \in {record, rated} /\ Copy(v) = record
      BY <3>1, <3>4
    <3> QED BY <1>10, <2>2, <3>1, <3>2, <3>3, <3>4, CountWrites
  <2> QED BY <2>1, <2>2
<1> QED BY <1>5, <1>6, <1>7, <1>8, <1>9, <1>10, StepsKeep DEF Writes

LEMMA NextTracked ==
  ASSUME Shape, LeaseHeld, EInv, [Next]_vars
  PROVE  Tracked'
<1> USE DEF At
<1> DEFINE Goal == pending' \/ (record'.billed /\ record'.rated) \/ \E v \in Workers : worker'[v].pc = "schedule"
<1>1. SUFFICES ASSUME faults' = 0, lapses' = 0, ~deleted',
                      record' # None, record'.over, record'.final
               PROVE  Goal
  BY DEF Tracked, Evidence, Settled
<1>2. faults = 0 /\ lapses = 0 /\ ~deleted
  BY <1>1, NextLapses, NextCount
<1>3. record \in Records \cup {None} /\ \A v \in Workers : Accurate(v)
  BY <1>2 DEF EInv, CopiesAccurate, Shape, TypeOK
<1>4. ASSUME record # None, record.over, record.final
      PROVE  pending \/ Settled \/ \E v \in Workers : worker[v].pc = "schedule"
  BY <1>2, <1>4 DEF EInv, Tracked, Evidence
\* Who schedules knows what is left to do.
<1>5. ASSUME NEW w \in Workers, Schedule(w), record' = record
      PROVE  Goal
  <2>1. /\ worker[w].pc \in {"schedule", "reschedule"}
        /\ pending' = NeedsProcessing(worker[w].copy)
        /\ worker[w].copy \in Records
    BY <1>5, WorkerTyped DEF Schedule, Settling
  <2>2. record \in {worker[w].copy, [worker[w].copy EXCEPT !.rated = TRUE]}
    BY <1>3, <2>1 DEF Accurate
  <2>3. worker[w].copy.final /\ ~worker[w].copy.review
    <3>1. worker[w].copy.final
      BY <1>1, <1>5, <2>1, <2>2 DEF Records
    <3> QED BY <2>1, <3>1, NoneIsNoRecord DEF EInv, FinalUnreviewed, Unreviewed
  <2>4. /\ record.billed = worker[w].copy.billed
        /\ record.rated \/ ~worker[w].copy.rated
    BY <2>1, <2>2 DEF Records
  <2> QED BY <1>5, <2>1, <2>3, <2>4, Zenon DEF NeedsProcessing, NeedsRateLimit
\* Any other step leaves the record on the list, settled, or about to be listed.
<1>6. ASSUME pending => pending',
             Settled => record'.billed /\ record'.rated,
             record # None, record.over, record.final
      PROVE  Goal
  <2>1. CASE \E w \in Workers : worker[w].pc = "schedule" /\ worker'[w].pc # "schedule"
    <3>1. PICK w \in Workers : worker[w].pc = "schedule" /\ worker'[w].pc # "schedule"
      BY <2>1
    <3>2. Schedule(w)
      BY <1>1, <3>1, ScheduleNext
    <3>3. record' = record
      BY <3>2 DEF Schedule
    <3> QED BY <1>5, <3>2, <3>3
  <2> QED BY <1>4, <1>6, <2>1
<1>7. CASE Keeps
  <2>1. record' = record
    BY <1>7 DEF Keeps
  <2>2. CASE \E w \in Workers : Schedule(w)
    BY <1>5, <2>1, <2>2
  <2>3. CASE ~\E w \in Workers : Schedule(w)
    <3>1. \A w \in Workers : ~ScheduleDeleted(w)
      BY <1>2 DEF ScheduleDeleted, EInv, DeletionWritten
    <3>2. pending => pending'
      BY <2>3, <3>1, NextPending
    <3> QED BY <1>1, <1>6, <2>1, <3>2 DEF Settled
  <2> QED BY <2>2, <2>3
<1>8. ASSUME NEW w \in Workers, Reads(w) PROVE Goal
  BY <1>1, <1>6, <1>8, ReadsWhat DEF Settled, EInv, FinalUnreviewed
<1>9. ASSUME NEW w \in Workers, Create(w) PROVE Goal
  <2>1. CASE record # None
    BY <1>1, <1>6, <1>9, <2>1 DEF Create, Settled
  <2>2. CASE record = None
    <3>1. record'.final = FALSE
      BY <1>9, <2>2 DEF Create
    <3> QED BY <1>1, <3>1
  <2> QED BY <2>1, <2>2
<1>10. ASSUME NEW w \in Workers, Save(w) PROVE Goal
  <2>1. worker[w].pc \in {"save", "mark", "giveUp"} /\ worker[w].copy \in Records /\ record' = worker[w].copy
    BY <1>1, <1>10, SaveWrites
  <2>2. CASE worker[w].pc = "save"
    <3>1. worker'[w].pc = "schedule"
      BY <1>10, <2>2, WorkerTyped DEF Save, Goto, AfterSave, States
    <3> QED BY <3>1
  <2>3. CASE worker[w].pc = "mark"
    <3>1. record \in Records
      BY <1>3, <2>3, RecordThere
    <3>2. record' \in {record, [record EXCEPT !.billed = TRUE]}
      BY <1>3, <2>1, <2>3 DEF Accurate
    <3>3. /\ record.over /\ record.final /\ record # None
          /\ Settled => record'.billed /\ record'.rated
      BY <1>1, <3>1, <3>2, NoneIsNoRecord DEF Records, Settled
    <3>4. pending' = pending
      BY <1>10 DEF Save
    <3> QED BY <1>6, <3>3, <3>4
  <2>4. CASE worker[w].pc = "giveUp"
    BY <1>1, <1>3, <2>1, <2>4 DEF Accurate
  <2> QED BY <2>1, <2>2, <2>3, <2>4
<1>11. ASSUME NEW w \in Workers, Charge(w) PROVE Goal
  BY <1>1, <1>6, <1>11, ChargeWrites DEF Charge, Settled
<1>12. ASSUME NEW w \in Workers, Count(w) PROVE Goal
  <2>1. record \in Records /\ record' \in {record, [record EXCEPT !.rated = TRUE]}
    BY <1>12, CountWrites DEF CountOnce
  <2>2. /\ record.over /\ record.final /\ record # None
        /\ Settled => record'.billed /\ record'.rated
    BY <1>1, <2>1, NoneIsNoRecord DEF Records, Settled
  <2>3. pending' = pending
    BY <1>12 DEF Count
  <2> QED BY <1>6, <2>2, <2>3
<1> QED BY <1>7, <1>8, <1>9, <1>10, <1>11, <1>12, StepsKeep DEF Writes

LEMMA AlwaysEInv == Spec => []EInv
<1>1. Init => EInv
  BY RestTyped
     DEF Init, EInv, FinalUnreviewed, Unreviewed, DeletionWritten, CopiesAccurate, Accurate,
         Tracked, Evidence, At
<1>2. IInv /\ EInv /\ [Next]_vars => EInv'
  BY NextUnreviewed, NextWritten, NextAccurate, NextTracked DEF IInv, EInv
<1> QED BY <1>1, <1>2, AlwaysIInv, PTL DEF Spec

\* Final usage is not lost sight of: until something fails, a lease ends early or a
\* deletion writes the record, it is on the poll's list, charged and counted, or the
\* holder of the lease is about to schedule it.
EvidenceKept ==
  faults = 0 /\ lapses = 0 /\ ~deleted /\ Evidence =>
    pending \/ (charged = 1 /\ counted > 0) \/ \E w \in Workers : At(w, "schedule")

\* What EvidenceSettled needs before it can hope: the poll hears of final usage.
THEOREM EvidenceHeld == Spec => []EvidenceKept
<1>1. IInv /\ EInv => EvidenceKept
  BY DEF IInv, EInv, MarksTellTheTruth, Truthful, Tracked, Settled, Evidence, EvidenceKept
<1> QED BY <1>1, AlwaysIInv, AlwaysEInv, PTL

=============================================================================
