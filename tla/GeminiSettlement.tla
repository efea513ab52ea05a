-------------------------- MODULE GeminiSettlement --------------------------
(***************************************************************************)
(* The settlement of one Gemini interaction: a job that lives upstream and *)
(* may go on long after the request that started it.  Whoever hears of it, *)
(* the request itself, a later read, a deletion or the poll of any server, *)
(* merges what it heard into the record in Redis, under a lease of the     *)
(* interaction, and once the final usage is known charges the cost and     *)
(* counts it in the rate-limit window.  The record's marks "billed" and    *)
(* "rated" say what has been done; the pending set says what the poll has  *)
(* to look at.  A deletion writes the record without the lease.            *)
(*                                                                         *)
(* Abstracted: model, images and timings; a usage report is complete; the  *)
(* key has a rate limit with an active window; the record, which lives for *)
(* 55 days, and the deduplication key of the charge outlive the behaviour. *)
(***************************************************************************)
EXTENDS Naturals

CONSTANTS
  Clients,    \* requests of the owner of the interaction
  Pollers,    \* servers whose timer polls the pending set
  Free,       \* the lease does not exist
  None,       \* no record yet, no copy of it
  MaxFaults,  \* bound: failed Redis commands, failed calls, dying workers
  MaxLapses   \* bound: leases that end before their holder

Workers == Clients \cup Pollers

ASSUME WorkersDiffer == Clients \cap Pollers = {} /\ Free \notin Workers
ASSUME BoundsAreNat  == MaxFaults \in Nat /\ MaxLapses \in Nat

Records ==
  [over : BOOLEAN,    \* the status is terminal
   final : BOOLEAN,   \* usageFinal, with its token counts
   billed : BOOLEAN,
   rated : BOOLEAN,   \* rateLimitRecorded
   stored : BOOLEAN,  \* upstream keeps the interaction
   review : BOOLEAN]  \* settlementReviewRequired

ASSUME NoneIsNoRecord == None \notin Records

\* What upstream answers of the interaction; "same" for an answer without status.
Answers == [status : {"same", "running", "over"}, usage : BOOLEAN]

Nothing == [status |-> "same", usage |-> FALSE]

AtRest == [pc |-> "idle", task |-> "none", answer |-> Nothing, copy |-> None]

VARIABLES
  job,       \* the interaction upstream
  record,    \* gemini_interaction record
  pending,   \* the record's key is in the pending set
  lease,     \* who holds the lease, or Free
  worker,    \* what each worker does, the answer and the copy of the record it has
  charged,   \* times the cost was added to the key's total
  counted,   \* times the usage was counted in the rate-limit window, two for more
  outdated,  \* (history) workers whose copy was overtaken by another's write
  torn,      \* (history) an outdated copy was written over the record
  deleted,   \* (history) a deletion has reached its write
  faults,    \* (bound)
  lapses     \* (bound)

vars == <<job, record, pending, lease, worker, charged, counted, outdated, torn, deleted,
          faults, lapses>>
history == <<outdated, torn, deleted>>
done == <<charged, counted>>
bounds == <<faults, lapses>>

Init ==
  /\ job = "none"
  /\ record = None
  /\ pending = FALSE
  /\ lease = Free
  /\ worker = [w \in Workers |-> AtRest]
  /\ charged = 0
  /\ counted = 0
  /\ outdated = {}
  /\ torn = FALSE
  /\ deleted = FALSE
  /\ faults = 0
  /\ lapses = 0

At(w, step) == worker[w].pc = step

Goto(w, step) == worker' = [worker EXCEPT ![w].pc = step]

\* Nothing the worker knows is used again.
Rest(w) == worker' = [worker EXCEPT ![w] = AtRest]

Fault == faults < MaxFaults /\ faults' = faults + 1 /\ UNCHANGED lapses

Chargeable(r) == r.over /\ r.final /\ ~r.billed

NeedsRateLimit(r) == r.billed /\ ~r.rated

NeedsProcessing(r) ==
  \/ ~r.billed /\ ~r.review /\ (r.stored \/ r.final)
  \/ NeedsRateLimit(r)

\* What _observe makes of the record and an answer: the latest status counts.
Merge(r, answer) ==
  LET over == IF answer.status = "same" THEN r.over ELSE answer.status = "over"
  IN [r EXCEPT !.over = over,
               !.final = IF answer.usage THEN over ELSE @,
               !.review = @ /\ ~(answer.usage /\ over)]

-----------------------------------------------------------------------------
(***************************************************************************)
(* Upstream, and what a worker hears of it.                                *)
(***************************************************************************)
\* What an answer of now may say: a status event comes without usage.
Heard == {[status |-> IF job = "running" THEN "running" ELSE "over", usage |-> u] :
            u \in BOOLEAN}

Finish ==
  /\ job = "running"
  /\ job' = "finished"
  /\ UNCHANGED <<record, pending, lease, worker, done, history, bounds>>

\* Upstream forgets an interaction in time.
Vanish ==
  /\ job = "finished"
  /\ job' = "gone"
  /\ UNCHANGED <<record, pending, lease, worker, done, history, bounds>>

\* create: a synchronous or background request, or a stream, starts the job.
Post(c) ==
  /\ At(c, "idle")
  /\ job = "none"
  /\ job' \in {"running", "finished"}
  /\ \E task \in {"post", "stream"}, usage \in BOOLEAN :
       worker' = [worker EXCEPT ![c] =
         [@ EXCEPT !.pc = "create", !.task = task,
                   !.answer = [status |-> IF job' = "running" THEN "running" ELSE "over",
                               usage |-> usage]]]
  /\ UNCHANGED <<record, pending, lease, done, history, bounds>>

\* The owner learns the id with the first event of a stream, or with the response.
Known == record # None /\ \A c \in Clients : worker[c].task # "post"

\* resource: a read, a cancellation, a stream of events or a deletion.
Ask(c) ==
  /\ At(c, "idle")
  /\ Known /\ record.stored
  /\ \E task \in {"read", "stream", "delete"} :
       \E step \in {"fetch"} \cup (IF task = "read" THEN {"cancel"} ELSE {}) :
         worker' = [worker EXCEPT ![c].pc = step, ![c].task = task]
  /\ UNCHANGED <<job, record, pending, lease, done, history, bounds>>

\* A response, or the next event of a stream.
Fetch(w) ==
  /\ At(w, "fetch") \/ At(w, "stream")
  /\ job \in {"running", "finished"}
  /\ \E answer \in Heard : worker' = [worker EXCEPT ![w].pc = "lock", ![w].answer = answer]
  /\ UNCHANGED <<job, record, pending, lease, done, history, bounds>>

Cancel(c) ==
  /\ At(c, "cancel")
  /\ job \in {"running", "finished"}
  /\ job' = "finished"
  /\ \E usage \in BOOLEAN :
       worker' = [worker EXCEPT ![c].pc = "lock",
                                ![c].answer = [status |-> "over", usage |-> usage]]
  /\ UNCHANGED <<record, pending, lease, done, history, bounds>>

\* A stream that breaks off is observed once more, with nothing new to tell.
LastObservation(w) ==
  worker' = [worker EXCEPT ![w] = [AtRest EXCEPT !.pc = "lock", !.task = "read"]]

Interrupted(c) ==
  /\ At(c, "fetch") \/ At(c, "stream")
  /\ worker[c].task = "stream"
  /\ LastObservation(c)
  /\ UNCHANGED <<job, record, pending, lease, done, history, bounds>>

\* Not found upstream: the poll leaves the interaction to reconciliation.
NotFound(w) ==
  /\ At(w, "fetch") \/ At(w, "cancel") \/ At(w, "remove")
  /\ job = "gone"
  /\ IF w \in Pollers
     THEN worker' = [worker EXCEPT ![w].pc = "defer", ![w].task = "notFound"]
     ELSE Rest(w)
  /\ UNCHANGED <<job, record, pending, lease, done, history, bounds>>

CallFails(w) ==
  /\ Fault
  /\ At(w, "fetch") \/ At(w, "cancel") \/ At(w, "remove")
  /\ IF w \in Pollers THEN Goto(w, "requeue") ELSE Rest(w)
  /\ UNCHANGED <<job, record, pending, lease, done, history>>

-----------------------------------------------------------------------------
(***************************************************************************)
(* _observe: create the record, take the lease, merge, charge, count.      *)
(***************************************************************************)
\* A write of the whole record makes the other workers' copies outdated.
Overwrite(w, r) ==
  /\ record' = r
  /\ torn' = (torn \/ w \in outdated)
  /\ outdated' = {v \in Workers \ {w} : worker[v].copy # None}

\* SET NX: the first answer creates the record.
Create(c) ==
  /\ At(c, "create")
  /\ IF record = None
     THEN \E stored \in BOOLEAN :
            record' = [over |-> worker[c].answer.status = "over", final |-> FALSE,
                       billed |-> FALSE, rated |-> FALSE, stored |-> stored, review |-> FALSE]
     ELSE UNCHANGED record
  /\ Goto(c, "lock")
  /\ UNCHANGED <<job, pending, lease, done, history, bounds>>

\* mutant: the lease is taken from its holder
LockAnyway(w, from, to) ==
  /\ At(w, from)
  /\ lease' = w
  /\ Goto(w, to)

Lock(w, from, to) ==
  /\ At(w, from)
  /\ lease = Free
  /\ lease' = w
  /\ Goto(w, to)

ObserveLock(w) ==
  /\ Lock(w, "lock", "merge")
  /\ UNCHANGED <<job, record, pending, done, history, bounds>>

\* Nothing more comes of a worker's observation, but a stream may have more events.
Observed(w) ==
  \/ /\ worker[w].task = "stream"
     /\ worker' = [worker EXCEPT ![w] = [AtRest EXCEPT !.pc = "stream", !.task = "stream"]]
  \/ /\ worker[w].task = "stream" => worker[w].answer.status = "over"
     /\ Rest(w)

\* Somebody settles the interaction now: leave it to the poll.  A deletion ends here.
Busy(w) ==
  /\ At(w, "lock") \/ At(w, "defer")
  /\ lease # Free
  /\ pending' = TRUE
  /\ Observed(w)
  /\ UNCHANGED <<job, record, lease, done, history, bounds>>

ReadAndMerge(w) ==
  /\ At(w, "merge")
  /\ worker' = [worker EXCEPT ![w].pc = "save",
                              ![w].copy = Merge(record, worker[w].answer)]
  /\ outdated' = outdated \ {w}
  /\ UNCHANGED <<job, record, pending, lease, done, torn, deleted, bounds>>

AfterSave(w) ==
  IF At(w, "save") THEN "schedule"
  ELSE IF At(w, "saveDeleted") THEN "scheduleDeleted"
  ELSE IF At(w, "mark") /\ NeedsRateLimit(worker[w].copy) THEN "count"
  ELSE "reschedule"

Save(w) ==
  /\ worker[w].pc \in {"save", "mark", "giveUp", "saveDeleted"}
  /\ Overwrite(w, worker[w].copy)
  /\ deleted' = (deleted \/ At(w, "saveDeleted"))
  /\ Goto(w, AfterSave(w))
  /\ UNCHANGED <<job, pending, lease, done, bounds>>

\* mutant: only evidence that is not charged yet is scheduled
ScheduleUncharged(w) ==
  /\ worker[w].pc \in {"schedule", "reschedule"}
  /\ pending' = Chargeable(worker[w].copy)
  /\ Goto(w, IF At(w, "reschedule") THEN "unlock"
             ELSE IF Chargeable(worker[w].copy) THEN "charge" ELSE "mark")
  /\ UNCHANGED <<job, record, lease, done, history, bounds>>

Schedule(w) ==
  /\ worker[w].pc \in {"schedule", "reschedule"}
  /\ pending' = NeedsProcessing(worker[w].copy)
  /\ Goto(w, IF At(w, "reschedule") THEN "unlock"
             ELSE IF Chargeable(worker[w].copy) THEN "charge" ELSE "mark")
  /\ UNCHANGED <<job, record, lease, done, history, bounds>>

\* mutant: the charge is not deduplicated
AddTotalAgain == charged' = charged + 1

\* cost.incrementTotal, under the deduplication key of the interaction.
AddTotal == charged' = IF charged = 0 THEN 1 ELSE charged

\* mutant: a charge that failed is marked all the same
ChargeMarksAnyway(w) ==
  /\ At(w, "charge")
  /\ \/ AddTotal /\ UNCHANGED bounds
     \/ Fault /\ UNCHANGED charged
  /\ worker' = [worker EXCEPT ![w].pc = "mark", ![w].copy.billed = TRUE]
  /\ UNCHANGED <<job, record, pending, lease, counted, history>>

\* recordUsage; an error is logged, whether the charge was made or not.
Charge(w) ==
  /\ At(w, "charge")
  /\ \/ /\ AddTotal
        /\ worker' = [worker EXCEPT ![w].pc = "mark", ![w].copy.billed = TRUE]
        /\ UNCHANGED bounds
     \/ /\ Fault
        /\ AddTotal \/ UNCHANGED charged
        /\ Goto(w, "mark")
  /\ UNCHANGED <<job, record, pending, lease, counted, history>>

\* mutant: the script does not look at the record's mark
CountAgain(w) ==
  /\ counted' = IF counted = 2 THEN 2 ELSE counted + 1
  /\ record' = [record EXCEPT !.rated = TRUE]
  /\ outdated' = outdated \cup {v \in Workers \ {w} : worker[v].copy # None}

\* geminiInteraction.recordRateLimit: count and mark in one script.
CountOnce(w) ==
  IF record.rated
  THEN UNCHANGED <<counted, record, outdated>>
  ELSE /\ counted' = IF counted = 2 THEN 2 ELSE counted + 1
       /\ record' = [record EXCEPT !.rated = TRUE]
       /\ outdated' = outdated \cup {v \in Workers \ {w} : worker[v].copy # None}

\* An error is logged, whether the script has run or not.
Count(w) ==
  /\ At(w, "count")
  /\ \/ /\ CountOnce(w)
        /\ worker' = [worker EXCEPT ![w].pc = "reschedule", ![w].copy.rated = TRUE]
        /\ UNCHANGED bounds
     \/ /\ Fault
        /\ CountOnce(w) \/ UNCHANGED <<counted, record, outdated>>
        /\ Goto(w, "reschedule")
  /\ UNCHANGED <<job, pending, lease, charged, torn, deleted>>

\* Only the holder gives the lease back.
GiveBack(w) == lease' = IF lease = w THEN Free ELSE lease

\* After an observation a deletion goes on: with a cancellation, or upstream.
Unlock(w) ==
  /\ At(w, "unlock")
  /\ GiveBack(w)
  /\ IF worker[w].task = "delete"
     THEN LET next == IF worker[w].answer.status = "over" THEN "remove" ELSE "cancel"
          IN worker' = [worker EXCEPT ![w] = [AtRest EXCEPT !.pc = next, !.task = "delete"]]
     ELSE Observed(w)
  /\ outdated' = outdated \ {w}
  /\ UNCHANGED <<job, record, pending, done, torn, deleted, bounds>>

-----------------------------------------------------------------------------
(***************************************************************************)
(* The end of a deletion: no lease is taken.                               *)
(***************************************************************************)
Remove(c) ==
  /\ At(c, "remove")
  /\ job # "gone"
  /\ job' = "gone"
  /\ Goto(c, "getSaved")
  /\ UNCHANGED <<record, pending, lease, done, history, bounds>>

GetSaved(c) ==
  /\ At(c, "getSaved")
  /\ worker' = [worker EXCEPT ![c].pc = "saveDeleted",
                              ![c].copy = [record EXCEPT !.stored = FALSE]]
  /\ outdated' = outdated \ {c}
  /\ UNCHANGED <<job, record, pending, lease, done, torn, deleted, bounds>>

ScheduleDeleted(c) ==
  /\ At(c, "scheduleDeleted")
  /\ pending' = NeedsProcessing(worker[c].copy)
  /\ Rest(c)
  /\ outdated' = outdated \ {c}
  /\ UNCHANGED <<job, record, lease, done, torn, deleted, bounds>>

-----------------------------------------------------------------------------
(***************************************************************************)
(* poll, and _deferToReconciliation.                                       *)
(***************************************************************************)
\* Final usage needs no call; what upstream does not keep cannot be asked for.
Poll(p) ==
  /\ At(p, "idle")
  /\ pending
  /\ worker' = [worker EXCEPT ![p] =
       IF record.final
       THEN [@ EXCEPT !.pc = "lock", !.task = "read",
                      !.answer = [status |-> IF record.over THEN "over" ELSE "running",
                                  usage |-> TRUE]]
       ELSE [@ EXCEPT !.pc = IF record.stored THEN "fetch" ELSE "defer", !.task = "read"]]
  /\ UNCHANGED <<job, record, pending, lease, done, history, bounds>>

DeferLock(p) ==
  /\ Lock(p, "defer", "review")
  /\ UNCHANGED <<job, record, pending, done, history, bounds>>

\* Settled or about to be: schedule by what is left to do.  Else a person decides.
Review(p) ==
  /\ At(p, "review")
  /\ worker' = [worker EXCEPT ![p] =
       IF record.billed \/ record.final
       THEN [@ EXCEPT !.pc = "reschedule", !.copy = record]
       ELSE [@ EXCEPT !.pc = "giveUp", !.copy = [record EXCEPT !.review = TRUE]]]
  /\ outdated' = outdated \ {p}
  /\ UNCHANGED <<job, record, pending, lease, done, torn, deleted, bounds>>

Requeue(p) ==
  /\ At(p, "requeue")
  /\ pending' = TRUE
  /\ Rest(p)
  /\ UNCHANGED <<job, record, lease, done, history, bounds>>

-----------------------------------------------------------------------------
(***************************************************************************)
(* Failures.                                                               *)
(***************************************************************************)
\* Steps between taking the lease and giving it back.
Leased == {"merge", "save", "schedule", "charge", "mark", "count", "reschedule",
           "review", "giveUp", "unlock", "abort"}

\* Where an error ends up: a stream is observed once more, the poll puts the
\* interaction back (unless it fails over one that was not found).
Thrown(w) ==
  LET task == worker[w].task IN
  \/ /\ task = "stream" /\ At(w, "create")
     /\ worker' = [worker EXCEPT ![w].task = "read", ![w].answer.usage = FALSE]
  \/ /\ task = "stream" /\ ~At(w, "create")
     /\ LastObservation(w)
  \/ /\ task = "read" /\ w \in Pollers /\ ~At(w, "requeue")
     /\ worker' = [worker EXCEPT ![w] = [AtRest EXCEPT !.pc = "requeue", !.task = "read"]]
  \/ /\ task = "read" => w \in Clients \/ At(w, "requeue")
     /\ task # "stream"
     /\ Rest(w)

\* A Redis command fails; the finally of whoever has the lease comes first.  A
\* command whose answer is lost is one that succeeds, and the next one fails; the
\* answer of the lease's SET may be lost too.
RedisFails(w) ==
  /\ Fault
  /\ worker[w].pc \notin {"idle", "fetch", "stream", "cancel", "remove"}
  /\ IF worker[w].pc \in Leased \ {"unlock", "abort"} THEN Goto(w, "abort") ELSE Thrown(w)
  /\ lease' = IF worker[w].pc \in {"lock", "defer"} /\ lease = Free THEN w ELSE lease
  /\ outdated' = outdated \ {w}
  /\ UNCHANGED <<job, record, pending, done, torn, deleted>>

\* The lease is given back and the error goes on.
Abort(w) ==
  /\ At(w, "abort")
  /\ GiveBack(w)
  /\ Thrown(w)
  /\ outdated' = outdated \ {w}
  /\ UNCHANGED <<job, record, pending, done, torn, deleted, bounds>>

\* The process dies, and the server comes up again.
Die(w) ==
  /\ Fault
  /\ ~At(w, "idle")
  /\ Rest(w)
  /\ outdated' = outdated \ {w}
  /\ UNCHANGED <<job, record, pending, lease, done, torn, deleted>>

\* The TTL of the lease ends, counted when its holder is still at work.
Lapse ==
  /\ lease # Free
  /\ lease' = Free
  /\ IF worker[lease].pc \in Leased
     THEN lapses < MaxLapses /\ lapses' = lapses + 1
     ELSE UNCHANGED lapses
  /\ UNCHANGED <<job, record, pending, worker, done, history, faults>>

Observing(w) ==
  \/ ObserveLock(w) \/ Busy(w) \/ ReadAndMerge(w) \/ Save(w) \/ Schedule(w)
  \/ Charge(w) \/ Count(w) \/ Unlock(w) \/ Abort(w)

Polling(p) == Poll(p) \/ DeferLock(p) \/ Review(p) \/ Requeue(p)

Asking(c) ==
  \/ Post(c) \/ Create(c) \/ Ask(c) \/ Cancel(c) \/ Interrupted(c)
  \/ Remove(c) \/ GetSaved(c) \/ ScheduleDeleted(c)

Failing(w) == CallFails(w) \/ RedisFails(w) \/ Die(w)

Next ==
  \/ Finish \/ Vanish \/ Lapse
  \/ \E c \in Clients : Asking(c)
  \/ \E p \in Pollers : Polling(p)
  \/ \E w \in Workers : Fetch(w) \/ NotFound(w) \/ Observing(w) \/ Failing(w)

Spec == Init /\ [][Next]_vars

(***************************************************************************)
(* The timers of the servers go on, a worker goes on with what it does, a  *)
(* call that can be answered is, and an abandoned lease ends.  Nothing is  *)
(* assumed of the clients' wishes, of the job and of failures.             *)
(***************************************************************************)
Fairness ==
  /\ \A w \in Workers : WF_vars(Observing(w)) /\ WF_vars(Fetch(w) \/ NotFound(w))
  /\ \A p \in Pollers : WF_vars(Polling(p))
  /\ \A c \in Clients : WF_vars(Create(c) \/ GetSaved(c) \/ ScheduleDeleted(c))
  /\ WF_vars(Lapse)

FairSpec == Spec /\ Fairness

-----------------------------------------------------------------------------
(***************************************************************************)
(* Properties.                                                             *)
(***************************************************************************)
Steps == Leased \cup {"idle", "create", "fetch", "stream", "cancel", "lock", "defer", "requeue",
                      "remove", "getSaved", "saveDeleted", "scheduleDeleted"}

\* Every variable keeps its type: the cost is charged at most once.
TypeOK ==
  /\ job \in {"none", "running", "finished", "gone"}
  /\ record \in Records \cup {None}
  /\ pending \in BOOLEAN
  /\ lease \in Workers \cup {Free}
  /\ worker \in [Workers -> [pc : Steps, task : {"none", "post", "read", "notFound", "stream", "delete"},
                             answer : Answers, copy : Records \cup {None}]]
  /\ charged \in 0..1
  /\ counted \in 0..2
  /\ outdated \subseteq Workers
  /\ torn \in BOOLEAN
  /\ deleted \in BOOLEAN
  /\ faults \in 0..MaxFaults
  /\ lapses \in 0..MaxLapses

\* A mark in the record, or in a copy about to be written, is of something done.
Truthful(r) == r # None => (r.billed => charged = 1) /\ (r.rated => counted > 0)

MarksTellTheTruth == Truthful(record) /\ \A w \in Workers : Truthful(worker[w].copy)

\* Only a lease that ended under its holder, or a deletion, makes a worker write
\* an outdated copy over what another one has written.
LostUpdatesExplained == torn => lapses > 0 \/ deleted

\* As long as no update was lost, the usage is counted once and a mark stays.
CountedOnceUnlessTorn == counted > 1 => torn

\* gemini_interactions_service.test.js: the final usage is counted once.
CountedOnce == counted <= 1

Evidence == record # None /\ record.over /\ record.final

\* Final usage that the poll knows of is charged and counted in the end, or a late
\* answer makes it unfinal; a deletion or a lease that ended early may come in the
\* way.  Failed commands, failed calls and dying servers may not.
EvidenceSettled ==
  Evidence /\ pending ~>
    (charged = 1 /\ counted > 0) \/ ~Evidence \/ deleted \/ lapses > 0

=============================================================================
