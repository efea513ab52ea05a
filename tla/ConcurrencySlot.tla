--------------------------- MODULE ConcurrencySlot ---------------------------
(***************************************************************************)
(* The concurrency limit of one API key: a sorted set of leases in Redis,  *)
(* one entry per request, and a counter of the requests that queue for a   *)
(* lease.  HTTP requests (authenticateApiKey) and WebSocket turns          *)
(* (acquireWsTurnConcurrency) of any number of processes share both.       *)
(*                                                                         *)
(* Abstractions.  Every script drops lapsed entries first, so a lapsed     *)
(* entry is an absent one.  A request id is fresh for each request: when a *)
(* request ends, an entry it leaves behind belongs to nobody and becomes   *)
(* an orphan.  Renewal is on and its interval is below the lease, as       *)
(* maxSafeRenew arranges.  The overload check and a disabled queue both    *)
(* turn a request away, here by choice.                                    *)
(***************************************************************************)
EXTENDS Naturals, FiniteSets

CONSTANTS
  Requests,       \* requests of one key that may be under way together
  Turns,          \* those of them that are WebSocket turns
  Limit,          \* keyData.concurrencyLimit
  MaxQueue,       \* maxQueueSize
  MaxRefresh,     \* maxRefreshCount
  MaxRedisFails,  \* concurrentRequestQueueMaxRedisFailCount
  MaxFaults,      \* bounds the deaths and Redis errors of a behaviour
  MaxClears       \* bounds the forced clears of a behaviour

ASSUME SlotConstants ==
  /\ Turns \subseteq Requests
  /\ IsFiniteSet(Requests)
  /\ Limit \in Nat \ {0}
  /\ MaxQueue \in Nat \ {0}
  /\ MaxRefresh \in Nat \ {0}
  /\ MaxRedisFails \in Nat \ {0}
  /\ MaxFaults \in Nat
  /\ MaxClears \in Nat

VARIABLES
  slots,      \* requests with an entry in the key's lease set
  orphans,    \* entries whose request is over
  queue,      \* the key's queue counter, 0 when absent
  pc,         \* per request: its next step
  closed,     \* per request: the client is gone
  refreshes,  \* per request: refreshCount
  fails,      \* per request: redisFailCount
  lost,       \* requests whose entry was cleared, or lapsed in an outage
  sweep,      \* cleanupExpiredConcurrency: its next step
  faults,     \* deaths and Redis errors so far
  clears      \* forced clears so far

localVars == <<pc, closed, refreshes, fails, lost>>
leaseVars == <<slots, orphans>>
vars == <<leaseVars, queue, localVars, sweep, faults, clears>>

Polling == {"poll", "pollOver", "leave", "leaveGranted"}
Counted == Polling \cup {"queueFull", "queueCleanup"}
Renewed == {"serving", "lingering"}
Admitted == Renewed \cup {"leaveGranted", "overrun", "release"}
Steps == Counted \cup Renewed \cup
  {"idle", "incr", "over", "check", "queueIncr", "overrun", "release"}

TypeOK ==
  /\ slots \subseteq Requests
  /\ orphans \in Nat
  /\ queue \in Nat
  /\ pc \in [Requests -> Steps]
  /\ closed \in [Requests -> BOOLEAN]
  /\ refreshes \in [Requests -> 0..MaxRefresh]
  /\ fails \in [Requests -> 0..(MaxRedisFails - 1)]
  /\ lost \subseteq Requests
  /\ sweep \in {"idle", "card", "del"}
  /\ faults \in 0..MaxFaults
  /\ clears \in 0..MaxClears
  /\ \A r \in Requests : pc[r] = "idle" => r \notin slots

Init ==
  /\ slots = {}
  /\ orphans = 0
  /\ queue = 0
  /\ pc = [r \in Requests |-> "idle"]
  /\ closed = [r \in Requests |-> FALSE]
  /\ refreshes = [r \in Requests |-> 0]
  /\ fails = [r \in Requests |-> 0]
  /\ lost = {}
  /\ sweep = "idle"
  /\ faults = 0
  /\ clears = 0

-----------------------------------------------------------------------------
(* Helpers *)

In(S) == {r \in Requests : pc[r] \in S}

\* a command that fails was applied, or was not; its caller cannot tell
Fault == faults < MaxFaults /\ faults' = faults + 1
Answered(ok) == IF ok THEN UNCHANGED faults ELSE Fault
Outcome(ok, before, after) == IF ok THEN {after} ELSE {before, after}

Goto(r, step) ==
  /\ pc' = [pc EXCEPT ![r] = step]
  /\ UNCHANGED <<closed, refreshes, fails, lost>>

\* the request is over: an entry it still has is nobody's
Exit(r, entries) ==
  /\ slots' = entries \ {r}
  /\ orphans' = IF r \in entries THEN orphans + 1 ELSE orphans
  /\ pc' = [pc EXCEPT ![r] = "idle"]
  /\ closed' = [closed EXCEPT ![r] = FALSE]
  /\ refreshes' = [refreshes EXCEPT ![r] = 0]
  /\ fails' = [fails EXCEPT ![r] = 0]
  /\ lost' = lost \ {r}

\* mutant: the entries are counted before the request's own is added
FitsBefore(entries) == Cardinality(slots) + orphans <= Limit

\* EVAL concurrency.incr returns the size of the set with the request in it
Fits(entries) == Cardinality(entries) + orphans <= Limit

\* mutant: a plain DECR
DecrementBelowZero(n) == n - 1

\* EVAL queue.decr: the key is removed at zero
Decrement(n) == IF n > 0 THEN n - 1 ELSE 0

-----------------------------------------------------------------------------
(* Admission *)

Arrive(r) ==
  /\ pc[r] = "idle"
  /\ Goto(r, "incr")
  /\ UNCHANGED <<leaseVars, queue, sweep, faults, clears>>

\* an HTTP request that is admitted at once does not look whether its client left
Acquire(r) ==
  /\ pc[r] = "incr"
  /\ slots' = slots \cup {r}
  /\ Goto(r, IF ~Fits(slots') THEN "over"
             ELSE IF r \in Turns /\ closed[r] THEN "release" ELSE "serving")
  /\ UNCHANGED <<orphans, queue, sweep, faults, clears>>

\* the error is answered with 500; nothing says that the entry may exist
AcquireFails(r) ==
  /\ pc[r] = "incr" /\ Fault
  /\ \E entries \in Outcome(FALSE, slots, slots \cup {r}) : Exit(r, entries)
  /\ UNCHANGED <<queue, sweep, clears>>

\* over the limit: the entry is taken back, whether or not Redis confirms it
GiveBack(r, ok, after) ==
  /\ Answered(ok)
  /\ \E entries \in Outcome(ok, slots, after) :
       IF r \in Turns THEN Exit(r, entries)
       ELSE slots' = entries /\ UNCHANGED orphans /\ Goto(r, "check")
  /\ UNCHANGED <<queue, sweep, clears>>

\* mutant: ZPOPMIN instead of ZREM of the request's own entry
OverPopsAny(r, ok) ==
  /\ pc[r] = "over"
  /\ \E s \in slots : GiveBack(r, ok, slots \ {s})

Over(r, ok) ==
  /\ pc[r] = "over"
  /\ GiveBack(r, ok, slots \ {r})

\* queueing is off, or the queue is overloaded: 429
Refuse(r) ==
  /\ pc[r] = "check"
  /\ Exit(r, slots)
  /\ UNCHANGED <<queue, sweep, faults, clears>>

Enqueue(r) ==
  /\ pc[r] = "check"
  /\ Goto(r, "queueIncr")
  /\ UNCHANGED <<leaseVars, queue, sweep, faults, clears>>

\* mutant: the counter is compared before it is raised
QueueIncrCompareFirst(r) ==
  /\ pc[r] = "queueIncr"
  /\ queue' = queue + 1
  /\ Goto(r, IF queue > MaxQueue THEN "queueFull" ELSE "poll")
  /\ UNCHANGED <<leaseVars, sweep, faults, clears>>

\* EVAL queue.incr, compared after it was raised
QueueIncr(r) ==
  /\ pc[r] = "queueIncr"
  /\ queue' = queue + 1
  /\ Goto(r, IF queue' > MaxQueue THEN "queueFull" ELSE "poll")
  /\ UNCHANGED <<leaseVars, sweep, faults, clears>>

QueueIncrFails(r) ==
  /\ pc[r] = "queueIncr" /\ Fault
  /\ queue' \in Outcome(FALSE, queue, queue + 1)
  /\ Exit(r, slots)
  /\ UNCHANGED <<sweep, clears>>

\* no room: the count is taken back, a second time if the first is not confirmed
QueueFull(r, ok) ==
  /\ pc[r] = "queueFull"
  /\ Answered(ok)
  /\ queue' \in Outcome(ok, queue, Decrement(queue))
  /\ IF ok THEN Exit(r, slots) ELSE Goto(r, "queueCleanup") /\ UNCHANGED leaseVars
  /\ UNCHANGED <<sweep, clears>>

QueueCleanup(r, ok) ==
  /\ pc[r] = "queueCleanup"
  /\ Answered(ok)
  /\ queue' \in Outcome(ok, queue, Decrement(queue))
  /\ Exit(r, slots)
  /\ UNCHANGED <<sweep, clears>>

-----------------------------------------------------------------------------
(* waitForConcurrencySlot *)

\* mutant: the clock of the loop is restarted by every round
StopPollingIfClosed(r) ==
  /\ pc[r] = "poll"
  /\ closed[r]
  /\ Goto(r, "leave")
  /\ UNCHANGED <<leaseVars, queue, sweep, faults, clears>>

\* mutant: a client that disconnects returns ahead of the finally
StopPollingLeaks(r) ==
  /\ pc[r] = "poll"
  /\ IF closed[r] THEN Exit(r, slots) ELSE Goto(r, "leave") /\ UNCHANGED leaseVars
  /\ UNCHANGED <<queue, sweep, faults, clears>>

\* the client is gone, or the time is up
StopPolling(r) ==
  /\ pc[r] = "poll"
  /\ Goto(r, "leave")
  /\ UNCHANGED <<leaseVars, queue, sweep, faults, clears>>

Poll(r) ==
  /\ pc[r] = "poll" /\ ~closed[r]
  /\ slots' = slots \cup {r}
  /\ pc' = [pc EXCEPT ![r] = IF Fits(slots') THEN "leaveGranted" ELSE "pollOver"]
  /\ fails' = [fails EXCEPT ![r] = 0]
  /\ UNCHANGED <<orphans, queue, closed, refreshes, lost, sweep, faults, clears>>

PollFails(r) ==
  LET givesUp == fails[r] + 1 >= MaxRedisFails
  IN /\ pc[r] = "poll" /\ ~closed[r] /\ Fault
     /\ slots' \in Outcome(FALSE, slots, slots \cup {r})
     /\ pc' = [pc EXCEPT ![r] = IF givesUp THEN "leave" ELSE "poll"]
     /\ fails' = [fails EXCEPT ![r] = IF givesUp THEN 0 ELSE @ + 1]
     /\ UNCHANGED <<orphans, queue, closed, refreshes, lost, sweep, clears>>

\* an entry that is not taken back is overwritten in the next round
PollOver(r, ok) ==
  /\ pc[r] = "pollOver"
  /\ Answered(ok)
  /\ slots' \in Outcome(ok, slots, slots \ {r})
  /\ Goto(r, "poll")
  /\ UNCHANGED <<orphans, queue, sweep, clears>>

\* mutant: a request whose client left while it queued just returns
LeaveForgetting(r, ok) ==
  /\ pc[r] \in {"leave", "leaveGranted"}
  /\ Answered(ok)
  /\ queue' \in Outcome(ok, queue, Decrement(queue))
  /\ IF pc[r] = "leave" \/ closed[r] THEN Exit(r, slots)
     ELSE UNCHANGED leaseVars /\ Goto(r, "serving")
  /\ UNCHANGED <<sweep, clears>>

\* finally: one count less; then the client of a granted request is checked
Leave(r, ok) ==
  /\ pc[r] \in {"leave", "leaveGranted"}
  /\ Answered(ok)
  /\ queue' \in Outcome(ok, queue, Decrement(queue))
  /\ IF pc[r] = "leave" THEN Exit(r, slots)
     ELSE UNCHANGED leaseVars /\ Goto(r, IF closed[r] THEN "release" ELSE "serving")
  /\ UNCHANGED <<sweep, clears>>

-----------------------------------------------------------------------------
(* Service, renewal and release *)

\* the client goes away; the close listeners exist while the request is served
Disconnect(r) ==
  /\ pc[r] \notin {"idle", "lingering", "overrun", "release"} /\ ~closed[r]
  /\ closed' = [closed EXCEPT ![r] = TRUE]
  /\ pc' = [pc EXCEPT ![r] = IF @ = "serving" THEN "release" ELSE @]
  /\ UNCHANGED <<leaseVars, queue, refreshes, fails, lost, sweep, faults, clears>>

Finish(r) ==
  /\ pc[r] = "serving"
  /\ Goto(r, "release")
  /\ UNCHANGED <<leaseVars, queue, sweep, faults, clears>>

\* the client left before the listeners were there: no event may ever come
FinishUnheard(r) ==
  /\ pc[r] = "serving" /\ closed[r]
  /\ Goto(r, "lingering")
  /\ UNCHANGED <<leaseVars, queue, sweep, faults, clears>>

\* decrementConcurrency, release(), or the queue's own check of the client
Release(r, ok) ==
  /\ pc[r] = "release"
  /\ Answered(ok)
  /\ \E entries \in Outcome(ok, slots, slots \ {r}) : Exit(r, entries)
  /\ UNCHANGED <<queue, sweep, clears>>

\* mutant: refreshCount is not incremented
RenewForever(r) ==
  /\ pc[r] \in Renewed /\ refreshes[r] < MaxRefresh
  /\ UNCHANGED vars

Renew(r) ==
  /\ pc[r] \in Renewed /\ refreshes[r] < MaxRefresh
  /\ refreshes' = [refreshes EXCEPT ![r] = @ + 1]
  /\ UNCHANGED <<leaseVars, queue, pc, closed, fails, lost, sweep, faults, clears>>

\* HTTP: the entry is removed for good, the request goes on
ForceCleanup(r, ok) ==
  /\ pc[r] \in Renewed /\ refreshes[r] = MaxRefresh /\ r \notin Turns
  /\ Answered(ok)
  /\ \E entries \in Outcome(ok, slots, slots \ {r}) :
       IF pc[r] = "lingering" THEN Exit(r, entries)
       ELSE /\ slots' = entries \ {r}
            /\ orphans' = IF r \in entries THEN orphans + 1 ELSE orphans
            /\ Goto(r, "overrun")
  /\ UNCHANGED <<queue, sweep, clears>>

\* WebSocket: onLeaseExpired disconnects, or the caller gave none and the lease lapses
LifetimeOver(r) ==
  /\ pc[r] = "serving" /\ refreshes[r] = MaxRefresh /\ r \in Turns
  /\ \E step \in {"release", "overrun"} : Goto(r, step)
  /\ UNCHANGED <<leaseVars, queue, sweep, faults, clears>>

OverrunEnds(r) ==
  /\ pc[r] = "overrun"
  /\ IF r \in Turns THEN UNCHANGED leaseVars /\ Goto(r, "release") ELSE Exit(r, slots)
  /\ UNCHANGED <<queue, sweep, faults, clears>>

-----------------------------------------------------------------------------
(* Time, failure and administration *)

\* an entry that nobody renews
LeaseLapses(r) ==
  /\ r \in slots
  /\ pc[r] \in {"check", "queueIncr", "queueFull", "queueCleanup", "poll", "leave", "overrun"}
  /\ slots' = slots \ {r}
  /\ UNCHANGED <<orphans, queue, localVars, sweep, faults, clears>>

OrphanLapses ==
  /\ orphans > 0
  /\ orphans' = orphans - 1
  /\ UNCHANGED <<slots, queue, localVars, sweep, faults, clears>>

\* renewals fail for a whole lease; later ones do not put the entry back
Outage(r) ==
  /\ r \in slots /\ pc[r] \in Renewed /\ Fault
  /\ slots' = slots \ {r}
  /\ lost' = lost \cup {r}
  /\ UNCHANGED <<orphans, queue, pc, closed, refreshes, fails, sweep, clears>>

\* its process dies
Die(r) ==
  /\ pc[r] # "idle" /\ Fault
  /\ Exit(r, slots)
  /\ UNCHANGED <<queue, sweep, clears>>

\* the counter's TTL outlives every wait, and every increment renews it
QueueExpires ==
  /\ queue > 0 /\ In(Counted) = {}
  /\ queue' = 0
  /\ UNCHANGED <<leaseVars, localVars, sweep, faults, clears>>

Cleared ==
  /\ slots' = {} /\ orphans' = 0 /\ lost' = lost \cup slots
  /\ UNCHANGED <<pc, closed, refreshes, fails>>

\* forceClearConcurrency, or the shutdown of another process
ClearSlots ==
  /\ clears < MaxClears /\ clears' = clears + 1
  /\ Cleared
  /\ UNCHANGED <<queue, sweep, faults>>

\* clearConcurrencyQueue, or the start of another process
ClearQueue ==
  /\ clears < MaxClears /\ clears' = clears + 1
  /\ queue' = 0
  /\ UNCHANGED <<leaseVars, localVars, sweep, faults>>

\* cleanupExpiredConcurrency: TYPE, then ZREMRANGEBYSCORE and ZCARD, then DEL,
\* which it reaches when there is no key or no entry left
SweepRead ==
  /\ sweep \in {"idle", "card"}
  /\ sweep' = IF slots = {} /\ orphans = 0 THEN "del"
              ELSE IF sweep = "idle" THEN "card" ELSE "idle"
  /\ UNCHANGED <<leaseVars, queue, localVars, faults, clears>>

SweepDelete ==
  /\ sweep = "del"
  /\ sweep' = "idle"
  /\ Cleared
  /\ UNCHANGED <<queue, faults, clears>>

-----------------------------------------------------------------------------

\* what a handler or its timer does of its own accord
Continue(r, ok) ==
  \/ Acquire(r) \/ Over(r, ok) \/ Refuse(r) \/ Enqueue(r) \/ QueueIncr(r)
  \/ QueueFull(r, ok) \/ QueueCleanup(r, ok) \/ Poll(r) \/ PollOver(r, ok)
  \/ Leave(r, ok) \/ Release(r, ok)

Timer(r, ok) == Renew(r) \/ ForceCleanup(r, ok) \/ LifetimeOver(r)

Next ==
  \/ \E r \in Requests, ok \in BOOLEAN : Continue(r, ok) \/ Timer(r, ok)
  \/ \E r \in Requests :
       \/ Arrive(r) \/ AcquireFails(r) \/ QueueIncrFails(r) \/ StopPolling(r)
       \/ PollFails(r) \/ Disconnect(r) \/ Finish(r) \/ FinishUnheard(r)
       \/ OverrunEnds(r) \/ LeaseLapses(r) \/ Outage(r) \/ Die(r)
  \/ OrphanLapses \/ QueueExpires \/ ClearSlots \/ ClearQueue
  \/ SweepRead \/ SweepDelete

Spec == Init /\ [][Next]_vars

(* Fairness.  Handlers and timers run on, the clock of a waiting request    *)
(* runs out however often it polls, and keys and leases expire.  Clients    *)
(* and upstreams owe nothing: a request may be served for ever.             *)
FairSpec ==
  /\ Spec
  /\ WF_vars(OrphanLapses) /\ WF_vars(QueueExpires)
  /\ \A r \in Requests :
       /\ WF_vars(Continue(r, TRUE)) /\ WF_vars(Timer(r, TRUE))
       /\ WF_vars(LeaseLapses(r)) /\ SF_vars(StopPolling(r))

-----------------------------------------------------------------------------
(* Properties *)

\* The limit itself: of the entries in the set, those that were let past the
\* check never exceed it, although every candidate first adds its own entry
\* and others add theirs before it has looked at the count.
HoldersWithinLimit == Cardinality(slots \cap In(Admitted)) <= Limit

\* A request that is served has an entry that counts it, unless it was cleared
\* or lapsed in an outage: nobody takes back an entry other than his own.
ServedHoldsSlot == In({"leaveGranted", "serving"}) \ lost \subseteq slots

\* An entry without a request comes from a fault, never from a path of the code:
\* clients that leave at any moment, time-outs, refusals and double releases
\* leave nothing behind.
OrphansAreFaults == orphans <= faults

\* The counter follows the requests that queue: each fault leaks, or loses, at
\* most one of them, and no exit from the queue forgets or repeats the decrement.
QueueCountsWaiters ==
  LET waiting == Cardinality(In(Counted))
  IN /\ queue <= waiting + faults
     /\ clears = 0 => waiting <= queue + faults

\* maxQueueSize bounds the requests that wait, beyond what faults made the
\* counter lose and unless it was cleared under them.
WaitersWithinMax ==
  clears = 0 => Cardinality(In(Polling)) <= MaxQueue + faults

\* Every lease comes back, also from an upstream that never ends, from a client
\* that left before anybody listened, and from a process that died.
SlotsReturned ==
  /\ \A r \in Requests : r \in slots ~> r \notin slots
  /\ orphans > 0 ~> orphans = 0

\* Nobody queues for ever, whatever the others do.
WaitingEnds == \A r \in Requests : pc[r] = "poll" ~> pc[r] \notin Polling

=============================================================================
