---------------------------- MODULE MessageQueue ----------------------------
(***************************************************************************)
(* The queue of user messages of one Claude account.  A request whose last *)
(* message is the user's own takes the lock of the account before it is    *)
(* sent upstream, and gives it back when the answer arrives; the next one  *)
(* is sent not earlier than a delay after that.  The lock is a Redis key   *)
(* with a TTL that nobody renews; whoever waits polls it until its time is *)
(* over.  A server that starts deletes every lock it finds.                *)
(*                                                                         *)
(* Time is discrete: Tick lets every running timer run down by one.  No    *)
(* step is forced at a time, so a process may be slow and a call may take  *)
(* long.  Abstracted: back-off and jitter of the polling are any nap of at *)
(* most MaxNap; the queue is switched on; the last-completion key is       *)
(* younger than its own TTL of a minute while it matters.                  *)
(***************************************************************************)
EXTENDS Integers, FiniteSets

CONSTANTS
  Requests,   \* user-message requests that go to the account
  Ttl,        \* lockTtlMs
  Delay,      \* delayMs
  Timeout,    \* timeoutMs
  MaxNap,     \* POLL_INTERVAL_MAX_MS
  Free,       \* the lock key does not exist
  MaxFaults,  \* bound: lost Redis commands and dying processes
  MaxStarts   \* bound: servers that start

ASSUME TtlIsPositive     == Ttl \in Nat \ {0}
ASSUME DelayIsNat        == Delay \in Nat
ASSUME TimeoutIsPositive == Timeout \in Nat \ {0}
ASSUME NapIsPositive     == MaxNap \in Nat \ {0}
ASSUME FreeIsNoRequest   == Free \notin Requests
ASSUME BoundsAreNat      == MaxFaults \in Nat /\ MaxStarts \in Nat

VARIABLES
  lock,        \* user_msg_queue_lock: the request that holds it, or Free
  ttl,         \* time until the lock lapses
  pause,       \* time until the delay after the last recorded completion is over
  pc,          \* where a request is
  left,        \* time a waiting request still has
  nap,         \* time a request still sleeps
  sweep,       \* a starting server has found the lock and is about to delete it
  robbed,      \* (history) requests that lost the lock while they were in flight
  quiet,       \* (history) time since the last answer arrived, at most Delay
  unrecorded,  \* (history) since a completion was last recorded, one was not
  faults,      \* (bound)
  starts       \* (bound)

vars == <<lock, ttl, pause, pc, left, nap, sweep, robbed, quiet, unrecorded, faults, starts>>
redis == <<lock, ttl, pause>>
timers == <<left, nap>>
history == <<robbed, quiet, unrecorded>>
bounds == <<faults, starts>>

Init ==
  /\ lock = Free
  /\ ttl = 0
  /\ pause = 0
  /\ pc = [r \in Requests |-> "idle"]
  /\ left = [r \in Requests |-> 0]
  /\ nap = [r \in Requests |-> 0]
  /\ sweep = FALSE
  /\ robbed = {}
  /\ quiet = Delay
  /\ unrecorded = FALSE
  /\ faults = 0
  /\ starts = 0

Goto(r, from, to) == pc[r] = from /\ pc' = [pc EXCEPT ![r] = to]

Fault == faults < MaxFaults /\ faults' = faults + 1 /\ UNCHANGED starts

\* mutant: a timer that is over goes on
LessBelowZero(n) == n - 1

Less(n) == IF n > 0 THEN n - 1 ELSE 0

Smaller(m, n) == IF m < n THEN m ELSE n

Waiting(r) == pc[r] \in {"asking", "sleeping"}

\* Sent upstream, and the lock not given back yet.
InFlight(r) == pc[r] \in {"sending", "answered"}

-----------------------------------------------------------------------------
(***************************************************************************)
(* acquireQueueLock: ask, and sleep until it is worth asking again.        *)
(***************************************************************************)
Arrive(r) ==
  /\ Goto(r, "idle", "asking")
  /\ left' = [left EXCEPT ![r] = Timeout]
  /\ UNCHANGED <<redis, nap, sweep, history, bounds>>

\* What the script does when the key does not exist and the delay is over.
TakeLock(r) ==
  /\ lock = Free
  /\ pause = 0
  /\ lock' = r
  /\ ttl' = Ttl
  /\ UNCHANGED pause

Acquire(r) ==
  /\ Goto(r, "asking", "sending")
  /\ TakeLock(r)
  /\ UNCHANGED <<timers, sweep, history, bounds>>

\* A Redis error ends the waiting at once, whether the script has run or not.
AcquireFails(r) ==
  /\ Fault
  /\ Goto(r, "asking", "refused")
  /\ TakeLock(r) \/ UNCHANGED redis
  /\ UNCHANGED <<timers, sweep, history>>

\* The last request has just completed: sleep for what is left of the delay.
AwaitDelay(r) ==
  /\ lock = Free
  /\ pause > 0
  /\ Goto(r, "asking", "sleeping")
  /\ nap' = [nap EXCEPT ![r] = Smaller(pause, left[r])]
  /\ UNCHANGED <<redis, left, sweep, history, bounds>>

\* Somebody holds the lock: sleep for a poll interval.
AwaitLock(r) ==
  /\ lock # Free
  /\ Goto(r, "asking", "sleeping")
  /\ \E n \in 1..MaxNap : nap' = [nap EXCEPT ![r] = n]
  /\ UNCHANGED <<redis, left, sweep, history, bounds>>

\* mutant: nobody looks at the clock
WakePatiently(r) ==
  /\ nap[r] = 0
  /\ Goto(r, "sleeping", "asking")
  /\ UNCHANGED <<redis, timers, sweep, history, bounds>>

\* The condition of the loop, each time a sleep is over.
Wake(r) ==
  /\ nap[r] = 0
  /\ Goto(r, "sleeping", IF left[r] > 0 THEN "asking" ELSE "refused")
  /\ UNCHANGED <<redis, timers, sweep, history, bounds>>

-----------------------------------------------------------------------------
(***************************************************************************)
(* The upstream call, and releaseQueueLock.                                *)
(***************************************************************************)
\* The answer (its headers, for a stream) or an error arrives.
Answered(r) ==
  /\ Goto(r, "sending", "answered")
  /\ quiet' = 0
  /\ unrecorded' = (unrecorded \/ r \in robbed)
  /\ UNCHANGED <<redis, timers, sweep, robbed, bounds>>

\* mutant: DEL without a look at the holder
GiveBackUnowned(r) ==
  /\ lock' = Free
  /\ ttl' = 0
  /\ pause' = Delay
  /\ unrecorded' = FALSE

\* mutant: DEL without the time of completion
GiveBackUntimed(r) ==
  IF lock = r
  THEN /\ lock' = Free
       /\ ttl' = 0
       /\ unrecorded' = FALSE
       /\ UNCHANGED pause
  ELSE UNCHANGED <<redis, unrecorded>>

\* The script: only the holder gives the lock back and leaves the time.
GiveBack(r) ==
  IF lock = r
  THEN /\ lock' = Free
       /\ ttl' = 0
       /\ pause' = Delay
       /\ unrecorded' = FALSE
  ELSE UNCHANGED <<redis, unrecorded>>

Release(r) ==
  /\ Goto(r, "answered", "done")
  /\ GiveBack(r)
  /\ UNCHANGED <<timers, sweep, robbed, quiet, bounds>>

\* A Redis error reads as "not the owner": the release is not tried again.
ReleaseFails(r) ==
  /\ Fault
  /\ Goto(r, "answered", "done")
  /\ \/ GiveBack(r)
     \/ unrecorded' = TRUE /\ UNCHANGED redis
  /\ UNCHANGED <<timers, sweep, robbed, quiet>>

\* The process of the request dies.
Die(r) ==
  /\ Fault
  /\ Waiting(r) \/ InFlight(r)
  /\ pc' = [pc EXCEPT ![r] = "dead"]
  /\ unrecorded' = (unrecorded \/ pc[r] = "answered")
  /\ UNCHANGED <<redis, timers, sweep, robbed, quiet>>

\* The next request, with an id of its own: none of the old one's is left.
Again(r) ==
  /\ pc[r] \in {"done", "refused", "dead"}
  /\ lock # r
  /\ pc' = [pc EXCEPT ![r] = "idle"]
  /\ left' = [left EXCEPT ![r] = 0]
  /\ nap' = [nap EXCEPT ![r] = 0]
  /\ robbed' = robbed \ {r}
  /\ UNCHANGED <<redis, sweep, quiet, unrecorded, bounds>>

-----------------------------------------------------------------------------
(***************************************************************************)
(* Locks that go without their holder: the TTL, and cleanupStaleLocks.     *)
(***************************************************************************)
\* History: the holder loses the lock in this step.
RobHolder ==
  /\ robbed' = IF lock # Free /\ InFlight(lock) THEN robbed \cup {lock} ELSE robbed
  /\ unrecorded' = (unrecorded \/ (lock # Free /\ pc[lock] = "answered"))

RunDown(timer) == [r \in Requests |-> IF Waiting(r) THEN Less(timer[r]) ELSE timer[r]]

Tick ==
  /\ ttl' = Less(ttl)
  /\ pause' = Less(pause)
  /\ left' = RunDown(left)
  /\ nap' = RunDown(nap)
  /\ quiet' = Smaller(quiet + 1, Delay)
  /\ IF ttl = 1
     THEN lock' = Free /\ RobHolder
     ELSE UNCHANGED <<lock, robbed, unrecorded>>
  /\ UNCHANGED <<pc, sweep, bounds>>

\* A server is up and scans for locks; it serves requests already.
CleanupScan ==
  /\ starts < MaxStarts
  /\ starts' = starts + 1
  /\ sweep' = (lock # Free)
  /\ UNCHANGED <<redis, pc, timers, history, faults>>

\* forceReleaseUserMessageLock, whoever holds the lock by now.
CleanupDelete ==
  /\ sweep
  /\ sweep' = FALSE
  /\ lock' = Free
  /\ ttl' = 0
  /\ RobHolder
  /\ UNCHANGED <<pause, pc, timers, quiet, bounds>>

Asking(r) ==
  \/ Acquire(r) \/ AcquireFails(r) \/ AwaitDelay(r) \/ AwaitLock(r) \/ Wake(r)

Ending(r) ==
  \/ Answered(r) \/ Release(r) \/ ReleaseFails(r) \/ Die(r) \/ Again(r)

Next ==
  \/ \E r \in Requests : Arrive(r) \/ Asking(r) \/ Ending(r)
  \/ Tick
  \/ CleanupScan
  \/ CleanupDelete

Spec == Init /\ [][Next]_vars

(***************************************************************************)
(* Time passes, and a process whose promise or timer is ready goes on.     *)
(* Nothing is assumed about clients, upstream answers and failures.        *)
(***************************************************************************)
Fairness ==
  /\ WF_vars(Tick)
  /\ \A r \in Requests :
       /\ WF_vars(Acquire(r) \/ AwaitDelay(r) \/ AwaitLock(r))
       /\ WF_vars(Wake(r))
       /\ WF_vars(Release(r))

FairSpec == Spec /\ Fairness

-----------------------------------------------------------------------------
(***************************************************************************)
(* Properties.                                                             *)
(***************************************************************************)
PcValues == {"idle", "asking", "sleeping", "sending", "answered", "done", "refused", "dead"}

\* Every variable keeps its type, and a lock that exists has a TTL.
TypeOK ==
  /\ lock \in Requests \cup {Free}
  /\ ttl \in 0..Ttl
  /\ lock # Free => ttl > 0
  /\ pause \in 0..Delay
  /\ pc \in [Requests -> PcValues]
  /\ left \in [Requests -> 0..Timeout]
  /\ nap \in [Requests -> Nat]
  /\ sweep \in BOOLEAN
  /\ robbed \subseteq Requests
  /\ quiet \in 0..Delay
  /\ unrecorded \in BOOLEAN
  /\ faults \in 0..MaxFaults
  /\ starts \in 0..MaxStarts

\* Requests of the account are in flight one at a time, except those that lost
\* the lock to its TTL or to a starting server: no late release, refused
\* request, failed command or dead process lets in another one.
SerialUnlessRobbed ==
  \A r, s \in Requests : InFlight(r) /\ InFlight(s) => r = s \/ r \in robbed \/ s \in robbed

\* A request is sent at least Delay after the last answer arrived, unless the
\* completion that belongs to an answer was not recorded.
AnswersSpaced ==
  [][\A r \in Requests :
       pc[r] # "sending" /\ pc'[r] = "sending" => quiet = Delay \/ unrecorded]_vars

\* Whoever waits is sent or refused in the end, however the others fare.
WaitersEnd == \A r \in Requests : Waiting(r) ~> ~Waiting(r)

=============================================================================
