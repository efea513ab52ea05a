------------------------- MODULE MessageQueueProofs -------------------------
(***************************************************************************)
(* Theorems about MessageQueue: its types, that requests are in flight one *)
(* at a time unless they are robbed of the lock, and that they are sent a  *)
(* delay after the last answer.  The invariant has three parts: the types, *)
(* that a request in flight holds the lock or was robbed of it (Owned),    *)
(* and that the delay still to come and the time since the last answer add *)
(* up to Delay (Paced).                                                    *)
(***************************************************************************)
EXTENDS MessageQueue, TLAPS

Owned == \A r \in Requests : InFlight(r) => lock = r \/ r \in robbed

\* Unless a completion was missed: so much of the delay is still to come as has
\* not passed since the last answer, or the answer's release is still to come.
Paced ==
  \/ unrecorded
  \/ pause + quiet >= Delay
  \/ lock # Free /\ pc[lock] = "answered"

IInv == TypeOK /\ Owned /\ Paced

-----------------------------------------------------------------------------
(***************************************************************************)
(* The timers.                                                             *)
(***************************************************************************)
LEMMA LessTyped ==
  ASSUME NEW m \in Nat, NEW n \in 0..m
  PROVE  Less(n) \in 0..m
BY DEF Less

LEMMA SmallerTyped ==
  ASSUME NEW m \in Nat, NEW n \in Nat
  PROVE  Smaller(m, n) \in Nat /\ Smaller(m, n) <= n /\ Smaller(m, n) <= m
BY DEF Smaller

\* A tick takes from the one what it adds to the other, or the delay has passed.
LEMMA TickKeepsPace ==
  ASSUME NEW p \in 0..Delay, NEW q \in 0..Delay, p + q >= Delay
  PROVE  Less(p) + Smaller(q + 1, Delay) >= Delay
BY DelayIsNat DEF Less, Smaller

LEMMA RunDownTyped ==
  ASSUME NEW m \in Nat, NEW timer \in [Requests -> 0..m]
  PROVE  RunDown(timer) \in [Requests -> 0..m]
BY LessTyped DEF RunDown

LEMMA RunDownNat ==
  ASSUME NEW timer \in [Requests -> Nat]
  PROVE  RunDown(timer) \in [Requests -> Nat]
BY DEF RunDown, Less

-----------------------------------------------------------------------------
(***************************************************************************)
(* The types.                                                              *)
(***************************************************************************)
LEMMA InitTypeOK == Init => TypeOK
<1> SUFFICES ASSUME Init PROVE TypeOK
  OBVIOUS
<1>1. /\ 0 \in 0..Ttl /\ 0 \in 0..Delay /\ Delay \in 0..Delay /\ 0 \in 0..Timeout
      /\ 0 \in 0..MaxFaults /\ 0 \in 0..MaxStarts
  BY TtlIsPositive, DelayIsNat, TimeoutIsPositive, BoundsAreNat
<1>2. /\ pc \in [Requests -> PcValues]
      /\ left \in [Requests -> 0..Timeout]
      /\ nap \in [Requests -> Nat]
  BY <1>1 DEF Init, PcValues
<1> QED BY <1>1, <1>2 DEF Init, TypeOK

\* The script of acquire, and that of release.
LEMMA TakeLockTyped ==
  ASSUME TypeOK, NEW r \in Requests, TakeLock(r)
  PROVE  /\ lock' \in Requests \cup {Free}
         /\ ttl' \in 0..Ttl
         /\ lock' # Free => ttl' > 0
         /\ pause' \in 0..Delay
BY TtlIsPositive DEF TypeOK, TakeLock

LEMMA GiveBackTyped ==
  ASSUME TypeOK, NEW r \in Requests, GiveBack(r)
  PROVE  /\ lock' \in Requests \cup {Free}
         /\ ttl' \in 0..Ttl
         /\ lock' # Free => ttl' > 0
         /\ pause' \in 0..Delay
         /\ unrecorded' \in BOOLEAN
<1>1. CASE lock = r
  <2>1. 0 \in 0..Ttl /\ Delay \in 0..Delay
    BY TtlIsPositive, DelayIsNat
  <2> QED BY <1>1, <2>1 DEF GiveBack
<1>2. CASE lock # r
  BY <1>2 DEF TypeOK, GiveBack, redis
<1> QED BY <1>1, <1>2

LEMMA TickTyped ==
  ASSUME TypeOK, Tick
  PROVE  TypeOK'
<1>1. ttl' \in 0..Ttl
  BY TtlIsPositive, LessTyped DEF TypeOK, Tick
<1>2. pause' \in 0..Delay
  BY DelayIsNat, LessTyped DEF TypeOK, Tick
<1>3. left' \in [Requests -> 0..Timeout]
  BY TimeoutIsPositive, RunDownTyped DEF TypeOK, Tick
<1>4. nap' \in [Requests -> Nat]
  BY RunDownNat DEF TypeOK, Tick
<1>5. quiet' \in 0..Delay
  <2>1. quiet + 1 \in Nat
    BY DelayIsNat DEF TypeOK
  <2> QED BY <2>1, DelayIsNat, SmallerTyped DEF Tick
<1>6. /\ lock' \in Requests \cup {Free}
      /\ robbed' \subseteq Requests
      /\ unrecorded' \in BOOLEAN
  BY DEF TypeOK, Tick, RobHolder
<1>7. lock' # Free => ttl' > 0
  <2>1. CASE ttl = 1
    BY <2>1 DEF Tick
  <2>2. CASE ttl # 1
    <3>1. lock' = lock /\ ttl' = Less(ttl)
      BY <2>2 DEF Tick
    <3>2. lock # Free => ttl > 0
      BY DEF TypeOK
    <3>3. ttl \in Nat
      BY TtlIsPositive DEF TypeOK
    <3>4. ttl > 0 => Less(ttl) > 0
      BY <2>2, <3>3 DEF Less
    <3> QED BY <3>1, <3>2, <3>4
  <2> QED BY <2>1, <2>2
<1>8. /\ pc' \in [Requests -> PcValues] /\ sweep' \in BOOLEAN
      /\ faults' \in 0..MaxFaults /\ starts' \in 0..MaxStarts
  BY DEF TypeOK, Tick, bounds
<1> QED BY <1>1, <1>2, <1>3, <1>4, <1>5, <1>6, <1>7, <1>8 DEF TypeOK

LEMMA FaultTyped ==
  ASSUME TypeOK, Fault
  PROVE  faults' \in 0..MaxFaults /\ starts' \in 0..MaxStarts
BY BoundsAreNat DEF TypeOK, Fault

LEMMA NextTypeOK ==
  ASSUME TypeOK, [Next]_vars
  PROVE  TypeOK'
<1> USE DEF PcValues, redis, timers, history, bounds
<1>1. CASE UNCHANGED vars
  BY <1>1 DEF TypeOK, vars
<1>2. ASSUME NEW r \in Requests, Arrive(r)
      PROVE  TypeOK'
  BY <1>2, TimeoutIsPositive DEF TypeOK, Arrive, Goto
<1>3. ASSUME NEW r \in Requests, Asking(r)
      PROVE  TypeOK'
  <2>1. CASE Acquire(r)
    BY <2>1, TakeLockTyped DEF TypeOK, Acquire, Goto
  <2>2. CASE AcquireFails(r)
    <3>1. faults' \in 0..MaxFaults /\ starts' \in 0..MaxStarts
      BY <2>2, FaultTyped DEF AcquireFails
    <3>2. CASE TakeLock(r)
      BY <2>2, <3>1, <3>2, TakeLockTyped DEF TypeOK, AcquireFails, Goto
    <3>3. CASE UNCHANGED redis
      BY <2>2, <3>1, <3>3 DEF TypeOK, AcquireFails, Goto
    <3> QED BY <2>2, <3>2, <3>3 DEF AcquireFails
  <2>3. CASE AwaitDelay(r)
    <3>1. pause \in Nat /\ left[r] \in Nat
      BY DelayIsNat, TimeoutIsPositive DEF TypeOK
    <3>2. Smaller(pause, left[r]) \in Nat
      BY <3>1, SmallerTyped
    <3>3. nap' \in [Requests -> Nat]
      BY <2>3, <3>2 DEF TypeOK, AwaitDelay
    <3> QED BY <2>3, <3>3 DEF TypeOK, AwaitDelay, Goto
  <2>4. CASE AwaitLock(r)
    <3>1. PICK n \in 1..MaxNap : nap' = [nap EXCEPT ![r] = n]
      BY <2>4 DEF AwaitLock
    <3>2. n \in Nat
      BY NapIsPositive
    <3>3. nap' \in [Requests -> Nat]
      BY <3>1, <3>2 DEF TypeOK
    <3> QED BY <2>4, <3>3 DEF TypeOK, AwaitLock, Goto
  <2>5. CASE Wake(r)
    BY <2>5 DEF TypeOK, Wake, Goto
  <2> QED BY <1>3, <2>1, <2>2, <2>3, <2>4, <2>5 DEF Asking
<1>4. ASSUME NEW r \in Requests, Ending(r)
      PROVE  TypeOK'
  <2>1. CASE Answered(r)
    BY <2>1, DelayIsNat DEF TypeOK, Answered, Goto
  <2>2. CASE Release(r)
    BY <2>2, GiveBackTyped DEF TypeOK, Release, Goto
  <2>3. CASE ReleaseFails(r)
    <3>1. faults' \in 0..MaxFaults /\ starts' \in 0..MaxStarts
      BY <2>3, FaultTyped DEF ReleaseFails
    <3>2. CASE GiveBack(r)
      BY <2>3, <3>1, <3>2, GiveBackTyped DEF TypeOK, ReleaseFails, Goto
    <3>3. CASE unrecorded' = TRUE /\ UNCHANGED redis
      BY <2>3, <3>1, <3>3 DEF TypeOK, ReleaseFails, Goto
    <3> QED BY <2>3, <3>2, <3>3 DEF ReleaseFails
  <2>4. CASE Die(r)
    <3>1. faults' \in 0..MaxFaults /\ starts' \in 0..MaxStarts
      BY <2>4, FaultTyped DEF Die
    <3> QED BY <2>4, <3>1 DEF TypeOK, Die
  <2>5. CASE Again(r)
    BY <2>5, TimeoutIsPositive DEF TypeOK, Again
  <2> QED BY <1>4, <2>1, <2>2, <2>3, <2>4, <2>5 DEF Ending
<1>5. CASE Tick
  BY <1>5, TickTyped
<1>6. CASE CleanupScan
  <2>1. starts + 1 \in 0..MaxStarts
    BY <1>6, BoundsAreNat DEF TypeOK, CleanupScan
  <2>2. starts' \in 0..MaxStarts /\ sweep' \in BOOLEAN
    BY <1>6, <2>1 DEF CleanupScan
  <2> QED BY <1>6, <2>2 DEF TypeOK, CleanupScan
<1>7. CASE CleanupDelete
  <2>1. 0 \in 0..Ttl
    BY TtlIsPositive
  <2>2. lock' = Free /\ ttl' = 0
    BY <1>7 DEF CleanupDelete
  <2>3. robbed' \subseteq Requests /\ unrecorded' \in BOOLEAN /\ sweep' \in BOOLEAN
    BY <1>7 DEF TypeOK, CleanupDelete, RobHolder
  <2> QED BY <1>7, <2>1, <2>2, <2>3 DEF TypeOK, CleanupDelete
<1> QED BY <1>1, <1>2, <1>3, <1>4, <1>5, <1>6, <1>7 DEF Next

-----------------------------------------------------------------------------
(***************************************************************************)
(* Who is in flight holds the lock or was robbed of it.                    *)
(***************************************************************************)
LEMMA RobHolderOwns ==
  ASSUME TypeOK, Owned, RobHolder, pc' = pc
  PROVE  Owned'
<1> SUFFICES ASSUME NEW r \in Requests, InFlight(r)', ~(r \in robbed')
             PROVE  FALSE
  BY DEF Owned
<1>1. InFlight(r)
  BY DEF InFlight
<1>2. r \in robbed \/ lock = r
  BY <1>1 DEF Owned
<1>3. lock = r => lock # Free
  BY FreeIsNoRequest
<1> QED BY <1>1, <1>2, <1>3 DEF RobHolder

\* Handing the lock back can only take it from the one that hands it back.
LEMMA GiveBackOwns ==
  ASSUME TypeOK, Owned, NEW r \in Requests, Goto(r, "answered", "done"),
         GiveBack(r) \/ UNCHANGED redis, robbed' = robbed
  PROVE  Owned'
<1> SUFFICES ASSUME NEW s \in Requests, InFlight(s)'
             PROVE  lock' = s \/ s \in robbed'
  BY DEF Owned
<1>1. s # r /\ InFlight(s)
  BY DEF TypeOK, Goto, InFlight
<1>2. lock = s \/ s \in robbed
  BY <1>1 DEF Owned
<1>3. lock = s => lock' = s
  BY <1>1 DEF GiveBack, redis
<1> QED BY <1>2, <1>3

LEMMA NextOwned ==
  ASSUME TypeOK, Owned, [Next]_vars
  PROVE  Owned'
<1> USE DEF redis, timers, history, bounds
<1>1. CASE UNCHANGED vars
  BY <1>1 DEF Owned, InFlight, vars
<1>2. ASSUME NEW r \in Requests, Arrive(r)
      PROVE  Owned'
  BY <1>2 DEF TypeOK, Owned, InFlight, Arrive, Goto
<1>3. ASSUME NEW r \in Requests, Asking(r)
      PROVE  Owned'
  <2>1. CASE Acquire(r)
    BY <2>1, FreeIsNoRequest DEF TypeOK, Owned, InFlight, Acquire, TakeLock, Goto
  <2>2. CASE AcquireFails(r)
    BY <2>2, FreeIsNoRequest DEF TypeOK, Owned, InFlight, AcquireFails, TakeLock, Goto
  <2>3. CASE AwaitDelay(r) \/ AwaitLock(r) \/ Wake(r)
    BY <2>3 DEF TypeOK, Owned, InFlight, AwaitDelay, AwaitLock, Wake, Goto
  <2> QED BY <1>3, <2>1, <2>2, <2>3 DEF Asking
<1>4. ASSUME NEW r \in Requests, Ending(r)
      PROVE  Owned'
  <2>1. CASE Answered(r)
    BY <2>1 DEF TypeOK, Owned, InFlight, Answered, Goto
  <2>2. CASE Release(r)
    BY <2>2, GiveBackOwns DEF Release
  <2>3. CASE ReleaseFails(r)
    BY <2>3, GiveBackOwns DEF ReleaseFails
  <2>4. CASE Die(r)
    BY <2>4 DEF TypeOK, Owned, InFlight, Die
  <2>5. CASE Again(r)
    BY <2>5 DEF TypeOK, Owned, InFlight, Again
  <2> QED BY <1>4, <2>1, <2>2, <2>3, <2>4, <2>5 DEF Ending
<1>5. CASE Tick
  <2>1. CASE ttl = 1
    BY <1>5, <2>1, RobHolderOwns DEF Tick
  <2>2. CASE ttl # 1
    BY <1>5, <2>2 DEF Owned, InFlight, Tick
  <2> QED BY <2>1, <2>2
<1>6. CASE CleanupScan
  BY <1>6 DEF Owned, InFlight, CleanupScan
<1>7. CASE CleanupDelete
  BY <1>7, RobHolderOwns DEF CleanupDelete
<1> QED BY <1>1, <1>2, <1>3, <1>4, <1>5, <1>6, <1>7 DEF Next

-----------------------------------------------------------------------------
(***************************************************************************)
(* The delay still to come.                                                *)
(***************************************************************************)
\* While the lock is free only the first two ways of being paced are left.
LEMMA PacedWhenFree ==
  ASSUME Paced, lock = Free
  PROVE  unrecorded \/ pause + quiet >= Delay
BY DEF Paced

LEMMA RobHolderPaced ==
  ASSUME TypeOK, Paced, RobHolder
  PROVE  unrecorded' \/ pause + quiet >= Delay
BY DEF Paced, RobHolder

LEMMA GiveBackPaced ==
  ASSUME TypeOK, Paced, NEW r \in Requests, Goto(r, "answered", "done"), GiveBack(r),
         quiet' = quiet
  PROVE  Paced'
<1>1. CASE lock = r
  <2>1. pause' = Delay /\ quiet' \in Nat
    BY <1>1, DelayIsNat DEF TypeOK, GiveBack
  <2>2. \A q \in Nat : Delay + q >= Delay
    BY DelayIsNat
  <2>3. pause' + quiet' >= Delay
    BY <2>1, <2>2
  <2> QED BY <2>3 DEF Paced
<1>2. CASE lock # r
  BY <1>2 DEF TypeOK, Paced, GiveBack, Goto, redis
<1> QED BY <1>1, <1>2

LEMMA TickPaced ==
  ASSUME TypeOK, Paced, Tick
  PROVE  Paced'
<1>1. pause' = Less(pause) /\ quiet' = Smaller(quiet + 1, Delay)
  BY DEF Tick
<1>2. pause + quiet >= Delay => pause' + quiet' >= Delay
  BY <1>1, TickKeepsPace DEF TypeOK
<1>3. CASE ttl = 1
  <2>1. unrecorded' \/ pause + quiet >= Delay
    BY <1>3, RobHolderPaced DEF Tick
  <2> QED BY <1>2, <2>1 DEF Paced
<1>4. CASE ttl # 1
  <2>1. UNCHANGED <<lock, unrecorded, pc>>
    BY <1>4 DEF Tick
  <2> QED BY <1>2, <2>1 DEF Paced
<1> QED BY <1>3, <1>4

LEMMA NextPaced ==
  ASSUME TypeOK, Owned, Paced, [Next]_vars
  PROVE  Paced'
<1> USE DEF redis, timers, history, bounds
<1>1. CASE UNCHANGED vars
  BY <1>1 DEF Paced, vars
<1>2. ASSUME NEW r \in Requests, Arrive(r)
      PROVE  Paced'
  BY <1>2 DEF TypeOK, Paced, Arrive, Goto
<1>3. ASSUME NEW r \in Requests, Asking(r)
      PROVE  Paced'
  <2>1. CASE Acquire(r)
    BY <2>1, PacedWhenFree DEF Paced, Acquire, TakeLock
  <2>2. CASE AcquireFails(r)
    <3>1. CASE TakeLock(r)
      BY <2>2, <3>1, PacedWhenFree DEF Paced, AcquireFails, TakeLock
    <3>2. CASE UNCHANGED redis
      BY <2>2, <3>2 DEF TypeOK, Paced, AcquireFails, Goto
    <3> QED BY <2>2, <3>1, <3>2 DEF AcquireFails
  <2>3. CASE AwaitDelay(r) \/ AwaitLock(r) \/ Wake(r)
    BY <2>3 DEF TypeOK, Paced, AwaitDelay, AwaitLock, Wake, Goto
  <2> QED BY <1>3, <2>1, <2>2, <2>3 DEF Asking
<1>4. ASSUME NEW r \in Requests, Ending(r)
      PROVE  Paced'
  <2>1. CASE Answered(r)
    <3>1. r \in robbed \/ lock = r
      BY <2>1 DEF Owned, InFlight, Answered, Goto
    <3>2. lock = r => lock' # Free /\ pc'[lock'] = "answered"
      BY <2>1, FreeIsNoRequest DEF TypeOK, Answered, Goto
    <3>3. r \in robbed => unrecorded'
      BY <2>1 DEF Answered
    <3> QED BY <3>1, <3>2, <3>3 DEF Paced
  <2>2. CASE Release(r)
    BY <2>2, GiveBackPaced DEF Release
  <2>3. CASE ReleaseFails(r)
    BY <2>3, GiveBackPaced DEF ReleaseFails, Paced
  <2>4. CASE Die(r)
    BY <2>4 DEF TypeOK, Paced, Die
  <2>5. CASE Again(r)
    BY <2>5 DEF TypeOK, Paced, Again
  <2> QED BY <1>4, <2>1, <2>2, <2>3, <2>4, <2>5 DEF Ending
<1>5. CASE Tick
  BY <1>5, TickPaced
<1>6. CASE CleanupScan
  BY <1>6 DEF Paced, CleanupScan
<1>7. CASE CleanupDelete
  <2>1. unrecorded' \/ pause + quiet >= Delay
    BY <1>7, RobHolderPaced DEF CleanupDelete
  <2> QED BY <1>7, <2>1 DEF Paced, CleanupDelete
<1> QED BY <1>1, <1>2, <1>3, <1>4, <1>5, <1>6, <1>7 DEF Next

-----------------------------------------------------------------------------
(***************************************************************************)
(* The theorems.                                                           *)
(***************************************************************************)
LEMMA InitIInv == Init => IInv
<1> SUFFICES ASSUME Init PROVE IInv
  OBVIOUS
<1>1. Owned
  BY DEF Init, Owned, InFlight
<1>2. Paced
  BY DelayIsNat DEF Init, Paced
<1> QED BY <1>1, <1>2, InitTypeOK DEF IInv

LEMMA NextIInv == IInv /\ [Next]_vars => IInv'
BY NextTypeOK, NextOwned, NextPaced DEF IInv

LEMMA AlwaysIInv == Spec => []IInv
BY InitIInv, NextIInv, PTL DEF Spec

\* Every variable keeps its type, and a lock that exists has a TTL.
THEOREM TypeCorrect == Spec => []TypeOK
BY AlwaysIInv, PTL DEF IInv

\* Two requests are in flight only if one of them was robbed of the lock.
THEOREM SerialAlways == Spec => []SerialUnlessRobbed
<1>1. IInv => SerialUnlessRobbed
  BY DEF IInv, Owned, SerialUnlessRobbed
<1> QED BY <1>1, AlwaysIInv, PTL

\* A request is sent only when the delay after the last answer has passed, or a
\* completion was not recorded.
THEOREM SpacedAlways == Spec => AnswersSpaced
<1>1. ASSUME IInv, [Next]_vars, NEW r \in Requests, pc[r] # "sending", pc'[r] = "sending"
      PROVE  quiet = Delay \/ unrecorded
  <2>1. \E s \in Requests : Acquire(s)
    <3>1. ~(UNCHANGED vars) /\ ~Tick /\ ~CleanupScan /\ ~CleanupDelete
      BY <1>1 DEF vars, Tick, CleanupScan, CleanupDelete
    <3>2. PICK s \in Requests : Arrive(s) \/ Asking(s) \/ Ending(s)
      BY <1>1, <3>1 DEF Next
    <3>3. ~Arrive(s) /\ ~Ending(s)
      BY <1>1 DEF IInv, TypeOK, Arrive, Ending, Answered, Release, ReleaseFails, Die,
                  Again, Goto
    <3>4. ~AcquireFails(s) /\ ~AwaitDelay(s) /\ ~AwaitLock(s) /\ ~Wake(s)
      BY <1>1 DEF IInv, TypeOK, AcquireFails, AwaitDelay, AwaitLock, Wake, Goto
    <3> QED BY <3>2, <3>3, <3>4 DEF Asking
  <2>2. lock = Free /\ pause = 0
    BY <2>1 DEF Acquire, TakeLock
  <2>3. unrecorded \/ quiet >= Delay
    BY <1>1, <2>2, PacedWhenFree DEF IInv, TypeOK
  <2>4. quiet \in 0..Delay
    BY <1>1 DEF IInv, TypeOK
  <2> QED BY <2>3, <2>4, DelayIsNat
<1>2. IInv /\ [Next]_vars =>
        [\A r \in Requests :
           pc[r] # "sending" /\ pc'[r] = "sending" => quiet = Delay \/ unrecorded]_vars
  BY <1>1
<1> QED BY <1>2, AlwaysIInv, PTL DEF Spec, AnswersSpaced

-----------------------------------------------------------------------------
(***************************************************************************)
(* Who is behind the lock, and how long a request sleeps.                  *)
(***************************************************************************)
LockHasOwner == faults = 0 /\ lock # Free => InFlight(lock)

LEMMA NextLockHasOwner ==
  ASSUME TypeOK, LockHasOwner, [Next]_vars
  PROVE  LockHasOwner'
<1> USE FreeIsNoRequest DEF TypeOK, LockHasOwner, InFlight, PcValues, redis, timers,
      history, bounds
<1>1. ASSUME Fault PROVE faults' # 0
  BY <1>1, BoundsAreNat DEF Fault
<1>2. CASE UNCHANGED vars
  BY <1>2 DEF vars
<1>3. ASSUME NEW r \in Requests, Arrive(r) PROVE LockHasOwner'
  BY <1>3 DEF Arrive, Goto
<1>4. ASSUME NEW r \in Requests, Asking(r) PROVE LockHasOwner'
  <2>1. CASE Acquire(r)
    BY <2>1 DEF Acquire, TakeLock, Goto
  <2>2. CASE AcquireFails(r)
    BY <1>1, <2>2 DEF AcquireFails
  <2>3. CASE AwaitDelay(r) \/ AwaitLock(r) \/ Wake(r)
    BY <2>3 DEF AwaitDelay, AwaitLock, Wake, Goto
  <2> QED BY <1>4, <2>1, <2>2, <2>3 DEF Asking
<1>5. ASSUME NEW r \in Requests, Ending(r) PROVE LockHasOwner'
  <2>1. CASE Answered(r)
    BY <2>1 DEF Answered, Goto
  <2>2. CASE Release(r)
    BY <2>2 DEF Release, GiveBack, Goto
  <2>3. CASE ReleaseFails(r)
    BY <1>1, <2>3 DEF ReleaseFails
  <2>4. CASE Die(r)
    BY <1>1, <2>4 DEF Die
  <2>5. CASE Again(r)
    BY <2>5 DEF Again
  <2> QED BY <1>5, <2>1, <2>2, <2>3, <2>4, <2>5 DEF Ending
<1>6. CASE Tick
  BY <1>6 DEF Tick
<1>7. CASE CleanupScan
  BY <1>7 DEF CleanupScan
<1>8. CASE CleanupDelete
  BY <1>8 DEF CleanupDelete
<1> QED BY <1>2, <1>3, <1>4, <1>5, <1>6, <1>7, <1>8 DEF Next

\* Unless a command failed or a process died, the lock is that of a request in flight:
\* no answer, late release, refusal or starting server leaves a lock that others would
\* have to wait out.
THEOREM LocksOwned == Spec => []LockHasOwner
<1>1. Init => LockHasOwner
  BY DEF Init, LockHasOwner
<1>2. TypeOK /\ LockHasOwner /\ [Next]_vars => LockHasOwner'
  BY NextLockHasOwner
<1> QED BY <1>1, <1>2, TypeCorrect, PTL DEF Spec

\* A request sleeps no longer than it may still wait, or a poll interval.
SleepsWithin(l, n) == n <= l \/ n <= MaxNap

OversleepsByOneNap == \A r \in Requests : Waiting(r) => SleepsWithin(left[r], nap[r])

\* A new request has not slept.
IdleRested == \A r \in Requests : pc[r] = "idle" => nap[r] = 0

LEMMA LessSleeps ==
  ASSUME NEW l \in Nat, NEW n \in Nat, SleepsWithin(l, n)
  PROVE  SleepsWithin(Less(l), Less(n))
BY NapIsPositive DEF SleepsWithin, Less

LEMMA NextOversleeps ==
  ASSUME TypeOK, OversleepsByOneNap, IdleRested, [Next]_vars
  PROVE  OversleepsByOneNap'
<1>1. /\ pc \in [Requests -> PcValues]
      /\ nap \in [Requests -> Nat]
      /\ left \in [Requests -> 0..Timeout]
      /\ \A r \in Requests : left[r] \in Nat
      /\ pause \in Nat
  BY TimeoutIsPositive, DelayIsNat DEF TypeOK
<1> USE DEF OversleepsByOneNap, Waiting, PcValues, redis, timers, history, bounds
<1>2. ASSUME left' = left, nap' = nap, \A r \in Requests : Waiting(r)' => Waiting(r)
      PROVE  OversleepsByOneNap'
  BY <1>2
<1>3. ASSUME NEW r \in Requests, Arrive(r) PROVE OversleepsByOneNap'
  <2>1. nap[r] \in Nat /\ Timeout \in Nat
    BY <1>1, TimeoutIsPositive
  <2>2. ASSUME NEW s \in Requests, Waiting(s)' PROVE SleepsWithin(left'[s], nap'[s])
    <3>1. CASE s = r
      BY <1>1, <1>3, <2>1, <3>1 DEF Arrive, Goto, SleepsWithin, IdleRested
    <3>2. CASE s # r
      BY <1>1, <1>3, <2>2, <3>2 DEF Arrive, Goto
    <3> QED BY <3>1, <3>2
  <2> QED BY <2>2
<1>4. ASSUME NEW r \in Requests, Asking(r) PROVE OversleepsByOneNap'
  <2>1. CASE Acquire(r) \/ AcquireFails(r) \/ Wake(r)
    BY <1>1, <1>2, <2>1 DEF Acquire, AcquireFails, Wake, Goto
  <2>2. CASE AwaitDelay(r)
    <3>1. Smaller(pause, left[r]) <= left[r]
      BY <1>1, SmallerTyped
    <3> QED BY <1>1, <2>2, <3>1 DEF AwaitDelay, Goto, SleepsWithin
  <2>3. CASE AwaitLock(r)
    BY <1>1, <2>3, NapIsPositive DEF AwaitLock, Goto, SleepsWithin
  <2> QED BY <1>4, <2>1, <2>2, <2>3 DEF Asking
<1>5. ASSUME NEW r \in Requests, Ending(r) PROVE OversleepsByOneNap'
  <2>1. CASE Answered(r) \/ Release(r) \/ ReleaseFails(r) \/ Die(r)
    BY <1>1, <1>2, <2>1 DEF Answered, Release, ReleaseFails, Die, Goto
  <2>2. CASE Again(r)
    BY <1>1, <2>2 DEF Again
  <2> QED BY <1>5, <2>1, <2>2 DEF Ending
<1>6. CASE Tick
  BY <1>1, <1>6, LessSleeps DEF Tick, RunDown
<1>7. CASE CleanupScan \/ CleanupDelete \/ UNCHANGED vars
  BY <1>2, <1>7 DEF CleanupScan, CleanupDelete, vars
<1> QED BY <1>3, <1>4, <1>5, <1>6, <1>7 DEF Next

LEMMA NextIdleRested ==
  ASSUME TypeOK, IdleRested, [Next]_vars
  PROVE  IdleRested'
<1> USE DEF TypeOK, PcValues, IdleRested, redis, timers, history, bounds
<1>1. ASSUME NEW r \in Requests, Arrive(r) \/ Asking(r) PROVE IdleRested'
  BY <1>1 DEF Arrive, Asking, Acquire, AcquireFails, AwaitDelay, AwaitLock, Wake, Goto
<1>2. ASSUME NEW r \in Requests, Ending(r) PROVE IdleRested'
  BY <1>2 DEF Ending, Answered, Release, ReleaseFails, Die, Again, Goto
<1>3. CASE Tick
  BY <1>3 DEF Tick, RunDown, Waiting
<1>4. CASE CleanupScan \/ CleanupDelete \/ UNCHANGED vars
  BY <1>4 DEF CleanupScan, CleanupDelete, vars
<1> QED BY <1>1, <1>2, <1>3, <1>4 DEF Next

\* When the time of a waiting request is over it has at most one poll interval of sleep
\* before it: a sleep for the delay is cut to the time left, a sleep for the lock is not.
THEOREM OversleepsOnce == Spec => []OversleepsByOneNap
<1>1. Init => OversleepsByOneNap /\ IdleRested
  BY DEF Init, OversleepsByOneNap, Waiting, IdleRested
<1>2. TypeOK /\ OversleepsByOneNap /\ IdleRested /\ [Next]_vars
        => (OversleepsByOneNap /\ IdleRested)'
  BY NextOversleeps, NextIdleRested
<1> QED BY <1>1, <1>2, TypeCorrect, PTL DEF Spec

=============================================================================
