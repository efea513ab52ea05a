------------------------ MODULE ConcurrencySlotProofs ------------------------
(***************************************************************************)
(* Proofs about ConcurrencySlot, for any number of requests and turns, any *)
(* limits and any number of faults and clears.                             *)
(***************************************************************************)
EXTENDS ConcurrencySlot, FiniteSetTheorems, TLAPS

-----------------------------------------------------------------------------
(* Type correctness *)

\* A request that leaves keeps the types of the leases and of what is known
\* of the requests, whatever entries it leaves behind.
LEMMA ExitTypes ==
  ASSUME TypeOK, NEW r \in Requests, NEW entries \in SUBSET Requests,
         entries \subseteq slots \cup {r}, Exit(r, entries)
  PROVE  /\ slots' \subseteq Requests /\ orphans' \in Nat /\ lost' \subseteq Requests
         /\ pc' \in [Requests -> Steps] /\ closed' \in [Requests -> BOOLEAN]
         /\ refreshes' \in [Requests -> 0..MaxRefresh]
         /\ fails' \in [Requests -> 0..(MaxRedisFails - 1)]
         /\ \A s \in Requests : pc'[s] = "idle" => s \notin slots'
  BY SlotConstants DEF TypeOK, Exit, Steps

\* So does a request that goes on.
LEMMA GotoTypes ==
  ASSUME TypeOK, NEW r \in Requests, NEW step \in Steps, step # "idle", Goto(r, step),
         slots' \subseteq slots \cup {r}
  PROVE  /\ slots' \subseteq Requests
         /\ pc' \in [Requests -> Steps] /\ closed' \in [Requests -> BOOLEAN]
         /\ refreshes' \in [Requests -> 0..MaxRefresh]
         /\ fails' \in [Requests -> 0..(MaxRedisFails - 1)]
         /\ lost' \subseteq Requests
         /\ \A s \in Requests : pc'[s] = "idle" => s \notin slots'
  BY DEF TypeOK, Goto

\* A command that fails is counted, one that succeeds is not.
LEMMA FaultTypes ==
  ASSUME TypeOK, NEW ok \in BOOLEAN, Answered(ok) \/ Fault
  PROVE  faults' \in 0..MaxFaults /\ faults' >= faults
  BY SlotConstants DEF TypeOK, Answered, Fault

\* The counter of the script queue.decr never goes below zero.
LEMMA DecrementType == ASSUME NEW n \in Nat PROVE Decrement(n) \in Nat
  BY DEF Decrement

\* Nothing under way has the right types.
LEMMA InitTypeOK == Init => TypeOK
  BY SlotConstants DEF Init, TypeOK, Steps, Counted, Renewed, Polling

\* The steps of a handler keep the types.
LEMMA ContinueTypeOK ==
  ASSUME TypeOK, NEW r \in Requests, NEW ok \in BOOLEAN, Continue(r, ok)
  PROVE  TypeOK'
<1>1. CASE Acquire(r)
  <2>1. PICK step \in {"over", "release", "serving"} : Goto(r, step)
    BY <1>1 DEF Acquire
  <2>2. /\ slots' = slots \cup {r}
        /\ UNCHANGED <<orphans, queue, sweep, faults, clears>>
    BY <1>1 DEF Acquire
  <2> QED BY <2>1, <2>2, GotoTypes DEF TypeOK, Steps, Renewed
<1>2. CASE Over(r, ok)
  <2>1. PICK entries \in SUBSET Requests :
          /\ entries \subseteq slots
          /\ \/ Exit(r, entries)
             \/ slots' = entries /\ UNCHANGED orphans /\ Goto(r, "check")
    BY <1>2 DEF Over, GiveBack, Outcome, TypeOK
  <2>2. faults' \in 0..MaxFaults /\ UNCHANGED <<queue, sweep, clears>>
    BY <1>2, FaultTypes DEF Over, GiveBack
  <2>3. CASE Exit(r, entries) BY <2>1, <2>2, <2>3, ExitTypes DEF TypeOK
  <2>4. CASE slots' = entries /\ UNCHANGED orphans /\ Goto(r, "check")
    BY <2>1, <2>2, <2>4, GotoTypes DEF TypeOK, Steps
  <2> QED BY <2>1, <2>3, <2>4
<1>3. CASE Refuse(r)
  BY <1>3, ExitTypes DEF Refuse, TypeOK
<1>4. CASE Enqueue(r)
  BY <1>4, GotoTypes DEF Enqueue, TypeOK, Steps, leaseVars
<1>5. CASE QueueIncr(r)
  <2>1. PICK step \in {"queueFull", "poll"} : Goto(r, step) BY <1>5 DEF QueueIncr
  <2> QED BY <1>5, <2>1, GotoTypes DEF QueueIncr, TypeOK, Steps, Counted, Polling, leaseVars
<1>6. CASE QueueFull(r, ok)
  <2>1. queue' \in Nat /\ faults' \in 0..MaxFaults /\ UNCHANGED <<sweep, clears>>
    BY <1>6, FaultTypes, DecrementType DEF QueueFull, TypeOK, Outcome
  <2>2. CASE Exit(r, slots) BY <2>1, <2>2, ExitTypes DEF TypeOK
  <2>3. CASE Goto(r, "queueCleanup") /\ UNCHANGED leaseVars
    BY <2>1, <2>3, GotoTypes DEF TypeOK, Steps, Counted, leaseVars
  <2> QED BY <1>6, <2>2, <2>3 DEF QueueFull
<1>7. CASE QueueCleanup(r, ok)
  <2>1. queue' \in Nat /\ faults' \in 0..MaxFaults /\ UNCHANGED <<sweep, clears>>
    BY <1>7, FaultTypes, DecrementType DEF QueueCleanup, TypeOK, Outcome
  <2> QED BY <1>7, <2>1, ExitTypes DEF QueueCleanup, TypeOK
<1>8. CASE Poll(r)
  BY <1>8, SlotConstants DEF Poll, TypeOK, Steps, Counted, Polling
<1>9. CASE PollOver(r, ok)
  <2>1. slots' \subseteq slots BY <1>9 DEF PollOver, Outcome
  <2>2. faults' \in 0..MaxFaults BY <1>9, FaultTypes DEF PollOver
  <2> QED BY <1>9, <2>1, <2>2, GotoTypes DEF PollOver, TypeOK, Steps, Counted, Polling
<1>10. CASE Leave(r, ok)
  <2>1. queue' \in Nat /\ faults' \in 0..MaxFaults /\ UNCHANGED <<sweep, clears>>
    BY <1>10, FaultTypes, DecrementType DEF Leave, TypeOK, Outcome
  <2>2. CASE Exit(r, slots) BY <2>1, <2>2, ExitTypes DEF TypeOK
  <2>3. ASSUME NEW step \in {"release", "serving"}, Goto(r, step), UNCHANGED leaseVars
        PROVE  TypeOK'
    BY <2>1, <2>3, GotoTypes DEF TypeOK, Steps, Renewed, leaseVars
  <2> QED BY <1>10, <2>2, <2>3 DEF Leave
<1>11. CASE Release(r, ok)
  <2>1. PICK entries \in SUBSET Requests : entries \subseteq slots /\ Exit(r, entries)
    BY <1>11 DEF Release, Outcome, TypeOK
  <2>2. faults' \in 0..MaxFaults BY <1>11, FaultTypes DEF Release
  <2> QED BY <1>11, <2>1, <2>2, ExitTypes DEF Release, TypeOK
<1> QED BY <1>1, <1>2, <1>3, <1>4, <1>5, <1>6, <1>7, <1>8, <1>9, <1>10, <1>11 DEF Continue

\* So do renewal, forced cleanup and the end of a turn's lifetime.
LEMMA TimerTypeOK ==
  ASSUME TypeOK, NEW r \in Requests, NEW ok \in BOOLEAN, Timer(r, ok)
  PROVE  TypeOK'
<1>1. CASE Renew(r)
  BY <1>1, SlotConstants DEF Renew, TypeOK, leaseVars
<1>2. CASE ForceCleanup(r, ok)
  <2>1. PICK entries \in SUBSET Requests :
          /\ entries \subseteq slots
          /\ \/ Exit(r, entries)
             \/ /\ slots' = entries \ {r}
                /\ orphans' \in {orphans, orphans + 1}
                /\ Goto(r, "overrun")
    BY <1>2 DEF ForceCleanup, Outcome, TypeOK
  <2>2. faults' \in 0..MaxFaults /\ UNCHANGED <<queue, sweep, clears>>
    BY <1>2, FaultTypes DEF ForceCleanup
  <2>3. CASE Exit(r, entries) BY <2>1, <2>2, <2>3, ExitTypes DEF TypeOK
  <2>4. CASE slots' = entries \ {r} /\ orphans' \in {orphans, orphans + 1} /\ Goto(r, "overrun")
    BY <2>1, <2>2, <2>4, GotoTypes DEF TypeOK, Steps
  <2> QED BY <2>1, <2>3, <2>4
<1>3. CASE LifetimeOver(r)
  <2>1. PICK step \in {"release", "overrun"} : Goto(r, step) BY <1>3 DEF LifetimeOver
  <2> QED BY <1>3, <2>1, GotoTypes DEF LifetimeOver, TypeOK, Steps, leaseVars
<1> QED BY <1>1, <1>2, <1>3 DEF Timer

\* what happens to one request by chance, by its client or by its upstream
Happens(r) ==
  \/ Arrive(r) \/ AcquireFails(r) \/ QueueIncrFails(r) \/ StopPolling(r)
  \/ PollFails(r) \/ Disconnect(r) \/ Finish(r) \/ FinishUnheard(r)
  \/ OverrunEnds(r) \/ LeaseLapses(r) \/ Outage(r) \/ Die(r)

\* So does whatever clients, upstreams, faults and time do to a request.
LEMMA HappensTypeOK ==
  ASSUME TypeOK, NEW r \in Requests, Happens(r)
  PROVE  TypeOK'
<1>1. CASE Arrive(r)
  BY <1>1, GotoTypes DEF Arrive, TypeOK, Steps, leaseVars
<1>2. CASE AcquireFails(r)
  <2>1. PICK entries \in SUBSET Requests : entries \subseteq slots \cup {r} /\ Exit(r, entries)
    BY <1>2 DEF AcquireFails, Outcome, TypeOK
  <2>2. faults' \in 0..MaxFaults BY <1>2, FaultTypes DEF AcquireFails
  <2> QED BY <1>2, <2>1, <2>2, ExitTypes DEF AcquireFails, TypeOK
<1>3. CASE QueueIncrFails(r)
  <2>1. queue' \in Nat /\ faults' \in 0..MaxFaults
    BY <1>3, FaultTypes DEF QueueIncrFails, TypeOK, Outcome
  <2> QED BY <1>3, <2>1, ExitTypes DEF QueueIncrFails, TypeOK
<1>4. CASE StopPolling(r)
  BY <1>4, GotoTypes DEF StopPolling, TypeOK, Steps, Counted, Polling, leaseVars
<1>5. CASE PollFails(r)
  <2>1. faults' \in 0..MaxFaults BY <1>5, FaultTypes DEF PollFails
  <2>2. fails' \in [Requests -> 0..(MaxRedisFails - 1)]
    BY <1>5, SlotConstants DEF PollFails, TypeOK
  <2>3. slots' \subseteq slots \cup {r} BY <1>5 DEF PollFails, Outcome
  <2>4. /\ pc' \in [Requests -> Steps]
        /\ \A s \in Requests : pc'[s] = "idle" => s \notin slots'
    BY <1>5, <2>3 DEF PollFails, TypeOK, Steps, Counted, Polling
  <2> QED BY <1>5, <2>1, <2>2, <2>3, <2>4 DEF PollFails, TypeOK
<1>6. CASE Disconnect(r)
  BY <1>6 DEF Disconnect, TypeOK, leaseVars, Steps
<1>7. CASE Finish(r) \/ FinishUnheard(r)
  <2>1. PICK step \in {"release", "lingering"} : Goto(r, step)
    BY <1>7 DEF Finish, FinishUnheard
  <2> QED BY <1>7, <2>1, GotoTypes DEF Finish, FinishUnheard, TypeOK, Steps, Renewed, leaseVars
<1>8. CASE OverrunEnds(r)
  <2>1. CASE Exit(r, slots) BY <1>8, <2>1, ExitTypes DEF OverrunEnds, TypeOK
  <2>2. CASE Goto(r, "release") /\ UNCHANGED leaseVars
    BY <1>8, <2>2, GotoTypes DEF OverrunEnds, TypeOK, Steps, leaseVars
  <2> QED BY <1>8, <2>1, <2>2 DEF OverrunEnds
<1>9. CASE LeaseLapses(r)
  BY <1>9 DEF LeaseLapses, TypeOK, localVars
<1>10. CASE Outage(r)
  <2>1. faults' \in 0..MaxFaults BY <1>10, FaultTypes DEF Outage
  <2> QED BY <1>10, <2>1 DEF Outage, TypeOK
<1>11. CASE Die(r)
  <2>1. faults' \in 0..MaxFaults BY <1>11, FaultTypes DEF Die
  <2> QED BY <1>11, <2>1, ExitTypes DEF Die, TypeOK
<1> QED BY <1>1, <1>2, <1>3, <1>4, <1>5, <1>6, <1>7, <1>8, <1>9, <1>10, <1>11 DEF Happens

\* what happens to the leases, the counter or the cleanup, not to one request
Around ==
  \/ OrphanLapses \/ QueueExpires \/ ClearSlots \/ ClearQueue
  \/ SweepRead \/ SweepDelete

\* So do expiry, clears and the sweep.
LEMMA AroundTypeOK == ASSUME TypeOK, Around PROVE TypeOK'
<1>1. CASE OrphanLapses BY <1>1 DEF OrphanLapses, TypeOK, localVars
<1>2. CASE QueueExpires BY <1>2 DEF QueueExpires, TypeOK, leaseVars, localVars
<1>3. CASE ClearSlots BY <1>3, SlotConstants DEF ClearSlots, Cleared, TypeOK
<1>4. CASE ClearQueue BY <1>4, SlotConstants DEF ClearQueue, TypeOK, leaseVars, localVars
<1>5. CASE SweepRead BY <1>5 DEF SweepRead, TypeOK, leaseVars, localVars
<1>6. CASE SweepDelete BY <1>6 DEF SweepDelete, Cleared, TypeOK
<1> QED BY <1>1, <1>2, <1>3, <1>4, <1>5, <1>6 DEF Around

\* The disjuncts of Next, grouped by what they happen to.
LEMMA NextCases ==
  ASSUME Next
  PROVE  \/ \E r \in Requests, ok \in BOOLEAN : Continue(r, ok) \/ Timer(r, ok)
         \/ \E r \in Requests : Happens(r)
         \/ Around
  BY DEF Next, Happens, Around

\* So does every step.
LEMMA StepTypeOK == TypeOK /\ [Next]_vars => TypeOK'
<1>1. ASSUME TypeOK, Next PROVE TypeOK'
  BY <1>1, NextCases, ContinueTypeOK, TimerTypeOK, HappensTypeOK, AroundTypeOK
<1>2. ASSUME TypeOK, UNCHANGED vars PROVE TypeOK'
  BY <1>2 DEF TypeOK, vars, leaseVars, localVars
<1> QED BY <1>1, <1>2

\* In every reachable state the leases belong to requests under way, the
\* counter has not gone below zero, and each request is at a step of its code.
THEOREM TypeCorrect == Spec => []TypeOK
  BY InitTypeOK, StepTypeOK, PTL DEF Spec

-----------------------------------------------------------------------------
(* The limit.  A step either adds no holder, or it is a grant, and the      *)
(* script that added the entry counted all of them.                         *)

Holders == slots \cap In(Admitted)

\* Every set of requests can be counted.
LEMMA FiniteSlots ==
  ASSUME NEW S \in SUBSET Requests
  PROVE  IsFiniteSet(S) /\ Cardinality(S) \in Nat
  BY SlotConstants, FS_Subset, FS_CardinalityType

\* A request that leaves is no holder any more.
LEMMA ExitHolders ==
  ASSUME TypeOK, NEW r \in Requests, NEW entries \in SUBSET Requests,
         entries \subseteq slots \cup {r}, Exit(r, entries)
  PROVE  Holders' \subseteq Holders
  BY DEF TypeOK, Exit, Holders, In, Admitted, Renewed

\* One that goes on to a step before its grant, or from a step after it, is no new one.
LEMMA GotoHolders ==
  ASSUME TypeOK, NEW r \in Requests, NEW step, Goto(r, step),
         slots' \subseteq slots \cup {r},
         step \notin Admitted \/ (pc[r] \in Admitted /\ slots' \subseteq slots)
  PROVE  Holders' \subseteq Holders
  BY DEF TypeOK, Goto, Holders, In

\* A step adds a holder only if the script that counted all entries found room.
LEMMA HolderStep ==
  ASSUME TypeOK, [Next]_vars
  PROVE  Holders' \subseteq Holders \/ Fits(slots)'
<1>1. ASSUME NEW r \in Requests, NEW ok \in BOOLEAN, Continue(r, ok)
      PROVE  Holders' \subseteq Holders \/ Fits(slots)'
  <2>1. CASE Acquire(r)
    <3>1. CASE ~Fits(slots')
      BY <2>1, <3>1, GotoHolders DEF Acquire, Admitted, Renewed
    <3> QED BY <2>1, <3>1 DEF Acquire, Fits
  <2>2. CASE Over(r, ok)
    <3>1. PICK entries \in SUBSET Requests :
            /\ entries \subseteq slots
            /\ \/ Exit(r, entries)
               \/ slots' = entries /\ Goto(r, "check")
      BY <2>2 DEF Over, GiveBack, Outcome, TypeOK
    <3> QED BY <3>1, ExitHolders, GotoHolders DEF Admitted, Renewed
  <2>3. CASE Refuse(r) \/ QueueCleanup(r, ok)
    BY <2>3, ExitHolders DEF Refuse, QueueCleanup, TypeOK
  <2>4. CASE Enqueue(r) \/ QueueIncr(r)
    BY <2>4, GotoHolders DEF Enqueue, QueueIncr, Admitted, Renewed, leaseVars
  <2>5. CASE QueueFull(r, ok)
    BY <2>5, ExitHolders, GotoHolders DEF QueueFull, TypeOK, Admitted, Renewed, leaseVars
  <2>6. CASE Poll(r)
    BY <2>6 DEF Poll, Fits, Holders, In, Admitted, Renewed, TypeOK
  <2>7. CASE PollOver(r, ok)
    BY <2>7, GotoHolders DEF PollOver, Outcome, Admitted, Renewed
  <2>8. CASE Leave(r, ok)
    <3>1. CASE Exit(r, slots) BY <3>1, ExitHolders DEF TypeOK
    <3>2. CASE pc[r] = "leaveGranted"
      BY <2>8, <3>2, GotoHolders DEF Leave, Admitted, leaseVars
    <3> QED BY <2>8, <3>1, <3>2 DEF Leave
  <2>9. CASE Release(r, ok)
    <3>1. PICK entries \in SUBSET Requests : entries \subseteq slots /\ Exit(r, entries)
      BY <2>9 DEF Release, Outcome, TypeOK
    <3> QED BY <3>1, ExitHolders
  <2> QED BY <1>1, <2>1, <2>2, <2>3, <2>4, <2>5, <2>6, <2>7, <2>8, <2>9 DEF Continue
<1>2. ASSUME NEW r \in Requests, NEW ok \in BOOLEAN, Timer(r, ok)
      PROVE  Holders' \subseteq Holders
  <2>1. CASE Renew(r)
    BY <2>1 DEF Renew, Holders, In, leaseVars
  <2>2. CASE ForceCleanup(r, ok)
    <3>1. PICK entries \in SUBSET Requests :
            /\ entries \subseteq slots
            /\ \/ Exit(r, entries)
               \/ slots' = entries \ {r} /\ Goto(r, "overrun")
      BY <2>2 DEF ForceCleanup, Outcome, TypeOK
    <3>2. pc[r] \in Admitted BY <2>2 DEF ForceCleanup, Admitted
    <3> QED BY <3>1, <3>2, ExitHolders, GotoHolders
  <2>3. CASE LifetimeOver(r)
    BY <2>3, GotoHolders DEF LifetimeOver, Admitted, Renewed, leaseVars
  <2> QED BY <1>2, <2>1, <2>2, <2>3 DEF Timer
<1>3. ASSUME NEW r \in Requests, Happens(r)
      PROVE  Holders' \subseteq Holders
  <2>1. CASE Arrive(r) \/ StopPolling(r)
    BY <2>1, GotoHolders DEF Arrive, StopPolling, Admitted, Renewed, leaseVars
  <2>2. CASE AcquireFails(r)
    <3>1. PICK entries \in SUBSET Requests : entries \subseteq slots \cup {r} /\ Exit(r, entries)
      BY <2>2 DEF AcquireFails, Outcome, TypeOK
    <3> QED BY <3>1, ExitHolders
  <2>3. CASE QueueIncrFails(r) \/ Die(r)
    BY <2>3, ExitHolders DEF QueueIncrFails, Die, TypeOK
  <2>4. CASE PollFails(r)
    BY <2>4 DEF PollFails, Outcome, Holders, In, Admitted, Renewed, TypeOK
  <2>5. CASE Disconnect(r)
    BY <2>5 DEF Disconnect, Holders, In, Admitted, Renewed, TypeOK, leaseVars
  <2>6. CASE Finish(r) \/ FinishUnheard(r)
    BY <2>6, GotoHolders DEF Finish, FinishUnheard, Admitted, Renewed, leaseVars
  <2>7. CASE OverrunEnds(r)
    BY <2>7, ExitHolders, GotoHolders DEF OverrunEnds, TypeOK, Admitted, leaseVars
  <2>8. CASE LeaseLapses(r)
    BY <2>8 DEF LeaseLapses, Holders, In, localVars
  <2>9. CASE Outage(r)
    BY <2>9 DEF Outage, Holders, In
  <2> QED BY <1>3, <2>1, <2>2, <2>3, <2>4, <2>5, <2>6, <2>7, <2>8, <2>9 DEF Happens
<1>4. ASSUME Around PROVE Holders' \subseteq Holders
  BY <1>4 DEF Around, OrphanLapses, QueueExpires, ClearSlots, ClearQueue, SweepRead,
              SweepDelete, Cleared, Holders, In, localVars, leaseVars
<1>5. ASSUME UNCHANGED vars PROVE Holders' \subseteq Holders
  BY <1>5 DEF vars, leaseVars, localVars, Holders, In
<1> QED BY <1>1, <1>2, <1>3, <1>4, <1>5, NextCases

\* However many candidates add their entries at the same time, those that are
\* let past the check never exceed concurrencyLimit.
THEOREM WithinLimit == Spec => []HoldersWithinLimit
<1>1. Init => HoldersWithinLimit
  BY SlotConstants, FS_EmptySet DEF Init, HoldersWithinLimit
<1>2. ASSUME TypeOK, HoldersWithinLimit, [Next]_vars PROVE HoldersWithinLimit'
  <2>1. TypeOK' BY <1>2, StepTypeOK
  <2>2. Holders \subseteq Requests /\ Holders' \subseteq slots' /\ slots' \subseteq Requests
    BY <1>2, <2>1 DEF TypeOK, Holders
  <2>3. CASE Holders' \subseteq Holders
    BY <1>2, <2>2, <2>3, FS_Subset, FiniteSlots, SlotConstants DEF HoldersWithinLimit, Holders
  <2>4. CASE Fits(slots)'
    <3>1. Cardinality(slots') <= Limit
      BY <2>1, <2>2, <2>4, FiniteSlots, SlotConstants DEF Fits, TypeOK
    <3> QED
      BY <2>2, <3>1, FS_Subset, FiniteSlots, SlotConstants DEF HoldersWithinLimit, Holders
  <2> QED BY <1>2, <2>3, <2>4, HolderStep
<1> QED BY <1>1, <1>2, TypeCorrect, PTL DEF Spec

-----------------------------------------------------------------------------
(* Ownership.  A step takes back no entry but that of its own request.      *)

Served == {"leaveGranted", "serving"}

\* A request that leaves takes nobody else's entry with it.
LEMMA ExitServed ==
  ASSUME TypeOK, ServedHoldsSlot, NEW r \in Requests, NEW entries,
         slots \ {r} \subseteq entries, Exit(r, entries)
  PROVE  ServedHoldsSlot'
  BY DEF TypeOK, ServedHoldsSlot, Exit, In

\* One that goes on has its own entry if it is going to be served.
LEMMA GotoServed ==
  ASSUME TypeOK, ServedHoldsSlot, NEW r \in Requests, NEW step, Goto(r, step),
         \/ step \notin Served /\ slots \ {r} \subseteq slots'
         \/ slots' = slots \cup {r}
         \/ pc[r] \in Served /\ slots' = slots
  PROVE  ServedHoldsSlot'
  BY DEF TypeOK, ServedHoldsSlot, Goto, In, Served

\* No step takes the entry of a request that is served, but a clear or an outage.
LEMMA ServedStep ==
  ASSUME TypeOK, ServedHoldsSlot, [Next]_vars
  PROVE  ServedHoldsSlot'
<1>1. ASSUME NEW r \in Requests, NEW ok \in BOOLEAN, Continue(r, ok)
      PROVE  ServedHoldsSlot'
  <2>1. CASE Acquire(r)
    BY <2>1, GotoServed DEF Acquire
  <2>2. CASE Over(r, ok)
    BY <2>2, ExitServed, GotoServed DEF Over, GiveBack, Outcome, Served
  <2>3. CASE Refuse(r) \/ QueueCleanup(r, ok)
    BY <2>3, ExitServed DEF Refuse, QueueCleanup
  <2>4. CASE Enqueue(r) \/ QueueIncr(r)
    BY <2>4, GotoServed DEF Enqueue, QueueIncr, Served, leaseVars
  <2>5. CASE QueueFull(r, ok)
    BY <2>5, ExitServed, GotoServed DEF QueueFull, Served, leaseVars
  <2>6. CASE Poll(r)
    BY <2>6 DEF Poll, ServedHoldsSlot, In, TypeOK
  <2>7. CASE PollOver(r, ok)
    BY <2>7, GotoServed DEF PollOver, Outcome, Served
  <2>8. CASE Leave(r, ok)
    BY <2>8, ExitServed, GotoServed DEF Leave, Served, leaseVars
  <2>9. CASE Release(r, ok)
    BY <2>9, ExitServed DEF Release, Outcome
  <2> QED BY <1>1, <2>1, <2>2, <2>3, <2>4, <2>5, <2>6, <2>7, <2>8, <2>9 DEF Continue
<1>2. ASSUME NEW r \in Requests, NEW ok \in BOOLEAN, Timer(r, ok)
      PROVE  ServedHoldsSlot'
  <2>1. CASE Renew(r)
    BY <2>1 DEF Renew, ServedHoldsSlot, In, leaseVars
  <2>2. CASE ForceCleanup(r, ok)
    BY <2>2, ExitServed, GotoServed DEF ForceCleanup, Outcome, Served
  <2>3. CASE LifetimeOver(r)
    BY <2>3, GotoServed DEF LifetimeOver, Served, leaseVars
  <2> QED BY <1>2, <2>1, <2>2, <2>3 DEF Timer
<1>3. ASSUME NEW r \in Requests, Happens(r)
      PROVE  ServedHoldsSlot'
  <2>1. CASE Arrive(r) \/ StopPolling(r)
    BY <2>1, GotoServed DEF Arrive, StopPolling, Served, leaseVars
  <2>2. CASE AcquireFails(r)
    BY <2>2, ExitServed DEF AcquireFails, Outcome
  <2>3. CASE QueueIncrFails(r) \/ Die(r)
    BY <2>3, ExitServed DEF QueueIncrFails, Die
  <2>4. CASE PollFails(r)
    BY <2>4 DEF PollFails, Outcome, ServedHoldsSlot, In, TypeOK
  <2>5. CASE Disconnect(r)
    BY <2>5 DEF Disconnect, ServedHoldsSlot, In, TypeOK, leaseVars
  <2>6. CASE Finish(r) \/ FinishUnheard(r)
    BY <2>6, GotoServed DEF Finish, FinishUnheard, Served, leaseVars
  <2>7. CASE OverrunEnds(r)
    BY <2>7, ExitServed, GotoServed DEF OverrunEnds, Served, leaseVars
  <2>8. CASE LeaseLapses(r)
    BY <2>8 DEF LeaseLapses, ServedHoldsSlot, In, localVars
  <2>9. CASE Outage(r)
    BY <2>9 DEF Outage, ServedHoldsSlot, In
  <2> QED BY <1>3, <2>1, <2>2, <2>3, <2>4, <2>5, <2>6, <2>7, <2>8, <2>9 DEF Happens
<1>4. ASSUME Around PROVE ServedHoldsSlot'
  BY <1>4 DEF Around, OrphanLapses, QueueExpires, ClearSlots, ClearQueue, SweepRead,
              SweepDelete, Cleared, ServedHoldsSlot, In, localVars, leaseVars
<1>5. ASSUME UNCHANGED vars PROVE ServedHoldsSlot'
  BY <1>5 DEF vars, leaseVars, localVars, ServedHoldsSlot, In
<1> QED BY <1>1, <1>2, <1>3, <1>4, <1>5, NextCases

\* Nobody takes back an entry other than his own: a request that is served is
\* counted, unless its entry was cleared or lapsed in an outage.
THEOREM ServedCounted == Spec => []ServedHoldsSlot
<1>1. Init => ServedHoldsSlot BY DEF Init, ServedHoldsSlot, In
<1> QED BY <1>1, ServedStep, TypeCorrect, PTL DEF Spec

-----------------------------------------------------------------------------
(* The queue.  A step changes the counter and the requests it counts alike, *)
(* or it is a fault, a clear, or the expiry of a counter nobody relies on.  *)

Waiters == In(Counted)

QueueUntouched == Waiters' = Waiters /\ queue' = queue /\ faults' >= faults /\ clears' >= clears
QueueJoined(r) == /\ r \notin Waiters /\ Waiters' = Waiters \cup {r} /\ queue' = queue + 1
                  /\ UNCHANGED <<faults, clears>>
QueueLeft(r) == /\ r \in Waiters /\ Waiters' = Waiters \ {r} /\ queue' = Decrement(queue)
                /\ UNCHANGED <<faults, clears>>
QueueFault(r) == /\ faults' = faults + 1 /\ clears' = clears
                 /\ \/ queue' \in {queue, Decrement(queue)} /\ Waiters' \in {Waiters, Waiters \ {r}}
                    \/ queue' \in {queue, queue + 1} /\ Waiters' = Waiters
QueueReset == /\ queue' = 0 /\ Waiters' = Waiters /\ faults' = faults
              /\ \/ Waiters = {} /\ clears' = clears
                 \/ clears' > 0

\* A request that leaves is not counted any more.
LEMMA ExitWaiters ==
  ASSUME TypeOK, NEW r \in Requests, NEW entries, Exit(r, entries)
  PROVE  Waiters' = Waiters \ {r}
  BY DEF TypeOK, Exit, Waiters, In, Counted, Polling

\* One that goes on is counted if its next step is inside the queue.
LEMMA GotoWaiters ==
  ASSUME TypeOK, NEW r \in Requests, NEW step, Goto(r, step)
  PROVE  Waiters' = IF step \in Counted THEN Waiters \cup {r} ELSE Waiters \ {r}
  BY DEF TypeOK, Goto, Waiters, In

\* A waiter is a request at a step inside the queue.
LEMMA WaiterHasStep == ASSUME NEW r \in Requests PROVE r \in Waiters <=> pc[r] \in Counted
  BY DEF Waiters, In

\* A handler leaves the queue alone, joins it, leaves it, or meets a fault.
LEMMA ContinueQueue ==
  ASSUME TypeOK, NEW r \in Requests, NEW ok \in BOOLEAN, Continue(r, ok)
  PROVE  QueueUntouched \/ QueueJoined(r) \/ QueueLeft(r) \/ QueueFault(r)
<1> USE WaiterHasStep DEF Counted, Polling
<1>0. faults \in Nat /\ clears \in Nat BY SlotConstants DEF TypeOK
<1>1. CASE Acquire(r) \/ Enqueue(r)
  BY <1>0, <1>1, GotoWaiters DEF Acquire, Enqueue, QueueUntouched
<1>2. CASE Over(r, ok) \/ Release(r, ok)
  <2>1. r \notin Waiters /\ UNCHANGED <<queue, clears>> /\ faults' >= faults
    BY <1>0, <1>2, FaultTypes DEF Over, GiveBack, Release
  <2>2. Waiters' = Waiters \ {r}
    BY <1>2, ExitWaiters, GotoWaiters DEF Over, GiveBack, Release
  <2> QED BY <1>0, <2>1, <2>2 DEF QueueUntouched
<1>3. CASE Refuse(r)
  BY <1>0, <1>3, ExitWaiters DEF Refuse, QueueUntouched
<1>4. CASE QueueIncr(r)
  BY <1>4, GotoWaiters DEF QueueIncr, QueueJoined
<1>5. CASE QueueFull(r, ok)
  BY <1>5, ExitWaiters, GotoWaiters DEF QueueFull, QueueLeft, QueueFault, Answered, Outcome, Fault
<1>6. CASE QueueCleanup(r, ok)
  BY <1>6, ExitWaiters DEF QueueCleanup, QueueLeft, QueueFault, Answered, Outcome, Fault
<1>7. CASE Poll(r)
  <2>1. Waiters' = Waiters BY <1>7 DEF Poll, Waiters, In, TypeOK
  <2> QED BY <1>0, <1>7, <2>1 DEF Poll, QueueUntouched
<1>8. CASE PollOver(r, ok)
  BY <1>0, <1>8, GotoWaiters, FaultTypes DEF PollOver, QueueUntouched
<1>9. CASE Leave(r, ok)
  <2>1. r \in Waiters /\ Waiters' = Waiters \ {r}
    BY <1>9, ExitWaiters, GotoWaiters DEF Leave
  <2> QED BY <1>9, <2>1 DEF Leave, QueueLeft, QueueFault, Answered, Outcome, Fault
<1> QED BY <1>1, <1>2, <1>3, <1>4, <1>5, <1>6, <1>7, <1>8, <1>9 DEF Continue

\* Timers leave the queue alone.
LEMMA TimerQueue ==
  ASSUME TypeOK, NEW r \in Requests, NEW ok \in BOOLEAN, Timer(r, ok)
  PROVE  QueueUntouched
<1> USE WaiterHasStep DEF Counted, Polling
<1>0. faults \in Nat /\ clears \in Nat BY SlotConstants DEF TypeOK
<1>1. CASE Renew(r)
  BY <1>0, <1>1 DEF Renew, QueueUntouched, Waiters, In
<1>2. CASE ForceCleanup(r, ok)
  <2>1. r \notin Waiters /\ UNCHANGED <<queue, clears>> /\ faults' >= faults
    BY <1>0, <1>2, FaultTypes DEF ForceCleanup, Renewed
  <2>2. Waiters' = Waiters \ {r}
    BY <1>2, ExitWaiters, GotoWaiters DEF ForceCleanup
  <2> QED BY <1>0, <2>1, <2>2 DEF QueueUntouched
<1>3. CASE LifetimeOver(r)
  BY <1>0, <1>3, GotoWaiters DEF LifetimeOver, QueueUntouched
<1> QED BY <1>1, <1>2, <1>3 DEF Timer

\* What happens to a request leaves the queue alone, or is a fault.
LEMMA HappensQueue ==
  ASSUME TypeOK, NEW r \in Requests, Happens(r)
  PROVE  QueueUntouched \/ QueueFault(r)
<1> USE WaiterHasStep DEF Counted, Polling
<1>0. faults \in Nat /\ clears \in Nat BY SlotConstants DEF TypeOK
<1>1. CASE Arrive(r) \/ StopPolling(r) \/ Finish(r) \/ FinishUnheard(r)
  BY <1>0, <1>1, GotoWaiters DEF Arrive, StopPolling, Finish, FinishUnheard, QueueUntouched
<1>2. CASE AcquireFails(r) \/ QueueIncrFails(r)
  BY <1>2, ExitWaiters DEF AcquireFails, QueueIncrFails, QueueFault, Outcome, Fault
<1>3. CASE Die(r)
  BY <1>3, ExitWaiters DEF Die, QueueFault, Fault
<1>4. CASE PollFails(r)
  <2>1. Waiters' = Waiters BY <1>4 DEF PollFails, Waiters, In, TypeOK
  <2> QED BY <1>4, <2>1 DEF PollFails, QueueFault, Fault
<1>5. CASE Disconnect(r)
  <2>1. Waiters' = Waiters BY <1>5 DEF Disconnect, Waiters, In, TypeOK
  <2> QED BY <1>0, <1>5, <2>1 DEF Disconnect, QueueUntouched
<1>6. CASE OverrunEnds(r)
  BY <1>0, <1>6, ExitWaiters, GotoWaiters DEF OverrunEnds, QueueUntouched
<1>7. CASE LeaseLapses(r)
  BY <1>0, <1>7 DEF LeaseLapses, QueueUntouched, Waiters, In, localVars
<1>8. CASE Outage(r)
  BY <1>8 DEF Outage, QueueFault, Fault, Waiters, In
<1> QED BY <1>1, <1>2, <1>3, <1>4, <1>5, <1>6, <1>7, <1>8 DEF Happens

\* Expiry and clears reset the counter; the sweep leaves the queue alone.
LEMMA AroundQueue ==
  ASSUME TypeOK, Around
  PROVE  QueueUntouched \/ QueueReset
<1>0. faults \in Nat /\ clears \in Nat BY SlotConstants DEF TypeOK
<1>1. CASE OrphanLapses \/ SweepRead \/ SweepDelete \/ ClearSlots
  BY <1>0, <1>1 DEF OrphanLapses, SweepRead, SweepDelete, ClearSlots, Cleared, QueueUntouched,
                    Waiters, In, localVars, leaseVars
<1>2. CASE QueueExpires
  BY <1>2 DEF QueueExpires, QueueReset, Waiters, In, localVars
<1>3. CASE ClearQueue
  BY <1>0, <1>3 DEF ClearQueue, QueueReset, Waiters, In, localVars
<1> QED BY <1>1, <1>2, <1>3 DEF Around

\* Every step of the system is one of the five.
LEMMA QueueStep ==
  ASSUME TypeOK, [Next]_vars
  PROVE  \/ QueueUntouched \/ QueueReset
         \/ \E r \in Requests : QueueJoined(r) \/ QueueLeft(r) \/ QueueFault(r)
<1>1. CASE UNCHANGED vars
  BY <1>1, SlotConstants DEF vars, leaseVars, localVars, QueueUntouched, Waiters, In, TypeOK
<1> QED BY <1>1, NextCases, ContinueQueue, TimerQueue, HappensQueue, AroundQueue

\* The waiters can be counted.
LEMMA WaitersFinite == IsFiniteSet(Waiters) /\ Cardinality(Waiters) \in Nat
  BY FiniteSlots DEF Waiters, In

\* The distance between counter and waiters is kept when only faults grow.
LEMMA MoreFaults ==
  ASSUME NEW a \in Nat, NEW b \in Nat, NEW f \in Nat, NEW g \in Nat, f <= g, a <= b + f
  PROVE  a <= b + g
  OBVIOUS

\* Each of the five keeps the counter within the faults of the waiters.
LEMMA CountsStep ==
  ASSUME TypeOK, QueueCountsWaiters, [Next]_vars
  PROVE  QueueCountsWaiters'
<1> DEFINE n == Cardinality(Waiters)
           m == Cardinality(Waiters')
<1>1. /\ n \in Nat /\ queue \in Nat /\ faults \in Nat /\ clears \in Nat
      /\ queue <= n + faults /\ (clears = 0 => n <= queue + faults)
  BY WaitersFinite, SlotConstants DEF TypeOK, QueueCountsWaiters, Waiters
<1>2. SUFFICES queue' <= m + faults' /\ (clears' = 0 => m <= queue' + faults')
  BY DEF QueueCountsWaiters, Waiters
<1>3. ASSUME NEW r \in Requests
      PROVE  /\ r \notin Waiters => Cardinality(Waiters \cup {r}) = n + 1
             /\ r \in Waiters => n >= 1 /\ Cardinality(Waiters \ {r}) = n - 1
             /\ r \notin Waiters => Waiters \ {r} = Waiters
  <2>1. r \notin Waiters => Cardinality(Waiters \cup {r}) = n + 1
    BY WaitersFinite, FS_AddElement
  <2>2. r \in Waiters => Cardinality(Waiters \ {r}) = n - 1
    BY WaitersFinite, FS_RemoveElement
  <2>3. r \in Waiters => Cardinality(Waiters \ {r}) \in Nat
    BY WaitersFinite, FS_RemoveElement, FS_CardinalityType
  <2> QED BY <1>1, <2>1, <2>2, <2>3
<1> HIDE DEF n
<1>4. CASE QueueUntouched
  <2>1. m = n BY <1>4 DEF QueueUntouched, n
  <2>2. faults' \in Nat /\ clears' \in Nat BY StepTypeOK, SlotConstants DEF TypeOK
  <2>3. queue' = queue /\ faults' >= faults /\ clears' >= clears BY <1>4 DEF QueueUntouched
  <2>4. queue <= n + faults' BY <1>1, <2>2, <2>3, MoreFaults
  <2>5. clears' = 0 => clears = 0 BY <1>1, <2>2, <2>3
  <2>6. clears = 0 => n <= queue + faults' BY <1>1, <2>2, <2>3, MoreFaults
  <2> QED BY <2>1, <2>3, <2>4, <2>5, <2>6
<1>5. ASSUME NEW r \in Requests, QueueJoined(r)
      PROVE queue' <= m + faults' /\ (clears' = 0 => m <= queue' + faults')
  <2>1. m = n + 1 BY <1>3, <1>5 DEF QueueJoined
  <2> QED BY <1>1, <1>5, <2>1 DEF QueueJoined
<1>6. ASSUME NEW r \in Requests, QueueLeft(r)
      PROVE queue' <= m + faults' /\ (clears' = 0 => m <= queue' + faults')
  <2>1. m = n - 1 /\ n >= 1 BY <1>3, <1>6 DEF QueueLeft
  <2> QED BY <1>1, <1>6, <2>1 DEF QueueLeft, Decrement
<1>7. ASSUME NEW r \in Requests, QueueFault(r)
      PROVE queue' <= m + faults' /\ (clears' = 0 => m <= queue' + faults')
  <2>1. CASE Waiters' = Waiters
    <3>1. m = n BY <2>1 DEF n
    <3> QED BY <1>1, <1>7, <3>1 DEF QueueFault, Decrement
  <2>2. CASE Waiters' = Waiters \ {r} /\ queue' \in {queue, Decrement(queue)}
    <3>1. m = n \/ (m = n - 1 /\ n >= 1) BY <1>3, <2>2 DEF n
    <3> QED BY <1>1, <1>7, <2>2, <3>1 DEF QueueFault, Decrement
  <2> QED BY <1>7, <2>1, <2>2 DEF QueueFault
<1>8. CASE QueueReset
  <2>1. m = n /\ (Waiters = {} => n = 0) BY <1>8, FS_EmptySet DEF QueueReset, n
  <2> QED BY <1>1, <1>8, <2>1 DEF QueueReset
<1> QED BY <1>4, <1>5, <1>6, <1>7, <1>8, QueueStep

\* Whatever fails, the counter follows the requests that queue: each fault
\* leaks, or loses, at most one of them.
THEOREM CountsWaiters == Spec => []QueueCountsWaiters
<1>1. Init => QueueCountsWaiters
  <2>1. Init => Waiters = {} BY DEF Init, Waiters, In, Counted, Polling
  <2> QED BY <2>1, FS_EmptySet DEF Init, QueueCountsWaiters, Waiters
<1> QED BY <1>1, CountsStep, TypeCorrect, PTL DEF Spec

-----------------------------------------------------------------------------
(* maxQueueSize.  The requests that poll grow only by one that has just     *)
(* compared the counter, and the counter follows those that wait.           *)

Pollers == In(Polling)

NoMorePollers == Pollers' \subseteq Pollers

\* A request that leaves the queue is no poller.
LEMMA ExitPollers ==
  ASSUME TypeOK, NEW r \in Requests, NEW entries, Exit(r, entries)
  PROVE  NoMorePollers
  BY DEF TypeOK, Exit, NoMorePollers, Pollers, In, Polling

\* One that was no poller and goes on outside the loop is none.
LEMMA GotoPollers ==
  ASSUME TypeOK, NEW r \in Requests, NEW step, Goto(r, step),
         step \in Polling => pc[r] \in Polling
  PROVE  NoMorePollers
  BY DEF TypeOK, Goto, NoMorePollers, Pollers, In

\* Only a request that has just compared the counter starts to poll.
LEMMA PollersStep ==
  ASSUME TypeOK, [Next]_vars
  PROVE  NoMorePollers \/ queue' <= MaxQueue
<1>1. ASSUME NEW r \in Requests, NEW ok \in BOOLEAN, Continue(r, ok)
      PROVE  NoMorePollers \/ queue' <= MaxQueue
  <2>1. CASE Acquire(r) \/ Over(r, ok) \/ Refuse(r) \/ Enqueue(r) \/ Release(r, ok)
    BY <2>1, ExitPollers, GotoPollers
       DEF Acquire, Over, GiveBack, Refuse, Enqueue, Release, Polling
  <2>2. CASE QueueIncr(r)
    BY <2>2, GotoPollers, SlotConstants DEF QueueIncr, TypeOK, Polling
  <2>3. CASE QueueFull(r, ok) \/ QueueCleanup(r, ok) \/ Leave(r, ok)
    BY <2>3, ExitPollers, GotoPollers DEF QueueFull, QueueCleanup, Leave, Polling
  <2>4. CASE Poll(r)
    BY <2>4 DEF Poll, NoMorePollers, Pollers, In, Polling, TypeOK
  <2>5. CASE PollOver(r, ok)
    BY <2>5, GotoPollers DEF PollOver, Polling
  <2> QED BY <1>1, <2>1, <2>2, <2>3, <2>4, <2>5 DEF Continue
<1>2. ASSUME NEW r \in Requests, NEW ok \in BOOLEAN, Timer(r, ok)
      PROVE  NoMorePollers
  <2>1. CASE Renew(r) BY <2>1 DEF Renew, NoMorePollers, Pollers, In
  <2>2. CASE ForceCleanup(r, ok) \/ LifetimeOver(r)
    BY <2>2, ExitPollers, GotoPollers DEF ForceCleanup, LifetimeOver, Polling
  <2> QED BY <1>2, <2>1, <2>2 DEF Timer
<1>3. ASSUME NEW r \in Requests, Happens(r)
      PROVE  NoMorePollers
  <2>1. CASE Arrive(r) \/ StopPolling(r) \/ Finish(r) \/ FinishUnheard(r) \/ OverrunEnds(r)
    BY <2>1, ExitPollers, GotoPollers
       DEF Arrive, StopPolling, Finish, FinishUnheard, OverrunEnds, Polling
  <2>2. CASE AcquireFails(r) \/ QueueIncrFails(r) \/ Die(r)
    BY <2>2, ExitPollers DEF AcquireFails, QueueIncrFails, Die
  <2>3. CASE PollFails(r) \/ Disconnect(r) \/ LeaseLapses(r) \/ Outage(r)
    BY <2>3 DEF PollFails, Disconnect, LeaseLapses, Outage, localVars, NoMorePollers,
                Pollers, In, Polling, TypeOK
  <2> QED BY <1>3, <2>1, <2>2, <2>3 DEF Happens
<1>4. ASSUME Around \/ UNCHANGED vars
      PROVE  NoMorePollers
  BY <1>4 DEF Around, OrphanLapses, QueueExpires, ClearSlots, ClearQueue, SweepRead,
              SweepDelete, Cleared, vars, localVars, leaseVars, NoMorePollers, Pollers, In
<1> QED BY <1>1, <1>2, <1>3, <1>4, NextCases

\* A behaviour's faults and clears are never forgotten.
LEMMA BoundsGrow ==
  ASSUME TypeOK, [Next]_vars
  PROVE  /\ faults \in Nat /\ faults' \in Nat /\ faults <= faults'
         /\ clears \in Nat /\ clears' \in Nat /\ (clears' = 0 => clears = 0)
<1>1. faults \in Nat /\ clears \in Nat BY SlotConstants DEF TypeOK
<1>2. faults' \in Nat /\ clears' \in Nat BY StepTypeOK, SlotConstants DEF TypeOK
<1>3. CASE QueueUntouched BY <1>1, <1>2, <1>3 DEF QueueUntouched
<1>4. ASSUME NEW r \in Requests, QueueJoined(r) \/ QueueLeft(r) \/ QueueFault(r)
      PROVE  faults <= faults' /\ clears' = clears
  BY <1>1, <1>2, <1>4 DEF QueueJoined, QueueLeft, QueueFault
<1>5. CASE QueueReset BY <1>1, <1>2, <1>5 DEF QueueReset
<1> QED BY <1>1, <1>2, <1>3, <1>4, <1>5, QueueStep

\* Two bounds in a row.
LEMMA Chain ==
  ASSUME NEW a \in Nat, NEW b \in Nat, NEW q \in Nat, NEW m \in Nat, NEW f \in Nat,
         a <= b, b <= q + f, q = m \/ q <= m
  PROVE  a <= m + f
  OBVIOUS

\* So the pollers stay within maxQueueSize and the faults.
LEMMA WithinMaxStep ==
  ASSUME TypeOK, QueueCountsWaiters, WaitersWithinMax, [Next]_vars
  PROVE  WaitersWithinMax'
<1> DEFINE a == Cardinality(Pollers')
           b == Cardinality(Waiters')
<1>1. SUFFICES ASSUME clears' = 0 PROVE a <= MaxQueue + faults'
  BY DEF WaitersWithinMax, Pollers
<1>2. clears = 0 /\ faults \in Nat /\ faults' \in Nat /\ faults <= faults' /\ MaxQueue \in Nat
  BY <1>1, BoundsGrow, SlotConstants
<1>3. IsFiniteSet(Pollers) /\ Cardinality(Pollers) \in Nat /\ IsFiniteSet(Waiters')
      /\ a \in Nat /\ b \in Nat /\ Pollers' \subseteq Waiters'
  BY FiniteSlots, StepTypeOK DEF Pollers, Waiters, In, Counted
<1>4. CASE NoMorePollers
  <2>1. a <= Cardinality(Pollers)
    BY <1>3, <1>4, FS_Subset DEF NoMorePollers
  <2>2. Cardinality(Pollers) <= MaxQueue + faults
    BY <1>2 DEF WaitersWithinMax, Pollers
  <2>3. Cardinality(Pollers) <= MaxQueue + faults'
    BY <1>2, <1>3, <2>2, MoreFaults
  <2> QED BY <1>2, <1>3, <2>1, <2>3, Chain
<1>5. CASE queue' <= MaxQueue
  <2>1. a <= b BY <1>3, FS_Subset
  <2>2. b <= queue' + faults'
    BY <1>1, CountsStep DEF QueueCountsWaiters, Waiters
  <2>3. queue' \in Nat BY StepTypeOK DEF TypeOK
  <2> QED BY <1>2, <1>3, <1>5, <2>1, <2>2, <2>3, Chain
<1> QED BY <1>4, <1>5, PollersStep

\* maxQueueSize bounds the requests that wait, beyond what faults made the
\* counter lose and unless it was cleared under them.
THEOREM QueueBounded == Spec => []WaitersWithinMax
<1>1. Init => WaitersWithinMax
  <2>1. Init => Pollers = {} BY DEF Init, Pollers, In, Polling
  <2> QED BY <2>1, FS_EmptySet, SlotConstants DEF Init, WaitersWithinMax, Pollers
<1> QED BY <1>1, WithinMaxStep, CountsWaiters, TypeCorrect, PTL DEF Spec

-----------------------------------------------------------------------------
(* Orphans.  Before an entry is orphaned its request has gone on although   *)
(* the removal was not confirmed: the entries that are not renewed and not  *)
(* about to be removed are the orphans to come, and each cost a fault.      *)

Unconfirmed(r) ==
  \/ pc[r] \in {"check", "queueIncr", "queueFull", "queueCleanup", "poll", "leave"}
  \/ pc[r] = "overrun" /\ r \notin Turns

Stale == {r \in slots : Unconfirmed(r)}

StaleAreFaults == Cardinality(Stale) + orphans <= faults

\* Nothing becomes stale, or it does by a fault; a stale entry may be orphaned.
StaleFewer == Stale' \subseteq Stale /\ orphans' <= orphans /\ faults <= faults'
StaleOrphaned(r) ==
  r \in Stale /\ Stale' \subseteq Stale \ {r} /\ orphans' = orphans + 1 /\ faults <= faults'
StaleFault(r) ==
  /\ faults' = faults + 1
  /\ \/ Stale' \subseteq Stale \cup {r} /\ orphans' = orphans
     \/ Stale' \subseteq Stale /\ orphans' \in {orphans, orphans + 1}

\* A request that leaves is not stale; an entry it leaves is an orphan.
LEMMA ExitStale ==
  ASSUME TypeOK, NEW r \in Requests, NEW entries \in SUBSET Requests,
         entries \subseteq slots \cup {r}, Exit(r, entries)
  PROVE  /\ Stale' \subseteq Stale \ {r}
         /\ orphans' = IF r \in entries THEN orphans + 1 ELSE orphans
  BY DEF TypeOK, Exit, Stale, Unconfirmed

\* A request that goes on is stale only if it kept its entry outside service.
LEMMA GotoStale ==
  ASSUME TypeOK, NEW r \in Requests, NEW step, Goto(r, step), slots' \subseteq slots \cup {r}
  PROVE  /\ Stale' \subseteq Stale \cup {r}
         /\ r \notin slots' => Stale' \subseteq Stale \ {r}
         /\ slots' = slots /\ Unconfirmed(r) => Stale' \subseteq Stale
         /\ step \in Admitted \cup {"over", "pollOver"} /\ (step = "overrun" => r \in Turns)
              => Stale' \subseteq Stale \ {r}
  BY DEF TypeOK, Goto, Stale, Unconfirmed, Admitted, Renewed

\* Every step is one of the three.
LEMMA StaleStep ==
  ASSUME TypeOK, [Next]_vars
  PROVE  StaleFewer \/ \E r \in Requests : StaleOrphaned(r) \/ StaleFault(r)
<1>0. orphans \in Nat /\ faults \in Nat BY SlotConstants DEF TypeOK
<1>1. ASSUME NEW r \in Requests, NEW ok \in BOOLEAN, Continue(r, ok)
      PROVE  StaleFewer \/ StaleOrphaned(r) \/ StaleFault(r)
  <2>1. CASE Acquire(r)
    BY <1>0, <2>1, GotoStale DEF Acquire, StaleFewer, Admitted, Renewed
  <2>2. CASE Over(r, ok)
    <3>1. PICK entries \in SUBSET Requests :
            /\ entries \in Outcome(ok, slots, slots \ {r})
            /\ \/ Exit(r, entries)
               \/ slots' = entries /\ UNCHANGED orphans /\ Goto(r, "check")
      BY <2>2 DEF Over, GiveBack, Outcome, TypeOK
    <3>2. CASE ok
      BY <1>0, <2>2, <3>1, <3>2, ExitStale, GotoStale
         DEF Over, GiveBack, Outcome, Answered, StaleFewer
    <3>3. CASE ~ok
      BY <1>0, <2>2, <3>1, <3>3, ExitStale, GotoStale
         DEF Over, GiveBack, Outcome, Answered, Fault, StaleFault
    <3> QED BY <3>2, <3>3
  <2>3. CASE Refuse(r)
    BY <1>0, <2>3, ExitStale DEF Refuse, TypeOK, StaleFewer, StaleOrphaned, Stale, Unconfirmed
  <2>4. CASE Enqueue(r) \/ QueueIncr(r)
    BY <1>0, <2>4, GotoStale DEF Enqueue, QueueIncr, leaseVars, StaleFewer, Unconfirmed
  <2>5. CASE QueueFull(r, ok) \/ QueueCleanup(r, ok)
    <3>1. faults <= faults' /\ Unconfirmed(r)
      BY <1>0, <2>5 DEF QueueFull, QueueCleanup, Answered, Fault, Unconfirmed
    <3>2. Exit(r, slots) \/ (Goto(r, "queueCleanup") /\ UNCHANGED leaseVars)
      BY <2>5 DEF QueueFull, QueueCleanup
    <3> QED BY <1>0, <3>1, <3>2, ExitStale, GotoStale
            DEF TypeOK, leaseVars, StaleFewer, StaleOrphaned, Stale
  <2>6. CASE Poll(r)
    BY <1>0, <2>6 DEF Poll, StaleFewer, Stale, Unconfirmed, TypeOK
  <2>7. CASE PollOver(r, ok)
    <3>1. CASE ok
      BY <1>0, <2>7, <3>1, GotoStale DEF PollOver, Outcome, Answered, StaleFewer
    <3>2. CASE ~ok
      BY <1>0, <2>7, <3>2, GotoStale DEF PollOver, Outcome, Answered, Fault, StaleFault
    <3> QED BY <3>1, <3>2
  <2>8. CASE Leave(r, ok)
    <3>1. faults <= faults'
      BY <1>0, <2>8 DEF Leave, Answered, Fault
    <3>2. CASE pc[r] = "leave"
      BY <1>0, <2>8, <3>1, <3>2, ExitStale
         DEF Leave, TypeOK, StaleFewer, StaleOrphaned, Stale, Unconfirmed
    <3>3. CASE pc[r] # "leave"
      BY <1>0, <2>8, <3>1, <3>3, GotoStale DEF Leave, leaseVars, StaleFewer, Admitted, Renewed
    <3> QED BY <3>2, <3>3
  <2>9. CASE Release(r, ok)
    <3>1. PICK entries \in SUBSET Requests :
            entries \in Outcome(ok, slots, slots \ {r}) /\ Exit(r, entries)
      BY <2>9 DEF Release, Outcome, TypeOK
    <3>2. CASE ok
      BY <1>0, <2>9, <3>1, <3>2, ExitStale DEF Release, Outcome, Answered, StaleFewer
    <3>3. CASE ~ok
      BY <1>0, <2>9, <3>1, <3>3, ExitStale DEF Release, Outcome, Answered, Fault, StaleFault
    <3> QED BY <3>2, <3>3
  <2> QED BY <1>1, <2>1, <2>2, <2>3, <2>4, <2>5, <2>6, <2>7, <2>8, <2>9 DEF Continue
<1>2. ASSUME NEW r \in Requests, NEW ok \in BOOLEAN, Timer(r, ok)
      PROVE  StaleFewer \/ StaleFault(r)
  <2>1. CASE Renew(r)
    BY <1>0, <2>1 DEF Renew, leaseVars, StaleFewer, Stale, Unconfirmed
  <2>2. CASE ForceCleanup(r, ok)
    <3>1. PICK entries \in SUBSET Requests :
            /\ entries \in Outcome(ok, slots, slots \ {r})
            /\ orphans' = IF r \in entries THEN orphans + 1 ELSE orphans
            /\ Exit(r, entries) \/ (slots' = entries \ {r} /\ Goto(r, "overrun"))
      BY <2>2 DEF ForceCleanup, Outcome, TypeOK, Exit
    <3>2. Stale' \subseteq Stale \ {r}
      BY <3>1, ExitStale, GotoStale DEF Outcome
    <3>3. CASE ok
      BY <1>0, <2>2, <3>1, <3>2, <3>3 DEF ForceCleanup, Outcome, Answered, StaleFewer
    <3>4. CASE ~ok
      BY <1>0, <2>2, <3>1, <3>2, <3>4 DEF ForceCleanup, Answered, Fault, StaleFault
    <3> QED BY <3>3, <3>4
  <2>3. CASE LifetimeOver(r)
    BY <1>0, <2>3, GotoStale DEF LifetimeOver, leaseVars, StaleFewer, Admitted
  <2> QED BY <1>2, <2>1, <2>2, <2>3 DEF Timer
<1>3. ASSUME NEW r \in Requests, Happens(r)
      PROVE  StaleFewer \/ StaleOrphaned(r) \/ StaleFault(r)
  <2>1. CASE Arrive(r) \/ Finish(r) \/ FinishUnheard(r) \/ StopPolling(r)
    BY <1>0, <2>1, GotoStale
       DEF Arrive, Finish, FinishUnheard, StopPolling, leaseVars, StaleFewer, Unconfirmed,
           TypeOK, Admitted, Renewed
  <2>2. CASE AcquireFails(r)
    <3>1. PICK entries \in SUBSET Requests :
            entries \subseteq slots \cup {r} /\ Exit(r, entries)
      BY <2>2 DEF AcquireFails, Outcome, TypeOK
    <3> QED BY <1>0, <2>2, <3>1, ExitStale DEF AcquireFails, Fault, StaleFault
  <2>3. CASE QueueIncrFails(r) \/ Die(r)
    BY <1>0, <2>3, ExitStale DEF QueueIncrFails, Die, Fault, StaleFault, TypeOK
  <2>4. CASE PollFails(r)
    <3>1. Stale' \subseteq Stale \cup {r}
      BY <2>4 DEF PollFails, Outcome, Stale, Unconfirmed, TypeOK
    <3> QED BY <2>4, <3>1 DEF PollFails, Fault, StaleFault
  <2>5. CASE Disconnect(r)
    BY <1>0, <2>5 DEF Disconnect, leaseVars, StaleFewer, Stale, Unconfirmed, TypeOK
  <2>6. CASE OverrunEnds(r)
    BY <1>0, <2>6, ExitStale, GotoStale
       DEF OverrunEnds, leaseVars, StaleFewer, StaleOrphaned, Stale, Unconfirmed, TypeOK, Admitted
  <2>7. CASE LeaseLapses(r)
    BY <1>0, <2>7 DEF LeaseLapses, localVars, StaleFewer, Stale, Unconfirmed
  <2>8. CASE Outage(r)
    BY <2>8 DEF Outage, Fault, StaleFault, Stale, Unconfirmed
  <2> QED BY <1>3, <2>1, <2>2, <2>3, <2>4, <2>5, <2>6, <2>7, <2>8 DEF Happens
<1>4. ASSUME Around \/ UNCHANGED vars
      PROVE  StaleFewer
  BY <1>0, <1>4 DEF Around, OrphanLapses, QueueExpires, ClearSlots, ClearQueue, SweepRead,
              SweepDelete, Cleared, vars, localVars, leaseVars, StaleFewer, Stale, Unconfirmed
<1> QED BY <1>1, <1>2, <1>3, <1>4, NextCases

\* What the step lemma says in numbers.
LEMMA StaleSums ==
  ASSUME NEW a \in Nat, NEW b \in Nat, NEW o \in Nat, NEW p \in Nat, NEW f \in Nat, NEW g \in Nat,
         a + o <= f,
         \/ b <= a /\ p <= o /\ f <= g
         \/ b + 1 <= a /\ p = o + 1 /\ f <= g
         \/ g = f + 1 /\ ((b <= a + 1 /\ p = o) \/ (b <= a /\ p \in {o, o + 1}))
  PROVE  b + p <= g
  OBVIOUS

\* So the orphans, present and to come, stay within the faults.
LEMMA StaleAreFaultsStep ==
  ASSUME TypeOK, StaleAreFaults, [Next]_vars
  PROVE  StaleAreFaults'
<1> DEFINE a == Cardinality(Stale)
           b == Cardinality(Stale')
<1>1. /\ a \in Nat /\ b \in Nat /\ IsFiniteSet(Stale)
      /\ orphans \in Nat /\ orphans' \in Nat /\ faults \in Nat /\ faults' \in Nat
  BY FiniteSlots, StepTypeOK, SlotConstants DEF Stale, TypeOK
<1>2. a + orphans <= faults BY DEF StaleAreFaults
<1>3. SUFFICES b + orphans' <= faults' BY DEF StaleAreFaults
<1>4. CASE StaleFewer
  <2>1. b <= a BY <1>1, <1>4, FS_Subset DEF StaleFewer
  <2> QED BY <1>1, <1>2, <1>4, <2>1, StaleSums DEF StaleFewer
<1>5. ASSUME NEW r \in Requests, StaleOrphaned(r)
      PROVE  b + orphans' <= faults'
  <2>1. IsFiniteSet(Stale \ {r}) /\ Cardinality(Stale \ {r}) = a - 1
    BY <1>1, <1>5, FS_RemoveElement DEF StaleOrphaned
  <2>2. b <= Cardinality(Stale \ {r})
    BY <1>5, <2>1, FS_Subset DEF StaleOrphaned
  <2>3. b + 1 <= a BY <1>1, <2>1, <2>2
  <2> QED BY <1>1, <1>2, <1>5, <2>3, StaleSums DEF StaleOrphaned
<1>6. ASSUME NEW r \in Requests, StaleFault(r)
      PROVE  b + orphans' <= faults'
  <2>1. CASE Stale' \subseteq Stale \cup {r} /\ orphans' = orphans
    <3>1. /\ IsFiniteSet(Stale \cup {r})
          /\ Cardinality(Stale \cup {r}) \in {a, a + 1}
      BY <1>1, FS_AddElement
    <3>2. b <= Cardinality(Stale \cup {r}) BY <2>1, <3>1, FS_Subset
    <3>3. b <= a + 1 BY <1>1, <3>1, <3>2
    <3> QED BY <1>1, <1>2, <1>6, <2>1, <3>3, StaleSums DEF StaleFault
  <2>2. CASE Stale' \subseteq Stale /\ orphans' \in {orphans, orphans + 1}
    <3>1. b <= a BY <1>1, <2>2, FS_Subset
    <3> QED BY <1>1, <1>2, <1>6, <2>2, <3>1, StaleSums DEF StaleFault
  <2> QED BY <1>6, <2>1, <2>2 DEF StaleFault
<1> QED BY <1>4, <1>5, <1>6, StaleStep

\* An entry without a request comes from a fault, never from a path of the code.
THEOREM OrphansFromFaults == Spec => []OrphansAreFaults
<1>1. Init => StaleAreFaults
  <2>1. Init => Stale = {} BY DEF Init, Stale
  <2> QED BY <2>1, FS_EmptySet DEF Init, StaleAreFaults
<1>2. TypeOK /\ StaleAreFaults => OrphansAreFaults
  <2>1. ASSUME TypeOK PROVE Cardinality(Stale) \in Nat /\ orphans \in Nat /\ faults \in Nat
    BY <2>1, FiniteSlots, SlotConstants DEF Stale, TypeOK
  <2> QED BY <2>1 DEF StaleAreFaults, OrphansAreFaults
<1> QED BY <1>1, <1>2, StaleAreFaultsStep, TypeCorrect, PTL DEF Spec
=============================================================================
