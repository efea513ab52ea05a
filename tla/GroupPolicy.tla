----------------------------- MODULE GroupPolicy -----------------------------
(***************************************************************************)
(* The USD limits of an account group.  Before a request is scheduled in   *)
(* the group a script reserves what is left under every limit by adding it *)
(* to the cost counters, and leaves one hold key that says how much was    *)
(* reserved and for which day, week and month.  While the hold exists the  *)
(* group admits nobody.  Recording the usage of a request takes the hold   *)
(* away and replaces the reservation by the real cost; a request that ends *)
(* without a charge gives the reservation back.                            *)
(*                                                                         *)
(* The hold names no owner: whoever settles or releases takes the hold     *)
(* that is there.  A request only remembers that it took one               *)
(* (groupCostHoldGroupId, here target); the field owner of the hold below  *)
(* is a history field that no action reads.                                *)
(*                                                                         *)
(* Abstracted: the model whitelist, the client check and the requests-per- *)
(* minute counter are choices; costs are small integers, so the epsilon of *)
(* the scripts and the rounding of the payload do not show; the counters'  *)
(* own expiry (33 days and more) does not happen; one group, whose limits  *)
(* stay as they are.                                                       *)
(***************************************************************************)
EXTENDS Integers, FiniteSets

CONSTANTS
  Requests,   \* requests bound to the group
  Turns,      \* those that are turns of a WebSocket: the account is chosen already and
              \* assertAccountForWebSocket admits them; the others go through a
              \* scheduler (HTTP requests, and the selection that opens a WebSocket)
  Axes,       \* the limits: daily, weekly, monthly
  Rolls,      \* the axes that begin a new period when the day changes
  Limit,      \* the limit of each axis, 0 for none
  MaxCost,    \* a request costs 0..MaxCost
  LastDay,    \* bound: the days the clock shows are 0..LastDay
  MaxFaults,  \* bound: lost Redis commands and dying processes
  MaxLapses   \* bound: holds that outlive their TTL

NoHold == [day |-> -1]

ASSUME TurnsAreRequests == Turns \subseteq Requests
ASSUME RollsAreAxes     == Rolls \subseteq Axes
ASSUME LimitIsNat       == Limit \in [Axes -> Nat]
ASSUME CostIsNat        == MaxCost \in Nat
ASSUME BoundsAreNat     == LastDay \in Nat /\ MaxFaults \in Nat /\ MaxLapses \in Nat
\* A group without any limit never touches the hold.
ASSUME SomeLimit        == \E a \in Axes : Limit[a] > 0

Days == 0..LastDay

VARIABLES
  today,   \* the business day of the server's clock
  cost,    \* the cost counters, by axis and period
  hold,    \* the hold key: the reserved amounts and the day of the reservation
  pc,      \* where a request is
  target,  \* groupCostHoldGroupId of the request's key data is set
  due,     \* the usage of the request is still to be recorded
  spent,   \* (history) what requests were charged, by axis and period
  lost,    \* (history) reservations whose hold outlived its TTL
  strays,  \* (history) holds that went while their own request was in flight
  faults,  \* (bound)
  lapses   \* (bound)

vars == <<today, cost, hold, pc, target, due, spent, lost, strays, faults, lapses>>
clock == <<today, faults, lapses>>
money == <<spent, lost>>

\* The part of a counter's key that names its day, week or month.
Period(a, day) == IF a \in Rolls THEN day ELSE 0

Scheduled(r) == r \notin Turns

\* Adds an amount to the counter of every axis, in the period of a day.
Add(counter, amount, day) ==
  [a \in Axes |-> [counter[a] EXCEPT ![Period(a, day)] = @ + amount[a]]]

Nothing == [a \in Axes |-> 0]
Each(c) == [a \in Axes |-> c]
Minus(amount) == [a \in Axes |-> 0 - amount[a]]

Init ==
  /\ today = 0
  /\ cost = [a \in Axes |-> [p \in Days |-> 0]]
  /\ hold = NoHold
  /\ pc = [r \in Requests |-> "idle"]
  /\ target = [r \in Requests |-> FALSE]
  /\ due = [r \in Requests |-> FALSE]
  /\ spent = [a \in Axes |-> [p \in Days |-> 0]]
  /\ lost = [a \in Axes |-> [p \in Days |-> 0]]
  /\ strays = 0
  /\ faults = 0
  /\ lapses = 0

Goto(r, from, to) == pc[r] = from /\ pc' = [pc EXCEPT ![r] = to]

Fault == faults < MaxFaults /\ faults' = faults + 1

\* A request that is admitted, or served and not yet charged.
InFlight(r) == pc[r] = "admitted" \/ due[r]

\* History: the hold goes in this step, and its own request is in flight and not
\* one of those that are done with this step.
CountStray(done) ==
  LET stray == hold # NoHold /\ InFlight(hold.owner) /\ hold.owner \notin done
  IN strays' = IF stray THEN strays + 1 ELSE strays

-----------------------------------------------------------------------------
(***************************************************************************)
(* The three scripts.                                                      *)
(***************************************************************************)
\* reserved_of: what is left under a limit today.
Remaining(a) == IF Limit[a] = 0 THEN 0 ELSE Limit[a] - cost[a][Period(a, today)]

\* mutant: a limit that is reached still admits
HasRoomAtLimit == \A a \in Axes : Limit[a] > 0 => Remaining(a) >= 0

HasRoom == \A a \in Axes : Limit[a] > 0 => Remaining(a) > 0

Reserve(r) ==
  /\ hold = NoHold
  /\ HasRoom
  /\ LET reserved == [a \in Axes |-> Remaining(a)]
     IN /\ cost' = Add(cost, reserved, today)
        /\ hold' = [day |-> today, reserved |-> reserved, owner |-> r]

\* mutant: the reservation goes back to the periods of today
ReleaseToToday(done) ==
  /\ hold' = NoHold
  /\ cost' = IF hold = NoHold THEN cost
             ELSE Add(cost, Minus(hold.reserved), today)
  /\ CountStray(done)

\* mutant: GET instead of GETDEL, the reservation goes back once per release
ReleaseKeepsHold(done) ==
  /\ hold' = hold
  /\ cost' = IF hold = NoHold THEN cost
             ELSE Add(cost, Minus(hold.reserved), hold.day)
  /\ CountStray(done)

\* GETDEL of the hold, and the reservation goes back to the periods it came from.
ReleaseHold(done) ==
  /\ hold' = NoHold
  /\ cost' = IF hold = NoHold THEN cost
             ELSE Add(cost, Minus(hold.reserved), hold.day)
  /\ CountStray(done)

\* mutant: GET instead of GETDEL
SettleKeepsHold(r, c) ==
  LET day      == IF hold = NoHold THEN today ELSE hold.day
      reserved == IF hold = NoHold THEN Nothing ELSE hold.reserved
  IN /\ hold' = hold
     /\ cost' = Add(Add(cost, Minus(reserved), day), Each(c), day)
     /\ spent' = Add(spent, Each(c), day)
     /\ CountStray({r})

\* GETDEL of the hold, and the reservation gives way to the real cost; without
\* a hold the cost is added to the periods of today.
SettleHold(r, c) ==
  LET day      == IF hold = NoHold THEN today ELSE hold.day
      reserved == IF hold = NoHold THEN Nothing ELSE hold.reserved
  IN /\ hold' = NoHold
     /\ cost' = Add(Add(cost, Minus(reserved), day), Each(c), day)
     /\ spent' = Add(spent, Each(c), day)
     /\ CountStray({r})

-----------------------------------------------------------------------------
(***************************************************************************)
(* Scheduling.                                                             *)
(***************************************************************************)
\* The script reserves and the request remembers that it holds.
Admit(r) ==
  /\ Goto(r, "idle", "admitted")
  /\ Reserve(r)
  /\ target' = [target EXCEPT ![r] = TRUE]
  /\ UNCHANGED <<due, clock, money, strays>>

\* The answer of the script is lost: the hold is there, the request does not
\* know.  A scheduler's catch releases all the same, a turn only ends.
AdmitLost(r) ==
  /\ Fault
  /\ Goto(r, "idle", IF Scheduled(r) THEN "denied" ELSE "over")
  /\ Reserve(r)
  /\ UNCHANGED <<target, due, today, lapses, money, strays>>

\* The script refuses: another request is in flight, or a limit is reached.
Deny(r) ==
  /\ hold # NoHold \/ ~HasRoom
  /\ Goto(r, "idle", IF Scheduled(r) THEN "denied" ELSE "over")
  /\ UNCHANGED <<cost, hold, target, due, clock, money, strays>>

\* The group's whitelist or client check refuses before the script is asked, or
\* the selection defers admission and finds no account.
Refuse(r) ==
  /\ Goto(r, "idle", IF Scheduled(r) THEN "denied" ELSE "over")
  /\ UNCHANGED <<cost, hold, target, due, clock, money, strays>>

\* mutant: the request only forgets its mark
RpmExceededKeepsHold(r) ==
  /\ Goto(r, "admitted", IF Scheduled(r) THEN "denied" ELSE "over")
  /\ target' = [target EXCEPT ![r] = FALSE]
  /\ UNCHANGED <<cost, hold, due, clock, money, strays>>

\* Too many requests this minute: the reservation is given back at once, and
\* the error goes through the scheduler's catch.
RpmExceeded(r) ==
  /\ Goto(r, "admitted", IF Scheduled(r) THEN "denied" ELSE "over")
  /\ ReleaseHold({r})
  /\ target' = [target EXCEPT ![r] = FALSE]
  /\ UNCHANGED <<due, clock, money>>

\* No account of the group is usable: the scheduler's catch clears the request's
\* mark before it releases.
SelectionFails(r) ==
  /\ Scheduled(r)
  /\ Goto(r, "admitted", "denied")
  /\ target' = [target EXCEPT ![r] = FALSE]
  /\ UNCHANGED <<cost, hold, due, clock, money, strays>>

\* releaseGroupCostHoldOnce of the scheduler's catch, for every error alike.
ReleaseInCatch(r) ==
  /\ Goto(r, "denied", "over")
  /\ ReleaseHold({})
  /\ UNCHANGED <<target, due, clock, money>>

ReleaseInCatchFails(r) ==
  /\ Fault
  /\ Goto(r, "denied", "over")
  /\ UNCHANGED <<cost, hold, target, due, today, lapses, money, strays>>

\* An account is selected and the upstream is called.
Serve(r) ==
  /\ Goto(r, "admitted", "serving")
  /\ due' = [due EXCEPT ![r] = TRUE]
  /\ UNCHANGED <<cost, hold, target, clock, money, strays>>

-----------------------------------------------------------------------------
(***************************************************************************)
(* The usage of a request, and its end.  An HTTP response may close before *)
(* its usage is recorded, and after; a turn is released only when its      *)
(* usage has been dealt with, and recording clears its mark.               *)
(***************************************************************************)
Recorded(r) ==
  /\ due[r]
  /\ due' = [due EXCEPT ![r] = FALSE]
  /\ target' = IF Scheduled(r) THEN target ELSE [target EXCEPT ![r] = FALSE]

RecordUsage(r) ==
  /\ Recorded(r)
  /\ \E c \in 0..MaxCost : SettleHold(r, c)
  /\ UNCHANGED <<pc, lost, clock>>

\* recordGroupUsageCost swallows the error of a lost command.
RecordFails(r) ==
  /\ Fault
  /\ Recorded(r)
  /\ UNCHANGED <<cost, hold, pc, money, strays, today, lapses>>

\* The upstream reported no usage, or billing failed before the group's cost.
NoUsage(r) ==
  /\ due[r]
  /\ due' = [due EXCEPT ![r] = FALSE]
  /\ UNCHANGED <<cost, hold, pc, target, clock, money, strays>>

\* close, finish or the release of the turn: a request that still has its mark
\* releases.
Closing(r) ==
  /\ Goto(r, "serving", "over")
  /\ ~Scheduled(r) => ~due[r]
  /\ target' = [target EXCEPT ![r] = FALSE]

Close(r) ==
  /\ Closing(r)
  /\ IF target[r] THEN ReleaseHold({}) ELSE UNCHANGED <<cost, hold, strays>>
  /\ UNCHANGED <<due, clock, money>>

CloseFails(r) ==
  /\ Fault
  /\ Closing(r)
  /\ target[r]
  /\ UNCHANGED <<cost, hold, due, money, strays, today, lapses>>

\* The process of the request dies.
Crash(r) ==
  /\ Fault
  /\ pc[r] # "idle"
  /\ pc[r] # "over" \/ due[r]
  /\ pc' = [pc EXCEPT ![r] = "over"]
  /\ target' = [target EXCEPT ![r] = FALSE]
  /\ due' = [due EXCEPT ![r] = FALSE]
  /\ UNCHANGED <<cost, hold, money, strays, today, lapses>>

-----------------------------------------------------------------------------
(***************************************************************************)
(* Time.                                                                   *)
(***************************************************************************)
\* The TTL of the hold, two hours: what it reserved stays in the counters.
HoldLapses ==
  /\ lapses < MaxLapses
  /\ hold # NoHold
  /\ lapses' = lapses + 1
  /\ hold' = NoHold
  /\ lost' = Add(lost, hold.reserved, hold.day)
  /\ UNCHANGED <<cost, pc, target, due, spent, today, faults>>
  /\ CountStray({})

Midnight ==
  /\ today < LastDay
  /\ today' = today + 1
  /\ UNCHANGED <<cost, hold, pc, target, due, money, strays, faults, lapses>>

\* Every request is answered and charged.
Finished ==
  /\ \A r \in Requests : pc[r] = "over" /\ ~due[r]
  /\ UNCHANGED vars

Admission(r) ==
  \/ Admit(r) \/ AdmitLost(r) \/ Deny(r) \/ Refuse(r) \/ RpmExceeded(r)
  \/ SelectionFails(r) \/ ReleaseInCatch(r) \/ ReleaseInCatchFails(r) \/ Serve(r)

Ending(r) ==
  \/ RecordUsage(r) \/ RecordFails(r) \/ NoUsage(r) \/ Close(r) \/ CloseFails(r)
  \/ Crash(r)

Next ==
  \/ \E r \in Requests : Admission(r) \/ Ending(r)
  \/ HoldLapses
  \/ Midnight
  \/ Finished

Spec == Init /\ [][Next]_vars

(***************************************************************************)
(* A request that was admitted is served or given up, its upstream answers *)
(* or times out, and its connection ends: each of these steps is taken.    *)
(***************************************************************************)
Fairness ==
  \A r \in Requests :
    /\ WF_vars(Serve(r)) /\ WF_vars(ReleaseInCatch(r))
    /\ WF_vars(RecordUsage(r) \/ NoUsage(r)) /\ WF_vars(Close(r))

FairSpec == Spec /\ Fairness

-----------------------------------------------------------------------------
(***************************************************************************)
(* Properties.                                                             *)
(***************************************************************************)
PcValues == {"idle", "admitted", "denied", "serving", "over"}

Counters == [Axes -> [Days -> Nat]]

\* Every variable keeps its type: counters are never negative, whoever's hold is
\* settled or released.
TypeOK ==
  /\ today \in Days
  /\ cost \in Counters
  /\ \/ hold = NoHold
     \/ hold \in [day : Days, reserved : [Axes -> Nat], owner : Requests]
  /\ pc \in [Requests -> PcValues]
  /\ target \in [Requests -> BOOLEAN]
  /\ due \in [Requests -> BOOLEAN]
  /\ spent \in Counters
  /\ lost \in Counters
  /\ strays \in Nat
  /\ faults \in 0..MaxFaults
  /\ lapses \in 0..MaxLapses

\* What the hold has reserved in a period.
Held(a, p) ==
  IF hold # NoHold /\ p = Period(a, hold.day) THEN hold.reserved[a] ELSE 0

\* A cost counter is what requests were charged, plus what the hold reserves,
\* plus the reservations of holds that outlived their TTL - whoever's hold a
\* release or a settlement takes, in whatever order and across midnight.
CostAccounts ==
  \A a \in Axes, p \in Days : cost[a][p] = spent[a][p] + lost[a][p] + Held(a, p)

\* While the hold exists every limited counter of its periods stands exactly at
\* the limit, so the counters refuse even if the hold key is not looked at.
ReservationFillsLimit ==
  hold # NoHold =>
    \A a \in Axes : Limit[a] > 0 => cost[a][Period(a, hold.day)] = Limit[a]

\* Spending passes a limit by one cost, and by one more for every hold that went
\* before its own request was charged: only behind those do requests stack up.
OverrunWithinStrays ==
  \A a \in Axes, p \in Days :
    Limit[a] > 0 => spent[a][p] < Limit[a] + MaxCost * (strays + 1)

\* The header of account_group_policy.js: one request may exceed the limit with
\* its own cost, and nothing stacks up beside it.
OverrunIsOneRequest ==
  \A a \in Axes, p \in Days : Limit[a] > 0 => spent[a][p] < Limit[a] + MaxCost

\* Unless a command was lost, a process died or a hold outlived its TTL, the
\* counters finally show what was spent: every reservation is given back.
CountersSettle == <>[](faults = 0 /\ lapses = 0 => cost = spent)

=============================================================================
