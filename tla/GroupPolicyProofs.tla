-------------------------- MODULE GroupPolicyProofs --------------------------
(***************************************************************************)
(* Theorems about GroupPolicy for every set of requests, every set of axes *)
(* and limits, and every bound.                                            *)
(*                                                                         *)
(* The money invariant is about the counters and the hold only, so the     *)
(* three scripts and the lapse of the hold are treated once each, as facts *)
(* about constant values (c, h, sp and lo for cost, hold, spent and lost), *)
(* and every action of a request is one of them or leaves the money alone. *)
(***************************************************************************)
EXTENDS GroupPolicy, FiniteSetTheorems, TLAPS

Holds == [day : Days, reserved : [Axes -> Nat], owner : Requests]

HeldIn(h, a, p) == IF h # NoHold /\ p = Period(a, h.day) THEN h.reserved[a] ELSE 0

\* CostAccounts and ReservationFillsLimit of given values.
Accounts(c, h, sp, lo) ==
  \A a \in Axes, p \in Days : c[a][p] = sp[a][p] + lo[a][p] + HeldIn(h, a, p)

Fills(c, h) ==
  h # NoHold => \A a \in Axes : Limit[a] > 0 => c[a][Period(a, h.day)] = Limit[a]

MoneyTyped(c, h, sp, lo) ==
  /\ c \in Counters /\ sp \in Counters /\ lo \in Counters
  /\ h = NoHold \/ h \in Holds

MoneyOK(c, h, sp, lo) == MoneyTyped(c, h, sp, lo) /\ Accounts(c, h, sp, lo) /\ Fills(c, h)

IntCounters == [Axes -> [Days -> Int]]

LEMMA PeriodIsDay ==
  ASSUME NEW a \in Axes, NEW day \in Days
  PROVE  Period(a, day) \in Days
BY BoundsAreNat DEF Period, Days

LEMMA AddTyped ==
  ASSUME NEW c \in IntCounters, NEW amount \in [Axes -> Int], NEW day \in Days
  PROVE  Add(c, amount, day) \in IntCounters
BY PeriodIsDay DEF Add, IntCounters

LEMMA AddAt ==
  ASSUME NEW c \in IntCounters, NEW amount \in [Axes -> Int], NEW day \in Days,
         NEW a \in Axes, NEW p \in Days
  PROVE  Add(c, amount, day)[a][p] =
           IF p = Period(a, day) THEN c[a][p] + amount[a] ELSE c[a][p]
BY PeriodIsDay DEF Add, IntCounters

LEMMA CountersAreInt == Counters \subseteq IntCounters
BY DEF Counters, IntCounters

\* A counter that is given by the accounts is a natural number.
LEMMA AccountsAreNat ==
  ASSUME NEW c \in IntCounters, NEW h, NEW sp \in Counters, NEW lo \in Counters,
         h = NoHold \/ h \in Holds, Accounts(c, h, sp, lo)
  PROVE  c \in Counters
<1>1. \A a \in Axes, p \in Days : HeldIn(h, a, p) \in Nat
  BY DEF HeldIn, Holds
<1>2. ASSUME NEW a \in Axes, NEW p \in Days PROVE c[a][p] \in Nat
  <2>1. sp[a][p] \in Nat /\ lo[a][p] \in Nat /\ HeldIn(h, a, p) \in Nat
    BY <1>1 DEF Counters
  <2>2. c[a][p] = sp[a][p] + lo[a][p] + HeldIn(h, a, p)
    BY DEF Accounts
  <2> QED BY <2>1, <2>2
<1> QED BY <1>2 DEF Counters, IntCounters

LEMMA NoHoldIsNoHold == NoHold \notin Holds
<1>1. NoHold.day = -1
  BY DEF NoHold
<1>2. \A h \in Holds : h.day # -1
  BY BoundsAreNat DEF Holds, Days
<1> QED BY <1>1, <1>2

-----------------------------------------------------------------------------
(***************************************************************************)
(* The scripts on values.                                                  *)
(***************************************************************************)
LEMMA ReserveKeeps ==
  ASSUME NEW c, NEW sp, NEW lo, MoneyOK(c, NoHold, sp, lo),
         NEW day \in Days, NEW r \in Requests,
         NEW reserved \in [Axes -> Nat],
         \A a \in Axes : Limit[a] > 0 => reserved[a] = Limit[a] - c[a][Period(a, day)],
         NEW h, h = [day |-> day, reserved |-> reserved, owner |-> r]
  PROVE  MoneyOK(Add(c, reserved, day), h, sp, lo)
<1> DEFINE d == Add(c, reserved, day)
<1>1. c \in Counters /\ c \in IntCounters /\ sp \in Counters /\ lo \in Counters
  BY CountersAreInt DEF MoneyOK, MoneyTyped
<1>2. h \in Holds /\ h # NoHold /\ h.day = day /\ h.reserved = reserved
  BY NoHoldIsNoHold DEF Holds
<1>3. reserved \in [Axes -> Int]
  OBVIOUS
<1>4. ASSUME NEW a \in Axes, NEW p \in Days
      PROVE  d[a][p] = sp[a][p] + lo[a][p] + HeldIn(h, a, p)
  <2>1. c[a][p] = sp[a][p] + lo[a][p]
    <3>1. c[a][p] = sp[a][p] + lo[a][p] + HeldIn(NoHold, a, p)
      BY DEF MoneyOK, Accounts
    <3>2. HeldIn(NoHold, a, p) = 0
      BY DEF HeldIn
    <3>3. sp[a][p] \in Nat /\ lo[a][p] \in Nat
      BY <1>1 DEF Counters
    <3> QED BY <3>1, <3>2, <3>3
  <2>2. d[a][p] = IF p = Period(a, day) THEN c[a][p] + reserved[a] ELSE c[a][p]
    BY <1>1, <1>3, AddAt
  <2>3. HeldIn(h, a, p) = IF p = Period(a, day) THEN reserved[a] ELSE 0
    BY <1>2 DEF HeldIn
  <2>4. sp[a][p] \in Nat /\ lo[a][p] \in Nat /\ reserved[a] \in Nat
    BY <1>1 DEF Counters
  <2> QED BY <2>1, <2>2, <2>3, <2>4
<1>5. Accounts(d, h, sp, lo)
  BY <1>4 DEF Accounts
<1>6. d \in Counters
  <2>1. d \in IntCounters
    BY <1>1, <1>3, AddTyped
  <2> QED BY <2>1, <1>1, <1>2, <1>5, AccountsAreNat
<1>7. ASSUME NEW a \in Axes, Limit[a] > 0
      PROVE  d[a][Period(a, day)] = Limit[a]
  <2>1. d[a][Period(a, day)] = c[a][Period(a, day)] + reserved[a]
    BY <1>1, <1>3, AddAt, PeriodIsDay
  <2>2. reserved[a] = Limit[a] - c[a][Period(a, day)]
    BY <1>7
  <2>3. c[a][Period(a, day)] \in Nat /\ Limit[a] \in Nat
    BY <1>1, PeriodIsDay, LimitIsNat DEF Counters
  <2> QED BY <2>1, <2>2, <2>3
<1> QED BY <1>1, <1>2, <1>5, <1>6, <1>7 DEF MoneyOK, MoneyTyped, Fills

LEMMA ReleaseKeeps ==
  ASSUME NEW c, NEW h \in Holds, NEW sp, NEW lo, MoneyOK(c, h, sp, lo)
  PROVE  /\ Add(c, Minus(h.reserved), h.day) \in Counters
         /\ MoneyOK(Add(c, Minus(h.reserved), h.day), NoHold, sp, lo)
<1> DEFINE d == Add(c, Minus(h.reserved), h.day)
<1>1. c \in Counters /\ c \in IntCounters /\ sp \in Counters /\ lo \in Counters
  BY CountersAreInt DEF MoneyOK, MoneyTyped
<1>2. h # NoHold /\ h.day \in Days /\ h.reserved \in [Axes -> Nat]
  BY NoHoldIsNoHold DEF Holds
<1>3. Minus(h.reserved) \in [Axes -> Int]
  BY <1>2 DEF Minus
<1>4. ASSUME NEW a \in Axes, NEW p \in Days
      PROVE  d[a][p] = sp[a][p] + lo[a][p] + HeldIn(NoHold, a, p)
  <2>1. c[a][p] = sp[a][p] + lo[a][p] + HeldIn(h, a, p)
    BY DEF MoneyOK, Accounts
  <2>2. d[a][p] = IF p = Period(a, h.day) THEN c[a][p] + Minus(h.reserved)[a] ELSE c[a][p]
    BY <1>1, <1>2, <1>3, AddAt
  <2>3. HeldIn(h, a, p) = IF p = Period(a, h.day) THEN h.reserved[a] ELSE 0
    BY <1>2 DEF HeldIn
  <2>4. /\ sp[a][p] \in Nat /\ lo[a][p] \in Nat /\ h.reserved[a] \in Nat
        /\ Minus(h.reserved)[a] = 0 - h.reserved[a] /\ HeldIn(NoHold, a, p) = 0
    BY <1>1, <1>2 DEF Counters, Minus, HeldIn
  <2> QED BY <2>1, <2>2, <2>3, <2>4
<1>5. Accounts(d, NoHold, sp, lo)
  BY <1>4 DEF Accounts
<1>6. d \in Counters
  <2>1. d \in IntCounters
    BY <1>1, <1>2, <1>3, AddTyped
  <2> QED BY <2>1, <1>1, <1>5, AccountsAreNat
<1> QED BY <1>1, <1>5, <1>6 DEF MoneyOK, MoneyTyped, Fills

LEMMA ChargeKeeps ==
  ASSUME NEW c, NEW sp, NEW lo, MoneyOK(c, NoHold, sp, lo),
         NEW amount \in Nat, NEW day \in Days
  PROVE  MoneyOK(Add(c, Each(amount), day), NoHold, Add(sp, Each(amount), day), lo)
<1> DEFINE d == Add(c, Each(amount), day)
           s == Add(sp, Each(amount), day)
<1>1. /\ c \in Counters /\ c \in IntCounters /\ lo \in Counters
      /\ sp \in Counters /\ sp \in IntCounters
  BY CountersAreInt DEF MoneyOK, MoneyTyped
<1>2. Each(amount) \in [Axes -> Int] /\ \A a \in Axes : Each(amount)[a] = amount
  BY DEF Each
<1>3. ASSUME NEW a \in Axes, NEW p \in Days
      PROVE  /\ d[a][p] = s[a][p] + lo[a][p] + HeldIn(NoHold, a, p)
             /\ s[a][p] \in Nat
  <2>1. c[a][p] = sp[a][p] + lo[a][p] + HeldIn(NoHold, a, p)
    BY DEF MoneyOK, Accounts
  <2>2. d[a][p] = IF p = Period(a, day) THEN c[a][p] + amount ELSE c[a][p]
    BY <1>1, <1>2, AddAt
  <2>3. s[a][p] = IF p = Period(a, day) THEN sp[a][p] + amount ELSE sp[a][p]
    BY <1>1, <1>2, AddAt
  <2>4. sp[a][p] \in Nat /\ lo[a][p] \in Nat /\ HeldIn(NoHold, a, p) = 0
    BY <1>1 DEF Counters, HeldIn
  <2> QED BY <2>1, <2>2, <2>3, <2>4
<1>4. Accounts(d, NoHold, s, lo)
  BY <1>3 DEF Accounts
<1>5. d \in IntCounters /\ s \in IntCounters
  BY <1>1, <1>2, AddTyped
<1>6. s \in Counters
  BY <1>3, <1>5 DEF Counters, IntCounters
<1>7. d \in Counters
  BY <1>1, <1>4, <1>5, <1>6, AccountsAreNat
<1> QED BY <1>1, <1>4, <1>6, <1>7 DEF MoneyOK, MoneyTyped, Fills

LEMMA LapseKeeps ==
  ASSUME NEW c, NEW h \in Holds, NEW sp, NEW lo, MoneyOK(c, h, sp, lo)
  PROVE  MoneyOK(c, NoHold, sp, Add(lo, h.reserved, h.day))
<1> DEFINE m == Add(lo, h.reserved, h.day)
<1>1. /\ c \in Counters /\ sp \in Counters
      /\ lo \in Counters /\ lo \in IntCounters
  BY CountersAreInt DEF MoneyOK, MoneyTyped
<1>2. h # NoHold /\ h.day \in Days /\ h.reserved \in [Axes -> Nat]
  BY NoHoldIsNoHold DEF Holds
<1>3. h.reserved \in [Axes -> Int]
  BY <1>2
<1>4. ASSUME NEW a \in Axes, NEW p \in Days
      PROVE  /\ c[a][p] = sp[a][p] + m[a][p] + HeldIn(NoHold, a, p)
             /\ m[a][p] \in Nat
  <2>1. c[a][p] = sp[a][p] + lo[a][p] + HeldIn(h, a, p)
    BY DEF MoneyOK, Accounts
  <2>2. m[a][p] = IF p = Period(a, h.day) THEN lo[a][p] + h.reserved[a] ELSE lo[a][p]
    BY <1>1, <1>2, <1>3, AddAt
  <2>3. HeldIn(h, a, p) = IF p = Period(a, h.day) THEN h.reserved[a] ELSE 0
    BY <1>2 DEF HeldIn
  <2>4. /\ sp[a][p] \in Nat /\ lo[a][p] \in Nat /\ h.reserved[a] \in Nat
        /\ HeldIn(NoHold, a, p) = 0
    BY <1>1, <1>2 DEF Counters, HeldIn
  <2> QED BY <2>1, <2>2, <2>3, <2>4
<1>5. Accounts(c, NoHold, sp, m)
  BY <1>4 DEF Accounts
<1>6. m \in IntCounters
  BY <1>1, <1>2, <1>3, AddTyped
<1>7. m \in Counters
  BY <1>4, <1>6 DEF Counters, IntCounters
<1> QED BY <1>1, <1>5, <1>7 DEF MoneyOK, MoneyTyped, Fills

-----------------------------------------------------------------------------
(***************************************************************************)
(* The inductive invariant: the types, and the money invariant.  Neither   *)
(* holds without the other: that a counter is a natural number after a     *)
(* reservation is taken off follows from the accounts.                     *)
(***************************************************************************)
Money == MoneyOK(cost, hold, spent, lost)

\* The part of the type invariant that is not about money.
RestTyped ==
  /\ today \in Days
  /\ pc \in [Requests -> PcValues]
  /\ target \in [Requests -> BOOLEAN]
  /\ due \in [Requests -> BOOLEAN]
  /\ strays \in Nat
  /\ faults \in 0..MaxFaults
  /\ lapses \in 0..MaxLapses

IInv == RestTyped /\ Money

LEMMA IInvGives == IInv => TypeOK /\ CostAccounts /\ ReservationFillsLimit
<1> SUFFICES ASSUME IInv PROVE TypeOK /\ CostAccounts /\ ReservationFillsLimit
  OBVIOUS
<1>1. TypeOK
  BY DEF IInv, RestTyped, Money, MoneyOK, MoneyTyped, Holds, TypeOK
<1>2. \A a \in Axes, p \in Days : HeldIn(hold, a, p) = Held(a, p)
  BY DEF HeldIn, Held
<1>3. CostAccounts
  BY <1>2 DEF IInv, Money, MoneyOK, Accounts, CostAccounts
<1>4. ReservationFillsLimit
  BY DEF IInv, Money, MoneyOK, Fills, ReservationFillsLimit
<1> QED BY <1>1, <1>3, <1>4

LEMMA InitIInv == Init => IInv
<1> SUFFICES ASSUME Init PROVE IInv
  OBVIOUS
<1>1. 0 \in Days /\ 0 \in 0..MaxFaults /\ 0 \in 0..MaxLapses
  BY BoundsAreNat DEF Days
<1>2. RestTyped
  BY <1>1 DEF Init, RestTyped, PcValues
<1>3. MoneyTyped(cost, hold, spent, lost)
  BY DEF Init, MoneyTyped, Counters
<1>4. Accounts(cost, hold, spent, lost)
  BY DEF Init, Accounts, HeldIn
<1>5. Fills(cost, hold)
  BY DEF Init, Fills
<1> QED BY <1>2, <1>3, <1>4, <1>5 DEF IInv, Money, MoneyOK

LEMMA ReserveStep ==
  ASSUME IInv, NEW r \in Requests, Reserve(r), UNCHANGED money
  PROVE  Money'
<1> DEFINE reserved == [a \in Axes |-> Remaining(a)]
<1>1. today \in Days /\ hold = NoHold /\ cost \in Counters
  BY DEF IInv, RestTyped, Reserve, Money, MoneyOK, MoneyTyped
<1>2. \A a \in Axes : cost[a][Period(a, today)] \in Nat /\ Limit[a] \in Nat
  BY <1>1, PeriodIsDay, LimitIsNat DEF Counters
<1>3. \A a \in Axes : Remaining(a) \in Nat
  <2> SUFFICES ASSUME NEW a \in Axes PROVE Remaining(a) \in Nat
    OBVIOUS
  <2>1. CASE Limit[a] = 0
    BY <2>1 DEF Remaining
  <2>2. CASE Limit[a] # 0
    <3>1. Limit[a] > 0
      BY <2>2, <1>2
    <3>2. Remaining(a) = Limit[a] - cost[a][Period(a, today)] /\ Remaining(a) > 0
      BY <2>2, <3>1 DEF Remaining, Reserve, HasRoom
    <3> QED BY <3>2, <1>2
  <2> QED BY <2>1, <2>2
<1>4. reserved \in [Axes -> Nat]
  BY <1>3
<1>5. \A a \in Axes : Limit[a] > 0 => reserved[a] = Limit[a] - cost[a][Period(a, today)]
  BY <1>2 DEF Remaining
<1>6. /\ cost' = Add(cost, reserved, today)
      /\ hold' = [day |-> today, reserved |-> reserved, owner |-> r]
  BY DEF Reserve
<1>7. MoneyOK(cost, NoHold, spent, lost)
  BY <1>1 DEF IInv, Money
<1>8. MoneyOK(Add(cost, reserved, today), hold', spent, lost)
  BY <1>1, <1>4, <1>5, <1>6, <1>7, ReserveKeeps
<1>9. spent' = spent /\ lost' = lost
  BY DEF money
<1> QED BY <1>6, <1>8, <1>9 DEF Money

LEMMA ReleaseStep ==
  ASSUME IInv, NEW done, ReleaseHold(done), UNCHANGED money
  PROVE  Money'
<1>1. spent' = spent /\ lost' = lost /\ hold' = NoHold
  BY DEF money, ReleaseHold
<1>2. CASE hold = NoHold
  <2>1. cost' = cost
    BY <1>2 DEF ReleaseHold
  <2> QED BY <2>1, <1>1, <1>2 DEF IInv, Money
<1>3. CASE hold # NoHold
  <2>1. hold \in Holds
    BY <1>3 DEF IInv, Money, MoneyOK, MoneyTyped
  <2>2. cost' = Add(cost, Minus(hold.reserved), hold.day)
    BY <1>3 DEF ReleaseHold
  <2>3. MoneyOK(Add(cost, Minus(hold.reserved), hold.day), NoHold, spent, lost)
    BY <2>1, ReleaseKeeps DEF IInv, Money
  <2> QED BY <1>1, <2>2, <2>3 DEF Money
<1> QED BY <1>2, <1>3

LEMMA SettleStep ==
  ASSUME IInv, NEW r \in Requests, NEW c \in 0..MaxCost, SettleHold(r, c), lost' = lost
  PROVE  Money'
<1>1. c \in Nat
  BY CostIsNat
<1>2. hold' = NoHold
  BY DEF SettleHold
<1>3. CASE hold = NoHold
  <2> DEFINE d == Add(cost, Minus(Nothing), today)
  <2>1. /\ cost' = Add(d, Each(c), today)
        /\ spent' = Add(spent, Each(c), today)
    BY <1>3 DEF SettleHold
  <2>2. today \in Days /\ cost \in Counters
    BY DEF IInv, RestTyped, Money, MoneyOK, MoneyTyped
  <2>3. d = cost
    <3>1. cost \in IntCounters /\ Minus(Nothing) \in [Axes -> Int]
      BY <2>2, CountersAreInt DEF Minus, Nothing
    <3>2. d \in IntCounters
      BY <3>1, <2>2, AddTyped
    <3>3. ASSUME NEW a \in Axes, NEW p \in Days PROVE d[a][p] = cost[a][p]
      <4>1. d[a][p] = IF p = Period(a, today) THEN cost[a][p] + Minus(Nothing)[a]
                      ELSE cost[a][p]
        BY <3>1, <2>2, AddAt
      <4>2. Minus(Nothing)[a] = 0
        <5>1. Nothing[a] = 0
          BY DEF Nothing
        <5>2. Minus(Nothing)[a] = 0 - Nothing[a]
          BY DEF Minus
        <5> QED BY <5>1, <5>2
      <4>3. cost[a][p] \in Nat
        BY <2>2 DEF Counters
      <4> QED BY <4>1, <4>2, <4>3
    <3>4. ASSUME NEW a \in Axes PROVE d[a] = cost[a]
      <4>1. d[a] \in [Days -> Int] /\ cost[a] \in [Days -> Int]
        BY <3>1, <3>2 DEF IntCounters
      <4> QED BY <4>1, <3>3
    <3> QED BY <3>1, <3>2, <3>4 DEF IntCounters
  <2>4. MoneyOK(cost, NoHold, spent, lost)
    BY <1>3 DEF IInv, Money
  <2>5. MoneyOK(Add(cost, Each(c), today), NoHold, Add(spent, Each(c), today), lost)
    BY <1>1, <2>2, <2>4, ChargeKeeps
  <2> QED BY <1>2, <2>1, <2>3, <2>5 DEF Money
<1>4. CASE hold # NoHold
  <2> DEFINE d == Add(cost, Minus(hold.reserved), hold.day)
  <2>1. hold \in Holds /\ hold.day \in Days
    BY <1>4 DEF IInv, Money, MoneyOK, MoneyTyped, Holds
  <2>2. /\ cost' = Add(d, Each(c), hold.day)
        /\ spent' = Add(spent, Each(c), hold.day)
    BY <1>4 DEF SettleHold
  <2>3. MoneyOK(d, NoHold, spent, lost)
    BY <2>1, ReleaseKeeps DEF IInv, Money
  <2>4. MoneyOK(Add(d, Each(c), hold.day), NoHold, Add(spent, Each(c), hold.day), lost)
    BY <1>1, <2>1, <2>3, ChargeKeeps
  <2> QED BY <1>2, <2>2, <2>4 DEF Money
<1> QED BY <1>3, <1>4

LEMMA LapseStep == ASSUME IInv, HoldLapses PROVE Money'
<1>1. hold \in Holds
  BY DEF HoldLapses, IInv, Money, MoneyOK, MoneyTyped
<1>2. /\ cost' = cost /\ hold' = NoHold /\ spent' = spent
      /\ lost' = Add(lost, hold.reserved, hold.day)
  BY DEF HoldLapses
<1>3. MoneyOK(cost, NoHold, spent, Add(lost, hold.reserved, hold.day))
  BY <1>1, LapseKeeps DEF IInv, Money
<1> QED BY <1>2, <1>3 DEF Money

LEMMA SameMoney ==
  ASSUME IInv, UNCHANGED <<cost, hold, spent, lost>>
  PROVE  Money'
BY DEF IInv, Money

LEMMA StrayCounted ==
  ASSUME strays \in Nat, NEW done, CountStray(done)
  PROVE  strays' \in Nat
BY DEF CountStray

LEMMA FaultCounted ==
  ASSUME faults \in 0..MaxFaults, Fault
  PROVE  faults' \in 0..MaxFaults
BY BoundsAreNat DEF Fault

LEMMA NextIInv == IInv /\ [Next]_vars => IInv'
<1> SUFFICES ASSUME IInv, [Next]_vars PROVE IInv'
  OBVIOUS
<1> USE DEF IInv, PcValues
<1>1. ASSUME NEW r \in Requests, Admission(r) PROVE IInv'
  <2>1. CASE Admit(r)
    <3>1. Money'
      BY <2>1, ReserveStep DEF Admit
    <3> QED BY <2>1, <3>1 DEF Admit, Goto, clock, RestTyped
  <2>2. CASE AdmitLost(r)
    <3>1. Money'
      BY <2>2, ReserveStep DEF AdmitLost
    <3> QED BY <2>2, <3>1, FaultCounted DEF AdmitLost, Goto, RestTyped
  <2>3. CASE Deny(r)
    <3>1. Money'
      BY <2>3, SameMoney DEF Deny, money
    <3> QED BY <2>3, <3>1 DEF Deny, Goto, clock, RestTyped
  <2>4. CASE Refuse(r)
    <3>1. Money'
      BY <2>4, SameMoney DEF Refuse, money
    <3> QED BY <2>4, <3>1 DEF Refuse, Goto, clock, RestTyped
  <2>5. CASE RpmExceeded(r)
    <3>1. Money'
      BY <2>5, ReleaseStep DEF RpmExceeded
    <3>2. strays' \in Nat
      BY <2>5, StrayCounted DEF RpmExceeded, ReleaseHold, RestTyped
    <3> QED BY <2>5, <3>1, <3>2 DEF RpmExceeded, Goto, clock, RestTyped
  <2>6. CASE SelectionFails(r)
    <3>1. Money'
      BY <2>6, SameMoney DEF SelectionFails, money
    <3> QED BY <2>6, <3>1 DEF SelectionFails, Goto, clock, RestTyped
  <2>7. CASE ReleaseInCatch(r)
    <3>1. Money'
      BY <2>7, ReleaseStep DEF ReleaseInCatch
    <3>2. strays' \in Nat
      BY <2>7, StrayCounted DEF ReleaseInCatch, ReleaseHold, RestTyped
    <3> QED BY <2>7, <3>1, <3>2 DEF ReleaseInCatch, Goto, clock, RestTyped
  <2>8. CASE ReleaseInCatchFails(r)
    <3>1. Money'
      BY <2>8, SameMoney DEF ReleaseInCatchFails, money
    <3> QED BY <2>8, <3>1, FaultCounted DEF ReleaseInCatchFails, Goto, RestTyped
  <2>9. CASE Serve(r)
    <3>1. Money'
      BY <2>9, SameMoney DEF Serve, money
    <3> QED BY <2>9, <3>1 DEF Serve, Goto, clock, RestTyped
  <2> QED BY <1>1, <2>1, <2>2, <2>3, <2>4, <2>5, <2>6, <2>7, <2>8, <2>9 DEF Admission
<1>2. ASSUME NEW r \in Requests, Ending(r) PROVE IInv'
  <2>1. CASE RecordUsage(r)
    <3>1. PICK c \in 0..MaxCost : SettleHold(r, c)
      BY <2>1 DEF RecordUsage
    <3>2. Money'
      BY <2>1, <3>1, SettleStep DEF RecordUsage
    <3>3. strays' \in Nat
      BY <3>1, StrayCounted DEF SettleHold, RestTyped
    <3> QED BY <2>1, <3>2, <3>3 DEF RecordUsage, Recorded, clock, RestTyped
  <2>2. CASE RecordFails(r)
    <3>1. Money'
      BY <2>2, SameMoney DEF RecordFails, money
    <3> QED BY <2>2, <3>1, FaultCounted DEF RecordFails, Recorded, RestTyped
  <2>3. CASE NoUsage(r)
    <3>1. Money'
      BY <2>3, SameMoney DEF NoUsage, money
    <3> QED BY <2>3, <3>1 DEF NoUsage, clock, RestTyped
  <2>4. CASE Close(r)
    <3>1. Money'
      <4>1. CASE target[r]
        BY <2>4, <4>1, ReleaseStep DEF Close
      <4>2. CASE ~target[r]
        BY <2>4, <4>2, SameMoney DEF Close, money
      <4> QED BY <4>1, <4>2
    <3>2. strays' \in Nat
      <4>1. CASE target[r]
        BY <2>4, <4>1, StrayCounted DEF Close, ReleaseHold, RestTyped
      <4>2. CASE ~target[r]
        BY <2>4, <4>2 DEF Close, RestTyped
      <4> QED BY <4>1, <4>2
    <3> QED BY <2>4, <3>1, <3>2 DEF Close, Closing, Goto, clock, RestTyped
  <2>5. CASE CloseFails(r)
    <3>1. Money'
      BY <2>5, SameMoney DEF CloseFails, money
    <3> QED BY <2>5, <3>1, FaultCounted DEF CloseFails, Closing, Goto, RestTyped
  <2>6. CASE Crash(r)
    <3>1. Money'
      BY <2>6, SameMoney DEF Crash, money
    <3> QED BY <2>6, <3>1, FaultCounted DEF Crash, RestTyped
  <2> QED BY <1>2, <2>1, <2>2, <2>3, <2>4, <2>5, <2>6 DEF Ending
<1>3. CASE HoldLapses
  <2>1. Money'
    BY <1>3, LapseStep
  <2>2. strays' \in Nat
    BY <1>3, StrayCounted DEF HoldLapses, RestTyped
  <2>3. lapses' \in 0..MaxLapses
    BY <1>3, BoundsAreNat DEF HoldLapses, RestTyped
  <2> QED BY <1>3, <2>1, <2>2, <2>3 DEF HoldLapses, RestTyped
<1>4. CASE Midnight
  <2>1. Money'
    BY <1>4, SameMoney DEF Midnight, money
  <2>2. today' \in Days
    BY <1>4, BoundsAreNat DEF Midnight, RestTyped, Days
  <2> QED BY <1>4, <2>1, <2>2 DEF Midnight, RestTyped
<1>5. CASE UNCHANGED vars
  <2>1. Money'
    BY <1>5, SameMoney DEF vars
  <2> QED BY <1>5, <2>1 DEF vars, RestTyped
<1>6. CASE Finished
  BY <1>5, <1>6 DEF Finished
<1> QED BY <1>1, <1>2, <1>3, <1>4, <1>5, <1>6 DEF Next

LEMMA AlwaysIInv == Spec => []IInv
<1>1. Init => IInv
  BY InitIInv
<1>2. IInv /\ [Next]_vars => IInv'
  BY NextIInv
<1> QED BY <1>1, <1>2, PTL DEF Spec

\* Every variable keeps its type; in particular no settlement or release, in
\* whatever order and of whoever's hold, takes a counter below zero.
THEOREM TypeCorrect == Spec => []TypeOK
BY AlwaysIInv, IInvGives, PTL

\* A cost counter is always what was charged, plus what the hold reserves, plus
\* what lapsed holds had reserved.
THEOREM CountersAccounted == Spec => []CostAccounts
BY AlwaysIInv, IInvGives, PTL

\* While the hold exists the counters alone refuse every further request.
THEOREM HoldsFillLimits == Spec => []ReservationFillsLimit
BY AlwaysIInv, IInvGives, PTL

-----------------------------------------------------------------------------
(***************************************************************************)
(* A reservation takes something under every limit.                        *)
(***************************************************************************)
HoldReserves ==
  hold # NoHold => \A a \in Axes : Limit[a] > 0 => hold.reserved[a] > 0

\* What the hold's periods were charged is below every limit.
LEMMA SpentBelowLimit ==
  ASSUME IInv, HoldReserves, hold # NoHold, NEW a \in Axes, Limit[a] > 0
  PROVE  /\ spent[a][Period(a, hold.day)] \in Nat
         /\ spent[a][Period(a, hold.day)] < Limit[a]
<1> DEFINE p == Period(a, hold.day)
<1>1. hold \in Holds
  BY DEF IInv, Money, MoneyOK, MoneyTyped
<1>2. p \in Days
  BY <1>1, PeriodIsDay DEF Holds
<1>3. spent[a][p] \in Nat /\ lost[a][p] \in Nat /\ hold.reserved[a] \in Nat
  BY <1>1, <1>2 DEF IInv, Money, MoneyOK, MoneyTyped, Counters, Holds
<1>4. cost[a][p] = spent[a][p] + lost[a][p] + hold.reserved[a]
  BY <1>2 DEF IInv, Money, MoneyOK, Accounts, HeldIn
<1>5. cost[a][p] = Limit[a]
  BY DEF IInv, Money, MoneyOK, Fills
<1>6. hold.reserved[a] > 0
  BY DEF HoldReserves
<1>7. Limit[a] \in Nat
  BY LimitIsNat
<1> QED BY <1>3, <1>4, <1>5, <1>6, <1>7

LEMMA ReserveReserves ==
  ASSUME IInv, NEW r \in Requests, Reserve(r)
  PROVE  HoldReserves' /\ hold' # NoHold /\ (hold').owner = r
<1>1. hold' = [day |-> today, reserved |-> [a \in Axes |-> Remaining(a)], owner |-> r]
  BY DEF Reserve
<1>2. today \in Days /\ today # -1
  BY DEF IInv, RestTyped, Days
<1>3. hold' # NoHold /\ (hold').owner = r
  BY <1>1, <1>2 DEF NoHold
<1>4. HoldReserves'
  BY <1>1 DEF Reserve, HasRoom, HoldReserves
<1> QED BY <1>3, <1>4

-----------------------------------------------------------------------------
(***************************************************************************)
(* WebSocket turns.  A turn is charged before it is released, and forgets  *)
(* its hold when it is charged; so the hold is always that of the turn in  *)
(* flight, and what was spent stays below a limit until the turn's own     *)
(* cost comes on top.                                                      *)
(***************************************************************************)
TurnHolds ==
  \A r \in Requests :
    /\ pc[r] # "denied"
    /\ due[r] => pc[r] = "serving"
    /\ InFlight(r) => target[r]
    /\ target[r] => hold # NoHold /\ hold.owner = r

TInv == IInv /\ TurnHolds /\ HoldReserves /\ OverrunIsOneRequest

LEMMA InitTInv == Init => TInv
<1> SUFFICES ASSUME Init PROVE TInv
  OBVIOUS
<1>1. IInv
  BY InitIInv
<1>2. TurnHolds
  BY DEF Init, TurnHolds, InFlight
<1>3. HoldReserves
  BY DEF Init, HoldReserves
<1>4. OverrunIsOneRequest
  <2> SUFFICES ASSUME NEW a \in Axes, NEW p \in Days, Limit[a] > 0
               PROVE  spent[a][p] < Limit[a] + MaxCost
    BY DEF OverrunIsOneRequest
  <2>1. spent[a][p] = 0
    BY DEF Init
  <2> QED BY <2>1, LimitIsNat, CostIsNat
<1> QED BY <1>1, <1>2, <1>3, <1>4 DEF TInv

LEMMA ChargeWithinOne ==
  ASSUME TInv, hold # NoHold, NEW r \in Requests, NEW c \in 0..MaxCost, SettleHold(r, c)
  PROVE  OverrunIsOneRequest'
<1> SUFFICES ASSUME NEW a \in Axes, NEW p \in Days, Limit[a] > 0
             PROVE  (spent')[a][p] < Limit[a] + MaxCost
  BY DEF OverrunIsOneRequest
<1>1. /\ hold \in Holds
      /\ spent \in Counters
  BY DEF TInv, IInv, Money, MoneyOK, MoneyTyped
<1>2. spent' = Add(spent, Each(c), hold.day)
  BY DEF SettleHold
<1>3. Each(c) \in [Axes -> Int] /\ Each(c)[a] = c
  BY CostIsNat DEF Each
<1>4. (spent')[a][p] = IF p = Period(a, hold.day) THEN spent[a][p] + c ELSE spent[a][p]
  BY <1>1, <1>2, <1>3, AddAt, CountersAreInt DEF Holds
<1>5. spent[a][p] < Limit[a] + MaxCost
  BY DEF TInv, OverrunIsOneRequest
<1>6. CASE p = Period(a, hold.day)
  <2>1. spent[a][p] \in Nat /\ spent[a][p] < Limit[a]
    BY <1>6, SpentBelowLimit DEF TInv
  <2>2. Limit[a] \in Nat /\ MaxCost \in Nat
    BY LimitIsNat, CostIsNat
  <2>3. spent[a][p] + c < Limit[a] + MaxCost
    BY <2>1, <2>2
  <2> QED BY <1>4, <1>6, <2>3
<1>7. CASE p # Period(a, hold.day)
  BY <1>4, <1>5, <1>7
<1> QED BY <1>6, <1>7

LEMMA SameSpent == ASSUME OverrunIsOneRequest, spent' = spent PROVE OverrunIsOneRequest'
BY DEF OverrunIsOneRequest

LEMMA NextTInv ==
  ASSUME Turns = Requests, MaxLapses = 0, TInv, [Next]_vars
  PROVE  TInv'
<1>1. IInv'
  BY NextIInv DEF TInv
<1>2. ASSUME NEW r \in Requests PROVE ~Scheduled(r)
  BY DEF Scheduled
<1>3. /\ pc \in [Requests -> PcValues]
      /\ target \in [Requests -> BOOLEAN]
      /\ due \in [Requests -> BOOLEAN]
  BY DEF TInv, IInv, RestTyped
<1>4. SUFFICES TurnHolds' /\ HoldReserves' /\ OverrunIsOneRequest'
  BY <1>1 DEF TInv
<1> USE DEF PcValues
<1>5. ASSUME NEW r \in Requests, Admission(r)
      PROVE  TurnHolds' /\ HoldReserves' /\ OverrunIsOneRequest'
  <2>1. CASE Admit(r)
    <3>1. HoldReserves' /\ hold' # NoHold /\ (hold').owner = r
      BY <2>1, ReserveReserves DEF Admit, TInv
    <3>2. \A s \in Requests : ~target[s]
      BY <2>1 DEF Admit, Reserve, TInv, TurnHolds
    <3>3. TurnHolds'
      BY <2>1, <3>1, <3>2, <1>3 DEF Admit, Goto, TInv, TurnHolds, InFlight
    <3> QED BY <2>1, <3>1, <3>3, SameSpent DEF Admit, money, TInv
  <2>2. CASE AdmitLost(r)
    <3>1. HoldReserves' /\ hold' # NoHold /\ (hold').owner = r
      BY <2>2, ReserveReserves DEF AdmitLost, TInv
    <3>2. \A s \in Requests : ~target[s]
      BY <2>2 DEF AdmitLost, Reserve, TInv, TurnHolds
    <3>3. TurnHolds'
      BY <2>2, <3>1, <3>2, <1>2, <1>3 DEF AdmitLost, Goto, TInv, TurnHolds, InFlight
    <3> QED BY <2>2, <3>1, <3>3, SameSpent DEF AdmitLost, money, TInv
  <2>3. CASE Deny(r) \/ Refuse(r)
    <3>1. TurnHolds'
      BY <2>3, <1>2, <1>3 DEF Deny, Refuse, Goto, TInv, TurnHolds, InFlight
    <3> QED BY <2>3, <3>1, SameSpent DEF Deny, Refuse, money, TInv, HoldReserves
  <2>4. CASE RpmExceeded(r)
    <3>1. hold' = NoHold /\ spent' = spent
      BY <2>4 DEF RpmExceeded, ReleaseHold, money
    <3>2. \A s \in Requests : target[s] => s = r
      BY <2>4 DEF RpmExceeded, Goto, TInv, TurnHolds, InFlight
    <3>3. TurnHolds'
      BY <2>4, <3>1, <3>2, <1>2, <1>3 DEF RpmExceeded, Goto, TInv, TurnHolds, InFlight
    <3> QED BY <3>1, <3>3, SameSpent DEF TInv, HoldReserves
  <2>5. CASE SelectionFails(r) \/ ReleaseInCatch(r) \/ ReleaseInCatchFails(r)
    BY <2>5, <1>2 DEF SelectionFails, ReleaseInCatch, ReleaseInCatchFails, Goto,
                      TInv, TurnHolds
  <2>6. CASE Serve(r)
    <3>1. TurnHolds'
      BY <2>6, <1>3 DEF Serve, Goto, TInv, TurnHolds, InFlight
    <3> QED BY <2>6, <3>1, SameSpent DEF Serve, money, TInv, HoldReserves
  <2> QED BY <1>5, <2>1, <2>2, <2>3, <2>4, <2>5, <2>6 DEF Admission
<1>6. ASSUME NEW r \in Requests, Ending(r)
      PROVE  TurnHolds' /\ HoldReserves' /\ OverrunIsOneRequest'
  <2>1. CASE RecordUsage(r)
    <3>1. PICK c \in 0..MaxCost : SettleHold(r, c)
      BY <2>1 DEF RecordUsage
    <3>2. due[r] /\ target[r] /\ hold # NoHold
      BY <2>1 DEF RecordUsage, Recorded, TInv, TurnHolds, InFlight
    <3>3. hold' = NoHold
      BY <3>1 DEF SettleHold
    <3>4. \A s \in Requests : target[s] => s = r
      BY <3>2 DEF TInv, TurnHolds
    <3>5. pc' = pc /\ target' = [target EXCEPT ![r] = FALSE] /\ due' = [due EXCEPT ![r] = FALSE]
      BY <2>1, <1>2 DEF RecordUsage, Recorded
    <3>6. TurnHolds'
      BY <3>2, <3>3, <3>4, <3>5, <1>3 DEF TInv, TurnHolds, InFlight
    <3> QED BY <3>1, <3>2, <3>3, <3>6, ChargeWithinOne DEF HoldReserves
  <2>2. CASE RecordFails(r)
    <3>1. TurnHolds'
      BY <2>2, <1>2, <1>3 DEF RecordFails, Recorded, TInv, TurnHolds, InFlight
    <3> QED BY <2>2, <3>1, SameSpent DEF RecordFails, money, TInv, HoldReserves
  <2>3. CASE NoUsage(r)
    <3>1. TurnHolds'
      BY <2>3, <1>3 DEF NoUsage, TInv, TurnHolds, InFlight
    <3> QED BY <2>3, <3>1, SameSpent DEF NoUsage, money, TInv, HoldReserves
  <2>4. CASE Close(r)
    <3>1. spent' = spent
      BY <2>4 DEF Close, money
    <3>2. CASE target[r]
      <4>1. hold' = NoHold
        BY <2>4, <3>2 DEF Close, ReleaseHold
      <4>2. \A s \in Requests : target[s] => s = r
        BY <3>2 DEF TInv, TurnHolds
      <4>3. TurnHolds'
        BY <2>4, <4>1, <4>2, <1>2, <1>3 DEF Close, Closing, Goto, TInv, TurnHolds, InFlight
      <4> QED BY <3>1, <4>1, <4>3, SameSpent DEF TInv, HoldReserves
    <3>3. CASE ~target[r]
      <4>1. TurnHolds'
        BY <2>4, <3>3, <1>2, <1>3 DEF Close, Closing, Goto, TInv, TurnHolds, InFlight
      <4> QED BY <2>4, <3>1, <3>3, <4>1, SameSpent DEF Close, TInv, HoldReserves
    <3> QED BY <3>2, <3>3
  <2>5. CASE CloseFails(r)
    <3>1. TurnHolds'
      BY <2>5, <1>2, <1>3 DEF CloseFails, Closing, Goto, TInv, TurnHolds, InFlight
    <3> QED BY <2>5, <3>1, SameSpent DEF CloseFails, money, TInv, HoldReserves
  <2>6. CASE Crash(r)
    <3>1. TurnHolds'
      BY <2>6, <1>3 DEF Crash, TInv, TurnHolds, InFlight
    <3> QED BY <2>6, <3>1, SameSpent DEF Crash, money, TInv, HoldReserves
  <2> QED BY <1>6, <2>1, <2>2, <2>3, <2>4, <2>5, <2>6 DEF Ending
<1>7. ~HoldLapses
  BY DEF HoldLapses, TInv, IInv, RestTyped
<1>8. CASE Midnight
  <2>1. TurnHolds'
    BY <1>8 DEF Midnight, TInv, TurnHolds, InFlight
  <2> QED BY <1>8, <2>1, SameSpent DEF Midnight, money, TInv, HoldReserves
<1>9. CASE UNCHANGED vars
  <2>1. TurnHolds'
    BY <1>9 DEF vars, TInv, TurnHolds, InFlight
  <2> QED BY <1>9, <2>1, SameSpent DEF vars, TInv, HoldReserves
<1>10. CASE Finished
  BY <1>9, <1>10 DEF Finished
<1> QED BY <1>5, <1>6, <1>7, <1>8, <1>9, <1>10 DEF Next

\* If every request is a WebSocket turn and no hold outlives its TTL, the group
\* spends more than a limit only by the cost of one request, in spite of lost
\* commands and dying processes.  Requests that go through a scheduler break
\* this: GroupPolicyStack.cfg.
THEOREM TurnsOverrunByOne ==
  ASSUME Turns = Requests, MaxLapses = 0
  PROVE  Spec => []OverrunIsOneRequest
<1>1. Init => TInv
  BY InitTInv
<1>2. TInv /\ [Next]_vars => TInv'
  BY NextTInv
<1>3. TInv => OverrunIsOneRequest
  BY DEF TInv
<1> QED BY <1>1, <1>2, <1>3, PTL DEF Spec

-----------------------------------------------------------------------------
(***************************************************************************)
(* All requests.  A request in flight is covered while the hold is its     *)
(* own; it loses its cover when the hold goes without it, and that is a    *)
(* stray.  So there are never more uncovered requests than strays, and     *)
(* every stray that is not matched by one that is still uncovered excuses  *)
(* one cost above the limit: the charge of an uncovered request uses up    *)
(* what its stray excused, and a covered one is charged from below the     *)
(* limit.                                                                  *)
(***************************************************************************)
Covered(r) == hold # NoHold /\ hold.owner = r

\* The requests in flight whose hold went without them.
Uncovered == {r \in Requests : InFlight(r) /\ ~Covered(r)}

\* A request is served before its usage is due.
DueServed == \A r \in Requests : due[r] => pc[r] \in {"serving", "over"}

\* Every uncovered request has its stray.
StraysMatched == IsFiniteSet(Uncovered) /\ Cardinality(Uncovered) <= strays

\* The strays whose request is uncovered no longer.
Excused == strays - Cardinality(Uncovered)

\* OverrunWithinStrays of given charges and a given number of strays.
SpentWithin(sp, k) ==
  \A a \in Axes, p \in Days : Limit[a] > 0 => sp[a][p] < Limit[a] + MaxCost * (k + 1)

SInv ==
  IInv /\ HoldReserves /\ DueServed /\ StraysMatched /\ SpentWithin(spent, Excused)

LEMMA ExcusedIsNat == SInv => Excused \in Nat
<1> SUFFICES ASSUME SInv PROVE Excused \in Nat
  OBVIOUS
<1>1. Cardinality(Uncovered) \in Nat
  BY FS_CardinalityType DEF SInv, StraysMatched
<1> QED BY <1>1 DEF SInv, IInv, RestTyped, StraysMatched, Excused

LEMMA TimesGrows ==
  ASSUME NEW m \in Nat, NEW i \in Nat, NEW j \in Nat, i <= j
  PROVE  m * i \in Nat /\ m * j \in Nat /\ m * i <= m * j
<1>1. PICK d \in Nat : j = i + d
  <2>1. j - i \in Nat /\ j = i + (j - i)
    OBVIOUS
  <2> QED BY <2>1
<1>2. m * j = m * i + m * d
  BY <1>1
<1>3. m * i \in Nat /\ m * d \in Nat
  OBVIOUS
<1> QED BY <1>2, <1>3

\* More strays excuse more.
LEMMA SpentWithinGrows ==
  ASSUME NEW sp \in Counters, NEW i \in Nat, NEW j \in Nat, i <= j, SpentWithin(sp, i)
  PROVE  SpentWithin(sp, j)
<1> SUFFICES ASSUME NEW a \in Axes, NEW p \in Days, Limit[a] > 0
             PROVE  sp[a][p] < Limit[a] + MaxCost * (j + 1)
  BY DEF SpentWithin
<1>1. sp[a][p] < Limit[a] + MaxCost * (i + 1)
  BY DEF SpentWithin
<1>2. /\ MaxCost * (i + 1) \in Nat /\ MaxCost * (j + 1) \in Nat
      /\ MaxCost * (i + 1) <= MaxCost * (j + 1)
  BY TimesGrows, CostIsNat
<1>3. sp[a][p] \in Nat /\ Limit[a] \in Nat
  BY LimitIsNat DEF Counters
<1> QED BY <1>1, <1>2, <1>3

\* One stray more excuses one charge more.
LEMMA ChargeExcused ==
  ASSUME NEW sp \in Counters, NEW k \in Nat, SpentWithin(sp, k),
         NEW c \in 0..MaxCost, NEW day \in Days
  PROVE  SpentWithin(Add(sp, Each(c), day), k + 1)
<1> SUFFICES ASSUME NEW a \in Axes, NEW p \in Days, Limit[a] > 0
             PROVE  Add(sp, Each(c), day)[a][p] < Limit[a] + MaxCost * (k + 1 + 1)
  BY DEF SpentWithin
<1>1. sp[a][p] < Limit[a] + MaxCost * (k + 1)
  BY DEF SpentWithin
<1>2. MaxCost * (k + 1 + 1) = MaxCost * (k + 1) + MaxCost /\ MaxCost * (k + 1) \in Nat
  BY CostIsNat
<1>3. sp[a][p] \in Nat /\ Limit[a] \in Nat /\ c \in Nat /\ c <= MaxCost /\ MaxCost \in Nat
  BY LimitIsNat, CostIsNat DEF Counters
<1>4. Each(c) \in [Axes -> Int] /\ Each(c)[a] = c
  BY <1>3 DEF Each
<1>5. Add(sp, Each(c), day)[a][p] = IF p = Period(a, day) THEN sp[a][p] + c ELSE sp[a][p]
  BY <1>4, AddAt, CountersAreInt
<1>6. Add(sp, Each(c), day)[a][p] <= sp[a][p] + c /\ Add(sp, Each(c), day)[a][p] \in Nat
  BY <1>3, <1>5
<1> QED BY <1>1, <1>2, <1>3, <1>6

\* A charge to the periods of the hold starts below the limit and needs no excuse.
LEMMA ChargeCovered ==
  ASSUME SInv, hold # NoHold, NEW c \in 0..MaxCost
  PROVE  SpentWithin(Add(spent, Each(c), hold.day), Excused)
<1>1. hold \in Holds /\ spent \in Counters
  BY DEF SInv, IInv, Money, MoneyOK, MoneyTyped
<1>2. Excused \in Nat
  BY ExcusedIsNat
<1> SUFFICES ASSUME NEW a \in Axes, NEW p \in Days, Limit[a] > 0
             PROVE  Add(spent, Each(c), hold.day)[a][p]
                      < Limit[a] + MaxCost * (Excused + 1)
  BY DEF SpentWithin
<1>3. c \in Nat /\ c <= MaxCost /\ MaxCost \in Nat /\ Limit[a] \in Nat
  BY CostIsNat, LimitIsNat
<1>4. Each(c) \in [Axes -> Int] /\ Each(c)[a] = c
  BY <1>3 DEF Each
<1>5. Add(spent, Each(c), hold.day)[a][p] =
        IF p = Period(a, hold.day) THEN spent[a][p] + c ELSE spent[a][p]
  BY <1>1, <1>4, AddAt, CountersAreInt DEF Holds
<1>6. MaxCost * (Excused + 1) \in Nat /\ MaxCost <= MaxCost * (Excused + 1)
  <2>1. MaxCost * 1 <= MaxCost * (Excused + 1) /\ MaxCost * (Excused + 1) \in Nat
    BY <1>2, <1>3, TimesGrows
  <2> QED BY <2>1, <1>3
<1>7. CASE p = Period(a, hold.day)
  <2>1. spent[a][p] \in Nat /\ spent[a][p] < Limit[a]
    BY <1>7, SpentBelowLimit DEF SInv
  <2> QED BY <1>3, <1>5, <1>6, <1>7, <2>1
<1>8. CASE p # Period(a, hold.day)
  BY <1>5, <1>8 DEF SInv, SpentWithin
<1> QED BY <1>7, <1>8

-----------------------------------------------------------------------------
(***************************************************************************)
(* What a step does to the uncovered requests.                             *)
(***************************************************************************)
\* After the step at least k strays excuse a charge.
Excuses(k) == StraysMatched' /\ Excused' \in Nat /\ k <= Excused'

\* Fewer uncovered requests, or one more with one stray more.
LEMMA FewerUncovered ==
  ASSUME SInv, NEW S, IsFiniteSet(S), NEW n \in Nat,
         Uncovered' \subseteq S, Cardinality(S) + n <= strays', strays' \in Nat
  PROVE  Excuses(n)
<1>1. IsFiniteSet(Uncovered') /\ Cardinality(Uncovered') <= Cardinality(S)
  BY FS_Subset
<1>2. Cardinality(Uncovered') \in Nat /\ Cardinality(S) \in Nat
  BY <1>1, FS_CardinalityType
<1> QED BY <1>1, <1>2 DEF Excuses, StraysMatched, Excused

LEMMA HoldStays ==
  ASSUME SInv, hold' = hold, strays' = strays,
         \A s \in Requests : InFlight(s)' => InFlight(s)
  PROVE  Excuses(Excused)
<1>1. Uncovered' \subseteq Uncovered
  BY DEF Uncovered, Covered
<1>2. IsFiniteSet(Uncovered) /\ Cardinality(Uncovered) \in Nat /\ strays \in Nat
  BY FS_CardinalityType DEF SInv, StraysMatched, IInv, RestTyped
<1>3. Excused \in Nat /\ Cardinality(Uncovered) + Excused = strays
  BY <1>2, ExcusedIsNat DEF Excused
<1> QED BY <1>1, <1>2, <1>3, FewerUncovered

LEMMA HoldTaken ==
  ASSUME SInv, NEW r \in Requests, Reserve(r), strays' = strays,
         \A s \in Requests : InFlight(s)' => InFlight(s) \/ s = r
  PROVE  Excuses(Excused) /\ HoldReserves'
<1>1. HoldReserves' /\ hold' # NoHold /\ (hold').owner = r
  BY ReserveReserves DEF SInv
<1>2. hold = NoHold
  BY DEF Reserve
<1>3. Uncovered' \subseteq Uncovered
  BY <1>1, <1>2 DEF Uncovered, Covered
<1>4. IsFiniteSet(Uncovered) /\ Cardinality(Uncovered) \in Nat /\ strays \in Nat
  BY FS_CardinalityType DEF SInv, StraysMatched, IInv, RestTyped
<1>5. Excused \in Nat /\ Cardinality(Uncovered) + Excused = strays
  BY <1>4, ExcusedIsNat DEF Excused
<1> QED BY <1>1, <1>3, <1>4, <1>5, FewerUncovered

\* When the hold goes, its request is done, or becomes uncovered and is a stray.
\* U is what becomes of the others.
LEMMA HoldGoes ==
  ASSUME SInv, NEW done, CountStray(done), hold' = NoHold,
         NEW U, U \subseteq Uncovered,
         \A s \in Requests : InFlight(s)' => InFlight(s),
         \A s \in done : ~InFlight(s)',
         \A s \in Uncovered : InFlight(s)' => s \in U
  PROVE  Excuses(strays - Cardinality(U))
<1>1. IsFiniteSet(Uncovered) /\ Cardinality(Uncovered) \in Nat /\ strays \in Nat
  BY FS_CardinalityType DEF SInv, StraysMatched, IInv, RestTyped
<1>2. IsFiniteSet(U) /\ Cardinality(U) \in Nat /\ Cardinality(U) <= Cardinality(Uncovered)
  BY <1>1, FS_Subset, FS_CardinalityType
<1>3. strays - Cardinality(U) \in Nat
  BY <1>1, <1>2 DEF SInv, StraysMatched
<1>4. CASE hold # NoHold /\ InFlight(hold.owner) /\ hold.owner \notin done
  <2>1. strays' = strays + 1
    BY <1>4 DEF CountStray
  <2>2. Uncovered' \subseteq U \cup {hold.owner}
    BY DEF Uncovered, Covered
  <2>3. /\ IsFiniteSet(U \cup {hold.owner})
        /\ Cardinality(U \cup {hold.owner}) \in {Cardinality(U), Cardinality(U) + 1}
    BY <1>2, FS_AddElement
  <2>4. Cardinality(U \cup {hold.owner}) + (strays - Cardinality(U)) <= strays'
    BY <1>1, <1>2, <2>1, <2>3
  <2> QED BY <1>1, <1>3, <2>1, <2>2, <2>3, <2>4, FewerUncovered
<1>5. CASE ~(hold # NoHold /\ InFlight(hold.owner) /\ hold.owner \notin done)
  <2>1. strays' = strays
    BY <1>5 DEF CountStray
  <2>2. Uncovered' \subseteq U
    BY <1>5 DEF Uncovered, Covered
  <2>3. Cardinality(U) + (strays - Cardinality(U)) <= strays'
    BY <1>1, <1>2, <2>1
  <2> QED BY <1>1, <1>2, <1>3, <2>1, <2>2, <2>3, FewerUncovered
<1> QED BY <1>4, <1>5

LEMMA HoldReleased ==
  ASSUME SInv, NEW done, CountStray(done), hold' = NoHold,
         \A s \in Requests : InFlight(s)' => InFlight(s),
         \A s \in done : ~InFlight(s)'
  PROVE  Excuses(Excused)
BY HoldGoes DEF Excused

LEMMA SettleWithin ==
  ASSUME SInv, NEW r \in Requests, RecordUsage(r)
  PROVE  StraysMatched' /\ SpentWithin(spent', Excused')
<1>1. PICK c \in 0..MaxCost : SettleHold(r, c)
  BY DEF RecordUsage
<1>2. due[r] /\ pc[r] # "admitted" /\ InFlight(r)
  BY DEF RecordUsage, Recorded, SInv, DueServed, InFlight
<1>3. pc' = pc /\ due' = [due EXCEPT ![r] = FALSE] /\ due \in [Requests -> BOOLEAN]
  BY DEF RecordUsage, Recorded, SInv, IInv, RestTyped
<1>4. \A s \in Requests : InFlight(s)' => InFlight(s)
  BY <1>3 DEF InFlight
<1>5. ~InFlight(r)'
  BY <1>2, <1>3 DEF InFlight
<1>6. CountStray({r}) /\ hold' = NoHold
  BY <1>1 DEF SettleHold
<1>7. spent \in Counters /\ today \in Days /\ (hold # NoHold => hold \in Holds)
  BY DEF SInv, IInv, RestTyped, Money, MoneyOK, MoneyTyped
<1>8. spent' \in Counters
  BY NextIInv DEF SInv, IInv, Money, MoneyOK, MoneyTyped, Next, Ending
<1>9. Excused \in Nat
  BY ExcusedIsNat
<1>10. CASE Covered(r)
  <2>1. Excuses(Excused)
    BY <1>4, <1>5, <1>6, HoldReleased
  <2>2. spent' = Add(spent, Each(c), hold.day)
    BY <1>1, <1>10 DEF SettleHold, Covered
  <2>3. SpentWithin(spent', Excused)
    BY <1>10, <2>2, ChargeCovered DEF Covered
  <2> QED BY <1>8, <1>9, <2>1, <2>3, SpentWithinGrows DEF Excuses
<1>11. CASE ~Covered(r)
  <2> DEFINE U == Uncovered \ {r}
  <2>1. r \in Uncovered
    BY <1>2, <1>11 DEF Uncovered
  <2>2. Cardinality(Uncovered) \in Nat /\ strays \in Nat
    BY FS_CardinalityType DEF SInv, StraysMatched, IInv, RestTyped
  <2>3. Cardinality(U) = Cardinality(Uncovered) - 1
    BY <2>1, FS_RemoveElement DEF SInv, StraysMatched
  <2>4. strays - Cardinality(U) = Excused + 1
    BY <2>2, <2>3 DEF Excused
  <2>5. Excuses(strays - Cardinality(U))
    <3>1. \A s \in Uncovered : InFlight(s)' => s \in U
      BY <1>5
    <3>2. \A s \in {r} : ~InFlight(s)'
      BY <1>5
    <3> QED BY <1>4, <1>6, <3>1, <3>2, HoldGoes
  <2>6. PICK day \in Days : spent' = Add(spent, Each(c), day)
    BY <1>1, <1>7 DEF SettleHold, Holds
  <2>7. SpentWithin(spent', Excused + 1)
    BY <1>7, <1>9, <2>6, ChargeExcused DEF SInv
  <2> QED BY <1>8, <1>9, <2>4, <2>5, <2>7, SpentWithinGrows DEF Excuses
<1> QED BY <1>10, <1>11

LEMMA SameSpentWithin ==
  ASSUME SInv, Excuses(Excused), spent' = spent
  PROVE  StraysMatched' /\ SpentWithin(spent', Excused')
<1>1. spent \in Counters
  BY DEF SInv, IInv, Money, MoneyOK, MoneyTyped
<1> QED BY <1>1, ExcusedIsNat, SpentWithinGrows DEF SInv, Excuses

LEMMA InitSInv == Init => SInv
<1> SUFFICES ASSUME Init PROVE SInv
  OBVIOUS
<1>1. IInv
  BY InitIInv
<1>2. HoldReserves /\ DueServed
  BY DEF Init, HoldReserves, DueServed
<1>3. Uncovered = {}
  BY DEF Init, Uncovered, InFlight
<1>4. StraysMatched /\ Excused = 0
  BY <1>3, FS_EmptySet DEF Init, StraysMatched, Excused
<1>5. SpentWithin(spent, 0)
  <2> SUFFICES ASSUME NEW a \in Axes, NEW p \in Days, Limit[a] > 0
               PROVE  spent[a][p] < Limit[a] + MaxCost * (0 + 1)
    BY DEF SpentWithin
  <2>1. spent[a][p] = 0
    BY DEF Init
  <2>2. MaxCost * (0 + 1) = MaxCost
    BY CostIsNat
  <2> QED BY <2>1, <2>2, LimitIsNat, CostIsNat
<1> QED BY <1>1, <1>2, <1>4, <1>5 DEF SInv

LEMMA NextSInv ==
  ASSUME SInv, [Next]_vars
  PROVE  SInv'
<1>1. IInv'
  BY NextIInv DEF SInv
<1>2. /\ pc \in [Requests -> PcValues]
      /\ due \in [Requests -> BOOLEAN]
      /\ \A r \in Requests : due[r] => pc[r] \in {"serving", "over"}
  BY DEF SInv, IInv, RestTyped, DueServed
<1>3. SUFFICES HoldReserves' /\ DueServed' /\ StraysMatched' /\ SpentWithin(spent', Excused')
  BY <1>1 DEF SInv, SpentWithin
<1> DEFINE Shrinks == \A s \in Requests : InFlight(s)' => InFlight(s)
<1>4. ASSUME hold' = hold, strays' = strays, spent' = spent, Shrinks, DueServed'
      PROVE  HoldReserves' /\ DueServed' /\ StraysMatched' /\ SpentWithin(spent', Excused')
  <2>1. HoldReserves'
    BY <1>4 DEF SInv, HoldReserves
  <2> QED BY <1>4, <2>1, HoldStays, SameSpentWithin
<1>5. ASSUME NEW done, CountStray(done), hold' = NoHold, spent' = spent, Shrinks, DueServed',
             \A s \in done : ~InFlight(s)'
      PROVE  HoldReserves' /\ DueServed' /\ StraysMatched' /\ SpentWithin(spent', Excused')
  BY <1>5, HoldReleased, SameSpentWithin DEF HoldReserves
<1> HIDE DEF Shrinks
<1>6. ASSUME NEW r \in Requests, Admission(r)
      PROVE  HoldReserves' /\ DueServed' /\ StraysMatched' /\ SpentWithin(spent', Excused')
  <2>1. CASE Admit(r) \/ AdmitLost(r)
    <3>1. Reserve(r) /\ strays' = strays /\ spent' = spent /\ due' = due /\ pc[r] = "idle"
      BY <2>1 DEF Admit, AdmitLost, Goto, money
    <3>2. \A s \in Requests : s # r => pc'[s] = pc[s]
      BY <1>2, <2>1 DEF Admit, AdmitLost, Goto
    <3>3. \A s \in Requests : InFlight(s)' => InFlight(s) \/ s = r
      BY <3>1, <3>2 DEF InFlight
    <3>4. DueServed'
      BY <1>2, <3>1, <3>2 DEF DueServed
    <3> QED BY <3>1, <3>3, <3>4, HoldTaken, SameSpentWithin
  <2>2. CASE Deny(r) \/ Refuse(r) \/ SelectionFails(r) \/ ReleaseInCatchFails(r) \/ Serve(r)
    <3>1. hold' = hold /\ strays' = strays /\ spent' = spent
      BY <2>2 DEF Deny, Refuse, SelectionFails, ReleaseInCatchFails, Serve, money
    <3>2. Shrinks
      BY <1>2, <2>2 DEF Shrinks, InFlight, Deny, Refuse, SelectionFails,
                        ReleaseInCatchFails, Serve, Goto
    <3>3. DueServed'
      BY <1>2, <2>2 DEF DueServed, Deny, Refuse, SelectionFails, ReleaseInCatchFails,
                        Serve, Goto
    <3> QED BY <1>4, <3>1, <3>2, <3>3
  <2>3. CASE RpmExceeded(r)
    <3>1. hold' = NoHold /\ CountStray({r}) /\ spent' = spent /\ due' = due
      BY <2>3 DEF RpmExceeded, ReleaseHold, money
    <3>2. Shrinks /\ DueServed' /\ ~InFlight(r)'
      BY <1>2, <2>3, <3>1 DEF RpmExceeded, Goto, Shrinks, InFlight, DueServed
    <3>3. \A s \in {r} : ~InFlight(s)'
      BY <3>2
    <3> QED BY <1>5, <3>1, <3>2, <3>3
  <2>4. CASE ReleaseInCatch(r)
    <3>1. hold' = NoHold /\ CountStray({}) /\ spent' = spent
      BY <2>4 DEF ReleaseInCatch, ReleaseHold, money
    <3>2. Shrinks /\ DueServed'
      BY <1>2, <2>4 DEF ReleaseInCatch, Goto, Shrinks, InFlight, DueServed
    <3> QED BY <1>5, <3>1, <3>2
  <2> QED BY <1>6, <2>1, <2>2, <2>3, <2>4 DEF Admission
<1>7. ASSUME NEW r \in Requests, Ending(r)
      PROVE  HoldReserves' /\ DueServed' /\ StraysMatched' /\ SpentWithin(spent', Excused')
  <2>1. CASE RecordUsage(r)
    <3>1. hold' = NoHold
      BY <2>1 DEF RecordUsage, SettleHold
    <3>2. DueServed'
      BY <1>2, <2>1 DEF RecordUsage, Recorded, DueServed
    <3> QED BY <2>1, <3>1, <3>2, SettleWithin DEF HoldReserves
  <2>2. CASE RecordFails(r) \/ NoUsage(r) \/ CloseFails(r) \/ Crash(r)
    <3>1. hold' = hold /\ strays' = strays /\ spent' = spent
      BY <2>2 DEF RecordFails, NoUsage, CloseFails, Crash, money
    <3>2. Shrinks
      BY <1>2, <2>2 DEF Shrinks, InFlight, RecordFails, Recorded, NoUsage, CloseFails,
                        Closing, Goto, Crash
    <3>3. DueServed'
      BY <1>2, <2>2 DEF DueServed, RecordFails, Recorded, NoUsage, CloseFails, Closing,
                        Goto, Crash
    <3> QED BY <1>4, <3>1, <3>2, <3>3
  <2>3. CASE Close(r)
    <3>1. spent' = spent /\ Shrinks /\ DueServed'
      BY <1>2, <2>3 DEF Close, Closing, Goto, money, Shrinks, InFlight, DueServed
    <3>2. CASE target[r]
      <4>1. hold' = NoHold /\ CountStray({})
        BY <2>3, <3>2 DEF Close, ReleaseHold
      <4> QED BY <1>5, <3>1, <4>1
    <3>3. CASE ~target[r]
      BY <1>4, <2>3, <3>1, <3>3 DEF Close
    <3> QED BY <3>2, <3>3
  <2> QED BY <1>7, <2>1, <2>2, <2>3 DEF Ending
<1>8. CASE HoldLapses
  <2>1. hold' = NoHold /\ CountStray({}) /\ spent' = spent
    BY <1>8 DEF HoldLapses
  <2>2. Shrinks /\ DueServed'
    BY <1>2, <1>8 DEF HoldLapses, Shrinks, InFlight, DueServed
  <2> QED BY <1>5, <2>1, <2>2
<1>9. CASE Midnight \/ UNCHANGED vars \/ Finished
  <2>1. hold' = hold /\ strays' = strays /\ spent' = spent /\ pc' = pc /\ due' = due
    BY <1>9 DEF Midnight, Finished, vars, money
  <2>2. Shrinks /\ DueServed'
    BY <1>2, <2>1 DEF Shrinks, InFlight, DueServed
  <2> QED BY <1>4, <2>1, <2>2
<1> QED BY <1>6, <1>7, <1>8, <1>9 DEF Next

\* Whatever the requests are and whoever's hold they release, and in spite of
\* lost commands, dying processes and lapsed holds, spending passes a limit by
\* one cost and by one more for every hold that went while its own request was in
\* flight: nothing else lets requests stack up.
THEOREM OverrunBounded == Spec => []OverrunWithinStrays
<1>1. Init => SInv
  BY InitSInv
<1>2. SInv /\ [Next]_vars => SInv'
  BY NextSInv
<1>3. SInv => OverrunWithinStrays
  <2> SUFFICES ASSUME SInv, NEW a \in Axes, NEW p \in Days, Limit[a] > 0
               PROVE  spent[a][p] < Limit[a] + MaxCost * (strays + 1)
    BY DEF OverrunWithinStrays
  <2>1. Cardinality(Uncovered) \in Nat /\ strays \in Nat
    BY FS_CardinalityType DEF SInv, StraysMatched, IInv, RestTyped
  <2>2. Excused \in Nat /\ Excused <= strays
    BY <2>1, ExcusedIsNat DEF Excused
  <2>3. spent \in Counters
    BY DEF SInv, IInv, Money, MoneyOK, MoneyTyped
  <2>4. SpentWithin(spent, strays)
    BY <2>1, <2>2, <2>3, SpentWithinGrows DEF SInv
  <2> QED BY <2>4 DEF SpentWithin
<1> QED BY <1>1, <1>2, <1>3, PTL DEF Spec

-----------------------------------------------------------------------------
(***************************************************************************)
(* Without a fault.  Then the hold has a keeper: the request that took it  *)
(* is still on a path that releases or settles it.                         *)
(***************************************************************************)
\* The request still has a release before it, by the scheduler's catch, the RPM refusal
\* or the close of its connection.
Keeps(r) == pc[r] \in {"admitted", "denied"} \/ (pc[r] = "serving" /\ target[r])

\* An admitted request knows that it took the hold.
AdmittedMarked == \A r \in Requests : pc[r] = "admitted" => target[r]

HoldHasKeeper == faults = 0 /\ hold # NoHold => Keeps(hold.owner)

\* Nobody but the TTL of a hold loses a reservation.
NothingLost == lapses = 0 => lost = [a \in Axes |-> [p \in Days |-> 0]]

\* As long as nothing fails, a hold that was taken is kept until it is given back.
LEMMA NextKeeper ==
  ASSUME SInv, AdmittedMarked, HoldHasKeeper, [Next]_vars
  PROVE  AdmittedMarked' /\ HoldHasKeeper'
<1>1. /\ pc \in [Requests -> PcValues]
      /\ target \in [Requests -> BOOLEAN]
      /\ due \in [Requests -> BOOLEAN]
      /\ faults \in 0..MaxFaults
      /\ hold # NoHold => hold.owner \in Requests
      /\ \A r \in Requests : due[r] => pc[r] # "admitted"
  BY DEF SInv, DueServed, IInv, RestTyped, Money, MoneyOK, MoneyTyped, Holds
<1>2. ASSUME Fault PROVE faults' # 0
  BY <1>1, <1>2, BoundsAreNat DEF Fault
<1> USE DEF AdmittedMarked, HoldHasKeeper, Keeps
<1>3. ASSUME NEW r \in Requests, Admission(r) PROVE AdmittedMarked' /\ HoldHasKeeper'
  <2>1. CASE Admit(r)
    BY <1>1, <2>1 DEF Admit, Reserve, Goto
  <2>2. CASE AdmitLost(r)
    BY <1>1, <1>2, <2>2 DEF AdmitLost, Goto
  <2>3. CASE Deny(r) \/ Refuse(r)
    BY <1>1, <2>3 DEF Deny, Refuse, Goto, clock
  <2>4. CASE RpmExceeded(r)
    BY <1>1, <2>4 DEF RpmExceeded, ReleaseHold, Goto
  <2>5. CASE SelectionFails(r)
    BY <1>1, <2>5 DEF SelectionFails, Goto, clock
  <2>6. CASE ReleaseInCatch(r)
    BY <1>1, <2>6 DEF ReleaseInCatch, ReleaseHold, Goto
  <2>7. CASE ReleaseInCatchFails(r)
    BY <1>1, <1>2, <2>7 DEF ReleaseInCatchFails, Goto
  <2>8. CASE Serve(r)
    BY <1>1, <2>8 DEF Serve, Goto, clock
  <2> QED BY <1>3, <2>1, <2>2, <2>3, <2>4, <2>5, <2>6, <2>7, <2>8 DEF Admission
<1>4. ASSUME NEW r \in Requests, Ending(r) PROVE AdmittedMarked' /\ HoldHasKeeper'
  <2>1. CASE RecordUsage(r)
    <3>1. hold' = NoHold /\ pc' = pc
      BY <2>1 DEF RecordUsage, SettleHold
    <3>2. AdmittedMarked'
      BY <1>1, <2>1, <3>1 DEF RecordUsage, Recorded
    <3> QED BY <3>1, <3>2
  <2>2. CASE RecordFails(r)
    BY <1>1, <1>2, <2>2 DEF RecordFails, Recorded
  <2>3. CASE NoUsage(r)
    BY <1>1, <2>3 DEF NoUsage, clock
  <2>4. CASE Close(r)
    BY <1>1, <2>4 DEF Close, Closing, ReleaseHold, Goto, clock
  <2>5. CASE CloseFails(r)
    BY <1>1, <1>2, <2>5 DEF CloseFails, Closing, Goto
  <2>6. CASE Crash(r)
    BY <1>1, <1>2, <2>6 DEF Crash
  <2> QED BY <1>4, <2>1, <2>2, <2>3, <2>4, <2>5, <2>6 DEF Ending
<1>5. CASE HoldLapses
  BY <1>5 DEF HoldLapses
<1>6. CASE Midnight \/ UNCHANGED vars \/ Finished
  BY <1>6 DEF Midnight, Finished, vars
<1> QED BY <1>3, <1>4, <1>5, <1>6 DEF Next

LEMMA NextNothingLost ==
  ASSUME IInv, NothingLost, [Next]_vars
  PROVE  NothingLost'
<1>1. lapses \in Nat
  BY BoundsAreNat DEF IInv, RestTyped
<1>2. CASE HoldLapses
  BY <1>1, <1>2 DEF HoldLapses, NothingLost
<1>3. CASE ~HoldLapses
  <2>1. lost' = lost /\ lapses' = lapses
    BY <1>3 DEF Next, Admission, Ending, Midnight, Finished, vars, money, clock, Fault,
           Admit, AdmitLost, Deny, Refuse, RpmExceeded, SelectionFails, ReleaseInCatch,
           ReleaseInCatchFails, Serve, RecordUsage, RecordFails, NoUsage, Close,
           CloseFails, Crash
  <2> QED BY <2>1 DEF NothingLost
<1> QED BY <1>2, <1>3

LEMMA AlwaysKeeper == Spec => [](SInv /\ AdmittedMarked /\ HoldHasKeeper /\ NothingLost)
<1>1. Init => SInv /\ AdmittedMarked /\ HoldHasKeeper /\ NothingLost
  <2> SUFFICES ASSUME Init PROVE SInv /\ AdmittedMarked /\ HoldHasKeeper /\ NothingLost
    OBVIOUS
  <2>1. SInv
    BY InitSInv
  <2> QED BY <2>1 DEF Init, AdmittedMarked, HoldHasKeeper, NothingLost
<1>2. SInv /\ AdmittedMarked /\ HoldHasKeeper /\ NothingLost /\ [Next]_vars
        => (SInv /\ AdmittedMarked /\ HoldHasKeeper /\ NothingLost)'
  BY NextSInv, NextKeeper, NextNothingLost DEF SInv
<1> QED BY <1>1, <1>2, PTL DEF Spec

\* Without a fault no hold blocks the group for want of somebody who gives it back:
\* neither the limit per minute, nor a group without a usable account, nor a settled or
\* missing usage, nor a close in any order leaves one behind.
THEOREM HoldsKept == Spec => []HoldHasKeeper
BY AlwaysKeeper, PTL

\* No request is under way any more.
Quiet == \A r \in Requests : pc[r] = "over"

\* What CountersSettle promises for the end holds in every state in which no request is
\* under way: unless a command was lost, a process died or a hold lapsed, the counters
\* then show what was charged and nothing else.
THEOREM QuietIsSettled ==
  Spec => [](Quiet /\ faults = 0 /\ lapses = 0 => cost = spent)
<1>1. SInv /\ HoldHasKeeper /\ NothingLost
        => (Quiet /\ faults = 0 /\ lapses = 0 => cost = spent)
  <2> SUFFICES ASSUME SInv, HoldHasKeeper, NothingLost, Quiet, faults = 0, lapses = 0
               PROVE  cost = spent
    OBVIOUS
  <2>1. cost \in Counters /\ spent \in Counters /\ (hold = NoHold \/ hold \in Holds)
    BY DEF SInv, IInv, Money, MoneyOK, MoneyTyped
  <2>2. hold = NoHold
    BY <2>1 DEF HoldHasKeeper, Keeps, Quiet, Holds
  <2>3. ASSUME NEW a \in Axes, NEW p \in Days PROVE cost[a][p] = spent[a][p]
    <3>1. cost[a][p] = spent[a][p] + lost[a][p] + HeldIn(hold, a, p)
      BY DEF SInv, IInv, Money, MoneyOK, Accounts
    <3>2. lost[a][p] = 0 /\ HeldIn(hold, a, p) = 0 /\ spent[a][p] \in Nat
      BY <2>1, <2>2 DEF NothingLost, HeldIn, Counters
    <3> QED BY <3>1, <3>2
  <2>4. \A a \in Axes : cost[a] = spent[a]
    BY <2>1, <2>3 DEF Counters
  <2> QED BY <2>1, <2>4 DEF Counters
<1> QED BY <1>1, AlwaysKeeper, PTL

=============================================================================
