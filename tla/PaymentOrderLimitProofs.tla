----------------------- MODULE PaymentOrderLimitProofs -----------------------
(***************************************************************************)
(* More proofs about PaymentOrder: what orders reserve and what they count *)
(* against.  Each section has its own inductive invariant, on top of the   *)
(* types and of what the handlers know (HandlersInv).  They hold for any   *)
(* number of orders, keys, instances, handlers and crashes; only the       *)
(* section about maxPendingOrders asks that the create lock does not       *)
(* expire under its holder.                                                *)
(*                                                                         *)
(* Orders may be an infinite set of ids.  The orders that were saved are   *)
(* finitely many in every state, so they can be counted and summed up.     *)
(***************************************************************************)
EXTENDS PaymentOrderProofs, FiniteSums

-----------------------------------------------------------------------------
(* Reservations *)

\* a createOrder call for the order is under way
HasCreator(o) == \E w \in Workers : ord[w] = o /\ pc[w] \in Creators

\* nobody will offer a way to pay for the order again, or it has been closed once
Gone(o) ==
  \/ status[o] \in {"cancelled", "expired"}
  \/ o \in revived
  \/ upstream[o] = "absent" /\ ~HasCreator(o)

\* an order has its reservation with the instance it names, and only there
ReservedWhereChosen == \A i \in Instances : \A o \in reserved[i] : instance[o] = i

\* an order's instance is chosen once
ChosenOnce ==
  \A w \in Workers : pc[w] \in {"stats", "daily", "select"} => instance[ord[w]] = NoInstance

\* an order whose creation failed has no way to be paid, and nobody creates it
UnwoundIsUnpayable ==
  \A w \in Workers : pc[w] \in {"unwind", "payCancel"} =>
    upstream[ord[w]] = "absent" /\ ~HasCreator(ord[w])

\* a reservation is given back only for an order that is gone, which lasts
ReleasersKnow ==
  \A w \in Workers : pc[w] = "release" => instance[ord[w]] # NoInstance /\ Gone(ord[w])

\* the share of an order that can still be paid is held
KeptUntilGone ==
  \A o \in Orders : instance[o] # NoInstance /\ ~Gone(o) => o \in reserved[instance[o]]

\* a confirmed order is not closed again
RevivedAreSettled == \A o \in revived : status[o] \in Settled

ReservationInv ==
  /\ ReservedWhereChosen
  /\ ChosenOnce
  /\ UnwoundIsUnpayable
  /\ ReleasersKnow
  /\ KeptUntilGone
  /\ RevivedAreSettled

\* Before the first createOrder nothing is reserved.
LEMMA InitReservationInv == Init => ReservationInv
  BY OrderConstants DEF Init, ReservationInv, ReservedWhereChosen, ChosenOnce,
     UnwoundIsUnpayable, ReleasersKnow, KeptUntilGone, RevivedAreSettled, Settled

\* The HDEL of a release runs in a command of its own, after any number of steps of
\* others, and yet it never takes a share from an order that can still be paid or is paid,
\* unless that order had been closed.
LEMMA StepReservationInv ==
  TypeOK /\ HandlersInv /\ ReservationInv /\ [Next]_vars => ReservationInv'
<1> SUFFICES ASSUME TypeOK, HandlersInv, ReservationInv, [Next]_vars PROVE ReservationInv'
  OBVIOUS
<1> USE OrderConstants DEF TypeOK, HandlersInv, UnsavedIsNew, CreatorAlone, ConfirmersKnow,
      FulfillersKnow, Status, Steps, CriticalSteps, Recoverable, Settled,
      Unsaved, Creators, Confirming, Fulfilling, HasCreator, Gone,
      ReservationInv, ReservedWhereChosen, ChosenOnce, UnwoundIsUnpayable, ReleasersKnow,
      KeptUntilGone, RevivedAreSettled,
      Goto, Begin, Cas, AfterClose, ConfirmStep, Revive,
      ConfirmSteps, LeaveScan, Thrown, Unknown, Reported, AmountMatches,
      orderVars, ledgerVars, auditVars, localVars
<1>1. ASSUME NEW w \in Workers, Continue(w) PROVE ReservationInv'
  <2>1. CASE CreateStats(w)
    BY <2>1 DEF CreateStats
  <2>2. CASE CreateDaily(w)
    BY <2>2 DEF CreateDaily
  <2>3. CASE CreateSelect(w)
    BY <2>3 DEF CreateSelect, Eligible
  <2>4. CASE CreateSelectNone(w)
    BY <2>4 DEF CreateSelectNone
  <2>5. CASE CreateSelectMock(w)
    BY <2>5 DEF CreateSelectMock
  <2>6. CASE CreateSave(w)
    BY <2>6 DEF CreateSave
  <2>7. CASE CreateUnlock(w)
    BY <2>7 DEF CreateUnlock
  <2>8. CASE CreatePayment(w)
    BY <2>8 DEF CreatePayment
  <2>9. CASE CreatePaymentFails(w)
    BY <2>9 DEF CreatePaymentFails
  <2>10. CASE CreatePayCancel(w)
    <3> DEFINE o == ord[w]
    <3>1. /\ o \in Orders /\ pc[w] \notin Creators /\ Gone(o)
          /\ UNCHANGED <<instance, reserved, upstream, revived>>
          /\ \A v \in Workers \ {w} : pc'[v] = pc[v] /\ ord'[v] = ord[v]
      BY <2>10 DEF CreatePayCancel
    <3>2. /\ pc'[w] \in {"idle", "release"}
          /\ pc'[w] = "release" => instance[o] # NoInstance /\ ord'[w] = o
      BY <2>10 DEF CreatePayCancel
    <3>3. \/ status' = status
          \/ status[o] = "pending" /\ status' = [status EXCEPT ![o] = "cancelled"]
      BY <2>10 DEF CreatePayCancel
    <3>4. \A p \in Orders : HasCreator(p)' = HasCreator(p)
      BY <3>1, <3>2
    <3>5. \A p \in Orders : Gone(p)' = Gone(p)
      BY <3>1, <3>3, <3>4
    <3>6. (ReservedWhereChosen /\ KeptUntilGone)'
      BY <3>1, <3>5
    <3>7. (ChosenOnce /\ UnwoundIsUnpayable)'
      BY <3>1, <3>2, <3>4
    <3>8. (ReleasersKnow /\ RevivedAreSettled)'
      BY <3>1, <3>2, <3>3, <3>5
    <3> QED
      BY <3>6, <3>7, <3>8
  <2>11. CASE Release(w)
    BY <2>11 DEF Release
  <2>12. CASE VerifyQuery(w)
    BY <2>12 DEF VerifyQuery
  <2>13. CASE CronQueryAnswered(w)
    BY <2>13 DEF CronQueryAnswered
  <2>14. CASE CronQueryUnknown(w)
    BY <2>14 DEF CronQueryUnknown
  <2>15. CASE CronExpire(w)
    <3> DEFINE o == ord[w]
    <3>1. /\ o \in Orders /\ pc[w] \notin Creators
          /\ UNCHANGED <<instance, reserved, upstream, revived>>
          /\ \A v \in Workers \ {w} : pc'[v] = pc[v] /\ ord'[v] = ord[v]
      BY <2>15 DEF CronExpire
    <3>2. /\ pc'[w] \in {"idle", "release"}
          /\ pc'[w] = "release" =>
               instance[o] # NoInstance /\ ord'[w] = o /\ status'[o] = "expired"
      BY <2>15 DEF CronExpire
    <3>3. \/ status' = status
          \/ status[o] = "pending" /\ status' = [status EXCEPT ![o] = "expired"]
      BY <2>15 DEF CronExpire
    <3>4. \A p \in Orders : HasCreator(p)' = HasCreator(p)
      BY <3>1, <3>2
    <3>5. \A p \in Orders : Gone(p) => Gone(p)'
      BY <3>1, <3>3, <3>4
    <3>6. (ReservedWhereChosen /\ KeptUntilGone)'
      BY <3>1, <3>5
    <3>7. (ChosenOnce /\ UnwoundIsUnpayable)'
      BY <3>1, <3>2, <3>4
    <3>8. (ReleasersKnow /\ RevivedAreSettled)'
      BY <3>1, <3>2, <3>3, <3>5
    <3> QED
      BY <3>6, <3>7, <3>8
  <2>16. CASE ConfirmFromPending(w)
    <3> DEFINE o == ord[w]
    <3>1. CASE status[o] = "pending"
      <4>1. /\ status' = [status EXCEPT ![o] = "paid"]
            /\ UNCHANGED <<instance, reserved, upstream, revived>>
            /\ pc' = [pc EXCEPT ![w] = "count"]
            /\ ord' = ord
            /\ pc[w] \notin Creators /\ o \in Orders /\ o \notin revived
        BY <2>16, <3>1 DEF ConfirmFromPending
      <4>2. \A p \in Orders : HasCreator(p)' = HasCreator(p)
        BY <4>1
      <4>3. \A p \in Orders : Gone(p)' = Gone(p)
        BY <4>1, <4>2, <3>1
      <4>4. (ReservedWhereChosen /\ KeptUntilGone)'
        BY <4>1, <4>3
      <4>5. (ChosenOnce /\ UnwoundIsUnpayable)'
        BY <4>1, <4>2
      <4>6. (ReleasersKnow /\ RevivedAreSettled)'
        BY <4>1, <4>3
      <4> QED
        BY <4>4, <4>5, <4>6
    <3>2. CASE status[o] # "pending"
      BY <2>16, <3>2 DEF ConfirmFromPending
    <3> QED
      BY <3>1, <3>2
  <2>17. CASE ConfirmFromExpired(w)
    BY <2>17 DEF ConfirmFromExpired
  <2>18. CASE ConfirmFromCancelled(w)
    BY <2>18 DEF ConfirmFromCancelled
  <2>19. CASE ConfirmRecheck(w)
    BY <2>19 DEF ConfirmRecheck
  <2>20. CASE CountRecharge(w)
    BY <2>20 DEF CountRecharge
  <2>21. CASE EnsureReservation(w)
    BY <2>21 DEF EnsureReservation
  <2>22. CASE FulfilRead(w)
    BY <2>22 DEF FulfilRead
  <2>23. CASE FulfilCredit(w)
    BY <2>23 DEF FulfilCredit
  <2>24. CASE FulfilBaseline(w)
    BY <2>24 DEF FulfilBaseline
  <2>25. CASE FulfilPrepaid(w)
    BY <2>25 DEF FulfilPrepaid
  <2>26. CASE FulfilComplete(w)
    <3> DEFINE o == ord[w]
    <3>1. CASE status[o] = "paid"
      <4>1. /\ status' = [status EXCEPT ![o] = "completed"]
            /\ UNCHANGED <<instance, reserved, upstream, revived>>
            /\ pc' = [pc EXCEPT ![w] = "idle"]
            /\ ord' = [ord EXCEPT ![w] = NoOrder]
            /\ pc[w] \notin Creators /\ o \in Orders
        BY <2>26, <3>1 DEF FulfilComplete
      <4>2. \A p \in Orders : HasCreator(p)' = HasCreator(p)
        BY <4>1
      <4>3. \A p \in Orders : Gone(p)' = Gone(p)
        BY <4>1, <4>2, <3>1
      <4>4. (ReservedWhereChosen /\ KeptUntilGone)'
        BY <4>1, <4>3
      <4>5. (ChosenOnce /\ UnwoundIsUnpayable)'
        BY <4>1, <4>2
      <4>6. (ReleasersKnow /\ RevivedAreSettled)'
        BY <4>1, <4>3
      <4> QED
        BY <4>4, <4>5, <4>6
    <3>2. CASE status[o] # "paid"
      <4>1. /\ UNCHANGED <<status, instance, reserved, upstream, revived>>
            /\ pc' = [pc EXCEPT ![w] = "idle"]
            /\ ord' = [ord EXCEPT ![w] = NoOrder]
            /\ pc[w] \notin Creators /\ o \in Orders
        BY <2>26, <3>2 DEF FulfilComplete
      <4> QED
        BY <4>1
    <3> QED
      BY <3>1, <3>2
  <2>27. CASE CronConfirmFailed(w)
    BY <2>27 DEF CronConfirmFailed
  <2> QED
    BY <1>1, <2>1, <2>2, <2>3, <2>4, <2>5, <2>6, <2>7, <2>8, <2>9, <2>10, <2>11, <2>12,
       <2>13, <2>14, <2>15, <2>16, <2>17, <2>18, <2>19, <2>20, <2>21, <2>22, <2>23,
       <2>24, <2>25, <2>26, <2>27 DEF Continue
<1>2. ASSUME NEW w \in Workers, NEW o \in Orders, Start(w, o) PROVE ReservationInv'
  <2>1. CASE CreateLock(w, o)
    BY <2>1 DEF CreateLock
  <2>2. CASE Webhook(w, o)
    BY <2>2 DEF Webhook
  <2>3. CASE Verify(w, o)
    BY <2>3 DEF Verify
  <2>4. CASE ManualComplete(w, o)
    BY <2>4 DEF ManualComplete
  <2>5. CASE CancelOrder(w, o)
    BY <2>5 DEF CancelOrder
  <2>6. CASE CronPaid(w, o)
    BY <2>6 DEF CronPaid
  <2>7. CASE CronExpired(w, o)
    BY <2>7 DEF CronExpired
  <2>8. CASE Reconcile(w, o)
    BY <2>8 DEF Reconcile, Holds, StaleReservation
  <2> QED
    BY <1>2, <2>1, <2>2, <2>3, <2>4, <2>5, <2>6, <2>7, <2>8 DEF Start
<1>3. ASSUME NEW w \in Workers, CreateThrow(w) PROVE ReservationInv'
  BY <1>3 DEF CreateThrow
<1>4. ASSUME NEW w \in Workers, Crash(w) PROVE ReservationInv'
  BY <1>4 DEF Crash
<1>5. ASSUME NEW w \in Workers, CronConfirmThrows(w) PROVE ReservationInv'
  BY <1>5 DEF CronConfirmThrows
<1>6. ASSUME NEW w \in Workers, CronCatchThrows(w) PROVE ReservationInv'
  BY <1>6 DEF CronCatchThrows
<1>7. ASSUME NEW o \in Orders, Pay(o) PROVE ReservationInv'
  BY <1>7 DEF Pay
<1>8. ASSUME NEW o \in Orders, Tick(o) PROVE ReservationInv'
  BY <1>8 DEF Tick
<1>9. ASSUME NEW k \in Keys, LockExpires(k) PROVE ReservationInv'
  BY <1>9 DEF LockExpires
<1>10. CASE UNCHANGED vars
  BY <1>10 DEF vars
<1> QED
  BY <1>1, <1>2, <1>3, <1>4, <1>5, <1>6, <1>7, <1>8, <1>9, <1>10 DEF Next

\* What reservations are known to satisfy, together with the types and the handlers'
\* knowledge inductive.
LEMMA ReservationInvariance == Spec => [](TypeOK /\ HandlersInv /\ ReservationInv)
<1>1. Init => TypeOK /\ HandlersInv /\ ReservationInv
  BY InitTypeOK, InitHandlersInv, InitReservationInv
<1>2. TypeOK /\ HandlersInv /\ ReservationInv /\ [Next]_vars
        => (TypeOK /\ HandlersInv /\ ReservationInv)'
  BY StepTypeOK, StepHandlersInv, StepReservationInv
<1> QED
  BY <1>1, <1>2, PTL DEF Spec

\* The run's property ReservationsHeld for all constants: an order that waits for its
\* payment, or that was paid without ever having been closed or vouched for, has its
\* share of the instance's daily limit, whoever releases and reconciles beside it.
THEOREM ReservationsStay == Spec => []ReservationsHeld
<1>1. TypeOK /\ HandlersInv /\ ReservationInv => ReservationsHeld
  BY DEF TypeOK, HandlersInv, PaidForOrVouchedFor, ReservationInv, KeptUntilGone,
     RevivedAreSettled, Gone, ReservationsHeld, Holds, Settled
<1> QED
  BY <1>1, ReservationInvariance, PTL

-----------------------------------------------------------------------------
(* Finitely many orders exist *)

\* the orders in the store
Saved == {o \in Orders : status[o] # "none"}

\* every step is about one order
OneOrderChanges ==
  \E o \in Orders \cup {NoOrder} : \A p \in Orders \ {o} : status'[p] = status[p]

\* A step of the service changes the status of at most one order.
LEMMA StepOneOrder == TypeOK /\ [Next]_vars => OneOrderChanges
<1> SUFFICES ASSUME TypeOK, [Next]_vars PROVE OneOrderChanges
  OBVIOUS
<1> USE DEF TypeOK, OneOrderChanges, Cas, Revive, orderVars
<1>1. ASSUME NEW w \in Workers, Continue(w) PROVE OneOrderChanges
  <2>1. CASE CreateStats(w)
    BY <2>1 DEF CreateStats
  <2>2. CASE CreateDaily(w)
    BY <2>2 DEF CreateDaily
  <2>3. CASE CreateSelect(w)
    BY <2>3 DEF CreateSelect
  <2>4. CASE CreateSelectNone(w)
    BY <2>4 DEF CreateSelectNone
  <2>5. CASE CreateSelectMock(w)
    BY <2>5 DEF CreateSelectMock
  <2>6. CASE CreateSave(w)
    BY <2>6 DEF CreateSave
  <2>7. CASE CreateUnlock(w)
    BY <2>7 DEF CreateUnlock
  <2>8. CASE CreatePayment(w)
    BY <2>8 DEF CreatePayment
  <2>9. CASE CreatePaymentFails(w)
    BY <2>9 DEF CreatePaymentFails
  <2>10. CASE CreatePayCancel(w)
    BY <2>10 DEF CreatePayCancel
  <2>11. CASE Release(w)
    BY <2>11 DEF Release
  <2>12. CASE VerifyQuery(w)
    BY <2>12 DEF VerifyQuery
  <2>13. CASE CronQueryAnswered(w)
    BY <2>13 DEF CronQueryAnswered
  <2>14. CASE CronQueryUnknown(w)
    BY <2>14 DEF CronQueryUnknown
  <2>15. CASE CronExpire(w)
    BY <2>15 DEF CronExpire
  <2>16. CASE ConfirmFromPending(w)
    BY <2>16 DEF ConfirmFromPending
  <2>17. CASE ConfirmFromExpired(w)
    BY <2>17 DEF ConfirmFromExpired
  <2>18. CASE ConfirmFromCancelled(w)
    BY <2>18 DEF ConfirmFromCancelled
  <2>19. CASE ConfirmRecheck(w)
    BY <2>19 DEF ConfirmRecheck
  <2>20. CASE CountRecharge(w)
    BY <2>20 DEF CountRecharge
  <2>21. CASE EnsureReservation(w)
    BY <2>21 DEF EnsureReservation
  <2>22. CASE FulfilRead(w)
    BY <2>22 DEF FulfilRead
  <2>23. CASE FulfilCredit(w)
    BY <2>23 DEF FulfilCredit
  <2>24. CASE FulfilBaseline(w)
    BY <2>24 DEF FulfilBaseline
  <2>25. CASE FulfilPrepaid(w)
    BY <2>25 DEF FulfilPrepaid
  <2>26. CASE FulfilComplete(w)
    BY <2>26 DEF FulfilComplete
  <2>27. CASE CronConfirmFailed(w)
    BY <2>27 DEF CronConfirmFailed
  <2> QED
    BY <1>1, <2>1, <2>2, <2>3, <2>4, <2>5, <2>6, <2>7, <2>8, <2>9, <2>10, <2>11, <2>12,
       <2>13, <2>14, <2>15, <2>16, <2>17, <2>18, <2>19, <2>20, <2>21, <2>22, <2>23,
       <2>24, <2>25, <2>26, <2>27 DEF Continue
<1>2. ASSUME NEW w \in Workers, NEW o \in Orders, Start(w, o) PROVE OneOrderChanges
  <2>1. CASE CreateLock(w, o)
    BY <2>1 DEF CreateLock
  <2>2. CASE Webhook(w, o)
    BY <2>2 DEF Webhook
  <2>3. CASE Verify(w, o)
    BY <2>3 DEF Verify
  <2>4. CASE ManualComplete(w, o)
    BY <2>4 DEF ManualComplete
  <2>5. CASE CancelOrder(w, o)
    BY <2>5 DEF CancelOrder
  <2>6. CASE CronPaid(w, o)
    BY <2>6 DEF CronPaid
  <2>7. CASE CronExpired(w, o)
    BY <2>7 DEF CronExpired
  <2>8. CASE Reconcile(w, o)
    BY <2>8 DEF Reconcile
  <2> QED
    BY <1>2, <2>1, <2>2, <2>3, <2>4, <2>5, <2>6, <2>7, <2>8 DEF Start
<1>3. ASSUME NEW w \in Workers, CreateThrow(w) PROVE OneOrderChanges
  BY <1>3 DEF CreateThrow
<1>4. ASSUME NEW w \in Workers, Crash(w) PROVE OneOrderChanges
  BY <1>4 DEF Crash
<1>5. ASSUME NEW w \in Workers, CronConfirmThrows(w) PROVE OneOrderChanges
  BY <1>5 DEF CronConfirmThrows
<1>6. ASSUME NEW w \in Workers, CronCatchThrows(w) PROVE OneOrderChanges
  BY <1>6 DEF CronCatchThrows
<1>7. ASSUME NEW o \in Orders, Pay(o) PROVE OneOrderChanges
  BY <1>7 DEF Pay
<1>8. ASSUME NEW o \in Orders, Tick(o) PROVE OneOrderChanges
  BY <1>8 DEF Tick
<1>9. ASSUME NEW k \in Keys, LockExpires(k) PROVE OneOrderChanges
  BY <1>9 DEF LockExpires
<1>10. CASE UNCHANGED vars
  BY <1>10 DEF vars
<1> QED
  BY <1>1, <1>2, <1>3, <1>4, <1>5, <1>6, <1>7, <1>8, <1>9, <1>10 DEF Next

\* The orders that were ever saved stay finitely many, whatever ids there are.
LEMMA StepSavedFinite ==
  TypeOK /\ IsFiniteSet(Saved) /\ [Next]_vars => IsFiniteSet(Saved')
<1> SUFFICES ASSUME TypeOK, IsFiniteSet(Saved), [Next]_vars PROVE IsFiniteSet(Saved')
  OBVIOUS
<1>1. PICK o \in Orders \cup {NoOrder} : \A p \in Orders \ {o} : status'[p] = status[p]
  BY StepOneOrder DEF OneOrderChanges
<1>2. Saved' \subseteq Saved \cup {o}
  BY <1>1 DEF Saved
<1>3. IsFiniteSet(Saved \cup {o})
  BY FS_AddElement
<1> QED
  BY <1>2, <1>3, FS_Subset

\* In every state finitely many orders have been saved.
LEMMA SavedInvariance == Spec => [](TypeOK /\ IsFiniteSet(Saved))
<1>1. Init => TypeOK /\ IsFiniteSet(Saved)
  <2>1. Init => Saved = {}
    BY DEF Init, Saved
  <2> QED
    BY <2>1, InitTypeOK, FS_EmptySet
<1>2. TypeOK /\ IsFiniteSet(Saved) /\ [Next]_vars => (TypeOK /\ IsFiniteSet(Saved))'
  BY StepTypeOK, StepSavedFinite
<1> QED
  BY <1>1, <1>2, PTL DEF Spec

\* The orders of a key in any set of statuses but "none" are finitely many.
LEMMA OrdersOfFinite ==
  ASSUME IsFiniteSet(Saved), NEW k, NEW S, "none" \notin S
  PROVE  IsFiniteSet(OrdersOf(k, S))
<1>1. OrdersOf(k, S) \subseteq Saved
  BY DEF OrdersOf, Saved
<1> QED
  BY <1>1, FS_Subset

-----------------------------------------------------------------------------
(* maxPendingOrders *)

\* who is between acquireLock and releaseLock has the lock of its key
LockHeld ==
  \A w \in Workers : pc[w] \in CriticalSteps => createLock[KeyOf[ord[w]]] = w

\* A handler between acquireLock and releaseLock holds its key's lock, if the lock does
\* not expire under it.
LEMMA StepLockHeld ==
  ASSUME ~LockOverrun
  PROVE  TypeOK /\ LockHeld /\ [Next]_vars => LockHeld'
<1> SUFFICES ASSUME TypeOK, LockHeld, [Next]_vars PROVE LockHeld'
  OBVIOUS
<1> USE OrderConstants DEF TypeOK, LockHeld, Status, Steps, CriticalSteps, Recoverable,
      Settled, Goto, Begin, Cas, AfterClose, ConfirmStep, Revive,
      ConfirmSteps, LeaveScan, Thrown, Unknown, Reported, AmountMatches,
      orderVars, ledgerVars, auditVars, localVars
<1>1. ASSUME NEW w \in Workers, Continue(w) PROVE LockHeld'
  <2>1. CASE CreateStats(w)
    BY <2>1 DEF CreateStats
  <2>2. CASE CreateDaily(w)
    BY <2>2 DEF CreateDaily
  <2>3. CASE CreateSelect(w)
    BY <2>3 DEF CreateSelect
  <2>4. CASE CreateSelectNone(w)
    BY <2>4 DEF CreateSelectNone
  <2>5. CASE CreateSelectMock(w)
    BY <2>5 DEF CreateSelectMock
  <2>6. CASE CreateSave(w)
    BY <2>6 DEF CreateSave
  <2>7. CASE CreateUnlock(w)
    BY <2>7 DEF CreateUnlock
  <2>8. CASE CreatePayment(w)
    BY <2>8 DEF CreatePayment
  <2>9. CASE CreatePaymentFails(w)
    BY <2>9 DEF CreatePaymentFails
  <2>10. CASE CreatePayCancel(w)
    BY <2>10 DEF CreatePayCancel
  <2>11. CASE Release(w)
    BY <2>11 DEF Release
  <2>12. CASE VerifyQuery(w)
    BY <2>12 DEF VerifyQuery
  <2>13. CASE CronQueryAnswered(w)
    BY <2>13 DEF CronQueryAnswered
  <2>14. CASE CronQueryUnknown(w)
    BY <2>14 DEF CronQueryUnknown
  <2>15. CASE CronExpire(w)
    BY <2>15 DEF CronExpire
  <2>16. CASE ConfirmFromPending(w)
    BY <2>16 DEF ConfirmFromPending
  <2>17. CASE ConfirmFromExpired(w)
    BY <2>17 DEF ConfirmFromExpired
  <2>18. CASE ConfirmFromCancelled(w)
    BY <2>18 DEF ConfirmFromCancelled
  <2>19. CASE ConfirmRecheck(w)
    BY <2>19 DEF ConfirmRecheck
  <2>20. CASE CountRecharge(w)
    BY <2>20 DEF CountRecharge
  <2>21. CASE EnsureReservation(w)
    BY <2>21 DEF EnsureReservation
  <2>22. CASE FulfilRead(w)
    BY <2>22 DEF FulfilRead
  <2>23. CASE FulfilCredit(w)
    BY <2>23 DEF FulfilCredit
  <2>24. CASE FulfilBaseline(w)
    BY <2>24 DEF FulfilBaseline
  <2>25. CASE FulfilPrepaid(w)
    BY <2>25 DEF FulfilPrepaid
  <2>26. CASE FulfilComplete(w)
    BY <2>26 DEF FulfilComplete
  <2>27. CASE CronConfirmFailed(w)
    BY <2>27 DEF CronConfirmFailed
  <2> QED
    BY <1>1, <2>1, <2>2, <2>3, <2>4, <2>5, <2>6, <2>7, <2>8, <2>9, <2>10, <2>11, <2>12,
       <2>13, <2>14, <2>15, <2>16, <2>17, <2>18, <2>19, <2>20, <2>21, <2>22, <2>23,
       <2>24, <2>25, <2>26, <2>27 DEF Continue
<1>2. ASSUME NEW w \in Workers, NEW o \in Orders, Start(w, o) PROVE LockHeld'
  <2>1. CASE CreateLock(w, o)
    BY <2>1 DEF CreateLock
  <2>2. CASE Webhook(w, o)
    BY <2>2 DEF Webhook
  <2>3. CASE Verify(w, o)
    BY <2>3 DEF Verify
  <2>4. CASE ManualComplete(w, o)
    BY <2>4 DEF ManualComplete
  <2>5. CASE CancelOrder(w, o)
    BY <2>5 DEF CancelOrder
  <2>6. CASE CronPaid(w, o)
    BY <2>6 DEF CronPaid
  <2>7. CASE CronExpired(w, o)
    BY <2>7 DEF CronExpired
  <2>8. CASE Reconcile(w, o)
    BY <2>8 DEF Reconcile
  <2> QED
    BY <1>2, <2>1, <2>2, <2>3, <2>4, <2>5, <2>6, <2>7, <2>8 DEF Start
<1>3. ASSUME NEW w \in Workers, CreateThrow(w) PROVE LockHeld'
  BY <1>3 DEF CreateThrow
<1>4. ASSUME NEW w \in Workers, Crash(w) PROVE LockHeld'
  BY <1>4 DEF Crash
<1>5. ASSUME NEW w \in Workers, CronConfirmThrows(w) PROVE LockHeld'
  BY <1>5 DEF CronConfirmThrows
<1>6. ASSUME NEW w \in Workers, CronCatchThrows(w) PROVE LockHeld'
  BY <1>6 DEF CronCatchThrows
<1>7. ASSUME NEW o \in Orders, Pay(o) PROVE LockHeld'
  BY <1>7 DEF Pay
<1>8. ASSUME NEW o \in Orders, Tick(o) PROVE LockHeld'
  BY <1>8 DEF Tick
<1>9. ASSUME NEW k \in Keys, LockExpires(k) PROVE LockHeld'
  BY <1>9 DEF LockExpires
<1>10. CASE UNCHANGED vars
  BY <1>10 DEF vars
<1> QED
  BY <1>1, <1>2, <1>3, <1>4, <1>5, <1>6, <1>7, <1>8, <1>9, <1>10 DEF Next

\* the steps between the count of pending orders and the save
Admitted == {"daily", "select", "save"}

\* the orders of a key that are waiting for their payment
Pending(k) == OrdersOf(k, {"pending"})

\* one more order fits below maxPendingOrders
HasRoom(k) == Cardinality(Pending(k)) < MaxPending

\* what the count under the lock found is still true when the order is saved
RoomForAdmitted ==
  \A w \in Workers : pc[w] \in Admitted => HasRoom(KeyOf[ord[w]])

\* the handler w saves its order, which is then pending
Saves(w) ==
  /\ pc[w] = "save" /\ ord[w] \in Orders
  /\ status' = [status EXCEPT ![ord[w]] = "pending"]
  /\ pc'[w] \in {"unlock", "unwind"}
  /\ \A v \in Workers \ {w} : pc'[v] = pc[v] /\ ord'[v] = ord[v]

\* the handler w admits its order after counting
Admits(w) ==
  /\ pc[w] = "stats"
  /\ pc'[w] \in Admitted => HasRoom(KeyOf[ord[w]])
  /\ status' = status /\ ord' = ord
  /\ \A v \in Workers \ {w} : pc'[v] = pc[v]

\* no order becomes pending and no other handler is admitted
NothingAdmitted ==
  /\ \A o \in Orders : status'[o] = "pending" => status[o] = "pending"
  /\ \A v \in Workers : pc'[v] \in Admitted => pc[v] \in Admitted /\ ord'[v] = ord[v]

\* Every step saves an order, lets a handler past the count, or does neither.
LEMMA StepAdmission ==
  TypeOK /\ [Next]_vars
    => NothingAdmitted \/ \E w \in Workers : Saves(w) \/ Admits(w)
<1> DEFINE Goal == NothingAdmitted \/ \E w \in Workers : Saves(w) \/ Admits(w)
<1> SUFFICES ASSUME TypeOK, [Next]_vars PROVE Goal
  OBVIOUS
<1> USE OrderConstants DEF TypeOK, NothingAdmitted, Saves, Admits, Admitted,
      Status, Steps, CriticalSteps, Recoverable,
      Settled, Goto, Begin, Cas, AfterClose, ConfirmStep, Revive,
      ConfirmSteps, LeaveScan, Thrown, Unknown, Reported, AmountMatches,
      orderVars, ledgerVars, auditVars, localVars
<1>1. ASSUME NEW w \in Workers, Continue(w) PROVE Goal
  <2>1. CASE CreateStats(w)
    BY <2>1 DEF CreateStats, HasRoom, Pending
  <2>2. CASE CreateDaily(w)
    BY <2>2 DEF CreateDaily
  <2>3. CASE CreateSelect(w)
    BY <2>3 DEF CreateSelect
  <2>4. CASE CreateSelectNone(w)
    BY <2>4 DEF CreateSelectNone
  <2>5. CASE CreateSelectMock(w)
    BY <2>5 DEF CreateSelectMock
  <2>6. CASE CreateSave(w)
    BY <2>6 DEF CreateSave
  <2>7. CASE CreateUnlock(w)
    BY <2>7 DEF CreateUnlock
  <2>8. CASE CreatePayment(w)
    BY <2>8 DEF CreatePayment
  <2>9. CASE CreatePaymentFails(w)
    BY <2>9 DEF CreatePaymentFails
  <2>10. CASE CreatePayCancel(w)
    BY <2>10 DEF CreatePayCancel
  <2>11. CASE Release(w)
    BY <2>11 DEF Release
  <2>12. CASE VerifyQuery(w)
    BY <2>12 DEF VerifyQuery
  <2>13. CASE CronQueryAnswered(w)
    BY <2>13 DEF CronQueryAnswered
  <2>14. CASE CronQueryUnknown(w)
    BY <2>14 DEF CronQueryUnknown
  <2>15. CASE CronExpire(w)
    BY <2>15 DEF CronExpire
  <2>16. CASE ConfirmFromPending(w)
    BY <2>16 DEF ConfirmFromPending
  <2>17. CASE ConfirmFromExpired(w)
    BY <2>17 DEF ConfirmFromExpired
  <2>18. CASE ConfirmFromCancelled(w)
    BY <2>18 DEF ConfirmFromCancelled
  <2>19. CASE ConfirmRecheck(w)
    BY <2>19 DEF ConfirmRecheck
  <2>20. CASE CountRecharge(w)
    BY <2>20 DEF CountRecharge
  <2>21. CASE EnsureReservation(w)
    BY <2>21 DEF EnsureReservation
  <2>22. CASE FulfilRead(w)
    BY <2>22 DEF FulfilRead
  <2>23. CASE FulfilCredit(w)
    BY <2>23 DEF FulfilCredit
  <2>24. CASE FulfilBaseline(w)
    BY <2>24 DEF FulfilBaseline
  <2>25. CASE FulfilPrepaid(w)
    BY <2>25 DEF FulfilPrepaid
  <2>26. CASE FulfilComplete(w)
    BY <2>26 DEF FulfilComplete
  <2>27. CASE CronConfirmFailed(w)
    BY <2>27 DEF CronConfirmFailed
  <2> QED
    BY <1>1, <2>1, <2>2, <2>3, <2>4, <2>5, <2>6, <2>7, <2>8, <2>9, <2>10, <2>11, <2>12,
       <2>13, <2>14, <2>15, <2>16, <2>17, <2>18, <2>19, <2>20, <2>21, <2>22, <2>23,
       <2>24, <2>25, <2>26, <2>27 DEF Continue
<1>2. ASSUME NEW w \in Workers, NEW o \in Orders, Start(w, o) PROVE Goal
  <2>1. CASE CreateLock(w, o)
    BY <2>1 DEF CreateLock
  <2>2. CASE Webhook(w, o)
    BY <2>2 DEF Webhook
  <2>3. CASE Verify(w, o)
    BY <2>3 DEF Verify
  <2>4. CASE ManualComplete(w, o)
    BY <2>4 DEF ManualComplete
  <2>5. CASE CancelOrder(w, o)
    BY <2>5 DEF CancelOrder
  <2>6. CASE CronPaid(w, o)
    BY <2>6 DEF CronPaid
  <2>7. CASE CronExpired(w, o)
    BY <2>7 DEF CronExpired
  <2>8. CASE Reconcile(w, o)
    BY <2>8 DEF Reconcile
  <2> QED
    BY <1>2, <2>1, <2>2, <2>3, <2>4, <2>5, <2>6, <2>7, <2>8 DEF Start
<1>3. ASSUME NEW w \in Workers, CreateThrow(w) PROVE Goal
  BY <1>3 DEF CreateThrow
<1>4. ASSUME NEW w \in Workers, Crash(w) PROVE Goal
  BY <1>4 DEF Crash
<1>5. ASSUME NEW w \in Workers, CronConfirmThrows(w) PROVE Goal
  BY <1>5 DEF CronConfirmThrows
<1>6. ASSUME NEW w \in Workers, CronCatchThrows(w) PROVE Goal
  BY <1>6 DEF CronCatchThrows
<1>7. ASSUME NEW o \in Orders, Pay(o) PROVE Goal
  BY <1>7 DEF Pay
<1>8. ASSUME NEW o \in Orders, Tick(o) PROVE Goal
  BY <1>8 DEF Tick
<1>9. ASSUME NEW k \in Keys, LockExpires(k) PROVE Goal
  BY <1>9 DEF LockExpires
<1>10. CASE UNCHANGED vars
  BY <1>10 DEF vars
<1> QED
  BY <1>1, <1>2, <1>3, <1>4, <1>5, <1>6, <1>7, <1>8, <1>9, <1>10 DEF Next

\* The save of one handler does not take the room another has found: they would have
\* the same lock.
LEMMA StepRoom ==
  TypeOK /\ LockHeld /\ IsFiniteSet(Saved) /\ RoomForAdmitted /\ PendingLimitRespected
    /\ [Next]_vars
    => RoomForAdmitted' /\ PendingLimitRespected'
<1> SUFFICES ASSUME TypeOK, LockHeld, IsFiniteSet(Saved), RoomForAdmitted,
                    PendingLimitRespected, [Next]_vars
             PROVE  RoomForAdmitted' /\ PendingLimitRespected'
  OBVIOUS
<1>1. \A k \in Keys : IsFiniteSet(Pending(k)) /\ Cardinality(Pending(k)) \in Nat
  BY OrdersOfFinite, FS_CardinalityType DEF Pending
<1>2. IsFiniteSet(Saved')
  BY StepSavedFinite
<1>3. \A k \in Keys : IsFiniteSet(Pending(k)') /\ Cardinality(Pending(k)') \in Nat
  <2>1. \A k \in Keys : Pending(k)' \subseteq Saved'
    BY DEF Pending, OrdersOf, Saved
  <2> QED
    BY <1>2, <2>1, FS_Subset, FS_CardinalityType
<1>4. TypeOK'
  BY StepTypeOK
<1>5. CASE NothingAdmitted
  <2>1. ASSUME NEW k \in Keys
        PROVE  Cardinality(Pending(k)') <= Cardinality(Pending(k))
    <3>1. Pending(k)' \subseteq Pending(k)
      BY <1>5 DEF NothingAdmitted, Pending, OrdersOf
    <3> QED
      BY <1>1, <3>1, FS_Subset
  <2>2. PendingLimitRespected'
    BY <1>1, <1>3, <2>1, OrderConstants DEF PendingLimitRespected, Pending
  <2>3. RoomForAdmitted'
    <3> SUFFICES ASSUME NEW w \in Workers, (pc[w] \in Admitted)'
                 PROVE  HasRoom(KeyOf[ord[w]])'
      BY DEF RoomForAdmitted
    <3>1. pc[w] \in Admitted /\ ord'[w] = ord[w] /\ HasRoom(KeyOf[ord[w]])
      BY <1>5 DEF NothingAdmitted, RoomForAdmitted
    <3>2. KeyOf[ord[w]] \in Keys
      BY <3>1, OrderConstants DEF TypeOK, Admitted
    <3> QED
      BY <1>1, <1>3, <2>1, <3>1, <3>2, OrderConstants DEF HasRoom
  <2> QED
    BY <2>2, <2>3
<1>6. ASSUME NEW w \in Workers, Saves(w)
      PROVE  RoomForAdmitted' /\ PendingLimitRespected'
  <2>1. PICK key \in Keys : key = KeyOf[ord[w]] /\ HasRoom(key) /\ createLock[key] = w
    BY <1>6, OrderConstants DEF Saves, RoomForAdmitted, Admitted, LockHeld, CriticalSteps
  <2>2. Pending(key)' \subseteq Pending(key) \cup {ord[w]}
    BY <1>6, <2>1 DEF Saves, Pending, OrdersOf, TypeOK
  <2>3. Cardinality(Pending(key)') <= Cardinality(Pending(key)) + 1
    <3> DEFINE more == Pending(key) \cup {ord[w]}
    <3>1. IsFiniteSet(Pending(key)) /\ Cardinality(Pending(key)) \in Nat
      BY <1>1
    <3>2. /\ IsFiniteSet(more)
          /\ Cardinality(more) = IF ord[w] \in Pending(key) THEN Cardinality(Pending(key))
                                 ELSE Cardinality(Pending(key)) + 1
      BY <3>1, FS_AddElement
    <3>3. Cardinality(Pending(key)') <= Cardinality(more) /\ Cardinality(more) \in Nat
      BY <2>2, <3>2, FS_Subset, FS_CardinalityType
    <3> HIDE DEF more
    <3> QED
      BY <1>3, <3>1, <3>2, <3>3
  <2>4. ASSUME NEW k \in Keys, k # key PROVE Pending(k)' = Pending(k)
    BY <1>6, <2>1, <2>4, OrderConstants DEF Saves, Pending, OrdersOf, TypeOK
  <2>5. PendingLimitRespected'
    BY <1>1, <1>3, <2>1, <2>3, <2>4, OrderConstants
       DEF PendingLimitRespected, Pending, HasRoom
  <2>6. RoomForAdmitted'
    <3> SUFFICES ASSUME NEW v \in Workers, (pc[v] \in Admitted)'
                 PROVE  HasRoom(KeyOf[ord[v]])'
      BY DEF RoomForAdmitted
    <3>1. /\ v # w /\ pc[v] \in Admitted
          /\ ord'[v] = ord[v] /\ KeyOf[ord[v]] \in Keys
      BY <1>6, OrderConstants DEF Saves, Admitted, TypeOK
    <3>2. createLock[KeyOf[ord[v]]] = v
      BY <3>1 DEF LockHeld, Admitted, CriticalSteps
    <3>3. KeyOf[ord[v]] # key
      BY <2>1, <3>1, <3>2
    <3>4. Pending(KeyOf[ord[v]])' = Pending(KeyOf[ord[v]])
      BY <2>4, <3>1, <3>3
    <3> QED
      BY <3>1, <3>4 DEF RoomForAdmitted, HasRoom
  <2> QED
    BY <2>5, <2>6
<1>7. ASSUME NEW w \in Workers, Admits(w)
      PROVE  RoomForAdmitted' /\ PendingLimitRespected'
  <2>1. \A k \in Keys : Pending(k)' = Pending(k)
    BY <1>7 DEF Admits, Pending, OrdersOf
  <2>2. PendingLimitRespected'
    BY <2>1 DEF PendingLimitRespected, Pending
  <2>3. RoomForAdmitted'
    <3> SUFFICES ASSUME NEW v \in Workers, (pc[v] \in Admitted)'
                 PROVE  HasRoom(KeyOf[ord[v]])'
      BY DEF RoomForAdmitted
    <3>1. ord' = ord /\ HasRoom(KeyOf[ord[v]])
      BY <1>7 DEF Admits, RoomForAdmitted
    <3>2. KeyOf[ord[v]] \in Keys
      BY <1>4, <3>1, OrderConstants DEF TypeOK, Admitted
    <3> QED
      BY <2>1, <3>1, <3>2 DEF HasRoom
  <2> QED
    BY <2>2, <2>3
<1>8. NothingAdmitted \/ \E w \in Workers : Saves(w) \/ Admits(w)
  BY StepAdmission
<1> QED
  BY <1>5, <1>6, <1>7, <1>8

\* maxPendingOrders, for any number of concurrent createOrder calls of a key and any
\* crashes, as long as the lock's TTL covers the section it protects.
THEOREM PendingLimitHolds ==
  ASSUME ~LockOverrun
  PROVE  Spec => []PendingLimitRespected
<1> DEFINE AdmissionInv == LockHeld /\ RoomForAdmitted /\ PendingLimitRespected
<1>1. Init => AdmissionInv
  <2>1. Init => \A k \in Keys : OrdersOf(k, {"pending"}) = {}
    BY DEF Init, OrdersOf
  <2>2. Init => PendingLimitRespected
    BY <2>1, FS_EmptySet, OrderConstants DEF PendingLimitRespected
  <2>3. Init => LockHeld /\ RoomForAdmitted
    BY DEF Init, LockHeld, RoomForAdmitted, Admitted, CriticalSteps
  <2> QED
    BY <2>2, <2>3
<1>2. AdmissionInv /\ TypeOK /\ IsFiniteSet(Saved) /\ [Next]_vars => AdmissionInv'
  BY StepLockHeld, StepRoom
<1> QED
  BY <1>1, <1>2, SavedInvariance, PTL DEF Spec

-----------------------------------------------------------------------------
(* The day's recharge total *)

\* The amount of a set of orders is the sum that FiniteSums is about.
LEMMA AmountIsTotal ==
  ASSUME NEW S
  PROVE  AmountOf(S) = Total(PayAmount, S)
  BY DEF AmountOf, Total

\* the steps at which a handler has confirmed its order and not yet counted it
Counters == {"count", "countRevived"}

\* an order is being counted by one handler at most
OneCounter ==
  \A v, w \in Workers :
    pc[v] \in Counters /\ pc[w] \in Counters /\ ord[v] = ord[w] => v = w

\* the orders of a key whose handler has confirmed them and has yet to count them
Uncounted(k) ==
  {o \in Orders : KeyOf[o] = k /\ \E w \in Workers : ord[w] = o /\ pc[w] \in Counters}

\* the orders of a key whose payment is confirmed
SettledOf(k) == OrdersOf(k, Settled)

\* what is counted already and what is about to be is paid for by settled orders
CountedAreSettled ==
  \A k \in Keys :
    dailyRecharged[k] + Total(PayAmount, Uncounted(k)) <= Total(PayAmount, SettledOf(k))

\* the handler w wins the CAS that confirms its order
Confirms(w) ==
  /\ ord[w] \in Orders /\ status[ord[w]] \notin Settled
  /\ status' = [status EXCEPT ![ord[w]] = "paid"]
  /\ pc'[w] \in Counters
  /\ \A v \in Workers \ {w} : pc'[v] = pc[v]
  /\ ord' = ord /\ dailyRecharged' = dailyRecharged

\* the handler w counts its order
Counts(w) ==
  /\ pc[w] \in Counters /\ ord[w] \in Orders
  /\ dailyRecharged' = [dailyRecharged EXCEPT ![KeyOf[ord[w]]] = @ + PayAmount[ord[w]]]
  /\ pc'[w] \notin Counters
  /\ \A v \in Workers \ {w} : pc'[v] = pc[v]
  /\ ord' = ord /\ status' = status

\* no order is confirmed or counted, though a handler that had to count may be lost
NothingCounted ==
  /\ \A o \in Orders : status[o] \in Settled => status'[o] \in Settled
  /\ \A v \in Workers : pc'[v] \in Counters => pc[v] \in Counters /\ ord'[v] = ord[v]
  /\ dailyRecharged' = dailyRecharged

\* Every step confirms one order, counts one, or does neither.
LEMMA StepCounting ==
  TypeOK /\ HandlersInv /\ [Next]_vars
    => NothingCounted \/ \E w \in Workers : Confirms(w) \/ Counts(w)
<1> DEFINE Goal == NothingCounted \/ \E w \in Workers : Confirms(w) \/ Counts(w)
<1> SUFFICES ASSUME TypeOK, HandlersInv, [Next]_vars PROVE Goal
  OBVIOUS
<1> USE OrderConstants DEF TypeOK, HandlersInv, UnsavedIsNew, Unsaved,
      NothingCounted, Confirms, Counts, Counters,
      Status, Steps, CriticalSteps, Recoverable,
      Settled, Goto, Begin, Cas, AfterClose, ConfirmStep, Revive,
      ConfirmSteps, LeaveScan, Thrown, Unknown, Reported, AmountMatches,
      orderVars, ledgerVars, auditVars, localVars
<1>1. ASSUME NEW w \in Workers, Continue(w) PROVE Goal
  <2>1. CASE CreateStats(w)
    BY <2>1 DEF CreateStats
  <2>2. CASE CreateDaily(w)
    BY <2>2 DEF CreateDaily
  <2>3. CASE CreateSelect(w)
    BY <2>3 DEF CreateSelect
  <2>4. CASE CreateSelectNone(w)
    BY <2>4 DEF CreateSelectNone
  <2>5. CASE CreateSelectMock(w)
    BY <2>5 DEF CreateSelectMock
  <2>6. CASE CreateSave(w)
    BY <2>6 DEF CreateSave
  <2>7. CASE CreateUnlock(w)
    BY <2>7 DEF CreateUnlock
  <2>8. CASE CreatePayment(w)
    BY <2>8 DEF CreatePayment
  <2>9. CASE CreatePaymentFails(w)
    BY <2>9 DEF CreatePaymentFails
  <2>10. CASE CreatePayCancel(w)
    BY <2>10 DEF CreatePayCancel
  <2>11. CASE Release(w)
    BY <2>11 DEF Release
  <2>12. CASE VerifyQuery(w)
    BY <2>12 DEF VerifyQuery
  <2>13. CASE CronQueryAnswered(w)
    BY <2>13 DEF CronQueryAnswered
  <2>14. CASE CronQueryUnknown(w)
    BY <2>14 DEF CronQueryUnknown
  <2>15. CASE CronExpire(w)
    BY <2>15 DEF CronExpire
  <2>16. CASE ConfirmFromPending(w)
    BY <2>16 DEF ConfirmFromPending
  <2>17. CASE ConfirmFromExpired(w)
    BY <2>17 DEF ConfirmFromExpired
  <2>18. CASE ConfirmFromCancelled(w)
    BY <2>18 DEF ConfirmFromCancelled
  <2>19. CASE ConfirmRecheck(w)
    BY <2>19 DEF ConfirmRecheck
  <2>20. CASE CountRecharge(w)
    <3>1. pc[w] \in Counters /\ ord[w] \in Orders /\ status' = status
      BY <2>20 DEF CountRecharge
    <3>2. /\ pc'[w] \in {"restore", "fulfil"} /\ ord' = ord
          /\ \A v \in Workers \ {w} : pc'[v] = pc[v]
      BY <2>20 DEF CountRecharge
    <3>3. dailyRecharged' =
            [dailyRecharged EXCEPT ![KeyOf[ord[w]]] = @ + PayAmount[ord[w]]]
      BY <2>20 DEF CountRecharge
    <3>4. Counts(w)
      BY <3>1, <3>2, <3>3
    <3> QED
      BY <3>4
  <2>21. CASE EnsureReservation(w)
    BY <2>21 DEF EnsureReservation
  <2>22. CASE FulfilRead(w)
    BY <2>22 DEF FulfilRead
  <2>23. CASE FulfilCredit(w)
    BY <2>23 DEF FulfilCredit
  <2>24. CASE FulfilBaseline(w)
    BY <2>24 DEF FulfilBaseline
  <2>25. CASE FulfilPrepaid(w)
    BY <2>25 DEF FulfilPrepaid
  <2>26. CASE FulfilComplete(w)
    BY <2>26 DEF FulfilComplete
  <2>27. CASE CronConfirmFailed(w)
    BY <2>27 DEF CronConfirmFailed
  <2> QED
    BY <1>1, <2>1, <2>2, <2>3, <2>4, <2>5, <2>6, <2>7, <2>8, <2>9, <2>10, <2>11, <2>12,
       <2>13, <2>14, <2>15, <2>16, <2>17, <2>18, <2>19, <2>20, <2>21, <2>22, <2>23,
       <2>24, <2>25, <2>26, <2>27 DEF Continue
<1>2. ASSUME NEW w \in Workers, NEW o \in Orders, Start(w, o) PROVE Goal
  <2>1. CASE CreateLock(w, o)
    BY <2>1 DEF CreateLock
  <2>2. CASE Webhook(w, o)
    BY <2>2 DEF Webhook
  <2>3. CASE Verify(w, o)
    BY <2>3 DEF Verify
  <2>4. CASE ManualComplete(w, o)
    BY <2>4 DEF ManualComplete
  <2>5. CASE CancelOrder(w, o)
    BY <2>5 DEF CancelOrder
  <2>6. CASE CronPaid(w, o)
    BY <2>6 DEF CronPaid
  <2>7. CASE CronExpired(w, o)
    BY <2>7 DEF CronExpired
  <2>8. CASE Reconcile(w, o)
    BY <2>8 DEF Reconcile
  <2> QED
    BY <1>2, <2>1, <2>2, <2>3, <2>4, <2>5, <2>6, <2>7, <2>8 DEF Start
<1>3. ASSUME NEW w \in Workers, CreateThrow(w) PROVE Goal
  BY <1>3 DEF CreateThrow
<1>4. ASSUME NEW w \in Workers, Crash(w) PROVE Goal
  BY <1>4 DEF Crash
<1>5. ASSUME NEW w \in Workers, CronConfirmThrows(w) PROVE Goal
  BY <1>5 DEF CronConfirmThrows
<1>6. ASSUME NEW w \in Workers, CronCatchThrows(w) PROVE Goal
  BY <1>6 DEF CronCatchThrows
<1>7. ASSUME NEW o \in Orders, Pay(o) PROVE Goal
  BY <1>7 DEF Pay
<1>8. ASSUME NEW o \in Orders, Tick(o) PROVE Goal
  BY <1>8 DEF Tick
<1>9. ASSUME NEW k \in Keys, LockExpires(k) PROVE Goal
  BY <1>9 DEF LockExpires
<1>10. CASE UNCHANGED vars
  BY <1>10 DEF vars
<1> QED
  BY <1>1, <1>2, <1>3, <1>4, <1>5, <1>6, <1>7, <1>8, <1>9, <1>10 DEF Next

\* Two handlers never both win the CAS of an order, and neither wins it again later.
LEMMA StepOneCounter ==
  TypeOK /\ HandlersInv /\ OneCounter /\ [Next]_vars => OneCounter'
<1> SUFFICES ASSUME TypeOK, HandlersInv, OneCounter, [Next]_vars PROVE OneCounter'
  OBVIOUS
<1>1. CASE NothingCounted
  BY <1>1 DEF NothingCounted, OneCounter
<1>2. ASSUME NEW w \in Workers, Confirms(w) PROVE OneCounter'
  <2>1. \A v \in Workers : pc[v] \in Counters => ord[v] # ord[w]
    BY <1>2 DEF HandlersInv, FulfillersKnow, Fulfilling, Counters, Confirms
  <2> QED
    BY <1>2, <2>1 DEF Confirms, OneCounter
<1>3. ASSUME NEW w \in Workers, Counts(w) PROVE OneCounter'
  BY <1>3 DEF Counts, OneCounter
<1> QED
  BY <1>1, <1>2, <1>3, StepCounting

\* The winner of the CAS brings its order into both sums, and its count moves the amount
\* from one summand to the other; a crash between the two only loses it.
LEMMA StepCountedAreSettled ==
  TypeOK /\ HandlersInv /\ IsFiniteSet(Saved) /\ OneCounter /\ CountedAreSettled
    /\ [Next]_vars
    => CountedAreSettled'
<1> SUFFICES ASSUME TypeOK, HandlersInv, IsFiniteSet(Saved), OneCounter,
                    CountedAreSettled, [Next]_vars, NEW k \in Keys
             PROVE  dailyRecharged'[k] + Total(PayAmount, Uncounted(k)')
                      <= Total(PayAmount, SettledOf(k)')
  BY DEF CountedAreSettled
<1>1. TypeOK' /\ HandlersInv' /\ IsFiniteSet(Saved')
  BY StepTypeOK, StepHandlersInv, StepSavedFinite
<1> DEFINE U == Uncounted(k)
           S == SettledOf(k)
<1>2. U \subseteq S /\ U' \subseteq S'
  <2>1. HandlersInv => Uncounted(k) \subseteq SettledOf(k)
    BY DEF HandlersInv, FulfillersKnow, Fulfilling, Counters, Uncounted, SettledOf, OrdersOf
  <2>2. HandlersInv' => Uncounted(k)' \subseteq SettledOf(k)'
    BY DEF HandlersInv, FulfillersKnow, Fulfilling, Counters, Uncounted, SettledOf, OrdersOf
  <2> QED
    BY <1>1, <2>1, <2>2
<1>3. IsFiniteSet(S) /\ IsFiniteSet(S') /\ IsFiniteSet(U) /\ IsFiniteSet(U')
  <2>1. S \subseteq Saved /\ S' \subseteq Saved'
    BY DEF SettledOf, OrdersOf, Saved, Settled
  <2> QED
    BY <1>1, <1>2, <2>1, FS_Subset
<1>4. \A o \in Orders : PayAmount[o] \in Nat
  BY OrderConstants
<1>5. S \subseteq Orders /\ S' \subseteq Orders /\ U \subseteq Orders /\ U' \subseteq Orders
  BY DEF SettledOf, OrdersOf, Uncounted
<1>6. /\ Total(PayAmount, S) \in Nat /\ Total(PayAmount, S') \in Nat
      /\ Total(PayAmount, U) \in Nat /\ Total(PayAmount, U') \in Nat
  BY <1>3, <1>4, <1>5, TotalType
<1>7. /\ dailyRecharged[k] \in Nat /\ dailyRecharged'[k] \in Nat
      /\ dailyRecharged[k] + Total(PayAmount, U) <= Total(PayAmount, S)
  BY <1>1 DEF TypeOK, CountedAreSettled
<1> DEFINE Goal == dailyRecharged'[k] + Total(PayAmount, U') <= Total(PayAmount, S')
<1>8. ASSUME NothingCounted PROVE Goal
  <2>1. S \subseteq S' /\ U' \subseteq U /\ dailyRecharged'[k] = dailyRecharged[k]
    BY <1>8 DEF NothingCounted, SettledOf, OrdersOf, Uncounted
  <2>2. Total(PayAmount, S) <= Total(PayAmount, S')
    BY <1>3, <1>4, <1>5, <2>1, TotalMonotone
  <2>3. Total(PayAmount, U') <= Total(PayAmount, U)
    BY <1>3, <1>4, <1>5, <2>1, TotalMonotone
  <2> HIDE DEF U, S
  <2> QED
    BY <1>6, <1>7, <2>1, <2>2, <2>3
<1>9. ASSUME NEW w \in Workers, Confirms(w) PROVE Goal
  <2>1. PICK o \in Orders : o = ord[w]
    BY <1>9 DEF Confirms
  <2>2. dailyRecharged' = dailyRecharged /\ o \notin S /\ o \notin U
    BY <1>2, <1>9, <2>1 DEF Confirms, SettledOf, OrdersOf
  <2>3. CASE KeyOf[o] = k
    <3>1. S' = S \cup {o}
      BY <1>9, <2>1, <2>3 DEF Confirms, SettledOf, OrdersOf, Settled, TypeOK
    <3>2. U' \subseteq U \cup {o}
      BY <1>9, <2>1 DEF Confirms, Uncounted
    <3>3. Total(PayAmount, S') = Total(PayAmount, S) + PayAmount[o]
      BY <1>3, <1>4, <1>5, <2>2, <3>1, TotalAdd
    <3>4. Total(PayAmount, U \cup {o}) = Total(PayAmount, U) + PayAmount[o]
      BY <1>3, <1>4, <1>5, <2>2, TotalAdd
    <3>5. Total(PayAmount, U') <= Total(PayAmount, U \cup {o})
      <4>1. IsFiniteSet(U \cup {o}) /\ U \cup {o} \subseteq Orders
        BY <1>3, <1>5, FS_AddElement
      <4> HIDE DEF U
      <4> QED
        BY <1>4, <3>2, <4>1, TotalMonotone
    <3> HIDE DEF U, S
    <3> QED
      BY <1>4, <1>6, <1>7, <2>2, <3>3, <3>4, <3>5
  <2>4. CASE KeyOf[o] # k
    <3>1. S' = S /\ U' \subseteq U
      BY <1>9, <2>1, <2>4 DEF Confirms, SettledOf, OrdersOf, Uncounted, TypeOK
    <3>2. Total(PayAmount, U') <= Total(PayAmount, U)
      BY <1>3, <1>4, <1>5, <3>1, TotalMonotone
    <3> HIDE DEF U, S
    <3> QED
      BY <1>6, <1>7, <2>2, <3>1, <3>2
  <2> QED
    BY <2>3, <2>4
<1>10. ASSUME NEW w \in Workers, Counts(w) PROVE Goal
  <2>1. PICK o \in Orders : o = ord[w]
    BY <1>10 DEF Counts
  <2>2. S' = S
    BY <1>10 DEF Counts, SettledOf, OrdersOf
  <2>3. CASE KeyOf[o] = k
    <3>1. o \in U /\ U' = U \ {o}
      BY <1>10, <2>1, <2>3 DEF Counts, Uncounted, OneCounter
    <3>2. Total(PayAmount, U) = PayAmount[o] + Total(PayAmount, U')
      BY <1>3, <1>4, <1>5, <3>1, TotalTake
    <3>3. dailyRecharged'[k] = dailyRecharged[k] + PayAmount[o]
      BY <1>10, <2>1, <2>3 DEF Counts, TypeOK
    <3> HIDE DEF U, S
    <3> QED
      BY <1>4, <1>6, <1>7, <2>2, <3>2, <3>3
  <2>4. CASE KeyOf[o] # k
    <3>1. U' \subseteq U /\ dailyRecharged'[k] = dailyRecharged[k]
      BY <1>10, <2>1, <2>4 DEF Counts, Uncounted, TypeOK
    <3>2. Total(PayAmount, U') <= Total(PayAmount, U)
      BY <1>3, <1>4, <1>5, <3>1, TotalMonotone
    <3> HIDE DEF U, S
    <3> QED
      BY <1>6, <1>7, <2>2, <3>1, <3>2
  <2> QED
    BY <2>3, <2>4
<1> QED
  BY <1>8, <1>9, <1>10, StepCounting

\* The day's recharge total is at most what the settled orders of the key are worth: no
\* order is counted twice, although INCRBYFLOAT has no idempotence of its own and webhook,
\* verify, manual completion and cron may confirm the order at once.
THEOREM RechargeCounted == Spec => []RechargeCountedOnce
<1> DEFINE CountingInv == OneCounter /\ CountedAreSettled
<1>1. Init => CountingInv
  <2>1. Init => OneCounter
    BY DEF Init, OneCounter, Counters
  <2>2. Init => \A k \in Keys : Uncounted(k) = {} /\ SettledOf(k) = {}
    BY DEF Init, Uncounted, Counters, SettledOf, OrdersOf, Settled
  <2>3. Init => CountedAreSettled
    <3> SUFFICES ASSUME Init, NEW k \in Keys
                 PROVE  dailyRecharged[k] + Total(PayAmount, Uncounted(k))
                          <= Total(PayAmount, SettledOf(k))
      BY DEF CountedAreSettled
    <3>1. Total(PayAmount, Uncounted(k)) = 0 /\ Total(PayAmount, SettledOf(k)) = 0
      BY <2>2, TotalEmpty
    <3> QED
      BY <3>1 DEF Init
  <2> QED
    BY <2>1, <2>3
<1>2. CountingInv /\ TypeOK /\ HandlersInv /\ IsFiniteSet(Saved) /\ [Next]_vars
        => CountingInv'
  BY StepOneCounter, StepCountedAreSettled
<1>3. TypeOK /\ HandlersInv /\ IsFiniteSet(Saved) /\ CountingInv => RechargeCountedOnce
  <2> SUFFICES ASSUME TypeOK, HandlersInv, IsFiniteSet(Saved), CountingInv, NEW k \in Keys
               PROVE  dailyRecharged[k] <= AmountOf(OrdersOf(k, Settled))
    BY DEF RechargeCountedOnce
  <2>1. AmountOf(OrdersOf(k, Settled)) = Total(PayAmount, SettledOf(k))
    BY AmountIsTotal DEF SettledOf
  <2>2. IsFiniteSet(SettledOf(k)) /\ Uncounted(k) \subseteq SettledOf(k)
    BY OrdersOfFinite DEF HandlersInv, FulfillersKnow, Fulfilling, Counters, Uncounted,
       SettledOf, OrdersOf, Settled
  <2>3. Total(PayAmount, SettledOf(k)) \in Nat /\ Total(PayAmount, Uncounted(k)) \in Nat
    <3>1. \A o \in SettledOf(k) : PayAmount[o] \in Nat
      BY OrderConstants DEF SettledOf, OrdersOf
    <3> QED
      BY <2>2, <3>1, FS_Subset, TotalType
  <2> QED
    BY <2>1, <2>3 DEF CountedAreSettled, TypeOK
<1> QED
  BY <1>1, <1>2, <1>3, SavedInvariance, Invariance, PTL DEF Spec

-----------------------------------------------------------------------------
(* The daily limit of a channel instance *)

\* the orders that took their share of the instance's limit in createOrder
SoldOf(i) == reserved[i] \ (revived \cup manual)

\* finitely many orders have a reservation
SoldFinite == \A i \in Instances : IsFiniteSet(reserved[i])

\* An instance is never sold beyond its daily limit: what stands against it above the
\* limit are orders that were paid after they had been closed, or completed by hand,
\* whose reservation is put back without asking.
InstanceNotOversold ==
  \A i \in Instances :
    InstanceLimit[i] > 0 => AmountOf(SoldOf(i)) <= InstanceLimit[i]

\* the handler w is given the instance i, which has room for its order
Sells(w, i) ==
  /\ ord[w] \in Orders
  /\ InstanceLimit[i] > 0 =>
       AmountOf(reserved[i]) + PayAmount[ord[w]] <= InstanceLimit[i]
  /\ reserved' = [reserved EXCEPT ![i] = reserved[i] \cup {ord[w]}]
  /\ UNCHANGED auditVars

\* no order that is neither revived nor completed by hand gets a reservation
NothingSold ==
  /\ revived \subseteq revived' /\ manual \subseteq manual'
  /\ \A i \in Instances : SoldOf(i)' \subseteq SoldOf(i)
  /\ \E o \in Orders \cup {NoOrder} :
       \A i \in Instances : reserved'[i] \subseteq reserved[i] \cup {o}

\* A reservation is made by selectReserve, or restored for an order that has lost it, and
\* then the order had been closed or was completed by hand.
LEMMA StepSelling ==
  TypeOK /\ HandlersInv /\ ReservationInv /\ [Next]_vars
    => NothingSold \/ \E w \in Workers, i \in Instances : Sells(w, i)
<1> DEFINE Goal == NothingSold \/ \E w \in Workers, i \in Instances : Sells(w, i)
<1> SUFFICES ASSUME TypeOK, HandlersInv, ReservationInv, [Next]_vars PROVE Goal
  OBVIOUS
<1> USE OrderConstants DEF TypeOK, NothingSold, SoldOf, Sells,
      Steps, CriticalSteps, ConfirmSteps, Goto, Begin, Cas, Revive, LeaveScan,
      orderVars, auditVars
<1>1. ASSUME NEW w \in Workers, Continue(w) PROVE Goal
  <2>1. CASE CreateStats(w)
    BY <2>1 DEF CreateStats
  <2>2. CASE CreateDaily(w)
    BY <2>2 DEF CreateDaily
  <2>3. CASE CreateSelect(w)
    <3>1. PICK i \in Eligible(ord[w]) :
            reserved' = [reserved EXCEPT ![i] = @ \cup {ord[w]}]
      BY <2>3 DEF CreateSelect
    <3>2. /\ i \in Instances /\ ord[w] \in Orders /\ InstanceLimit[i] \in Nat
          /\ InstanceLimit[i] > 0 =>
               AmountOf(reserved[i]) + PayAmount[ord[w]] <= InstanceLimit[i]
      BY <2>3 DEF Eligible, CreateSelect
    <3>3. UNCHANGED auditVars
      BY <2>3 DEF CreateSelect
    <3>4. Sells(w, i)
      BY <3>1, <3>2, <3>3
    <3> QED
      BY <3>2, <3>4
  <2>4. CASE CreateSelectNone(w)
    BY <2>4 DEF CreateSelectNone
  <2>5. CASE CreateSelectMock(w)
    BY <2>5 DEF CreateSelectMock
  <2>6. CASE CreateSave(w)
    BY <2>6 DEF CreateSave
  <2>7. CASE CreateUnlock(w)
    BY <2>7 DEF CreateUnlock
  <2>8. CASE CreatePayment(w)
    BY <2>8 DEF CreatePayment
  <2>9. CASE CreatePaymentFails(w)
    BY <2>9 DEF CreatePaymentFails
  <2>10. CASE CreatePayCancel(w)
    BY <2>10 DEF CreatePayCancel
  <2>11. CASE Release(w)
    BY <2>11 DEF Release
  <2>12. CASE VerifyQuery(w)
    BY <2>12 DEF VerifyQuery
  <2>13. CASE CronQueryAnswered(w)
    BY <2>13 DEF CronQueryAnswered
  <2>14. CASE CronQueryUnknown(w)
    BY <2>14 DEF CronQueryUnknown
  <2>15. CASE CronExpire(w)
    BY <2>15 DEF CronExpire
  <2>16. CASE ConfirmFromPending(w)
    BY <2>16 DEF ConfirmFromPending
  <2>17. CASE ConfirmFromExpired(w)
    BY <2>17 DEF ConfirmFromExpired
  <2>18. CASE ConfirmFromCancelled(w)
    BY <2>18 DEF ConfirmFromCancelled
  <2>19. CASE ConfirmRecheck(w)
    BY <2>19 DEF ConfirmRecheck
  <2>20. CASE CountRecharge(w)
    BY <2>20 DEF CountRecharge
  <2>21. CASE EnsureReservation(w)
    <3> DEFINE o == ord[w]
    <3>1. /\ o \in Orders /\ status[o] \in Settled /\ UNCHANGED auditVars
          /\ reserved' = [i \in Instances |-> IF i = instance[o] THEN reserved[i] \cup {o}
                                              ELSE reserved[i]]
      BY <2>21 DEF EnsureReservation, HandlersInv, FulfillersKnow, Fulfilling
    <3>2. o \notin revived \cup manual /\ instance[o] # NoInstance
            => o \in reserved[instance[o]]
      BY <3>1 DEF HandlersInv, PaidForOrVouchedFor, ReservationInv, KeptUntilGone, Gone,
         Settled
    <3>3. \A i \in Instances : reserved'[i] \subseteq reserved[i] \cup {o}
      BY <3>1
    <3>4. \A i \in Instances : SoldOf(i)' \subseteq SoldOf(i)
      BY <3>1, <3>2
    <3> QED
      BY <3>1, <3>3, <3>4
  <2>22. CASE FulfilRead(w)
    BY <2>22 DEF FulfilRead
  <2>23. CASE FulfilCredit(w)
    BY <2>23 DEF FulfilCredit
  <2>24. CASE FulfilBaseline(w)
    BY <2>24 DEF FulfilBaseline
  <2>25. CASE FulfilPrepaid(w)
    BY <2>25 DEF FulfilPrepaid
  <2>26. CASE FulfilComplete(w)
    BY <2>26 DEF FulfilComplete
  <2>27. CASE CronConfirmFailed(w)
    BY <2>27 DEF CronConfirmFailed
  <2> QED
    BY <1>1, <2>1, <2>2, <2>3, <2>4, <2>5, <2>6, <2>7, <2>8, <2>9, <2>10, <2>11, <2>12,
       <2>13, <2>14, <2>15, <2>16, <2>17, <2>18, <2>19, <2>20, <2>21, <2>22, <2>23,
       <2>24, <2>25, <2>26, <2>27 DEF Continue
<1>2. ASSUME NEW w \in Workers, NEW o \in Orders, Start(w, o) PROVE Goal
  <2>1. CASE CreateLock(w, o)
    BY <2>1 DEF CreateLock
  <2>2. CASE Webhook(w, o)
    BY <2>2 DEF Webhook
  <2>3. CASE Verify(w, o)
    BY <2>3 DEF Verify
  <2>4. CASE ManualComplete(w, o)
    BY <2>4 DEF ManualComplete
  <2>5. CASE CancelOrder(w, o)
    BY <2>5 DEF CancelOrder
  <2>6. CASE CronPaid(w, o)
    BY <2>6 DEF CronPaid
  <2>7. CASE CronExpired(w, o)
    BY <2>7 DEF CronExpired
  <2>8. CASE Reconcile(w, o)
    BY <2>8 DEF Reconcile
  <2> QED
    BY <1>2, <2>1, <2>2, <2>3, <2>4, <2>5, <2>6, <2>7, <2>8 DEF Start
<1>3. ASSUME NEW w \in Workers, CreateThrow(w) PROVE Goal
  BY <1>3 DEF CreateThrow
<1>4. ASSUME NEW w \in Workers, Crash(w) PROVE Goal
  BY <1>4 DEF Crash
<1>5. ASSUME NEW w \in Workers, CronConfirmThrows(w) PROVE Goal
  BY <1>5 DEF CronConfirmThrows
<1>6. ASSUME NEW w \in Workers, CronCatchThrows(w) PROVE Goal
  BY <1>6 DEF CronCatchThrows
<1>7. ASSUME NEW o \in Orders, Pay(o) PROVE Goal
  BY <1>7 DEF Pay
<1>8. ASSUME NEW o \in Orders, Tick(o) PROVE Goal
  BY <1>8 DEF Tick
<1>9. ASSUME NEW k \in Keys, LockExpires(k) PROVE Goal
  BY <1>9 DEF LockExpires
<1>10. CASE UNCHANGED vars
  BY <1>10 DEF vars
<1> QED
  BY <1>1, <1>2, <1>3, <1>4, <1>5, <1>6, <1>7, <1>8, <1>9, <1>10 DEF Next

\* Orders only leave a reservation, apart from the one that a step adds.
LEMMA StepNotOversold ==
  TypeOK /\ HandlersInv /\ ReservationInv /\ SoldFinite /\ InstanceNotOversold
    /\ [Next]_vars
    => SoldFinite' /\ InstanceNotOversold'
<1> SUFFICES ASSUME TypeOK, HandlersInv, ReservationInv, SoldFinite, InstanceNotOversold,
                    [Next]_vars
             PROVE  SoldFinite' /\ InstanceNotOversold'
  OBVIOUS
<1>1. TypeOK' /\ \A o \in Orders : PayAmount[o] \in Nat
  BY StepTypeOK, OrderConstants
<1>2. SoldFinite'
  <2>1. PICK o : \A i \in Instances : reserved'[i] \subseteq reserved[i] \cup {o}
    BY StepSelling DEF NothingSold, Sells, TypeOK
  <2>2. \A i \in Instances : IsFiniteSet(reserved[i] \cup {o})
    BY FS_AddElement DEF SoldFinite
  <2> QED
    BY <2>1, <2>2, FS_Subset DEF SoldFinite
<1>3. ASSUME NEW i \in Instances
      PROVE  /\ IsFiniteSet(SoldOf(i)) /\ IsFiniteSet(SoldOf(i)')
             /\ SoldOf(i) \subseteq Orders /\ SoldOf(i)' \subseteq Orders
             /\ Total(PayAmount, SoldOf(i)) \in Nat
             /\ Total(PayAmount, SoldOf(i)') \in Nat
  <2>1. SoldOf(i) \subseteq reserved[i] /\ SoldOf(i)' \subseteq reserved'[i]
    BY DEF SoldOf
  <2>2. reserved[i] \subseteq Orders /\ reserved'[i] \subseteq Orders
    BY <1>1 DEF TypeOK
  <2>3. IsFiniteSet(SoldOf(i)) /\ IsFiniteSet(SoldOf(i)')
    BY <1>2, <2>1, FS_Subset DEF SoldFinite
  <2> QED
    BY <1>1, <2>1, <2>2, <2>3, TotalType
<1>4. \A i \in Instances :
        InstanceLimit[i] > 0 => Total(PayAmount, SoldOf(i)) <= InstanceLimit[i]
  BY AmountIsTotal DEF InstanceNotOversold
<1>5. ASSUME NEW i \in Instances, InstanceLimit[i] > 0
      PROVE  Total(PayAmount, SoldOf(i)') <= InstanceLimit[i]
  <2>1. CASE SoldOf(i)' \subseteq SoldOf(i)
    <3>1. Total(PayAmount, SoldOf(i)') <= Total(PayAmount, SoldOf(i))
      BY <1>1, <1>3, <2>1, TotalMonotone
    <3> QED
      BY <1>3, <1>4, <1>5, <3>1, OrderConstants
  <2>2. ASSUME NEW w \in Workers, Sells(w, i)
        PROVE  Total(PayAmount, SoldOf(i)') <= InstanceLimit[i]
    <3> DEFINE o == ord[w]
               R == reserved[i]
    <3>1. o \in Orders /\ SoldOf(i)' \subseteq R \cup {o}
      BY <2>2 DEF Sells, SoldOf, TypeOK
    <3>2. IsFiniteSet(R) /\ R \subseteq Orders
      BY DEF SoldFinite, TypeOK
    <3>3. IsFiniteSet(R \cup {o}) /\ R \cup {o} \subseteq Orders
      BY <3>1, <3>2, FS_AddElement
    <3>4. Total(PayAmount, SoldOf(i)') <= Total(PayAmount, R \cup {o})
      <4> HIDE DEF R, o
      <4> QED
        BY <1>1, <3>1, <3>3, TotalMonotone
    <3>5. Total(PayAmount, R \cup {o}) <= Total(PayAmount, R) + PayAmount[o]
      BY <1>1, <3>2, <3>3, TotalAddAtMost
    <3>6. Total(PayAmount, R) + PayAmount[o] <= InstanceLimit[i]
      BY <1>5, <2>2, AmountIsTotal DEF Sells
    <3>7. Total(PayAmount, R) \in Nat /\ Total(PayAmount, R \cup {o}) \in Nat
      BY <1>1, <3>2, <3>3, TotalType
    <3> HIDE DEF R, o
    <3> QED
      BY <1>1, <1>3, <3>1, <3>4, <3>5, <3>6, <3>7, OrderConstants
  <2>3. ASSUME NEW w \in Workers, NEW j \in Instances, j # i, Sells(w, j)
        PROVE  SoldOf(i)' \subseteq SoldOf(i)
    BY <2>3 DEF Sells, SoldOf, TypeOK, auditVars
  <2>4. NothingSold => SoldOf(i)' \subseteq SoldOf(i)
    BY DEF NothingSold
  <2> QED
    BY <2>1, <2>2, <2>3, <2>4, StepSelling
<1>6. InstanceNotOversold'
  BY <1>5, AmountIsTotal DEF InstanceNotOversold
<1> QED
  BY <1>2, <1>6

\* selectReserve checks the limit and reserves in one script, so concurrent createOrder
\* calls, which hold the locks of different keys, never oversell an instance.
THEOREM InstanceLimitHolds == Spec => []InstanceNotOversold
<1> DEFINE SoldInv == SoldFinite /\ InstanceNotOversold
<1>1. Init => SoldInv
  <2> SUFFICES ASSUME Init PROVE SoldInv
    OBVIOUS
  <2>1. \A i \in Instances : reserved[i] = {} /\ SoldOf(i) = {}
    BY DEF Init, SoldOf
  <2>2. SoldFinite
    BY <2>1, FS_EmptySet DEF SoldFinite
  <2>3. \A i \in Instances : AmountOf(SoldOf(i)) = 0
    BY <2>1, TotalEmpty, AmountIsTotal
  <2> QED
    BY <2>2, <2>3, OrderConstants DEF InstanceNotOversold
<1>2. SoldInv /\ TypeOK /\ HandlersInv /\ ReservationInv /\ [Next]_vars => SoldInv'
  BY StepNotOversold
<1> QED
  BY <1>1, <1>2, ReservationInvariance, PTL DEF Spec
=============================================================================
