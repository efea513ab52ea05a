------------------------- MODULE PaymentOrderProofs -------------------------
(***************************************************************************)
(* Proofs about PaymentOrder, for any number of orders, keys, instances,   *)
(* handlers and crashes, and whether or not the create lock can expire     *)
(* under its holder.  None of them needs the create lock: what keeps a     *)
(* recharge sound is the compare-and-set on the order's status.            *)
(*                                                                         *)
(* HandlersInv is the inductive invariant.  The safety properties are not  *)
(* inductive because a handler acts on what it learnt several steps ago;   *)
(* HandlersInv says, for each step a handler can stand at, what it still   *)
(* knows about its order there, whoever else has touched it since.         *)
(***************************************************************************)
EXTENDS PaymentOrder, TLAPS

Unsaved == {"stats", "daily", "select", "save"}
Creators == Unsaved \cup {"unlock", "createPayment"}
Confirming == {"casPending", "casExpired", "casCancelled", "recheck"}
Fulfilling == {"count", "countRevived", "restore", "fulfil", "ensure", "credit",
               "baseline", "prepaid", "complete"}

Backed(o) == upstream[o] = "paid" \/ o \in manual

\* nobody has heard of an order before it is saved
UnsavedIsNew ==
  /\ \A o \in Orders : status[o] = "none" => upstream[o] = "absent" /\ o \notin manual
  /\ \A w \in Workers : pc[w] \in Unsaved => status[ord[w]] = "none"

\* an order has one creator, and no way to be paid until it has finished
CreatorAlone ==
  \A w \in Workers : pc[w] \in Creators =>
    /\ upstream[ord[w]] = "absent"
    /\ pc[w] \notin Unsaved => status[ord[w]] # "none"
    /\ \A v \in Workers : v # w /\ ord[v] = ord[w] => pc[v] \notin Creators

\* the money is there, and a status whose CAS has failed does not come back
ConfirmersKnow ==
  \A w \in Workers : pc[w] \in Confirming =>
    /\ Backed(ord[w])
    /\ status[ord[w]] # "none"
    /\ pc[w] # "casPending" => status[ord[w]] # "pending"
    /\ pc[w] \in {"casCancelled", "recheck"} => status[ord[w]] # "expired"
    /\ pc[w] = "recheck" => status[ord[w]] # "cancelled"

\* the order stays settled, and the steps of fulfillOrder happened in order
FulfillersKnow ==
  \A w \in Workers : pc[w] \in Fulfilling =>
    /\ status[ord[w]] \in Settled
    /\ pc[w] \in {"baseline", "prepaid", "complete"} => ord[w] \in applied
    /\ pc[w] = "prepaid" => KeyOf[ord[w]] \in baseline

StatusesFollow ==
  \A o \in Orders : status'[o] # status[o] => AllowedTransition(status[o], status'[o])

HandlersInv ==
  /\ UnsavedIsNew
  /\ CreatorAlone
  /\ ConfirmersKnow
  /\ FulfillersKnow
  /\ LedgerAgreesWithOrders
  /\ PaidForOrVouchedFor
  /\ BaselineBeforePrepaid

-----------------------------------------------------------------------------
(* Type correctness *)

\* The initial state of the handlers, the orders and the ledger has its type.
LEMMA InitTypeOK == Init => TypeOK
  BY OrderConstants DEF Init, TypeOK, Status, Steps, CriticalSteps, ConfirmSteps

\* Every step of every handler, of the payer, the clock and the lock keeps the
\* types, in particular that a handler that is under way has an order.
LEMMA StepTypeOK == TypeOK /\ [Next]_vars => TypeOK'
<1> SUFFICES ASSUME TypeOK, [Next]_vars PROVE TypeOK'
  OBVIOUS
<1> USE OrderConstants DEF TypeOK, Status, Steps, CriticalSteps, Recoverable, Settled,
      Goto, Begin, Cas, AfterClose, ConfirmStep, Revive,
      ConfirmSteps, LeaveScan, Thrown, Unknown, Reported, AmountMatches,
      orderVars, ledgerVars, auditVars, localVars
<1>1. ASSUME NEW w \in Workers, Continue(w) PROVE TypeOK'
  <2>1. CASE CreateStats(w)
    BY <2>1 DEF CreateStats, OrdersOf
  <2>2. CASE CreateDaily(w)
    BY <2>2 DEF CreateDaily
  <2>3. CASE CreateSelect(w)
    BY <2>3 DEF CreateSelect, Eligible
  <2>4. CASE CreateSelectNone(w)
    BY <2>4 DEF CreateSelectNone
  <2>5. CASE CreateSelectMock(w)
    BY <2>5 DEF CreateSelectMock
  <2>6. CASE CreateSave(w)
    BY <2>6 DEF CreateSave
  <2>7. CASE CreateUnlock(w)
    BY <2>7 DEF CreateUnlock
  <2>8. CASE CreatePayment(w)
    BY <2>8 DEF CreatePayment
  <2>9. CASE CreatePaymentFails(w)
    BY <2>9 DEF CreatePaymentFails
  <2>10. CASE CreatePayCancel(w)
    <3>1. CASE status[ord[w]] = "pending" /\ instance[ord[w]] = NoInstance
      BY <2>10, <3>1 DEF CreatePayCancel
    <3>2. CASE status[ord[w]] = "pending" /\ instance[ord[w]] # NoInstance
      BY <2>10, <3>2 DEF CreatePayCancel
    <3>3. CASE status[ord[w]] # "pending"
      BY <2>10, <3>3 DEF CreatePayCancel
    <3> QED
      BY <3>1, <3>2, <3>3
  <2>11. CASE Release(w)
    BY <2>11 DEF Release
  <2>12. CASE VerifyQuery(w)
    BY <2>12 DEF VerifyQuery
  <2>13. CASE CronQueryAnswered(w)
    BY <2>13 DEF CronQueryAnswered
  <2>14. CASE CronQueryUnknown(w)
    BY <2>14 DEF CronQueryUnknown
  <2>15. CASE CronExpire(w)
    BY <2>15 DEF CronExpire
  <2>16. CASE ConfirmFromPending(w)
    BY <2>16 DEF ConfirmFromPending
  <2>17. CASE ConfirmFromExpired(w)
    <3>1. CASE status[ord[w]] = "expired"
      BY <2>17, <3>1 DEF ConfirmFromExpired
    <3>2. CASE status[ord[w]] # "expired"
      BY <2>17, <3>2 DEF ConfirmFromExpired
    <3> QED
      BY <3>1, <3>2
  <2>18. CASE ConfirmFromCancelled(w)
    BY <2>18 DEF ConfirmFromCancelled
  <2>19. CASE ConfirmRecheck(w)
    BY <2>19 DEF ConfirmRecheck
  <2>20. CASE CountRecharge(w)
    BY <2>20 DEF CountRecharge
  <2>21. CASE EnsureReservation(w)
    BY <2>21 DEF EnsureReservation
  <2>22. CASE FulfilRead(w)
    BY <2>22 DEF FulfilRead
  <2>23. CASE FulfilCredit(w)
    BY <2>23 DEF FulfilCredit
  <2>24. CASE FulfilBaseline(w)
    BY <2>24 DEF FulfilBaseline
  <2>25. CASE FulfilPrepaid(w)
    BY <2>25 DEF FulfilPrepaid
  <2>26. CASE FulfilComplete(w)
    <3>1. CASE status[ord[w]] = "paid"
      BY <2>26, <3>1 DEF FulfilComplete
    <3>2. CASE status[ord[w]] # "paid"
      BY <2>26, <3>2 DEF FulfilComplete
    <3> QED
      BY <3>1, <3>2
  <2>27. CASE CronConfirmFailed(w)
    BY <2>27 DEF CronConfirmFailed
  <2> QED
    BY <1>1, <2>1, <2>2, <2>3, <2>4, <2>5, <2>6, <2>7, <2>8, <2>9, <2>10, <2>11, <2>12,
       <2>13, <2>14, <2>15, <2>16, <2>17, <2>18, <2>19, <2>20, <2>21, <2>22, <2>23, <2>24,
       <2>25, <2>26, <2>27 DEF Continue
<1>2. ASSUME NEW w \in Workers, NEW o \in Orders, Start(w, o) PROVE TypeOK'
  <2>1. CASE CreateLock(w, o)
    BY <2>1 DEF CreateLock
  <2>2. CASE Webhook(w, o)
    BY <2>2 DEF Webhook
  <2>3. CASE Verify(w, o)
    BY <2>3 DEF Verify
  <2>4. CASE ManualComplete(w, o)
    BY <2>4 DEF ManualComplete
  <2>5. CASE CancelOrder(w, o)
    BY <2>5 DEF CancelOrder
  <2>6. CASE CronPaid(w, o)
    BY <2>6 DEF CronPaid
  <2>7. CASE CronExpired(w, o)
    BY <2>7 DEF CronExpired
  <2>8. CASE Reconcile(w, o)
    BY <2>8 DEF Reconcile
  <2> QED
    BY <1>2, <2>1, <2>2, <2>3, <2>4, <2>5, <2>6, <2>7, <2>8 DEF Start
<1>3. ASSUME NEW w \in Workers, CreateThrow(w) PROVE TypeOK'
  BY <1>3 DEF CreateThrow
<1>4. ASSUME NEW w \in Workers, Crash(w) PROVE TypeOK'
  BY <1>4 DEF Crash
<1>5. ASSUME NEW w \in Workers, CronConfirmThrows(w) PROVE TypeOK'
  BY <1>5 DEF CronConfirmThrows
<1>6. ASSUME NEW w \in Workers, CronCatchThrows(w) PROVE TypeOK'
  BY <1>6 DEF CronCatchThrows
<1>7. ASSUME NEW o \in Orders, Pay(o) PROVE TypeOK'
  BY <1>7 DEF Pay
<1>8. ASSUME NEW o \in Orders, Tick(o) PROVE TypeOK'
  BY <1>8 DEF Tick
<1>9. ASSUME NEW k \in Keys, LockExpires(k) PROVE TypeOK'
  BY <1>9 DEF LockExpires
<1>10. CASE UNCHANGED vars
  BY <1>10 DEF vars
<1> QED
  BY <1>1, <1>2, <1>3, <1>4, <1>5, <1>6, <1>7, <1>8, <1>9, <1>10 DEF Next

\* The type invariant that the run payment_order checks, for all constants: the
\* state every handler of payment_order_service.js finds has the expected shape.
THEOREM TypeCorrect == Spec => []TypeOK
<1>1. Init => TypeOK
  BY InitTypeOK
<1>2. TypeOK /\ [Next]_vars => TypeOK'
  BY StepTypeOK
<1> QED
  BY <1>1, <1>2, PTL DEF Spec

-----------------------------------------------------------------------------
(* The inductive invariant *)

\* Before the first createOrder nobody knows anything of any order.
LEMMA InitHandlersInv == Init => HandlersInv
  BY OrderConstants DEF Init, HandlersInv, UnsavedIsNew, CreatorAlone, ConfirmersKnow,
     FulfillersKnow, LedgerAgreesWithOrders, PaidForOrVouchedFor,
     BaselineBeforePrepaid, Unsaved, Creators, Confirming, Fulfilling, Settled

\* Whatever one handler does between two steps of another leaves intact what the
\* other knows: no CAS of the service undoes PAID or COMPLETED.
LEMMA StepHandlersInv == TypeOK /\ HandlersInv /\ [Next]_vars => HandlersInv'
<1> SUFFICES ASSUME TypeOK, HandlersInv, [Next]_vars PROVE HandlersInv'
  OBVIOUS
<1> USE OrderConstants DEF TypeOK, HandlersInv, UnsavedIsNew, CreatorAlone, ConfirmersKnow,
      FulfillersKnow, LedgerAgreesWithOrders, PaidForOrVouchedFor, BaselineBeforePrepaid,
      Status, Steps, CriticalSteps, Recoverable, Settled,
      Unsaved, Creators, Confirming, Fulfilling, Backed,
      Goto, Begin, Cas, AfterClose, ConfirmStep, Revive,
      ConfirmSteps, LeaveScan, Thrown, Unknown, Reported, AmountMatches,
      orderVars, ledgerVars, auditVars, localVars
<1>1. ASSUME NEW w \in Workers, Continue(w) PROVE HandlersInv'
  <2>1. CASE CreateStats(w)
    BY <2>1 DEF CreateStats
  <2>2. CASE CreateDaily(w)
    BY <2>2 DEF CreateDaily
  <2>3. CASE CreateSelect(w)
    BY <2>3 DEF CreateSelect
  <2>4. CASE CreateSelectNone(w)
    BY <2>4 DEF CreateSelectNone
  <2>5. CASE CreateSelectMock(w)
    BY <2>5 DEF CreateSelectMock
  <2>6. CASE CreateSave(w)
    BY <2>6 DEF CreateSave
  <2>7. CASE CreateUnlock(w)
    BY <2>7 DEF CreateUnlock
  <2>8. CASE CreatePayment(w)
    BY <2>8 DEF CreatePayment
  <2>9. CASE CreatePaymentFails(w)
    BY <2>9 DEF CreatePaymentFails
  <2>10. CASE CreatePayCancel(w)
    BY <2>10 DEF CreatePayCancel
  <2>11. CASE Release(w)
    BY <2>11 DEF Release
  <2>12. CASE VerifyQuery(w)
    BY <2>12 DEF VerifyQuery
  <2>13. CASE CronQueryAnswered(w)
    BY <2>13 DEF CronQueryAnswered
  <2>14. CASE CronQueryUnknown(w)
    BY <2>14 DEF CronQueryUnknown
  <2>15. CASE CronExpire(w)
    <3> DEFINE o == ord[w]
    <3>1. CASE status[o] = "pending"
      <4>1. /\ status' = [status EXCEPT ![o] = "expired"]
            /\ UNCHANGED <<upstream, manual, applied, baseline, prepaid>>
            /\ o \in Orders /\ pc'[w] \in {"idle", "release"}
            /\ \A v \in Workers \ {w} : pc'[v] = pc[v] /\ ord'[v] = ord[v]
        BY <2>15, <3>1 DEF CronExpire
      <4>2. (UnsavedIsNew /\ CreatorAlone)'
        BY <3>1, <4>1
      <4>3. (ConfirmersKnow /\ FulfillersKnow)'
        BY <3>1, <4>1
      <4>4. (LedgerAgreesWithOrders /\ PaidForOrVouchedFor /\ BaselineBeforePrepaid)'
        BY <3>1, <4>1
      <4> QED
        BY <4>2, <4>3, <4>4
    <3>2. CASE status[o] # "pending"
      BY <2>15, <3>2 DEF CronExpire
    <3> QED
      BY <3>1, <3>2
  <2>16. CASE ConfirmFromPending(w)
    BY <2>16 DEF ConfirmFromPending
  <2>17. CASE ConfirmFromExpired(w)
    BY <2>17 DEF ConfirmFromExpired
  <2>18. CASE ConfirmFromCancelled(w)
    BY <2>18 DEF ConfirmFromCancelled
  <2>19. CASE ConfirmRecheck(w)
    BY <2>19 DEF ConfirmRecheck
  <2>20. CASE CountRecharge(w)
    BY <2>20 DEF CountRecharge
  <2>21. CASE EnsureReservation(w)
    BY <2>21 DEF EnsureReservation
  <2>22. CASE FulfilRead(w)
    BY <2>22 DEF FulfilRead
  <2>23. CASE FulfilCredit(w)
    BY <2>23 DEF FulfilCredit
  <2>24. CASE FulfilBaseline(w)
    BY <2>24 DEF FulfilBaseline
  <2>25. CASE FulfilPrepaid(w)
    BY <2>25 DEF FulfilPrepaid
  <2>26. CASE FulfilComplete(w)
    <3> DEFINE o == ord[w]
    <3>1. o \in Orders /\ o \in applied
      BY <2>26 DEF FulfilComplete
    <3>2. CASE status[o] = "paid"
      <4>1. /\ status' = [status EXCEPT ![o] = "completed"]
            /\ UNCHANGED <<upstream, manual, applied, baseline, prepaid>>
            /\ pc' = [pc EXCEPT ![w] = "idle"]
            /\ ord' = [ord EXCEPT ![w] = NoOrder]
        BY <2>26, <3>2 DEF FulfilComplete
      <4>2. (UnsavedIsNew /\ CreatorAlone)'
        BY <3>1, <3>2, <4>1
      <4>3. (ConfirmersKnow /\ FulfillersKnow)'
        BY <3>1, <3>2, <4>1
      <4>4. (LedgerAgreesWithOrders /\ PaidForOrVouchedFor /\ BaselineBeforePrepaid)'
        BY <3>1, <3>2, <4>1
      <4> QED
        BY <4>2, <4>3, <4>4
    <3>3. CASE status[o] # "paid"
      BY <2>26, <3>3 DEF FulfilComplete
    <3> QED
      BY <3>2, <3>3
  <2>27. CASE CronConfirmFailed(w)
    BY <2>27 DEF CronConfirmFailed
  <2> QED
    BY <1>1, <2>1, <2>2, <2>3, <2>4, <2>5, <2>6, <2>7, <2>8, <2>9, <2>10, <2>11, <2>12,
       <2>13, <2>14, <2>15, <2>16, <2>17, <2>18, <2>19, <2>20, <2>21, <2>22, <2>23, <2>24,
       <2>25, <2>26, <2>27 DEF Continue
<1>2. ASSUME NEW w \in Workers, NEW o \in Orders, Start(w, o) PROVE HandlersInv'
  <2>1. CASE CreateLock(w, o)
    BY <2>1 DEF CreateLock
  <2>2. CASE Webhook(w, o)
    BY <2>2 DEF Webhook
  <2>3. CASE Verify(w, o)
    BY <2>3 DEF Verify
  <2>4. CASE ManualComplete(w, o)
    BY <2>4 DEF ManualComplete
  <2>5. CASE CancelOrder(w, o)
    BY <2>5 DEF CancelOrder
  <2>6. CASE CronPaid(w, o)
    BY <2>6 DEF CronPaid
  <2>7. CASE CronExpired(w, o)
    BY <2>7 DEF CronExpired
  <2>8. CASE Reconcile(w, o)
    BY <2>8 DEF Reconcile
  <2> QED
    BY <1>2, <2>1, <2>2, <2>3, <2>4, <2>5, <2>6, <2>7, <2>8 DEF Start
<1>3. ASSUME NEW w \in Workers, CreateThrow(w) PROVE HandlersInv'
  BY <1>3 DEF CreateThrow
<1>4. ASSUME NEW w \in Workers, Crash(w) PROVE HandlersInv'
  BY <1>4 DEF Crash
<1>5. ASSUME NEW w \in Workers, CronConfirmThrows(w) PROVE HandlersInv'
  BY <1>5 DEF CronConfirmThrows
<1>6. ASSUME NEW w \in Workers, CronCatchThrows(w) PROVE HandlersInv'
  BY <1>6 DEF CronCatchThrows
<1>7. ASSUME NEW o \in Orders, Pay(o) PROVE HandlersInv'
  BY <1>7 DEF Pay
<1>8. ASSUME NEW o \in Orders, Tick(o) PROVE HandlersInv'
  BY <1>8 DEF Tick
<1>9. ASSUME NEW k \in Keys, LockExpires(k) PROVE HandlersInv'
  BY <1>9 DEF LockExpires
<1>10. CASE UNCHANGED vars
  BY <1>10 DEF vars
<1> QED
  BY <1>1, <1>2, <1>3, <1>4, <1>5, <1>6, <1>7, <1>8, <1>9, <1>10 DEF Next

\* Types and what the handlers know, together inductive.
THEOREM Invariance == Spec => [](TypeOK /\ HandlersInv)
<1>1. Init => TypeOK /\ HandlersInv
  BY InitTypeOK, InitHandlersInv
<1>2. TypeOK /\ HandlersInv /\ [Next]_vars => (TypeOK /\ HandlersInv)'
  BY StepTypeOK, StepHandlersInv
<1> QED
  BY <1>1, <1>2, PTL DEF Spec

-----------------------------------------------------------------------------
(* What follows *)

\* Quota is credited only for confirmed orders and no order completes without it,
\* for every interleaving of webhook, verify, manual completion and cron.
THEOREM LedgerAgrees == Spec => []LedgerAgreesWithOrders
<1>1. HandlersInv => LedgerAgreesWithOrders
  BY DEF HandlersInv
<1> QED
  BY <1>1, Invariance, PTL

\* A key is recharged only against the channel's money or an administrator's word.
THEOREM PaidFor == Spec => []PaidForOrVouchedFor
<1>1. HandlersInv => PaidForOrVouchedFor
  BY DEF HandlersInv
<1> QED
  BY <1>1, Invariance, PTL

\* A key is billed by balance only after its consumption baseline was recorded.
THEOREM BaselineFirst == Spec => []BaselineBeforePrepaid
<1>1. HandlersInv => BaselineBeforePrepaid
  BY DEF HandlersInv
<1> QED
  BY <1>1, Invariance, PTL

\* confirmPayment refuses no genuine payment: when PENDING, EXPIRED and CANCELLED
\* have all failed to match, the order is settled.
THEOREM NeverRefuses == Spec => []ConfirmNeverRefuses
<1>1. TypeOK /\ HandlersInv => ConfirmNeverRefuses
  BY DEF TypeOK, HandlersInv, ConfirmersKnow, ConfirmNeverRefuses, Confirming, Status,
     Settled
<1> QED
  BY <1>1, Invariance, PTL

\* The statuses an order goes through are those of ALLOWED_TRANSITIONS.
LEMMA StepTransitions == TypeOK /\ HandlersInv /\ [Next]_vars => StatusesFollow
<1> SUFFICES ASSUME TypeOK, HandlersInv, [Next]_vars PROVE StatusesFollow
  OBVIOUS
<1> USE OrderConstants DEF TypeOK, HandlersInv, UnsavedIsNew, Status, Steps, CriticalSteps,
      Unsaved, AllowedTransition, StatusesFollow,
      Goto, Begin, Cas, AfterClose, ConfirmStep, Revive,
      ConfirmSteps, LeaveScan, Thrown, Unknown, Reported, AmountMatches,
      orderVars, ledgerVars, auditVars, localVars
<1>1. ASSUME NEW w \in Workers, Continue(w) PROVE StatusesFollow
  <2>1. CASE CreateStats(w)
    BY <2>1 DEF CreateStats
  <2>2. CASE CreateDaily(w)
    BY <2>2 DEF CreateDaily
  <2>3. CASE CreateSelect(w)
    BY <2>3 DEF CreateSelect
  <2>4. CASE CreateSelectNone(w)
    BY <2>4 DEF CreateSelectNone
  <2>5. CASE CreateSelectMock(w)
    BY <2>5 DEF CreateSelectMock
  <2>6. CASE CreateSave(w)
    BY <2>6 DEF CreateSave
  <2>7. CASE CreateUnlock(w)
    BY <2>7 DEF CreateUnlock
  <2>8. CASE CreatePayment(w)
    BY <2>8 DEF CreatePayment
  <2>9. CASE CreatePaymentFails(w)
    BY <2>9 DEF CreatePaymentFails
  <2>10. CASE CreatePayCancel(w)
    BY <2>10 DEF CreatePayCancel
  <2>11. CASE Release(w)
    BY <2>11 DEF Release
  <2>12. CASE VerifyQuery(w)
    BY <2>12 DEF VerifyQuery
  <2>13. CASE CronQueryAnswered(w)
    BY <2>13 DEF CronQueryAnswered
  <2>14. CASE CronQueryUnknown(w)
    BY <2>14 DEF CronQueryUnknown
  <2>15. CASE CronExpire(w)
    BY <2>15 DEF CronExpire
  <2>16. CASE ConfirmFromPending(w)
    BY <2>16 DEF ConfirmFromPending
  <2>17. CASE ConfirmFromExpired(w)
    BY <2>17 DEF ConfirmFromExpired
  <2>18. CASE ConfirmFromCancelled(w)
    BY <2>18 DEF ConfirmFromCancelled
  <2>19. CASE ConfirmRecheck(w)
    BY <2>19 DEF ConfirmRecheck
  <2>20. CASE CountRecharge(w)
    BY <2>20 DEF CountRecharge
  <2>21. CASE EnsureReservation(w)
    BY <2>21 DEF EnsureReservation
  <2>22. CASE FulfilRead(w)
    BY <2>22 DEF FulfilRead
  <2>23. CASE FulfilCredit(w)
    BY <2>23 DEF FulfilCredit
  <2>24. CASE FulfilBaseline(w)
    BY <2>24 DEF FulfilBaseline
  <2>25. CASE FulfilPrepaid(w)
    BY <2>25 DEF FulfilPrepaid
  <2>26. CASE FulfilComplete(w)
    BY <2>26 DEF FulfilComplete
  <2>27. CASE CronConfirmFailed(w)
    BY <2>27 DEF CronConfirmFailed
  <2> QED
    BY <1>1, <2>1, <2>2, <2>3, <2>4, <2>5, <2>6, <2>7, <2>8, <2>9, <2>10, <2>11, <2>12,
       <2>13, <2>14, <2>15, <2>16, <2>17, <2>18, <2>19, <2>20, <2>21, <2>22, <2>23, <2>24,
       <2>25, <2>26, <2>27 DEF Continue
<1>2. ASSUME NEW w \in Workers, NEW o \in Orders, Start(w, o) PROVE StatusesFollow
  <2>1. CASE CreateLock(w, o)
    BY <2>1 DEF CreateLock
  <2>2. CASE Webhook(w, o)
    BY <2>2 DEF Webhook
  <2>3. CASE Verify(w, o)
    BY <2>3 DEF Verify
  <2>4. CASE ManualComplete(w, o)
    BY <2>4 DEF ManualComplete
  <2>5. CASE CancelOrder(w, o)
    BY <2>5 DEF CancelOrder
  <2>6. CASE CronPaid(w, o)
    BY <2>6 DEF CronPaid
  <2>7. CASE CronExpired(w, o)
    BY <2>7 DEF CronExpired
  <2>8. CASE Reconcile(w, o)
    BY <2>8 DEF Reconcile
  <2> QED
    BY <1>2, <2>1, <2>2, <2>3, <2>4, <2>5, <2>6, <2>7, <2>8 DEF Start
<1>3. ASSUME NEW w \in Workers, CreateThrow(w) PROVE StatusesFollow
  BY <1>3 DEF CreateThrow
<1>4. ASSUME NEW w \in Workers, Crash(w) PROVE StatusesFollow
  BY <1>4 DEF Crash
<1>5. ASSUME NEW w \in Workers, CronConfirmThrows(w) PROVE StatusesFollow
  BY <1>5 DEF CronConfirmThrows
<1>6. ASSUME NEW w \in Workers, CronCatchThrows(w) PROVE StatusesFollow
  BY <1>6 DEF CronCatchThrows
<1>7. ASSUME NEW o \in Orders, Pay(o) PROVE StatusesFollow
  BY <1>7 DEF Pay
<1>8. ASSUME NEW o \in Orders, Tick(o) PROVE StatusesFollow
  BY <1>8 DEF Tick
<1>9. ASSUME NEW k \in Keys, LockExpires(k) PROVE StatusesFollow
  BY <1>9 DEF LockExpires
<1>10. CASE UNCHANGED vars
  BY <1>10 DEF vars
<1> QED
  BY <1>1, <1>2, <1>3, <1>4, <1>5, <1>6, <1>7, <1>8, <1>9, <1>10 DEF Next

\* As an action property of the specification.
THEOREM TransitionsFollow == Spec => TransitionsAllowed
<1>1. TypeOK /\ HandlersInv /\ [Next]_vars => [StatusesFollow]_vars
  BY StepTransitions
<1>2. Spec => [][StatusesFollow]_vars
  BY <1>1, Invariance, PTL DEF Spec
<1> QED
  BY <1>2 DEF TransitionsAllowed, StatusesFollow
=============================================================================
