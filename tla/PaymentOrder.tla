---------------------------- MODULE PaymentOrder ----------------------------
(***************************************************************************)
(* The life of a recharge order, from createOrder to COMPLETED: the HTTP   *)
(* handlers (create, verify, cancel, manual completion), the payment       *)
(* webhook and the five-minute cron all run the same service code, one     *)
(* handler per Worker, and interleave at every await on Redis or on the    *)
(* payment channel.  A Lua script or a single Redis command is one step.   *)
(*                                                                         *)
(* Refunds start from COMPLETED and are the subject of PaymentRefund.      *)
(*                                                                         *)
(* Abstractions.  One accounting day.  Money is counted in units of        *)
(* PayAmount.  Audit entries are kept only where a property reads them.    *)
(* An order whose save never happened leaves its id unused.                *)
(***************************************************************************)
EXTENDS Naturals, FiniteSets, FiniteSetsExt

CONSTANTS
  Orders,         \* ids crypto.randomUUID() may hand out
  Keys,           \* API keys that are recharged
  Instances,      \* payment channel instances with a daily limit
  Workers,        \* request handlers and cron ticks running at the same time
  Nobody,         \* no lock owner
  NoOrder,        \* a worker that handles nothing
  NoInstance,     \* providerInstanceId = '' (the mock channel)
  PaymentTypes,   \* config.enabledPaymentTypes: mock, or a channel with instances
  KeyOf,          \* the API key an order recharges
  PayAmount,      \* order.payAmount
  MaxPending,     \* config.maxPendingOrders
  DailyLimit,     \* config.dailyLimit of one key, 0 = no limit
  InstanceLimit,  \* dailyLimit of a channel instance, 0 = no limit
  MaxCrashes,     \* bounds the crashes and Redis errors of a behaviour
  LockOverrun     \* TRUE: the 5 s lock may expire under a live holder

ASSUME OrderConstants ==
  /\ PaymentTypes \subseteq {"mock", "channel"}
  /\ KeyOf \in [Orders -> Keys]
  /\ PayAmount \in [Orders -> Nat \ {0}]
  /\ InstanceLimit \in [Instances -> Nat]
  /\ MaxPending \in Nat \ {0}
  /\ DailyLimit \in Nat
  /\ MaxCrashes \in Nat
  /\ LockOverrun \in BOOLEAN
  /\ Nobody \notin Workers
  /\ NoOrder \notin Orders
  /\ NoInstance \notin Instances

VARIABLES
  status,         \* the order hash's status; "none" before save
  instance,       \* the channel instance chosen for the order
  reserved,       \* instance -> order ids in its daily reservation hash
  createLock,     \* API key -> holder of its create lock
  dailyRecharged, \* API key -> what it paid today
  applied,        \* order ids the balance ledger has credited
  baseline,       \* API keys whose consumption baseline is recorded
  prepaid,        \* API keys with billingMode = prepaid
  upstream,       \* the channel's own view of the order
  age,            \* 0 open, 1 past expiresAt, 2 past the query grace
  manual,         \* orders with an ORDER_MANUAL_COMPLETE audit entry
  revived,        \* orders that were confirmed from EXPIRED or CANCELLED
  pc, ord,        \* per worker: its next step and its order
  scan,           \* per worker: "none", or it is the cron's expiry scan and the
                  \* order was within ("grace") or beyond ("late") the query grace
  seen,           \* the orders summed up in its pendingPayAmountSum
  crashes         \* crashes and Redis errors so far

orderVars == <<status, instance, reserved, upstream, age>>
ledgerVars == <<applied, baseline, prepaid>>
auditVars == <<manual, revived>>
localVars == <<pc, ord, scan, seen>>
vars == <<status, instance, reserved, createLock, dailyRecharged, applied,
          baseline, prepaid, upstream, age, manual, revived, pc, ord, scan,
          seen, crashes>>

Status == {"none", "pending", "paid", "completed", "expired", "cancelled"}
Recoverable == {"pending", "expired", "cancelled"}
Settled == {"paid", "completed"}
CriticalSteps == {"stats", "daily", "select", "save", "unlock", "unwind"}
ConfirmSteps == {"casPending", "casExpired", "casCancelled", "recheck", "count",
                 "countRevived", "restore", "fulfil", "ensure", "credit", "baseline",
                 "prepaid", "complete"}
Steps == CriticalSteps \cup ConfirmSteps \cup
  {"idle", "createPayment", "payCancel", "verifyQuery", "cronQuery", "confirmFailed",
   "expire", "release"}

TypeOK ==
  /\ status \in [Orders -> Status]
  /\ instance \in [Orders -> Instances \cup {NoInstance}]
  /\ reserved \in [Instances -> SUBSET Orders]
  /\ createLock \in [Keys -> Workers \cup {Nobody}]
  /\ dailyRecharged \in [Keys -> Nat]
  /\ applied \subseteq Orders
  /\ baseline \subseteq Keys
  /\ prepaid \subseteq Keys
  /\ upstream \in [Orders -> {"absent", "unpaid", "paid", "mispaid"}]
  /\ age \in [Orders -> 0..2]
  /\ manual \subseteq Orders
  /\ revived \subseteq Orders
  /\ pc \in [Workers -> Steps]
  /\ ord \in [Workers -> Orders \cup {NoOrder}]
  /\ scan \in [Workers -> {"none", "grace", "late"}]
  /\ seen \in [Workers -> SUBSET Orders]
  /\ crashes \in 0..MaxCrashes
  /\ \A w \in Workers : pc[w] # "idle" => ord[w] \in Orders

Init ==
  /\ status = [o \in Orders |-> "none"]
  /\ instance = [o \in Orders |-> NoInstance]
  /\ reserved = [i \in Instances |-> {}]
  /\ createLock = [k \in Keys |-> Nobody]
  /\ dailyRecharged = [k \in Keys |-> 0]
  /\ applied = {}
  /\ baseline = {}
  /\ prepaid = {}
  /\ upstream = [o \in Orders |-> "absent"]
  /\ age = [o \in Orders |-> 0]
  /\ manual = {}
  /\ revived = {}
  /\ pc = [w \in Workers |-> "idle"]
  /\ ord = [w \in Workers |-> NoOrder]
  /\ scan = [w \in Workers |-> "none"]
  /\ seen = [w \in Workers |-> {}]
  /\ crashes = 0

-----------------------------------------------------------------------------
(* Helpers *)

AmountOf(S) == MapThenSumSet(LAMBDA o : PayAmount[o], S)
OrdersOf(k, S) == {o \in Orders : KeyOf[o] = k /\ status[o] \in S}
Holds(o) == \E i \in Instances : o \in reserved[i]

\* mutant: the handler starts without having read its order
BeginWithoutOrder(w, o, step) ==
  /\ pc[w] = "idle"
  /\ pc' = [pc EXCEPT ![w] = step]
  /\ UNCHANGED <<ord, scan, seen>>

Begin(w, o, step) ==
  /\ pc[w] = "idle"
  /\ pc' = [pc EXCEPT ![w] = step]
  /\ ord' = [ord EXCEPT ![w] = o]
  /\ UNCHANGED <<scan, seen>>

Goto(w, step) ==
  /\ pc' = [pc EXCEPT ![w] = step]
  /\ ord' = IF step = "idle" THEN [ord EXCEPT ![w] = NoOrder] ELSE ord
  /\ scan' = IF step = "idle" THEN [scan EXCEPT ![w] = "none"] ELSE scan
  /\ UNCHANGED seen

\* the expiry scan has left its try blocks: what fails from here on ends the handler
LeaveScan(w, step) ==
  /\ pc' = [pc EXCEPT ![w] = step]
  /\ ord' = IF step = "idle" THEN [ord EXCEPT ![w] = NoOrder] ELSE ord
  /\ scan' = [scan EXCEPT ![w] = "none"]
  /\ UNCHANGED seen

\* confirmPayment threw: only the expiry scan has more to do
Thrown(w) == IF scan[w] = "none" THEN "idle" ELSE "confirmFailed"

\* EVAL payment.casStatus: the step taken when the status matched and when not
Cas(w, from, to, matched, missed) ==
  IF status[ord[w]] = from
  THEN status' = [status EXCEPT ![ord[w]] = to] /\ Goto(w, matched)
  ELSE UNCHANGED status /\ Goto(w, missed)

\* an order without a channel instance has no reservation to give back
AfterClose(o) == IF instance[o] = NoInstance THEN "idle" ELSE "release"

-----------------------------------------------------------------------------
(* createOrder: the per-key lock covers the limit checks, the choice of an *)
(* instance and the save; the channel is called outside it                 *)

\* mutant: createOrder without its lock
CreateUnlocked(w, o) ==
  /\ status[o] = "none" /\ instance[o] = NoInstance
  /\ \A v \in Workers : ord[v] # o
  /\ createLock' = [createLock EXCEPT ![KeyOf[o]] = w]
  /\ Begin(w, o, "stats")
  /\ UNCHANGED <<orderVars, ledgerVars, auditVars, dailyRecharged, crashes>>

CreateLock(w, o) ==
  /\ status[o] = "none" /\ instance[o] = NoInstance
  /\ \A v \in Workers : ord[v] # o
  /\ createLock[KeyOf[o]] = Nobody
  /\ createLock' = [createLock EXCEPT ![KeyOf[o]] = w]
  /\ Begin(w, o, "stats")
  /\ UNCHANGED <<orderVars, ledgerVars, auditVars, dailyRecharged, crashes>>

CreateStats(w) ==
  LET k == KeyOf[ord[w]]
      pending == OrdersOf(k, {"pending"})
      accepted == Cardinality(pending) < MaxPending
      next == IF ~accepted THEN "unwind" ELSE IF DailyLimit > 0 THEN "daily" ELSE "select"
  IN /\ pc[w] = "stats"
     /\ pc' = [pc EXCEPT ![w] = next]
     /\ seen' = [seen EXCEPT ![w] = IF next = "daily" THEN pending ELSE {}]
     /\ UNCHANGED <<orderVars, ledgerVars, auditVars, ord, scan, createLock,
                    dailyRecharged, crashes>>

CreateDaily(w) ==
  LET total == dailyRecharged[KeyOf[ord[w]]] + AmountOf(seen[w]) + PayAmount[ord[w]]
  IN /\ pc[w] = "daily"
     /\ pc' = [pc EXCEPT ![w] = IF total > DailyLimit THEN "unwind" ELSE "select"]
     /\ seen' = [seen EXCEPT ![w] = {}]
     /\ UNCHANGED <<orderVars, ledgerVars, auditVars, ord, scan, createLock,
                    dailyRecharged, crashes>>

\* EVAL payment.selectReserve: the limit check and the HSET are one script
Eligible(o) ==
  {i \in Instances : \/ InstanceLimit[i] = 0
                     \/ AmountOf(reserved[i]) + PayAmount[o] <= InstanceLimit[i]}

CreateSelect(w) ==
  /\ pc[w] = "select" /\ "channel" \in PaymentTypes
  /\ \E i \in Eligible(ord[w]) :
       /\ reserved' = [reserved EXCEPT ![i] = @ \cup {ord[w]}]
       /\ instance' = [instance EXCEPT ![ord[w]] = i]
  /\ Goto(w, "save")
  /\ UNCHANGED <<status, upstream, age, ledgerVars, auditVars, createLock,
                 dailyRecharged, crashes>>

CreateSelectNone(w) ==
  /\ pc[w] = "select" /\ "channel" \in PaymentTypes
  /\ Eligible(ord[w]) = {}
  /\ Goto(w, "unwind")
  /\ UNCHANGED <<orderVars, ledgerVars, auditVars, createLock, dailyRecharged, crashes>>

\* paymentType = mock: no instance, nothing reserved
CreateSelectMock(w) ==
  /\ pc[w] = "select" /\ "mock" \in PaymentTypes
  /\ Goto(w, "save")
  /\ UNCHANGED <<orderVars, ledgerVars, auditVars, createLock, dailyRecharged, crashes>>

CreateSave(w) ==
  /\ pc[w] = "save"
  /\ status' = [status EXCEPT ![ord[w]] = "pending"]
  /\ Goto(w, "unlock")
  /\ UNCHANGED <<instance, reserved, upstream, age, ledgerVars, auditVars,
                 createLock, dailyRecharged, crashes>>

\* a Redis error inside the locked section, whether or not the save was applied
CreateThrow(w) ==
  /\ pc[w] \in {"stats", "daily", "select", "save"}
  /\ crashes < MaxCrashes
  /\ crashes' = crashes + 1
  /\ pc' = [pc EXCEPT ![w] = "unwind"]
  /\ seen' = [seen EXCEPT ![w] = {}]
  /\ IF pc[w] = "save"
     THEN status' \in {status, [status EXCEPT ![ord[w]] = "pending"]}
     ELSE UNCHANGED status
  /\ UNCHANGED <<instance, reserved, upstream, age, ledgerVars, auditVars, ord, scan,
                 createLock, dailyRecharged>>

\* finally: compareAndDel releases the lock only if it is still this handler's
CreateUnlock(w) ==
  LET k == KeyOf[ord[w]]
  IN /\ pc[w] \in {"unlock", "unwind"}
     /\ createLock' = IF createLock[k] = w THEN [createLock EXCEPT ![k] = Nobody]
                      ELSE createLock
     /\ Goto(w, IF pc[w] = "unlock" THEN "createPayment" ELSE AfterClose(ord[w]))
     /\ UNCHANGED <<orderVars, ledgerVars, auditVars, dailyRecharged, crashes>>

\* provider.createPayment succeeded: the order is committed
CreatePayment(w) ==
  /\ pc[w] = "createPayment"
  /\ upstream' = [upstream EXCEPT ![ord[w]] = "unpaid"]
  /\ Goto(w, "idle")
  /\ UNCHANGED <<status, instance, reserved, age, ledgerVars, auditVars,
                 createLock, dailyRecharged, crashes>>

\* provider.createPayment threw: nobody was given a way to pay
CreatePaymentFails(w) ==
  /\ pc[w] = "createPayment"
  /\ Goto(w, "payCancel")
  /\ UNCHANGED <<orderVars, ledgerVars, auditVars, createLock, dailyRecharged, crashes>>

\* the uncommitted order is closed, and its reservation released, whatever the CAS said
CreatePayCancel(w) ==
  /\ pc[w] = "payCancel"
  /\ Cas(w, "pending", "cancelled", AfterClose(ord[w]), AfterClose(ord[w]))
  /\ UNCHANGED <<instance, reserved, upstream, age, ledgerVars, auditVars,
                 createLock, dailyRecharged, crashes>>

-----------------------------------------------------------------------------
(* The payer, the clock, and the events that start a handler *)

\* with the amount asked for ("paid") or with another one ("mispaid")
Pay(o) ==
  /\ upstream[o] = "unpaid"
  /\ \E amount \in {"paid", "mispaid"} : upstream' = [upstream EXCEPT ![o] = amount]
  /\ UNCHANGED <<status, instance, reserved, age, ledgerVars, auditVars, localVars,
                 createLock, dailyRecharged, crashes>>

Tick(o) ==
  /\ status[o] = "pending" /\ age[o] < 2
  /\ age' = [age EXCEPT ![o] = @ + 1]
  /\ UNCHANGED <<status, instance, reserved, upstream, ledgerVars, auditVars,
                 localVars, createLock, dailyRecharged, crashes>>

\* the channel reports success, in a notification or when it is asked
Reported(o) == upstream[o] \in {"paid", "mispaid"}

\* mutant: confirmPayment does not look at the amount
AnyAmountMatches(o) == Reported(o)

\* confirmPayment's first check, before any CAS and whatever the status: a positive
\* amount other than payAmount throws (an answer that names no amount is trusted)
AmountMatches(o) == upstream[o] = "paid"

\* confirmPayment, past that check, on the snapshot the handler has read
ConfirmStep(o) == IF status[o] \in Settled THEN "fulfil" ELSE "casPending"

\* delivered any number of times, in any order, once the channel has the money; for
\* another amount confirmPayment throws and the channel is answered 'fail'
Webhook(w, o) ==
  /\ status[o] # "none" /\ Reported(o) /\ AmountMatches(o)
  /\ Begin(w, o, ConfirmStep(o))
  /\ UNCHANGED <<orderVars, ledgerVars, auditVars, createLock, dailyRecharged, crashes>>

Verify(w, o) ==
  /\ status[o] \in Recoverable \cup {"paid"}
  /\ Begin(w, o, IF status[o] = "paid" THEN "fulfil" ELSE "verifyQuery")
  /\ UNCHANGED <<orderVars, ledgerVars, auditVars, createLock, dailyRecharged, crashes>>

\* not paid, or confirmPayment throws: the order is left as it is
VerifyQuery(w) ==
  LET confirms == Reported(ord[w]) /\ AmountMatches(ord[w])
  IN /\ pc[w] = "verifyQuery"
     /\ Goto(w, IF confirms THEN "casPending" ELSE "idle")
     /\ UNCHANGED <<orderVars, ledgerVars, auditVars, createLock, dailyRecharged, crashes>>

\* an administrator vouches for the payment, with payAmount as the amount paid; the
\* audit entry precedes the confirm
ManualComplete(w, o) ==
  /\ status[o] \in Recoverable \cup {"paid"}
  /\ manual' = IF status[o] = "paid" THEN manual ELSE manual \cup {o}
  /\ Begin(w, o, ConfirmStep(o))
  /\ UNCHANGED <<orderVars, ledgerVars, revived, createLock, dailyRecharged, crashes>>

CancelOrder(w, o) ==
  /\ pc[w] = "idle" /\ status[o] = "pending"
  /\ status' = [status EXCEPT ![o] = "cancelled"]
  /\ pc' = [pc EXCEPT ![w] = AfterClose(o)]
  /\ ord' = IF instance[o] = NoInstance THEN ord ELSE [ord EXCEPT ![w] = o]
  /\ UNCHANGED <<instance, reserved, upstream, age, ledgerVars, auditVars, scan, seen,
                 createLock, dailyRecharged, crashes>>

\* HDEL of the order's field in the instance's daily reservation hash
Release(w) ==
  /\ pc[w] = "release"
  /\ reserved' = [reserved EXCEPT ![instance[ord[w]]] = @ \ {ord[w]}]
  /\ Goto(w, "idle")
  /\ UNCHANGED <<status, instance, upstream, age, ledgerVars, auditVars,
                 createLock, dailyRecharged, crashes>>

-----------------------------------------------------------------------------
(* The cron: expireTimedOutOrders, then reconcileInstanceDailyReservations *)

\* mutant: an order that is credited already is taken for done
CronPaidUncredited(w, o) ==
  /\ status[o] = "paid" /\ o \notin applied
  /\ Begin(w, o, "fulfil")
  /\ UNCHANGED <<orderVars, ledgerVars, auditVars, createLock, dailyRecharged, crashes>>

CronPaid(w, o) ==
  /\ status[o] = "paid"
  /\ Begin(w, o, "fulfil")
  /\ UNCHANGED <<orderVars, ledgerVars, auditVars, createLock, dailyRecharged, crashes>>

\* the tick's clock, read before the query, decides what an unknown answer means
CronExpired(w, o) ==
  /\ status[o] = "pending" /\ age[o] > 0
  /\ pc[w] = "idle"
  /\ pc' = [pc EXCEPT ![w] = "cronQuery"]
  /\ ord' = [ord EXCEPT ![w] = o]
  /\ scan' = [scan EXCEPT ![w] = IF age[o] = 1 THEN "grace" ELSE "late"]
  /\ UNCHANGED <<orderVars, ledgerVars, auditVars, seen, createLock, dailyRecharged, crashes>>

\* paid: confirmPayment, whose amount check may throw at once; not paid: close it
CronQueryAnswered(w) ==
  LET o == ord[w]
  IN /\ pc[w] = "cronQuery"
     /\ \/ ~Reported(o) /\ LeaveScan(w, "expire")
        \/ Reported(o) /\ Goto(w, IF AmountMatches(o) THEN "casPending" ELSE Thrown(w))
     /\ UNCHANGED <<orderVars, ledgerVars, auditVars, createLock, dailyRecharged, crashes>>

\* mutant: an unknown answer is deferred for ever
DeferUnknown(w) == "idle"

\* what the scan does when it does not know whether the order is paid
Unknown(w) == IF scan[w] = "grace" THEN "idle" ELSE "expire"

\* null or an exception: deferred within the grace, expired beyond it
CronQueryUnknown(w) ==
  /\ pc[w] = "cronQuery"
  /\ LeaveScan(w, Unknown(w))
  /\ UNCHANGED <<orderVars, ledgerVars, auditVars, createLock, dailyRecharged, crashes>>

\* catch (confirmError): the order is read again.  PAID is fulfilled at once; PENDING is
\* asked again two minutes later, with no end to it; the rest leaves the pending index
CronConfirmFailed(w) ==
  /\ pc[w] = "confirmFailed"
  /\ LeaveScan(w, IF status[ord[w]] = "paid" THEN "fulfil" ELSE "idle")
  /\ UNCHANGED <<orderVars, ledgerVars, auditVars, createLock, dailyRecharged, crashes>>

\* mutant: the status is written without comparing it first
CronExpireBlindly(w) ==
  /\ pc[w] = "expire"
  /\ status' = [status EXCEPT ![ord[w]] = "expired"]
  /\ Goto(w, AfterClose(ord[w]))
  /\ UNCHANGED <<instance, reserved, upstream, age, ledgerVars, auditVars,
                 createLock, dailyRecharged, crashes>>

CronExpire(w) ==
  /\ pc[w] = "expire"
  /\ Cas(w, "pending", "expired", AfterClose(ord[w]), "idle")
  /\ UNCHANGED <<instance, reserved, upstream, age, ledgerVars, auditVars,
                 createLock, dailyRecharged, crashes>>

\* mutant: every order that is not settled counts as stale
StaleUnlessSettled(o) == status[o] \notin Settled

\* stale: the order is closed, or was never saved and its creator is long gone
StaleReservation(o) ==
  \/ status[o] \in {"cancelled", "expired"}
  \/ status[o] = "none" /\ \A w \in Workers : ~(ord[w] = o /\ pc[w] \in CriticalSteps)

\* mutant: reservations whose order was never saved are left alone
ReconcileSaved(w, o) ==
  /\ Holds(o) /\ StaleReservation(o) /\ status[o] # "none"
  /\ Begin(w, o, "release")
  /\ UNCHANGED <<orderVars, ledgerVars, auditVars, createLock, dailyRecharged, crashes>>

Reconcile(w, o) ==
  /\ Holds(o) /\ StaleReservation(o)
  /\ Begin(w, o, "release")
  /\ UNCHANGED <<orderVars, ledgerVars, auditVars, createLock, dailyRecharged, crashes>>

-----------------------------------------------------------------------------
(* confirmPayment and fulfillOrder *)

\* mutant: EXPIRED is missing from fromStatuses
ConfirmSkippingExpired(w) ==
  /\ pc[w] = "casPending"
  /\ Cas(w, "pending", "paid", "count", "casCancelled")
  /\ UNCHANGED <<instance, reserved, upstream, age, ledgerVars, auditVars,
                 createLock, dailyRecharged, crashes>>

ConfirmFromPending(w) ==
  /\ pc[w] = "casPending"
  /\ Cas(w, "pending", "paid", "count", "casExpired")
  /\ UNCHANGED <<instance, reserved, upstream, age, ledgerVars, auditVars,
                 createLock, dailyRecharged, crashes>>

\* a closed order is revived: the channel has the money
Revive(w, from, missed) ==
  /\ Cas(w, from, "paid", "countRevived", missed)
  /\ revived' = IF status[ord[w]] = from THEN revived \cup {ord[w]} ELSE revived
  /\ UNCHANGED <<instance, reserved, upstream, age, ledgerVars, manual,
                 createLock, dailyRecharged, crashes>>

ConfirmFromExpired(w) == pc[w] = "casExpired" /\ Revive(w, "expired", "casCancelled")

ConfirmFromCancelled(w) == pc[w] = "casCancelled" /\ Revive(w, "cancelled", "recheck")

\* mutant: the recharge is counted by whoever finds the order settled
ConfirmRecheckCounts(w) ==
  /\ pc[w] = "recheck"
  /\ Goto(w, IF status[ord[w]] \in Settled THEN "count" ELSE Thrown(w))
  /\ UNCHANGED <<orderVars, ledgerVars, auditVars, createLock, dailyRecharged, crashes>>

\* no CAS matched: another handler confirmed the order, or the payment is refused
ConfirmRecheck(w) ==
  /\ pc[w] = "recheck"
  /\ Goto(w, IF status[ord[w]] \in Settled THEN "fulfil" ELSE Thrown(w))
  /\ UNCHANGED <<orderVars, ledgerVars, auditVars, createLock, dailyRecharged, crashes>>

\* _addDailyRecharged
CountRecharge(w) ==
  /\ pc[w] \in {"count", "countRevived"}
  /\ dailyRecharged' = [dailyRecharged EXCEPT ![KeyOf[ord[w]]] = @ + PayAmount[ord[w]]]
  /\ Goto(w, IF pc[w] = "countRevived" THEN "restore" ELSE "fulfil")
  /\ UNCHANGED <<orderVars, ledgerVars, auditVars, createLock, crashes>>

\* _ensureInstanceDailyReservation: an idempotent HSET, a no-op without instance
EnsureReservation(w) ==
  /\ pc[w] \in {"restore", "ensure"}
  /\ reserved' = [i \in Instances |-> IF i = instance[ord[w]] THEN reserved[i] \cup {ord[w]}
                                      ELSE reserved[i]]
  /\ Goto(w, IF pc[w] = "restore" THEN "fulfil" ELSE "credit")
  /\ UNCHANGED <<status, instance, upstream, age, ledgerVars, auditVars,
                 createLock, dailyRecharged, crashes>>

FulfilRead(w) ==
  /\ pc[w] = "fulfil"
  /\ Goto(w, IF status[ord[w]] = "paid" THEN "ensure" ELSE "idle")
  /\ UNCHANGED <<orderVars, ledgerVars, auditVars, createLock, dailyRecharged, crashes>>

\* mutant: a failed credit is swallowed
FulfilCreditSwallowed(w) ==
  /\ pc[w] = "credit"
  /\ applied' \in {applied, applied \cup {ord[w]}}
  /\ Goto(w, "baseline")
  /\ UNCHANGED <<orderVars, baseline, prepaid, auditVars, createLock, dailyRecharged, crashes>>

\* EVAL payment.addIdempotent, refId = order id
FulfilCredit(w) ==
  /\ pc[w] = "credit"
  /\ applied' = applied \cup {ord[w]}
  /\ Goto(w, "baseline")
  /\ UNCHANGED <<orderVars, baseline, prepaid, auditVars, createLock, dailyRecharged, crashes>>

\* setBaselineIfAbsent, then billingMode = prepaid
FulfilBaseline(w) ==
  /\ pc[w] = "baseline"
  /\ baseline' = baseline \cup {KeyOf[ord[w]]}
  /\ Goto(w, "prepaid")
  /\ UNCHANGED <<orderVars, applied, prepaid, auditVars, createLock, dailyRecharged, crashes>>

FulfilPrepaid(w) ==
  /\ pc[w] = "prepaid"
  /\ prepaid' = prepaid \cup {KeyOf[ord[w]]}
  /\ Goto(w, "complete")
  /\ UNCHANGED <<orderVars, applied, baseline, auditVars, createLock, dailyRecharged, crashes>>

FulfilComplete(w) ==
  /\ pc[w] = "complete"
  /\ Cas(w, "paid", "completed", "idle", "idle")
  /\ UNCHANGED <<instance, reserved, upstream, age, ledgerVars, auditVars,
                 createLock, dailyRecharged, crashes>>

-----------------------------------------------------------------------------
(* Failure: a crash, or a Redis error that ends the handler where it stands *)
(* or, in the expiry scan, is caught                                        *)

Crash(w) ==
  /\ pc[w] # "idle"
  /\ crashes < MaxCrashes
  /\ crashes' = crashes + 1
  /\ pc' = [pc EXCEPT ![w] = "idle"]
  /\ ord' = [ord EXCEPT ![w] = NoOrder]
  /\ scan' = [scan EXCEPT ![w] = "none"]
  /\ seen' = [seen EXCEPT ![w] = {}]
  /\ UNCHANGED <<orderVars, ledgerVars, auditVars, createLock, dailyRecharged>>

\* a Redis error anywhere in the confirmPayment that the expiry scan has called
CronConfirmThrows(w) ==
  /\ pc[w] \in ConfirmSteps /\ scan[w] # "none"
  /\ crashes < MaxCrashes
  /\ crashes' = crashes + 1
  /\ Goto(w, "confirmFailed")
  /\ UNCHANGED <<orderVars, ledgerVars, auditVars, createLock, dailyRecharged>>

\* the catch block itself fails: the outer catch takes it for an unknown answer
CronCatchThrows(w) ==
  /\ pc[w] = "confirmFailed"
  /\ crashes < MaxCrashes
  /\ crashes' = crashes + 1
  /\ LeaveScan(w, Unknown(w))
  /\ UNCHANGED <<orderVars, ledgerVars, auditVars, createLock, dailyRecharged>>

\* the create lock's TTL runs out, under a live holder only if LockOverrun
LockExpires(k) ==
  LET w == createLock[k]
  IN /\ w # Nobody
     /\ \/ ~(pc[w] \in CriticalSteps /\ KeyOf[ord[w]] = k)
        \/ LockOverrun
     /\ createLock' = [createLock EXCEPT ![k] = Nobody]
     /\ UNCHANGED <<orderVars, ledgerVars, auditVars, localVars, dailyRecharged, crashes>>

-----------------------------------------------------------------------------

\* what a handler does once it has started
Continue(w) ==
  \/ CreateStats(w) \/ CreateDaily(w) \/ CreateSelect(w) \/ CreateSelectNone(w)
  \/ CreateSelectMock(w) \/ CreateSave(w) \/ CreateUnlock(w) \/ CreatePayment(w)
  \/ CreatePaymentFails(w) \/ CreatePayCancel(w) \/ Release(w)
  \/ VerifyQuery(w) \/ CronQueryAnswered(w) \/ CronQueryUnknown(w)
  \/ CronConfirmFailed(w) \/ CronExpire(w)
  \/ ConfirmFromPending(w) \/ ConfirmFromExpired(w) \/ ConfirmFromCancelled(w)
  \/ ConfirmRecheck(w) \/ CountRecharge(w) \/ EnsureReservation(w)
  \/ FulfilRead(w) \/ FulfilCredit(w) \/ FulfilBaseline(w) \/ FulfilPrepaid(w)
  \/ FulfilComplete(w)

Start(w, o) ==
  \/ CreateLock(w, o) \/ Webhook(w, o) \/ Verify(w, o) \/ ManualComplete(w, o)
  \/ CancelOrder(w, o) \/ CronPaid(w, o) \/ CronExpired(w, o) \/ Reconcile(w, o)

Next ==
  \/ \E w \in Workers, o \in Orders : Start(w, o)
  \/ \E w \in Workers : \/ Continue(w) \/ CreateThrow(w) \/ Crash(w)
                      \/ CronConfirmThrows(w) \/ CronCatchThrows(w)
  \/ \E o \in Orders : Pay(o) \/ Tick(o)
  \/ \E k \in Keys : LockExpires(k)

Spec == Init /\ [][Next]_vars

(* Fairness.  A started handler runs on (Node's event loop), the clock      *)
(* advances, and the cron keeps visiting every order: setInterval starts a  *)
(* tick every five minutes, its paid scan has a rotating cursor and its     *)
(* expiry scan takes the oldest deadlines first.  Users, administrators and *)
(* webhooks owe nothing.                                                    *)
CronWorks(o) ==
  /\ SF_vars(\E w \in Workers : CronPaid(w, o))
  /\ SF_vars(\E w \in Workers : CronExpired(w, o))
  /\ SF_vars(\E w \in Workers : Reconcile(w, o))

FairSpec ==
  /\ Spec
  /\ \A w \in Workers : WF_vars(Continue(w))
  /\ \A o \in Orders : WF_vars(Tick(o)) /\ CronWorks(o)

-----------------------------------------------------------------------------
(* Safety *)

\* The ledger and the order agree: quota is credited only for an order whose
\* payment is confirmed, and no order completes without its quota, although
\* credit and PAID -> COMPLETED are separate steps that any number of
\* handlers may be running for the same order.
LedgerAgreesWithOrders ==
  \A o \in Orders : /\ o \in applied => status[o] \in Settled
                    /\ status[o] = "completed" => o \in applied

\* Nobody's key is recharged for nothing: behind every settled order is the
\* channel's money, in the amount the order asks for, or an administrator's
\* ORDER_MANUAL_COMPLETE audit entry, whatever snapshots the handler that
\* confirmed it was working from.
PaidForOrVouchedFor ==
  \A o \in Orders : status[o] \in Settled => upstream[o] = "paid" \/ o \in manual

\* A genuine payment is never turned away: confirmPayment tries PENDING,
\* EXPIRED and CANCELLED in three separate scripts while other handlers close
\* or confirm the order, and still, when none of them matched, the order is
\* already settled.
ConfirmNeverRefuses ==
  \A w \in Workers : pc[w] = "recheck" => status[ord[w]] \in Settled

\* The order of _ensurePrepaid: a key that is billed by balance always has the
\* baseline that keeps its earlier consumption out of that balance.
BaselineBeforePrepaid == prepaid \subseteq baseline

\* maxPendingOrders holds across concurrent createOrder calls of a key, because
\* the count and the save are under the create lock.
PendingLimitRespected ==
  \A k \in Keys : Cardinality(OrdersOf(k, {"pending"})) <= MaxPending

\* The day's recharge total, an INCRBYFLOAT with no idempotence of its own,
\* never counts an order twice although webhook, verify and cron may all be
\* confirming it.
RechargeCountedOnce ==
  \A k \in Keys : dailyRecharged[k] <= AmountOf(OrdersOf(k, Settled))

\* The share of the instance's daily limit an order took is held while it waits
\* for its payment, so that nobody else is sold it, and stays once it is paid:
\* only an order that had been closed, or was completed by hand, may lose it.
ReservationsHeld ==
  \A o \in Orders :
    /\ instance[o] # NoInstance
    /\ \/ status[o] = "pending" /\ upstream[o] # "absent"
       \/ status[o] \in Settled /\ o \notin revived \cup manual
    => Holds(o)

\* ALLOWED_TRANSITIONS, which no code path consults: the CASes scattered over
\* the handlers follow it, and a settled order is never closed again.
AllowedTransition(from, to) ==
  \/ from = "none" /\ to = "pending"
  \/ from = "pending" /\ to \in {"paid", "expired", "cancelled"}
  \/ from \in {"expired", "cancelled"} /\ to = "paid"
  \/ from = "paid" /\ to = "completed"

TransitionsAllowed ==
  [][\A o \in Orders : status'[o] # status[o] => AllowedTransition(status[o], status'[o])]_vars

-----------------------------------------------------------------------------
(* Liveness *)

\* A confirmed payment is credited in the end, wherever the handler that
\* confirmed it crashed: the cron's scan of the paid index finishes the job.
PaidOrdersComplete == \A o \in Orders : status[o] = "paid" ~> status[o] = "completed"

\* Past its deadline an order is confirmed or closed, even if the channel never
\* answers a query again, and in spite of a confirmation that fails on the way.
\* Only an order paid in another amount may wait for ever: confirmPayment throws
\* each time, and the expiry scan asks again every two minutes without end.
PendingOrdersSettle ==
  \A o \in Orders :
    status[o] = "pending" ~> status[o] # "pending" \/ upstream[o] = "mispaid"

\* The reservation of a closed or never saved order is given back, also when
\* the handler that should have released it crashed.
StaleReservationsCleared ==
  \A o \in Orders :
    Holds(o) /\ StaleReservation(o) ~> ~Holds(o) \/ status[o] \in Settled

=============================================================================
