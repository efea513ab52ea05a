---------------------------- MODULE PaymentRefund ----------------------------
(***************************************************************************)
(* The refund of a COMPLETED order: approveRefund, the re-entry of an      *)
(* order stuck in REFUNDING, and the administrator's verdict on a channel  *)
(* call whose outcome is unknown.  The quota is taken back from a balance  *)
(* that is consumed all the while, the channel pays once it has been       *)
(* taken, and every write in between may fail or be the last thing the     *)
(* process did.                                                            *)
(*                                                                         *)
(* Abstractions.  The ledger's baseline is 0.  applied holds a refund's    *)
(* refId exactly while its recovery hash has a record (one script writes   *)
(* both).  Verdicts are truthful, and given once the channel has decided.  *)
(* The 60 s refund lock outlives the channel call, as approveRefund        *)
(* requires of channel clients; it expires only under a dead handler.      *)
(***************************************************************************)
EXTENDS RefundRules, FiniteSetsExt

CONSTANTS
  Orders,         \* orders that were fulfilled
  Keys,           \* API keys
  Workers,        \* handlers running at the same time
  Nobody,         \* no lock owner
  NoOrder,        \* a worker that handles nothing
  KeyOf,          \* the API key of an order
  Quota,          \* order.quotaAmount
  Price,          \* order.price
  Credit,         \* API key -> quota credited to it
  FinalizeTries,  \* attempts of _finalizeRefund: 3
  MaxUsage,       \* bounds what a key consumes
  MaxFaults       \* bounds the crashes and Redis errors of a behaviour

ASSUME RefundConstants ==
  /\ KeyOf \in [Orders -> Keys]
  /\ Quota \in [Orders -> Nat \ {0}]
  /\ Price \in [Orders -> Nat \ {0}]
  /\ Credit \in [Keys -> Nat]
  /\ FinalizeTries \in Nat \ {0}
  /\ MaxUsage \in Nat
  /\ MaxFaults \in Nat
  /\ Nobody \notin Workers
  /\ NoOrder \notin Orders

VARIABLES
  status,         \* the order's status
  attempt,        \* channelRefundAttemptAt is set
  refundedAt,     \* channelRefundedAt is set
  written,        \* order.reversedQuota, 0 when absent; pendingRefundAmount follows it
  refundedAmount, \* order.refundedAmount
  reversedOf,     \* the ledger's recovery hash: order -> quota taken back
  refunded,       \* API key -> quota taken back in total
  consumed,       \* API key -> quota used
  paid,           \* what the channel has paid back, in its own books
  lock,           \* order -> holder of its refund lock
  pc, ord,        \* per worker: its next step and its order
  quota,          \* per worker: refundableQuota, then the quota really taken
  tries,          \* per worker: failed attempts to finalize
  faults          \* crashes and Redis errors so far

markVars == <<attempt, refundedAt, written, refundedAmount>>
ledgerVars == <<reversedOf, refunded>>
localVars == <<pc, ord, quota, tries>>
vars == <<status, markVars, ledgerVars, consumed, paid, lock, localVars, faults>>

Steps == {"idle", "read", "quote", "lock", "reverse", "reopen", "resume", "derive",
          "resumeQuota", "resumeQuote", "resumeReverse", "mark", "channel", "rollback",
          "clear", "finalize", "finish", "resolve", "resolveMark", "unlock"}

TypeOK ==
  /\ status \in [Orders -> {"completed", "refunding", "refunded"}]
  /\ attempt \in [Orders -> BOOLEAN]
  /\ refundedAt \in [Orders -> BOOLEAN]
  /\ written \in [Orders -> Nat]
  /\ refundedAmount \in [Orders -> Nat]
  /\ reversedOf \in [Orders -> Nat]
  /\ refunded \in [Keys -> Int]
  /\ consumed \in [Keys -> Nat]
  /\ paid \in [Orders -> Nat]
  /\ lock \in [Orders -> Workers \cup {Nobody}]
  /\ pc \in [Workers -> Steps]
  /\ ord \in [Workers -> Orders \cup {NoOrder}]
  /\ quota \in [Workers -> Nat]
  /\ tries \in [Workers -> 0..(FinalizeTries - 1)]
  /\ faults \in 0..MaxFaults
  /\ \A w \in Workers : pc[w] # "idle" => ord[w] \in Orders

Init ==
  /\ status = [o \in Orders |-> "completed"]
  /\ attempt = [o \in Orders |-> FALSE]
  /\ refundedAt = [o \in Orders |-> FALSE]
  /\ written = [o \in Orders |-> 0]
  /\ refundedAmount = [o \in Orders |-> 0]
  /\ reversedOf = [o \in Orders |-> 0]
  /\ refunded = [k \in Keys |-> 0]
  /\ consumed = [k \in Keys |-> 0]
  /\ paid = [o \in Orders |-> 0]
  /\ lock = [o \in Orders |-> Nobody]
  /\ pc = [w \in Workers |-> "idle"]
  /\ ord = [w \in Workers |-> NoOrder]
  /\ quota = [w \in Workers |-> 0]
  /\ tries = [w \in Workers |-> 0]
  /\ faults = 0

-----------------------------------------------------------------------------
(* Helpers *)

Balance(k) == Credit[k] - refunded[k] - consumed[k]
Refundable(o) == RefundableQuota(Quota[o], Balance(KeyOf[o]))
AmountFor(o, q) == RefundAmount(Price[o], Quota[o], q)

\* go on with quota q in hand
With(w, step, q) ==
  /\ pc' = [pc EXCEPT ![w] = step]
  /\ quota' = [quota EXCEPT ![w] = q]
  /\ UNCHANGED <<ord, tries>>

Goto(w, step) == With(w, step, quota[w])

\* a quota that rounds to no money at all is given back, never sent to the channel
PayOrGiveBack(w, q) == With(w, IF AmountFor(ord[w], q) > 0 THEN "mark" ELSE "rollback", q)

Cas(w, from, to, matched, missed) ==
  IF status[ord[w]] = from
  THEN status' = [status EXCEPT ![ord[w]] = to] /\ Goto(w, matched)
  ELSE UNCHANGED status /\ Goto(w, missed)

Fault == faults < MaxFaults /\ faults' = faults + 1

-----------------------------------------------------------------------------
(* Events *)

\* recordUsage: requests already let in may overdraw the balance
Consume(k) ==
  /\ consumed[k] < MaxUsage
  /\ consumed' = [consumed EXCEPT ![k] = @ + 1]
  /\ UNCHANGED <<status, markVars, ledgerVars, paid, lock, localVars, faults>>

\* mutant: whoever comes takes the lock over
LockRefundAnyway(w, o, step) ==
  /\ pc[w] = "idle"
  /\ lock' = [lock EXCEPT ![o] = w]
  /\ pc' = [pc EXCEPT ![w] = step]
  /\ ord' = [ord EXCEPT ![w] = o]
  /\ UNCHANGED <<status, markVars, ledgerVars, consumed, paid, quota, tries, faults>>

\* SET NX PX on the order's refund lock
LockRefund(w, o, step) ==
  /\ pc[w] = "idle" /\ lock[o] = Nobody
  /\ lock' = [lock EXCEPT ![o] = w]
  /\ pc' = [pc EXCEPT ![w] = step]
  /\ ord' = [ord EXCEPT ![w] = o]
  /\ UNCHANGED <<status, markVars, ledgerVars, consumed, paid, quota, tries, faults>>

Approve(w, o) == LockRefund(w, o, "read")

Resolve(w, o) == LockRefund(w, o, "resolve")

\* finally: compareAndDel
Unlock(w) ==
  /\ pc[w] = "unlock"
  /\ lock' = IF lock[ord[w]] = w THEN [lock EXCEPT ![ord[w]] = Nobody] ELSE lock
  /\ pc' = [pc EXCEPT ![w] = "idle"]
  /\ ord' = [ord EXCEPT ![w] = NoOrder]
  /\ quota' = [quota EXCEPT ![w] = 0]
  /\ tries' = [tries EXCEPT ![w] = 0]
  /\ UNCHANGED <<status, markVars, ledgerVars, consumed, paid, faults>>

-----------------------------------------------------------------------------
(* _approveRefundLocked *)

ApproveRead(w) ==
  /\ pc[w] = "read"
  /\ Goto(w, IF status[ord[w]] = "refunding" THEN "resume" ELSE "quote")
  /\ UNCHANGED <<status, markVars, ledgerVars, consumed, paid, lock, faults>>

\* the early reject, on a snapshot of the balance
ApproveQuote(w) ==
  LET q == Refundable(ord[w])
  IN /\ pc[w] = "quote"
     /\ IF q > 0 /\ AmountFor(ord[w], q) > 0 THEN With(w, "lock", q) ELSE Goto(w, "unlock")
     /\ UNCHANGED <<status, markVars, ledgerVars, consumed, paid, lock, faults>>

ApproveCas(w) ==
  /\ pc[w] = "lock"
  /\ Cas(w, "completed", "refunding", "reverse", "unlock")
  /\ UNCHANGED <<markVars, ledgerVars, consumed, paid, lock, faults>>

\* mutant: the quota is not clipped to the balance of this moment
ReverseUnclipped(w) ==
  LET o == ord[w]
      k == KeyOf[o]
      actual == quota[w]
  IN /\ pc[w] \in {"reverse", "resumeReverse"}
     /\ \/ /\ reversedOf[o] > 0
           /\ Goto(w, IF pc[w] = "reverse" THEN "resume" ELSE "unlock")
           /\ UNCHANGED ledgerVars
        \/ /\ reversedOf[o] = 0 /\ actual <= 0
           /\ Goto(w, "reopen")
           /\ UNCHANGED ledgerVars
        \/ /\ reversedOf[o] = 0 /\ actual > 0
           /\ reversedOf' = [reversedOf EXCEPT ![o] = actual]
           /\ refunded' = [refunded EXCEPT ![k] = @ + actual]
           /\ PayOrGiveBack(w, actual)
     /\ UNCHANGED <<status, markVars, consumed, paid, lock, faults>>

\* EVAL payment.reverse: clipped to the balance at this moment
Reverse(w) ==
  LET o == ord[w]
      k == KeyOf[o]
      actual == Lesser(quota[w], Balance(k))
  IN /\ pc[w] \in {"reverse", "resumeReverse"}
     /\ \/ /\ reversedOf[o] > 0
           /\ Goto(w, IF pc[w] = "reverse" THEN "resume" ELSE "unlock")
           /\ UNCHANGED ledgerVars
        \/ /\ reversedOf[o] = 0 /\ actual <= 0
           /\ Goto(w, "reopen")
           /\ UNCHANGED ledgerVars
        \/ /\ reversedOf[o] = 0 /\ actual > 0
           /\ reversedOf' = [reversedOf EXCEPT ![o] = actual]
           /\ refunded' = [refunded EXCEPT ![k] = @ + actual]
           /\ PayOrGiveBack(w, actual)
     /\ UNCHANGED <<status, markVars, consumed, paid, lock, faults>>

\* REFUNDING -> COMPLETED: nothing to refund, or rolled back
Reopen(w) ==
  /\ pc[w] = "reopen"
  /\ Cas(w, "refunding", "completed", "unlock", "unlock")
  /\ UNCHANGED <<markVars, ledgerVars, consumed, paid, lock, faults>>

-----------------------------------------------------------------------------
(* _resumeRefund *)

ResumeRead(w) ==
  LET o == ord[w]
  IN /\ pc[w] = "resume"
     /\ \/ /\ status[o] # "refunding"
           /\ Goto(w, "unlock")
        \/ /\ status[o] = "refunding" /\ refundedAt[o]
           /\ IF written[o] > 0 THEN With(w, "finalize", written[o]) ELSE Goto(w, "derive")
        \/ /\ status[o] = "refunding" /\ ~refundedAt[o] /\ attempt[o]
           /\ Goto(w, "unlock")
        \/ /\ status[o] = "refunding" /\ ~refundedAt[o] /\ ~attempt[o]
           /\ Goto(w, "resumeQuota")
     /\ UNCHANGED <<status, markVars, ledgerVars, consumed, paid, lock, faults>>

\* the verdict set the marker only: the ledger says how much
ResumeDerive(w) ==
  LET q == reversedOf[ord[w]]
  IN /\ pc[w] = "derive"
     /\ With(w, IF q > 0 /\ AmountFor(ord[w], q) > 0 THEN "finalize" ELSE "unlock", q)
     /\ UNCHANGED <<status, markVars, ledgerVars, consumed, paid, lock, faults>>

ResumeQuota(w) ==
  LET q == reversedOf[ord[w]]
  IN /\ pc[w] = "resumeQuota"
     /\ IF q > 0 THEN PayOrGiveBack(w, q) ELSE Goto(w, "resumeQuote")
     /\ UNCHANGED <<status, markVars, ledgerVars, consumed, paid, lock, faults>>

ResumeQuote(w) ==
  LET q == Refundable(ord[w])
  IN /\ pc[w] = "resumeQuote"
     /\ With(w, IF q > 0 THEN "resumeReverse" ELSE "reopen", q)
     /\ UNCHANGED <<status, markVars, ledgerVars, consumed, paid, lock, faults>>

-----------------------------------------------------------------------------
(* _executeChannelRefund *)

\* the write-ahead marker
Mark(w) ==
  /\ pc[w] = "mark"
  /\ attempt' = [attempt EXCEPT ![ord[w]] = TRUE]
  /\ Goto(w, "channel")
  /\ UNCHANGED <<status, refundedAt, written, refundedAmount, ledgerVars, consumed,
                 paid, lock, faults>>

\* the write failed, or its answer was lost: the channel is not called
MarkFails(w) ==
  /\ pc[w] = "mark" /\ Fault
  /\ UNCHANGED attempt \/ attempt' = [attempt EXCEPT ![ord[w]] = TRUE]
  /\ Goto(w, "rollback")
  /\ UNCHANGED <<status, refundedAt, written, refundedAmount, ledgerVars, consumed,
                 paid, lock>>

PaidOut(w) == [paid EXCEPT ![ord[w]] = @ + AmountFor(ord[w], quota[w])]

ChannelRefunds(w) ==
  /\ pc[w] = "channel"
  /\ paid' = PaidOut(w)
  /\ Goto(w, "finalize")
  /\ UNCHANGED <<status, markVars, ledgerVars, consumed, lock, faults>>

\* mutant: refundResult.success is not looked at
ChannelRejectsUnseen(w) ==
  /\ pc[w] = "channel"
  /\ Goto(w, "finalize")
  /\ UNCHANGED <<status, markVars, ledgerVars, consumed, paid, lock, faults>>

ChannelRejects(w) ==
  /\ pc[w] = "channel"
  /\ Goto(w, "rollback")
  /\ UNCHANGED <<status, markVars, ledgerVars, consumed, paid, lock, faults>>

\* mutant: an exception is taken for a refusal
ChannelThrowsRollsBack(w) ==
  /\ pc[w] = "channel"
  /\ UNCHANGED paid \/ paid' = PaidOut(w)
  /\ Goto(w, "rollback")
  /\ UNCHANGED <<status, markVars, ledgerVars, consumed, lock, faults>>

\* a timeout, a broken connection: the money may be out or not
ChannelThrows(w) ==
  /\ pc[w] = "channel"
  /\ UNCHANGED paid \/ paid' = PaidOut(w)
  /\ Goto(w, "unlock")
  /\ UNCHANGED <<status, markVars, ledgerVars, consumed, lock, faults>>

-----------------------------------------------------------------------------
(* _rollbackRefund *)

\* mutant: the record of what was taken stays
UnreversedKeepingRecord(o) ==
  /\ refunded' = [refunded EXCEPT ![KeyOf[o]] = @ - reversedOf[o]]
  /\ UNCHANGED reversedOf

\* EVAL payment.unreverse: what the recovery hash says, whatever the caller asks
Unreversed(o) ==
  /\ reversedOf' = [reversedOf EXCEPT ![o] = 0]
  /\ refunded' = [refunded EXCEPT ![KeyOf[o]] = @ - reversedOf[o]]

Rollback(w) ==
  /\ pc[w] = "rollback"
  /\ Unreversed(ord[w])
  /\ Goto(w, "clear")
  /\ UNCHANGED <<status, markVars, consumed, paid, lock, faults>>

\* the exception is caught and audited, and the order unlocked all the same
RollbackFails(w) ==
  /\ pc[w] = "rollback" /\ Fault
  /\ UNCHANGED ledgerVars \/ Unreversed(ord[w])
  /\ Goto(w, "clear")
  /\ UNCHANGED <<status, markVars, consumed, paid, lock>>

ClearMarker(w) ==
  /\ pc[w] = "clear"
  /\ attempt' = [attempt EXCEPT ![ord[w]] = FALSE]
  /\ Goto(w, "reopen")
  /\ UNCHANGED <<status, refundedAt, written, refundedAmount, ledgerVars, consumed,
                 paid, lock, faults>>

ClearMarkerFails(w) ==
  /\ pc[w] = "clear" /\ Fault
  /\ UNCHANGED attempt \/ attempt' = [attempt EXCEPT ![ord[w]] = FALSE]
  /\ Goto(w, "reopen")
  /\ UNCHANGED <<status, refundedAt, written, refundedAmount, ledgerVars, consumed,
                 paid, lock>>

-----------------------------------------------------------------------------
(* _finalizeRefund *)

FinalMark(w) ==
  /\ refundedAt' = [refundedAt EXCEPT ![ord[w]] = TRUE]
  /\ written' = [written EXCEPT ![ord[w]] = quota[w]]
  /\ UNCHANGED <<attempt, refundedAmount>>

FinalizeMark(w) ==
  /\ pc[w] = "finalize"
  /\ FinalMark(w)
  /\ Goto(w, "finish")
  /\ UNCHANGED <<status, ledgerVars, consumed, paid, lock, faults>>

FinalCas(w) ==
  /\ status[ord[w]] = "refunding"
  /\ status' = [status EXCEPT ![ord[w]] = "refunded"]
  /\ refundedAmount' = [refundedAmount EXCEPT ![ord[w]] = AmountFor(ord[w], quota[w])]
  /\ UNCHANGED <<attempt, refundedAt, written>>

\* a CAS that misses finds REFUNDED, written by an attempt whose answer was lost,
\* or reports a conflict
FinalizeCas(w) ==
  /\ pc[w] = "finish"
  /\ \/ FinalCas(w)
     \/ /\ status[ord[w]] # "refunding"
        /\ UNCHANGED <<status, markVars>>
  /\ Goto(w, "unlock")
  /\ UNCHANGED <<ledgerVars, consumed, paid, lock, faults>>

\* one of the two writes fails, with or without effect: again, three times in all
FinalizeFails(w) ==
  /\ Fault
  /\ \/ /\ pc[w] = "finalize" /\ UNCHANGED status
        /\ FinalMark(w) \/ UNCHANGED markVars
     \/ /\ pc[w] = "finish"
        /\ FinalCas(w) \/ UNCHANGED <<status, markVars>>
  /\ IF tries[w] + 1 < FinalizeTries
     THEN /\ pc' = [pc EXCEPT ![w] = "finalize"]
          /\ tries' = [tries EXCEPT ![w] = @ + 1]
          /\ UNCHANGED <<ord, quota>>
     ELSE Goto(w, "unlock")
  /\ UNCHANGED <<ledgerVars, consumed, paid, lock>>

-----------------------------------------------------------------------------
(* resolveRefundInDoubt, with the verdict the channel's books show *)

\* mutant: only an order with channelRefundedAt counts as in doubt
ResolveReadMarked(w) ==
  LET o == ord[w]
      open == status[o] = "refunding" /\ refundedAt[o]
  IN /\ pc[w] = "resolve"
     /\ \/ /\ ~open
           /\ Goto(w, "unlock")
        \/ /\ open /\ paid[o] > 0
           /\ Goto(w, "resolveMark")
        \/ /\ open /\ paid[o] = 0
           /\ Goto(w, IF refundedAt[o] THEN "unlock" ELSE "rollback")
     /\ UNCHANGED <<status, markVars, ledgerVars, consumed, paid, lock, faults>>

ResolveRead(w) ==
  LET o == ord[w]
      open == status[o] = "refunding" /\ (attempt[o] \/ refundedAt[o])
  IN /\ pc[w] = "resolve"
     /\ \/ /\ ~open
           /\ Goto(w, "unlock")
        \/ /\ open /\ paid[o] > 0
           /\ Goto(w, "resolveMark")
        \/ /\ open /\ paid[o] = 0
           /\ Goto(w, IF refundedAt[o] THEN "unlock" ELSE "rollback")
     /\ UNCHANGED <<status, markVars, ledgerVars, consumed, paid, lock, faults>>

ResolveMark(w) ==
  /\ pc[w] = "resolveMark"
  /\ refundedAt' = [refundedAt EXCEPT ![ord[w]] = TRUE]
  /\ Goto(w, "resume")
  /\ UNCHANGED <<status, attempt, written, refundedAmount, ledgerVars, consumed,
                 paid, lock, faults>>

-----------------------------------------------------------------------------
(* Failure *)

\* a crash, or an uncaught Redis error; a request on its way may still be paid
Crash(w) ==
  /\ pc[w] # "idle" /\ Fault
  /\ pc' = [pc EXCEPT ![w] = "idle"]
  /\ ord' = [ord EXCEPT ![w] = NoOrder]
  /\ quota' = [quota EXCEPT ![w] = 0]
  /\ tries' = [tries EXCEPT ![w] = 0]
  /\ \/ UNCHANGED paid
     \/ pc[w] = "channel" /\ paid' = PaidOut(w)
  /\ UNCHANGED <<status, markVars, ledgerVars, consumed, lock>>

LockExpires(o) ==
  /\ lock[o] # Nobody
  /\ ord[lock[o]] # o
  /\ lock' = [lock EXCEPT ![o] = Nobody]
  /\ UNCHANGED <<status, markVars, ledgerVars, consumed, paid, localVars, faults>>

-----------------------------------------------------------------------------

Continue(w) ==
  \/ Unlock(w) \/ ApproveRead(w) \/ ApproveQuote(w) \/ ApproveCas(w) \/ Reverse(w)
  \/ Reopen(w) \/ ResumeRead(w) \/ ResumeDerive(w) \/ ResumeQuota(w) \/ ResumeQuote(w)
  \/ Mark(w) \/ ChannelRefunds(w) \/ ChannelRejects(w) \/ ChannelThrows(w)
  \/ Rollback(w) \/ ClearMarker(w) \/ FinalizeMark(w) \/ FinalizeCas(w)
  \/ ResolveRead(w) \/ ResolveMark(w)

Fail(w) ==
  \/ MarkFails(w) \/ RollbackFails(w) \/ ClearMarkerFails(w) \/ FinalizeFails(w)
  \/ Crash(w)

Next ==
  \/ \E w \in Workers, o \in Orders : Approve(w, o) \/ Resolve(w, o)
  \/ \E w \in Workers : Continue(w) \/ Fail(w)
  \/ \E k \in Keys : Consume(k)
  \/ \E o \in Orders : LockExpires(o)

Spec == Init /\ [][Next]_vars

(* Fairness.  Handlers run on, locks of the dead expire, and an             *)
(* administrator keeps trying: approves again, and gives a verdict on what  *)
(* is in doubt.                                                             *)
FairSpec ==
  /\ Spec
  /\ \A w \in Workers : WF_vars(Continue(w))
  /\ \A o \in Orders :
       /\ WF_vars(LockExpires(o))
       /\ SF_vars(\E w \in Workers : Approve(w, o))
       /\ SF_vars(\E w \in Workers : Resolve(w, o))

-----------------------------------------------------------------------------
(* Properties *)

\* The markers a re-entry decides by are right wherever the last handler died:
\* channelRefundedAt only if the money is out, and no money out without a
\* channelRefundAttemptAt that keeps the re-entry from paying again.
MarkersTellTheTruth ==
  \A o \in Orders : /\ refundedAt[o] => paid[o] > 0
                    /\ paid[o] > 0 => attempt[o]

\* The running total of the ledger is the sum of its records, however often
\* refunds were rolled back, retried or repeated.
LedgerHoldsRecords ==
  \A k \in Keys :
    refunded[k] = MapThenSumSet(LAMBDA o : reversedOf[o], {o \in Orders : KeyOf[o] = k})

\* A REFUNDED order says what was really paid, and that matches the quota taken.
RefundedMatchesPayout ==
  \A o \in Orders : status[o] = "refunded" =>
    /\ refundedAmount[o] = paid[o]
    /\ paid[o] = AmountFor(o, reversedOf[o])

\* Taking quota back never leaves the customer with a debt, although the amount
\* was computed from a balance read several steps before.
ReverseNeverOverdraws ==
  [][\A k \in Keys : refunded'[k] > refunded[k] => Balance(k)' >= 0]_vars

\* The refund implements RefundPromise.
Promise == INSTANCE RefundPromise WITH held <- reversedOf
PromiseKept == Promise!Spec

\* No refund is stuck beyond what re-approval and verdict can resolve.
RefundingSettles == \A o \in Orders : status[o] = "refunding" ~> status[o] # "refunding"

-----------------------------------------------------------------------------
(* What comments in the code promise and the code does not keep *)

\* After a failed rollback, approving the refund again resumes it: quota taken
\* from a COMPLETED order does not stay taken for ever.
FailedRollbackResumes ==
  \A o \in Orders :
    status[o] = "completed" /\ reversedOf[o] > 0 ~> reversedOf[o] = 0 \/ paid[o] > 0
=============================================================================
