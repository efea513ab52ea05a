------------------------- MODULE PaymentRefundProofs -------------------------
(***************************************************************************)
(* Proofs about PaymentRefund, for any number of orders, keys, handlers,   *)
(* crashes and Redis errors and any amounts: the refund implements         *)
(* RefundPromise.                                                          *)
(*                                                                         *)
(* RefundInv is the inductive invariant.  Locked is why two handlers never *)
(* act on one order; Books is what a later handler, or the next process,   *)
(* can rely on when it finds the order; HandlersKnow is what a handler     *)
(* knows of its order at each step between reading it and writing it.      *)
(***************************************************************************)
EXTENDS PaymentRefund, FiniteSums

Knows(w, o) ==
  /\ pc[w] \in {"reverse", "reopen", "resumeQuota", "resumeQuote", "resumeReverse", "mark",
                "channel", "rollback", "clear", "resolveMark", "derive"} =>
       status[o] = "refunding"
  /\ pc[w] \in {"reverse", "reopen", "resumeQuota", "resumeQuote", "resumeReverse", "mark",
                "channel", "rollback", "clear"} => paid[o] = 0
  /\ pc[w] \in {"lock", "reverse", "resumeReverse"} => quota[w] \in 1..Quota[o]
  /\ pc[w] \in {"mark", "channel", "finalize", "finish"} =>
       quota[w] > 0 /\ reversedOf[o] = quota[w] /\ AmountFor(o, quota[w]) > 0
  /\ pc[w] = "channel" => attempt[o]
  /\ pc[w] \in {"finalize", "finish", "resolveMark", "derive"} => paid[o] > 0
  /\ pc[w] = "finish" => written[o] = quota[w]

HandlersKnow == \A w \in Workers : pc[w] # "idle" => Knows(w, ord[w])

\* a handler that is under way holds the refund lock of its order
Locked == \A w \in Workers : pc[w] # "idle" => lock[ord[w]] = w

Books(o) ==
  /\ reversedOf[o] <= Quota[o]
  /\ paid[o] > 0 => /\ attempt[o]
                    /\ status[o] # "completed"
                    /\ reversedOf[o] > 0
                    /\ paid[o] = AmountFor(o, reversedOf[o])
  /\ refundedAt[o] => paid[o] > 0
  /\ written[o] > 0 => paid[o] > 0 /\ written[o] = reversedOf[o]
  /\ status[o] = "refunded" => paid[o] > 0 /\ refundedAmount[o] = paid[o]

BooksRight == \A o \in Orders : Books(o)

RefundInv == Locked /\ HandlersKnow /\ BooksRight

-----------------------------------------------------------------------------
(* Types of the amounts *)

\* computeRefundAmount yields an amount of money for every quota.
LEMMA AmountType ==
  ASSUME NEW o \in Orders, NEW q \in Nat
  PROVE  AmountFor(o, q) \in Nat
<1>1. Price[o] \in Nat /\ Quota[o] \in Nat /\ Quota[o] > 0
  BY RefundConstants
<1>2. 2 * Price[o] * q + Quota[o] \in Nat
  BY <1>1
<1>3. ASSUME NEW n \in Nat, NEW d \in Nat, d > 0 PROVE n \div (2 * d) \in Nat
  BY <1>3
<1> QED
  BY <1>1, <1>2, <1>3 DEF AmountFor, RefundAmount

\* The derived balance is a number, possibly a negative one.
LEMMA BalanceType == ASSUME TypeOK, NEW k \in Keys PROVE Balance(k) \in Int
  BY RefundConstants DEF TypeOK, Balance

\* computeRefundableQuota takes back no more than the order bought.
LEMMA RefundableType == ASSUME TypeOK, NEW o \in Orders PROVE Refundable(o) \in 0..Quota[o]
  BY RefundConstants, BalanceType DEF Refundable, RefundableQuota, Lesser

-----------------------------------------------------------------------------
(* Type correctness *)

\* The fulfilled orders, the ledger and the handlers start with their types.
LEMMA InitTypeOK == Init => TypeOK
  BY RefundConstants DEF Init, TypeOK, Steps

\* Every step of a refund, failed or not, keeps the types; in particular no
\* handler ever carries a negative quota.
LEMMA StepTypeOK ==
  TypeOK /\ [Next]_vars => TypeOK'
<1> SUFFICES ASSUME TypeOK, [Next]_vars
             PROVE  TypeOK'
  OBVIOUS
<1> USE RefundConstants DEF TypeOK, Steps, Goto, With, Cas, Fault, markVars, ledgerVars,
      localVars
<1>1. ASSUME NEW w \in Workers, NEW o \in Orders, Approve(w, o) \/ Resolve(w, o)
      PROVE  TypeOK'
  BY <1>1 DEF Approve, Resolve, LockRefund
<1>2. ASSUME NEW w \in Workers, Continue(w) PROVE TypeOK'
  <2>1. CASE Unlock(w)
    BY <2>1 DEF Unlock
  <2>2. CASE ApproveRead(w)
    BY <2>2 DEF ApproveRead
  <2>3. CASE ApproveQuote(w)
    BY <2>3, RefundableType DEF ApproveQuote, Refundable
  <2>4. CASE ApproveCas(w)
    BY <2>4 DEF ApproveCas
  <2>5. CASE Reverse(w)
    BY <2>5, BalanceType DEF Reverse, PayOrGiveBack, Lesser
  <2>6. CASE Reopen(w)
    BY <2>6 DEF Reopen
  <2>7. CASE ResumeRead(w)
    BY <2>7 DEF ResumeRead
  <2>8. CASE ResumeDerive(w)
    BY <2>8 DEF ResumeDerive
  <2>9. CASE ResumeQuota(w)
    BY <2>9 DEF ResumeQuota, PayOrGiveBack
  <2>10. CASE ResumeQuote(w)
    BY <2>10, RefundableType DEF ResumeQuote
  <2>11. CASE Mark(w)
    BY <2>11 DEF Mark
  <2>12. CASE ChannelRefunds(w)
    BY <2>12, AmountType DEF ChannelRefunds, PaidOut
  <2>13. CASE ChannelRejects(w)
    BY <2>13 DEF ChannelRejects
  <2>14. CASE ChannelThrows(w)
    <3>1. AmountFor(ord[w], quota[w]) \in Nat
      BY <2>14, AmountType DEF ChannelThrows
    <3>2. CASE UNCHANGED paid
      BY <2>14, <3>2 DEF ChannelThrows
    <3>3. CASE paid' = PaidOut(w)
      BY <2>14, <3>1, <3>3 DEF ChannelThrows, PaidOut
    <3> QED
      BY <2>14, <3>2, <3>3 DEF ChannelThrows
  <2>15. CASE Rollback(w)
    BY <2>15 DEF Rollback, Unreversed
  <2>16. CASE ClearMarker(w)
    BY <2>16 DEF ClearMarker
  <2>17. CASE FinalizeMark(w)
    BY <2>17 DEF FinalizeMark, FinalMark
  <2>18. CASE FinalizeCas(w)
    <3>1. AmountFor(ord[w], quota[w]) \in Nat
      BY <2>18, AmountType DEF FinalizeCas
    <3>2. CASE FinalCas(w)
      BY <2>18, <3>1, <3>2 DEF FinalizeCas, FinalCas
    <3>3. CASE UNCHANGED <<status, markVars>>
      BY <2>18, <3>3 DEF FinalizeCas
    <3> QED
      BY <2>18, <3>2, <3>3 DEF FinalizeCas
  <2>19. CASE ResolveRead(w)
    BY <2>19 DEF ResolveRead
  <2>20. CASE ResolveMark(w)
    BY <2>20 DEF ResolveMark
  <2> QED
    BY <1>2, <2>1, <2>2, <2>3, <2>4, <2>5, <2>6, <2>7, <2>8, <2>9, <2>10, <2>11, <2>12,
       <2>13, <2>14, <2>15, <2>16, <2>17, <2>18, <2>19, <2>20 DEF Continue
<1>3. ASSUME NEW w \in Workers, Fail(w) PROVE TypeOK'
  <2>1. CASE MarkFails(w)
    <3>2. CASE UNCHANGED attempt
      BY <2>1, <3>2 DEF MarkFails
    <3>3. CASE attempt' = [attempt EXCEPT ![ord[w]] = TRUE]
      BY <2>1, <3>3 DEF MarkFails
    <3> QED
      BY <2>1, <3>2, <3>3 DEF MarkFails
  <2>2. CASE RollbackFails(w)
    BY <2>2 DEF RollbackFails, Unreversed
  <2>3. CASE ClearMarkerFails(w)
    <3>2. CASE UNCHANGED attempt
      BY <2>3, <3>2 DEF ClearMarkerFails
    <3>3. CASE attempt' = [attempt EXCEPT ![ord[w]] = FALSE]
      BY <2>3, <3>3 DEF ClearMarkerFails
    <3> QED
      BY <2>3, <3>2, <3>3 DEF ClearMarkerFails
  <2>4. CASE FinalizeFails(w)
    <3>1. AmountFor(ord[w], quota[w]) \in Nat
      BY <2>4, AmountType DEF FinalizeFails
    <3>2. CASE FinalCas(w) /\ pc[w] = "finish"
      BY <2>4, <3>1, <3>2 DEF FinalizeFails, FinalCas
    <3>3. CASE FinalMark(w) /\ UNCHANGED status /\ pc[w] = "finalize"
      BY <2>4, <3>3 DEF FinalizeFails, FinalMark
    <3>4. CASE UNCHANGED <<status, markVars>> /\ pc[w] \in {"finalize", "finish"}
      BY <2>4, <3>4 DEF FinalizeFails
    <3> QED
      BY <2>4, <3>2, <3>3, <3>4 DEF FinalizeFails
  <2>5. CASE Crash(w)
    <3>1. AmountFor(ord[w], quota[w]) \in Nat
      BY <2>5, AmountType DEF Crash
    <3>2. CASE UNCHANGED paid
      BY <2>5, <3>2 DEF Crash
    <3>3. CASE pc[w] = "channel" /\ paid' = PaidOut(w)
      BY <2>5, <3>1, <3>3 DEF Crash, PaidOut
    <3> QED
      BY <2>5, <3>2, <3>3 DEF Crash
  <2> QED
    BY <1>3, <2>1, <2>2, <2>3, <2>4, <2>5 DEF Fail
<1>4. ASSUME NEW k \in Keys, Consume(k) PROVE TypeOK'
  BY <1>4 DEF Consume
<1>5. ASSUME NEW o \in Orders, LockExpires(o) PROVE TypeOK'
  BY <1>5 DEF LockExpires
<1>6. CASE UNCHANGED vars
  BY <1>6 DEF vars
<1> QED
  BY <1>1, <1>2, <1>3, <1>4, <1>5, <1>6 DEF Next

\* The type invariant of the run payment_refund, for all constants.
THEOREM TypeCorrect == Spec => []TypeOK
<1>1. Init => TypeOK
  BY InitTypeOK
<1>2. TypeOK /\ [Next]_vars => TypeOK'
  BY StepTypeOK
<1> QED
  BY <1>1, <1>2, PTL DEF Spec

-----------------------------------------------------------------------------
(* The inductive invariant *)

\* Nothing has been refunded, and nobody is at work.
LEMMA InitRefundInv == Init => RefundInv
  BY RefundConstants DEF Init, RefundInv, Locked, HandlersKnow, BooksRight, Books

\* The lock of a live handler does not expire and nobody else releases it.
LEMMA StepLocked ==
  TypeOK /\ Locked /\ [Next]_vars => Locked'
<1> SUFFICES ASSUME TypeOK, Locked, [Next]_vars
             PROVE  Locked'
  OBVIOUS
<1> USE RefundConstants DEF TypeOK, Locked, Steps, Goto, With, Cas, Fault, markVars,
      ledgerVars, localVars
<1>1. ASSUME NEW w \in Workers, NEW o \in Orders, Approve(w, o) \/ Resolve(w, o)
      PROVE  Locked'
  BY <1>1 DEF Approve, Resolve, LockRefund
<1>2. ASSUME NEW w \in Workers, Continue(w) PROVE Locked'
  <2>1. CASE Unlock(w)
    BY <2>1 DEF Unlock
  <2>2. CASE ApproveRead(w)
    BY <2>2 DEF ApproveRead
  <2>3. CASE ApproveQuote(w)
    BY <2>3, RefundableType DEF ApproveQuote
  <2>4. CASE ApproveCas(w)
    BY <2>4 DEF ApproveCas
  <2>5. CASE Reverse(w)
    BY <2>5, BalanceType DEF Reverse, PayOrGiveBack, Lesser
  <2>6. CASE Reopen(w)
    BY <2>6 DEF Reopen
  <2>7. CASE ResumeRead(w)
    BY <2>7 DEF ResumeRead
  <2>8. CASE ResumeDerive(w)
    BY <2>8 DEF ResumeDerive
  <2>9. CASE ResumeQuota(w)
    BY <2>9 DEF ResumeQuota, PayOrGiveBack
  <2>10. CASE ResumeQuote(w)
    BY <2>10, RefundableType DEF ResumeQuote
  <2>11. CASE Mark(w)
    BY <2>11 DEF Mark
  <2>12. CASE ChannelRefunds(w)
    BY <2>12, AmountType DEF ChannelRefunds, PaidOut
  <2>13. CASE ChannelRejects(w)
    BY <2>13 DEF ChannelRejects
  <2>14. CASE ChannelThrows(w)
    <3>1. AmountFor(ord[w], quota[w]) \in Nat
      BY <2>14, AmountType DEF ChannelThrows
    <3>2. CASE UNCHANGED paid
      BY <2>14, <3>2 DEF ChannelThrows
    <3>3. CASE paid' = PaidOut(w)
      BY <2>14, <3>1, <3>3 DEF ChannelThrows, PaidOut
    <3> QED
      BY <2>14, <3>2, <3>3 DEF ChannelThrows
  <2>15. CASE Rollback(w)
    BY <2>15 DEF Rollback, Unreversed
  <2>16. CASE ClearMarker(w)
    BY <2>16 DEF ClearMarker
  <2>17. CASE FinalizeMark(w)
    BY <2>17 DEF FinalizeMark, FinalMark
  <2>18. CASE FinalizeCas(w)
    <3>1. AmountFor(ord[w], quota[w]) \in Nat
      BY <2>18, AmountType DEF FinalizeCas
    <3>2. CASE FinalCas(w)
      BY <2>18, <3>1, <3>2 DEF FinalizeCas, FinalCas
    <3>3. CASE UNCHANGED <<status, markVars>>
      BY <2>18, <3>3 DEF FinalizeCas
    <3> QED
      BY <2>18, <3>2, <3>3 DEF FinalizeCas
  <2>19. CASE ResolveRead(w)
    BY <2>19 DEF ResolveRead
  <2>20. CASE ResolveMark(w)
    BY <2>20 DEF ResolveMark
  <2> QED
    BY <1>2, <2>1, <2>2, <2>3, <2>4, <2>5, <2>6, <2>7, <2>8, <2>9, <2>10, <2>11, <2>12,
       <2>13, <2>14, <2>15, <2>16, <2>17, <2>18, <2>19, <2>20 DEF Continue
<1>3. ASSUME NEW w \in Workers, Fail(w) PROVE Locked'
  <2>1. CASE MarkFails(w)
    <3>2. CASE UNCHANGED attempt
      BY <2>1, <3>2 DEF MarkFails
    <3>3. CASE attempt' = [attempt EXCEPT ![ord[w]] = TRUE]
      BY <2>1, <3>3 DEF MarkFails
    <3> QED
      BY <2>1, <3>2, <3>3 DEF MarkFails
  <2>2. CASE RollbackFails(w)
    BY <2>2 DEF RollbackFails, Unreversed
  <2>3. CASE ClearMarkerFails(w)
    <3>2. CASE UNCHANGED attempt
      BY <2>3, <3>2 DEF ClearMarkerFails
    <3>3. CASE attempt' = [attempt EXCEPT ![ord[w]] = FALSE]
      BY <2>3, <3>3 DEF ClearMarkerFails
    <3> QED
      BY <2>3, <3>2, <3>3 DEF ClearMarkerFails
  <2>4. CASE FinalizeFails(w)
    <3>1. AmountFor(ord[w], quota[w]) \in Nat
      BY <2>4, AmountType DEF FinalizeFails
    <3>2. CASE FinalCas(w) /\ pc[w] = "finish"
      BY <2>4, <3>1, <3>2 DEF FinalizeFails, FinalCas
    <3>3. CASE FinalMark(w) /\ UNCHANGED status /\ pc[w] = "finalize"
      BY <2>4, <3>3 DEF FinalizeFails, FinalMark
    <3>4. CASE UNCHANGED <<status, markVars>> /\ pc[w] \in {"finalize", "finish"}
      BY <2>4, <3>4 DEF FinalizeFails
    <3> QED
      BY <2>4, <3>2, <3>3, <3>4 DEF FinalizeFails
  <2>5. CASE Crash(w)
    <3>1. AmountFor(ord[w], quota[w]) \in Nat
      BY <2>5, AmountType DEF Crash
    <3>2. CASE UNCHANGED paid
      BY <2>5, <3>2 DEF Crash
    <3>3. CASE pc[w] = "channel" /\ paid' = PaidOut(w)
      BY <2>5, <3>1, <3>3 DEF Crash, PaidOut
    <3> QED
      BY <2>5, <3>2, <3>3 DEF Crash
  <2> QED
    BY <1>3, <2>1, <2>2, <2>3, <2>4, <2>5 DEF Fail
<1>4. ASSUME NEW k \in Keys, Consume(k) PROVE Locked'
  BY <1>4 DEF Consume
<1>5. ASSUME NEW o \in Orders, LockExpires(o) PROVE Locked'
  BY <1>5 DEF LockExpires
<1>6. CASE UNCHANGED vars
  BY <1>6 DEF vars
<1> QED
  BY <1>1, <1>2, <1>3, <1>4, <1>5, <1>6 DEF Next

\* Each handler keeps its knowledge and leaves the books in order wherever it stops:
\* alone on its order, it is disturbed by nobody but the consumption of the key.
LEMMA StepRefundInv ==
  TypeOK /\ RefundInv /\ [Next]_vars => (HandlersKnow /\ BooksRight)'
<1> SUFFICES ASSUME TypeOK, RefundInv, [Next]_vars
             PROVE  (HandlersKnow /\ BooksRight)'
  OBVIOUS
<1> USE RefundConstants DEF TypeOK, RefundInv, Locked, HandlersKnow, Knows, BooksRight,
      Books, Steps, Goto, With, Cas, Fault, markVars, ledgerVars, localVars
<1>1. ASSUME NEW w \in Workers, NEW o \in Orders, Approve(w, o) \/ Resolve(w, o)
      PROVE  (HandlersKnow /\ BooksRight)'
  BY <1>1 DEF Approve, Resolve, LockRefund
<1>2. ASSUME NEW w \in Workers, Continue(w) PROVE (HandlersKnow /\ BooksRight)'
  <2>1. CASE Unlock(w)
    BY <2>1 DEF Unlock
  <2>2. CASE ApproveRead(w)
    BY <2>2 DEF ApproveRead
  <2>3. CASE ApproveQuote(w)
    BY <2>3, RefundableType DEF ApproveQuote
  <2>4. CASE ApproveCas(w)
    BY <2>4 DEF ApproveCas
  <2>5. CASE Reverse(w)
    BY <2>5, BalanceType DEF Reverse, PayOrGiveBack, Lesser
  <2>6. CASE Reopen(w)
    BY <2>6 DEF Reopen
  <2>7. CASE ResumeRead(w)
    BY <2>7 DEF ResumeRead
  <2>8. CASE ResumeDerive(w)
    BY <2>8 DEF ResumeDerive
  <2>9. CASE ResumeQuota(w)
    BY <2>9 DEF ResumeQuota, PayOrGiveBack
  <2>10. CASE ResumeQuote(w)
    BY <2>10, RefundableType DEF ResumeQuote
  <2>11. CASE Mark(w)
    BY <2>11 DEF Mark
  <2>12. CASE ChannelRefunds(w)
    BY <2>12, AmountType DEF ChannelRefunds, PaidOut
  <2>13. CASE ChannelRejects(w)
    BY <2>13 DEF ChannelRejects
  <2>14. CASE ChannelThrows(w)
    <3>1. AmountFor(ord[w], quota[w]) \in Nat
      BY <2>14, AmountType DEF ChannelThrows
    <3>2. CASE UNCHANGED paid
      BY <2>14, <3>2 DEF ChannelThrows
    <3>3. CASE paid' = PaidOut(w)
      BY <2>14, <3>1, <3>3 DEF ChannelThrows, PaidOut
    <3> QED
      BY <2>14, <3>2, <3>3 DEF ChannelThrows
  <2>15. CASE Rollback(w)
    BY <2>15 DEF Rollback, Unreversed
  <2>16. CASE ClearMarker(w)
    BY <2>16 DEF ClearMarker
  <2>17. CASE FinalizeMark(w)
    BY <2>17 DEF FinalizeMark, FinalMark
  <2>18. CASE FinalizeCas(w)
    <3>1. AmountFor(ord[w], quota[w]) \in Nat
      BY <2>18, AmountType DEF FinalizeCas
    <3>2. CASE FinalCas(w)
      BY <2>18, <3>1, <3>2 DEF FinalizeCas, FinalCas
    <3>3. CASE UNCHANGED <<status, markVars>>
      BY <2>18, <3>3 DEF FinalizeCas
    <3> QED
      BY <2>18, <3>2, <3>3 DEF FinalizeCas
  <2>19. CASE ResolveRead(w)
    BY <2>19 DEF ResolveRead
  <2>20. CASE ResolveMark(w)
    BY <2>20 DEF ResolveMark
  <2> QED
    BY <1>2, <2>1, <2>2, <2>3, <2>4, <2>5, <2>6, <2>7, <2>8, <2>9, <2>10, <2>11, <2>12,
       <2>13, <2>14, <2>15, <2>16, <2>17, <2>18, <2>19, <2>20 DEF Continue
<1>3. ASSUME NEW w \in Workers, Fail(w) PROVE (HandlersKnow /\ BooksRight)'
  <2>1. CASE MarkFails(w)
    <3>2. CASE UNCHANGED attempt
      BY <2>1, <3>2 DEF MarkFails
    <3>3. CASE attempt' = [attempt EXCEPT ![ord[w]] = TRUE]
      BY <2>1, <3>3 DEF MarkFails
    <3> QED
      BY <2>1, <3>2, <3>3 DEF MarkFails
  <2>2. CASE RollbackFails(w)
    BY <2>2 DEF RollbackFails, Unreversed
  <2>3. CASE ClearMarkerFails(w)
    <3>2. CASE UNCHANGED attempt
      BY <2>3, <3>2 DEF ClearMarkerFails
    <3>3. CASE attempt' = [attempt EXCEPT ![ord[w]] = FALSE]
      BY <2>3, <3>3 DEF ClearMarkerFails
    <3> QED
      BY <2>3, <3>2, <3>3 DEF ClearMarkerFails
  <2>4. CASE FinalizeFails(w)
    <3>1. AmountFor(ord[w], quota[w]) \in Nat
      BY <2>4, AmountType DEF FinalizeFails
    <3>2. CASE FinalCas(w) /\ pc[w] = "finish"
      BY <2>4, <3>1, <3>2 DEF FinalizeFails, FinalCas
    <3>3. CASE FinalMark(w) /\ UNCHANGED status /\ pc[w] = "finalize"
      BY <2>4, <3>3 DEF FinalizeFails, FinalMark
    <3>4. CASE UNCHANGED <<status, markVars>> /\ pc[w] \in {"finalize", "finish"}
      BY <2>4, <3>4 DEF FinalizeFails
    <3> QED
      BY <2>4, <3>2, <3>3, <3>4 DEF FinalizeFails
  <2>5. CASE Crash(w)
    <3>1. AmountFor(ord[w], quota[w]) \in Nat
      BY <2>5, AmountType DEF Crash
    <3>2. CASE UNCHANGED paid
      BY <2>5, <3>2 DEF Crash
    <3>3. CASE pc[w] = "channel" /\ paid' = PaidOut(w)
      BY <2>5, <3>1, <3>3 DEF Crash, PaidOut
    <3> QED
      BY <2>5, <3>2, <3>3 DEF Crash
  <2> QED
    BY <1>3, <2>1, <2>2, <2>3, <2>4, <2>5 DEF Fail
<1>4. ASSUME NEW k \in Keys, Consume(k) PROVE (HandlersKnow /\ BooksRight)'
  BY <1>4 DEF Consume
<1>5. ASSUME NEW o \in Orders, LockExpires(o) PROVE (HandlersKnow /\ BooksRight)'
  BY <1>5 DEF LockExpires
<1>6. CASE UNCHANGED vars
  BY <1>6 DEF vars
<1> QED
  BY <1>1, <1>2, <1>3, <1>4, <1>5, <1>6 DEF Next

\* Types, the lock, the books and what the handlers know, together inductive.
THEOREM Invariance == Spec => [](TypeOK /\ RefundInv)
<1>1. Init => TypeOK /\ RefundInv
  BY InitTypeOK, InitRefundInv
<1>2. TypeOK /\ RefundInv /\ [Next]_vars => (TypeOK /\ RefundInv)'
  BY StepTypeOK, StepLocked, StepRefundInv DEF RefundInv
<1> QED
  BY <1>1, <1>2, PTL DEF Spec

-----------------------------------------------------------------------------
(* What follows *)

\* The markers tell every re-entry the truth about the channel's money, however the
\* handlers before it died.
THEOREM MarkersTrue == Spec => []MarkersTellTheTruth
<1>1. RefundInv => MarkersTellTheTruth
  BY DEF RefundInv, BooksRight, Books, MarkersTellTheTruth
<1> QED
  BY <1>1, Invariance, PTL

\* A REFUNDED order records the money that went out, the price of the quota taken.
THEOREM RefundedMatches == Spec => []RefundedMatchesPayout
<1>1. RefundInv => RefundedMatchesPayout
  BY DEF RefundInv, BooksRight, Books, RefundedMatchesPayout
<1> QED
  BY <1>1, Invariance, PTL

\* No step of anybody takes back more than is left at that moment.
NoOverdraft == \A k \in Keys : refunded'[k] > refunded[k] => Balance(k)' >= 0

\* Only reverse raises the total, and it clips the quota to the balance it finds.
LEMMA StepNoOverdraft == TypeOK /\ [Next]_vars => NoOverdraft
<1> SUFFICES ASSUME TypeOK, [Next]_vars PROVE NoOverdraft
  OBVIOUS
<1> USE RefundConstants DEF TypeOK, ledgerVars
<1>1. ASSUME NEW w \in Workers, Reverse(w) PROVE NoOverdraft
  <2> DEFINE k == KeyOf[ord[w]]
             actual == Lesser(quota[w], Balance(k))
  <2>1. k \in Keys /\ Balance(k) \in Int /\ UNCHANGED consumed
    BY <1>1, BalanceType DEF Reverse
  <2>2. CASE UNCHANGED refunded
    BY <2>2 DEF NoOverdraft
  <2>3. CASE refunded' = [refunded EXCEPT ![k] = @ + actual]
    <3>1. actual \in Int /\ actual <= Balance(k)
      BY <1>1, <2>1 DEF Reverse, Lesser
    <3>2. refunded'[k] = refunded[k] + actual
      BY <2>1, <2>3
    <3>3. Credit[k] - refunded'[k] - consumed'[k] >= 0
      BY <2>1, <3>1, <3>2 DEF Balance
    <3>4. \A x \in Keys : x # k => refunded'[x] = refunded[x]
      BY <2>3
    <3>5. \A x \in Keys : refunded'[x] > refunded[x] => x = k
      BY <3>4
    <3> QED
      BY <3>3, <3>5 DEF NoOverdraft, Balance
  <2> QED
    BY <1>1, <2>2, <2>3 DEF Reverse
<1>2. ASSUME NEW w \in Workers, Rollback(w) \/ RollbackFails(w) PROVE NoOverdraft
  <2>1. \A x \in Keys : refunded'[x] <= refunded[x]
    BY <1>2 DEF Rollback, RollbackFails, Unreversed
  <2>2. refunded' \in [Keys -> Int]
    BY StepTypeOK
  <2> QED
    BY <2>1, <2>2 DEF NoOverdraft
<1>3. CASE UNCHANGED refunded
  BY <1>3 DEF NoOverdraft
<1>4. ASSUME NEW w \in Workers,
             Continue(w) \/ Fail(w), ~Reverse(w), ~Rollback(w), ~RollbackFails(w)
      PROVE  UNCHANGED refunded
  BY <1>4 DEF Continue, Fail, Unlock, ApproveRead, ApproveQuote, ApproveCas, Reopen,
     ResumeRead, ResumeDerive, ResumeQuota, ResumeQuote, Mark, ChannelRefunds,
     ChannelRejects, ChannelThrows, ClearMarker, FinalizeMark, FinalizeCas,
     ResolveRead, ResolveMark, MarkFails, ClearMarkerFails, FinalizeFails, Crash
<1>5. ASSUME NEW w \in Workers, NEW o \in Orders, Approve(w, o) \/ Resolve(w, o)
      PROVE  UNCHANGED refunded
  BY <1>5 DEF Approve, Resolve, LockRefund
<1>6. ASSUME NEW k \in Keys, Consume(k) PROVE UNCHANGED refunded
  BY <1>6 DEF Consume
<1>7. ASSUME NEW o \in Orders, LockExpires(o) PROVE UNCHANGED refunded
  BY <1>7 DEF LockExpires
<1>8. CASE UNCHANGED vars
  BY <1>3, <1>8 DEF vars
<1> HIDE DEF TypeOK, ledgerVars
<1> QED
  BY <1>1, <1>2, <1>3, <1>4, <1>5, <1>6, <1>7, <1>8 DEF Next

\* A refund never leaves the customer in debt, although approveRefund quoted the
\* quota from a balance it had read before.
THEOREM NeverOverdraws == Spec => ReverseNeverOverdraws
<1>1. TypeOK /\ [Next]_vars => [NoOverdraft]_vars
  BY StepNoOverdraft
<1>2. Spec => [][NoOverdraft]_vars
  BY <1>1, TypeCorrect, PTL DEF Spec
<1> QED
  BY <1>2 DEF ReverseNeverOverdraws, NoOverdraft

-----------------------------------------------------------------------------
(* Without a fault *)

\* What a handler knows of its order besides, when nothing has failed yet.
Careful(w, o) ==
  /\ pc[w] \in {"quote", "lock"} => status[o] # "refunding"
  /\ pc[w] \in {"resolve", "unlock"} => (status[o] = "refunding" => attempt[o])
  /\ pc[w] \in {"reverse", "resumeQuota", "resumeQuote", "resumeReverse", "reopen"} =>
       ~attempt[o]
  /\ pc[w] \in {"reverse", "resumeQuote", "resumeReverse", "clear", "reopen"} =>
       reversedOf[o] = 0

HandlersCareful == \A w \in Workers : pc[w] # "idle" => Careful(w, ord[w])

\* Only a handler at work has a lock: none is left to expire.
LocksLive ==
  \A o \in Orders : lock[o] # Nobody => pc[lock[o]] # "idle" /\ ord[lock[o]] = o

\* A COMPLETED order has given all its quota back, and its write-ahead marker.
CompletedClean ==
  \A o \in Orders : status[o] = "completed" => reversedOf[o] = 0 /\ ~attempt[o]

\* A REFUNDING order that no handler has is one whose channel call has no known outcome.
RefundingAttended ==
  \A o \in Orders : status[o] = "refunding" => lock[o] # Nobody \/ attempt[o]

Orderly == HandlersCareful /\ LocksLive /\ CompletedClean /\ RefundingAttended

\* As long as nothing fails, every path of the refund, the early refusals, the refusal of
\* the channel, the re-entry and the verdict included, leaves the order in order.
LEMMA StepOrderly ==
  ASSUME TypeOK, RefundInv, Orderly, [Next]_vars, faults' = 0
  PROVE  Orderly'
<1> USE RefundConstants DEF TypeOK, RefundInv, Locked, HandlersKnow, Knows, BooksRight,
      Books, Orderly, HandlersCareful, Careful, LocksLive, CompletedClean,
      RefundingAttended, Steps, Goto, With, Cas, Fault, markVars, ledgerVars, localVars
<1>1. ASSUME NEW w \in Workers, NEW o \in Orders, Approve(w, o) \/ Resolve(w, o)
      PROVE  Orderly'
  BY <1>1 DEF Approve, Resolve, LockRefund
<1>2. ASSUME NEW w \in Workers, Continue(w) PROVE Orderly'
  <2>1. CASE Unlock(w)
    BY <2>1 DEF Unlock
  <2>2. CASE ApproveRead(w)
    BY <2>2 DEF ApproveRead
  <2>3. CASE ApproveQuote(w)
    BY <2>3, RefundableType DEF ApproveQuote
  <2>4. CASE ApproveCas(w)
    BY <2>4 DEF ApproveCas
  <2>5. CASE Reverse(w)
    BY <2>5, BalanceType DEF Reverse, PayOrGiveBack, Lesser
  <2>6. CASE Reopen(w)
    BY <2>6 DEF Reopen
  <2>7. CASE ResumeRead(w)
    BY <2>7 DEF ResumeRead
  <2>8. CASE ResumeDerive(w)
    BY <2>8 DEF ResumeDerive
  <2>9. CASE ResumeQuota(w)
    BY <2>9 DEF ResumeQuota, PayOrGiveBack
  <2>10. CASE ResumeQuote(w)
    BY <2>10, RefundableType DEF ResumeQuote
  <2>11. CASE Mark(w)
    BY <2>11 DEF Mark
  <2>12. CASE ChannelRefunds(w)
    BY <2>12 DEF ChannelRefunds, PaidOut
  <2>13. CASE ChannelRejects(w)
    BY <2>13 DEF ChannelRejects
  <2>14. CASE ChannelThrows(w)
    BY <2>14 DEF ChannelThrows, PaidOut
  <2>15. CASE Rollback(w)
    BY <2>15 DEF Rollback, Unreversed
  <2>16. CASE ClearMarker(w)
    BY <2>16 DEF ClearMarker
  <2>17. CASE FinalizeMark(w)
    BY <2>17 DEF FinalizeMark, FinalMark
  <2>18. CASE FinalizeCas(w)
    BY <2>18 DEF FinalizeCas, FinalCas
  <2>19. CASE ResolveRead(w)
    BY <2>19 DEF ResolveRead
  <2>20. CASE ResolveMark(w)
    BY <2>20 DEF ResolveMark
  <2> QED
    BY <1>2, <2>1, <2>2, <2>3, <2>4, <2>5, <2>6, <2>7, <2>8, <2>9, <2>10, <2>11, <2>12,
       <2>13, <2>14, <2>15, <2>16, <2>17, <2>18, <2>19, <2>20 DEF Continue
<1>3. ASSUME NEW w \in Workers, Fail(w) PROVE FALSE
  <2>1. Fault
    BY <1>3 DEF Fail, MarkFails, RollbackFails, ClearMarkerFails, FinalizeFails, Crash
  <2> QED
    BY <2>1
<1>4. ASSUME NEW k \in Keys, Consume(k) PROVE Orderly'
  BY <1>4 DEF Consume
<1>5. ASSUME NEW o \in Orders, LockExpires(o) PROVE Orderly'
  BY <1>5 DEF LockExpires
<1>6. CASE UNCHANGED vars
  BY <1>6 DEF vars
<1> QED
  BY <1>1, <1>2, <1>3, <1>4, <1>5, <1>6 DEF Next

\* A fault never goes away, so the order there was before the first one is inductive.
LEMMA AlwaysOrderly == Spec => [](faults = 0 => Orderly)
<1>1. Init => Orderly
  BY RefundConstants DEF Init, Orderly, HandlersCareful, LocksLive, CompletedClean,
                         RefundingAttended
<1>2. TypeOK /\ [Next]_vars /\ faults' = 0 => faults = 0
  <2> SUFFICES ASSUME TypeOK, [Next]_vars PROVE faults' = faults \/ faults' = faults + 1
    BY RefundConstants DEF TypeOK
  <2> QED
    BY DEF Next, vars, Approve, Resolve, LockRefund, Consume, LockExpires, Fail, Fault,
           MarkFails, RollbackFails, ClearMarkerFails, FinalizeFails, Crash, Continue,
           Unlock, ApproveRead, ApproveQuote, ApproveCas, Reverse, Reopen, ResumeRead,
           ResumeDerive, ResumeQuota, ResumeQuote, Mark, ChannelRefunds, ChannelRejects,
           ChannelThrows, Rollback, ClearMarker, FinalizeMark, FinalizeCas, ResolveRead,
           ResolveMark
<1>3. TypeOK /\ RefundInv /\ (faults = 0 => Orderly) /\ [Next]_vars
        => (faults = 0 => Orderly)'
  BY <1>2, StepOrderly
<1> QED
  BY <1>1, <1>3, Invariance, PTL DEF Spec

\* Quota is stranded on a COMPLETED order, which no re-entry would find, only by a fault:
\* whatever the channel answers, whenever the balance shrinks, and whoever re-enters, an
\* order goes back to COMPLETED with its quota and without the marker of an attempt.
THEOREM NothingStranded == Spec => [](faults = 0 => CompletedClean)
<1>1. (faults = 0 => Orderly) => (faults = 0 => CompletedClean)
  BY DEF Orderly
<1> QED
  BY <1>1, AlwaysOrderly, PTL

\* Without a fault an order is left in REFUNDING only by a channel call whose outcome is
\* unknown, and then the write-ahead marker is there for the verdict to find.
THEOREM LeftInDoubtOnly == Spec => [](faults = 0 => RefundingAttended)
<1>1. (faults = 0 => Orderly) => (faults = 0 => RefundingAttended)
  BY DEF Orderly
<1> QED
  BY <1>1, AlwaysOrderly, PTL

-----------------------------------------------------------------------------
(* The ledger's total *)

\* The orders that recharge a key.
KeyOrders(k) == {o \in Orders : KeyOf[o] = k}

\* LedgerHoldsRecords, with the sum that FiniteSums is about
TotalsRight == \A k \in Keys : refunded[k] = Total(reversedOf, KeyOrders(k))

\* the record of the order o goes from one amount to another, and the total of its key
\* with it
Rebooks(o) ==
  \E new \in Nat :
    /\ reversedOf' = [reversedOf EXCEPT ![o] = new]
    /\ refunded' = [refunded EXCEPT ![KeyOf[o]] = refunded[KeyOf[o]] + new - reversedOf[o]]

\* Each script changes one record and the total of the record's key by the same amount.
LEMMA StepRebooks ==
  TypeOK /\ [Next]_vars => UNCHANGED ledgerVars \/ \E o \in Orders : Rebooks(o)
<1> DEFINE Goal == UNCHANGED ledgerVars \/ \E o \in Orders : Rebooks(o)
<1> SUFFICES ASSUME TypeOK, [Next]_vars PROVE Goal
  OBVIOUS
<1>1. ASSUME NEW w \in Workers, Reverse(w) PROVE Goal
  <2> DEFINE o == ord[w]
             actual == Lesser(quota[w], Balance(KeyOf[o]))
  <2>1. CASE UNCHANGED ledgerVars
    BY <2>1
  <2>2. CASE /\ reversedOf[o] = 0 /\ actual > 0
             /\ reversedOf' = [reversedOf EXCEPT ![o] = actual]
             /\ refunded' = [refunded EXCEPT ![KeyOf[o]] = @ + actual]
    <3>1. o \in Orders /\ KeyOf[o] \in Keys /\ quota[w] \in Nat
      BY <1>1, RefundConstants DEF Reverse, TypeOK
    <3>2. actual \in Nat
      BY <2>2, <3>1, BalanceType DEF Lesser
    <3>3. refunded[KeyOf[o]] + actual - reversedOf[o] = refunded[KeyOf[o]] + actual
      BY <2>2, <3>1, <3>2 DEF TypeOK
    <3>4. Rebooks(o)
      BY <2>2, <3>2, <3>3 DEF Rebooks
    <3> QED
      BY <3>1, <3>4
  <2> QED
    BY <1>1, <2>1, <2>2 DEF Reverse
<1>2. ASSUME NEW w \in Workers, pc[w] = "rollback", Unreversed(ord[w]) PROVE Goal
  <2>1. ord[w] \in Orders /\ KeyOf[ord[w]] \in Keys
    BY <1>2, RefundConstants DEF TypeOK
  <2>2. refunded[KeyOf[ord[w]]] - reversedOf[ord[w]]
          = refunded[KeyOf[ord[w]]] + 0 - reversedOf[ord[w]]
    BY <2>1 DEF TypeOK
  <2>3. Rebooks(ord[w])
    BY <1>2, <2>2 DEF Rebooks, Unreversed
  <2> QED
    BY <2>1, <2>3
<1>3. ASSUME NEW w \in Workers, Rollback(w) PROVE Goal
  BY <1>2, <1>3 DEF Rollback
<1>4. ASSUME NEW w \in Workers, RollbackFails(w) PROVE Goal
  BY <1>2, <1>4 DEF RollbackFails
<1>5. ASSUME NEW w \in Workers,
             Continue(w) \/ Fail(w), ~Reverse(w), ~Rollback(w), ~RollbackFails(w)
      PROVE  UNCHANGED ledgerVars
  BY <1>5 DEF Continue, Fail, Unlock, ApproveRead, ApproveQuote, ApproveCas, Reopen,
     ResumeRead, ResumeDerive, ResumeQuota, ResumeQuote, Mark, ChannelRefunds,
     ChannelRejects, ChannelThrows, ClearMarker, FinalizeMark, FinalizeCas,
     ResolveRead, ResolveMark, MarkFails, ClearMarkerFails, FinalizeFails, Crash
<1>6. ASSUME NEW w \in Workers, NEW o \in Orders, Approve(w, o) \/ Resolve(w, o)
      PROVE  UNCHANGED ledgerVars
  BY <1>6 DEF Approve, Resolve, LockRefund
<1>7. ASSUME NEW k \in Keys, Consume(k) PROVE UNCHANGED ledgerVars
  BY <1>7 DEF Consume
<1>8. ASSUME NEW o \in Orders, LockExpires(o) PROVE UNCHANGED ledgerVars
  BY <1>8 DEF LockExpires
<1>9. CASE UNCHANGED vars
  BY <1>9 DEF vars
<1> QED
  BY <1>1, <1>3, <1>4, <1>5, <1>6, <1>7, <1>8, <1>9 DEF Next

\* What the scripts do to the total keeps it equal to the sum of the records.
LEMMA StepLedger ==
  ASSUME \A k \in Keys : IsFiniteSet(KeyOrders(k))
  PROVE  TypeOK /\ TotalsRight /\ [Next]_vars => TotalsRight'
<1> SUFFICES ASSUME TypeOK, TotalsRight, [Next]_vars PROVE TotalsRight'
  OBVIOUS
<1>1. TypeOK'
  BY StepTypeOK
<1>2. CASE UNCHANGED ledgerVars
  BY <1>2 DEF TotalsRight, ledgerVars
<1>3. ASSUME NEW o \in Orders, Rebooks(o) PROVE TotalsRight'
  <2>1. SUFFICES ASSUME NEW k \in Keys
                 PROVE  refunded'[k] = Total(reversedOf', KeyOrders(k))
    BY DEF TotalsRight
  <2>2. refunded[k] = Total(reversedOf, KeyOrders(k))
    BY DEF TotalsRight
  <2>3. PICK new \in Nat :
          /\ reversedOf' = [reversedOf EXCEPT ![o] = new]
          /\ refunded' =
               [refunded EXCEPT ![KeyOf[o]] = refunded[KeyOf[o]] + new - reversedOf[o]]
    BY <1>3 DEF Rebooks
  <2>4. /\ IsFiniteSet(KeyOrders(k)) /\ KeyOrders(k) \subseteq Orders
        /\ \A p \in KeyOrders(k) : reversedOf[p] \in Nat /\ reversedOf'[p] \in Nat
    BY <1>1 DEF KeyOrders, TypeOK
  <2>5. CASE k = KeyOf[o]
    <3>1. o \in KeyOrders(k)
      BY <2>5 DEF KeyOrders
    <3>2. \A p \in KeyOrders(k) \ {o} : reversedOf[p] = reversedOf'[p]
      BY <2>3, <2>4 DEF TypeOK
    <3>3. Total(reversedOf', KeyOrders(k)) + reversedOf[o]
            = Total(reversedOf, KeyOrders(k)) + reversedOf'[o]
      BY <2>4, <3>1, <3>2, TotalChange
    <3>4. /\ Total(reversedOf', KeyOrders(k)) \in Nat
          /\ Total(reversedOf, KeyOrders(k)) \in Nat
      BY <2>4, TotalType
    <3>5. refunded'[k] = refunded[k] + new - reversedOf[o] /\ reversedOf'[o] = new
      BY <2>3, <2>5 DEF TypeOK
    <3>6. reversedOf[o] \in Nat
      BY DEF TypeOK
    <3> QED
      BY <2>2, <3>3, <3>4, <3>5, <3>6
  <2>6. CASE k # KeyOf[o]
    <3>1. \A p \in KeyOrders(k) : reversedOf[p] \in Nat /\ reversedOf[p] = reversedOf'[p]
      BY <2>3, <2>4, <2>6 DEF KeyOrders, TypeOK
    <3>2. Total(reversedOf, KeyOrders(k)) = Total(reversedOf', KeyOrders(k))
      BY <2>4, <3>1, TotalAgree
    <3>3. refunded'[k] = refunded[k]
      BY <2>3, <2>6 DEF TypeOK
    <3> QED
      BY <2>2, <3>2, <3>3
  <2> QED
    BY <2>5, <2>6
<1> QED
  BY <1>2, <1>3, StepRebooks

\* The ledger's running total of a key is the sum of its records in every state, for a key
\* with finitely many orders: payment.reverse writes the record of what it really took and
\* adds the same to the total, payment.unreverse gives back what the record says, and the
\* set of applied references keeps either from happening twice.
THEOREM LedgerHolds ==
  ASSUME \A k \in Keys : IsFiniteSet(KeyOrders(k))
  PROVE  Spec => []LedgerHoldsRecords
<1>1. Init => TotalsRight
  <2> SUFFICES ASSUME Init, NEW k \in Keys
               PROVE  refunded[k] = Total(reversedOf, KeyOrders(k))
    BY DEF TotalsRight
  <2>1. \A o \in KeyOrders(k) : reversedOf[o] = 0
    BY DEF Init, KeyOrders
  <2>2. Total(reversedOf, KeyOrders(k)) = 0
    BY <2>1, TotalOfZeros
  <2> QED
    BY <2>2 DEF Init
<1>2. TypeOK /\ TotalsRight /\ [Next]_vars => TotalsRight'
  BY StepLedger
<1>3. TotalsRight => LedgerHoldsRecords
  BY DEF TotalsRight, LedgerHoldsRecords, Total, KeyOrders
<1> QED
  BY <1>1, <1>2, <1>3, TypeCorrect, PTL DEF Spec

\* Orders whose quota is not taken yet, nothing paid: where RefundPromise starts.
LEMMA InitPromise == Init => Promise!Init
  BY DEF Init, Promise!Init

\* Reversing is holding, rolling back is giving back, the channel's payment is the
\* pay-out; every other step of the code is invisible to the promise.
LEMMA StepPromise ==
  TypeOK /\ RefundInv /\ [Next]_vars => [Promise!Next]_<<reversedOf, paid>>
<1> SUFFICES ASSUME TypeOK, RefundInv, [Next]_vars
             PROVE  [Promise!Next]_<<reversedOf, paid>>
  OBVIOUS
<1> USE RefundConstants DEF TypeOK, Steps, With, Goto, markVars, ledgerVars
<1>1. ASSUME NEW w \in Workers, Reverse(w) PROVE [Promise!Next]_<<reversedOf, paid>>
  <2> DEFINE o == ord[w]
             actual == Lesser(quota[w], Balance(KeyOf[o]))
  <2>1. o \in Orders /\ quota[w] \in 1..Quota[o]
    BY <1>1 DEF Reverse, RefundInv, HandlersKnow, Knows
  <2>2. CASE reversedOf' = reversedOf
    BY <1>1, <2>2 DEF Reverse
  <2>3. CASE reversedOf[o] = 0 /\ actual > 0 /\ reversedOf' = [reversedOf EXCEPT ![o] = actual]
    <3>1. actual \in 1..Quota[o]
      BY <2>1, <2>3, BalanceType DEF Lesser
    <3>2. Promise!Hold(o)
      BY <1>1, <2>3, <3>1 DEF Reverse, Promise!Hold
    <3> QED
      BY <2>1, <3>2 DEF Promise!Next
  <2> QED
    BY <1>1, <2>2, <2>3 DEF Reverse
<1>2. ASSUME NEW w \in Workers, Rollback(w) \/ RollbackFails(w)
      PROVE  [Promise!Next]_<<reversedOf, paid>>
  <2>1. ord[w] \in Orders /\ paid[ord[w]] = 0
    BY <1>2 DEF Rollback, RollbackFails, RefundInv, HandlersKnow, Knows
  <2>2. UNCHANGED <<reversedOf, paid>> \/ Promise!GiveBack(ord[w])
    BY <1>2, <2>1 DEF Rollback, RollbackFails, Unreversed, Promise!GiveBack
  <2> QED
    BY <2>1, <2>2 DEF Promise!Next
<1>3. ASSUME NEW w \in Workers, ChannelRefunds(w) \/ ChannelThrows(w) \/ Crash(w)
      PROVE  [Promise!Next]_<<reversedOf, paid>>
  <2>1. CASE UNCHANGED paid
    BY <1>3, <2>1 DEF ChannelRefunds, ChannelThrows, Crash
  <2>2. CASE pc[w] = "channel" /\ paid' = PaidOut(w) /\ UNCHANGED reversedOf
    <3>1. /\ ord[w] \in Orders
          /\ paid[ord[w]] = 0
          /\ reversedOf[ord[w]] = quota[w] /\ quota[w] > 0
      BY <2>2 DEF RefundInv, HandlersKnow, Knows
    <3>2. AmountFor(ord[w], quota[w]) \in Nat
      BY <3>1, AmountType
    <3>3. paid[ord[w]] + AmountFor(ord[w], quota[w]) = AmountFor(ord[w], reversedOf[ord[w]])
      BY <3>1, <3>2
    <3>4. paid' = [paid EXCEPT ![ord[w]] = AmountFor(ord[w], reversedOf[ord[w]])]
      BY <2>2, <3>3, Zenon DEF PaidOut
    <3>5. Promise!PayOut(ord[w])
      BY <2>2, <3>1, <3>4 DEF Promise!PayOut, Promise!RefundAmount, AmountFor,
         RefundAmount
    <3> QED
      BY <3>1, <3>5 DEF Promise!Next
  <2> QED
    BY <1>3, <2>1, <2>2 DEF ChannelRefunds, ChannelThrows, Crash
<1>4. ASSUME NEW w \in Workers,
             \/ Unlock(w) \/ ApproveRead(w) \/ ApproveQuote(w) \/ ApproveCas(w) \/ Reopen(w)
             \/ ResumeRead(w) \/ ResumeDerive(w) \/ ResumeQuota(w) \/ ResumeQuote(w)
             \/ Mark(w) \/ ChannelRejects(w) \/ ClearMarker(w) \/ FinalizeMark(w)
             \/ FinalizeCas(w) \/ ResolveRead(w) \/ ResolveMark(w) \/ MarkFails(w)
             \/ ClearMarkerFails(w) \/ FinalizeFails(w)
      PROVE  UNCHANGED <<reversedOf, paid>>
  BY <1>4 DEF Unlock, ApproveRead, ApproveQuote, ApproveCas, Reopen, ResumeRead,
     ResumeDerive, ResumeQuota, ResumeQuote, Mark, ChannelRejects, ClearMarker,
     FinalizeMark, FinalizeCas, ResolveRead, ResolveMark, MarkFails,
     ClearMarkerFails, FinalizeFails
<1>5. ASSUME NEW w \in Workers, NEW o \in Orders, Approve(w, o) \/ Resolve(w, o)
      PROVE  UNCHANGED <<reversedOf, paid>>
  BY <1>5 DEF Approve, Resolve, LockRefund
<1>6. ASSUME NEW k \in Keys, Consume(k) PROVE UNCHANGED <<reversedOf, paid>>
  BY <1>6 DEF Consume
<1>7. ASSUME NEW o \in Orders, LockExpires(o) PROVE UNCHANGED <<reversedOf, paid>>
  BY <1>7 DEF LockExpires
<1>8. CASE UNCHANGED vars
  BY <1>8 DEF vars
<1> HIDE DEF TypeOK, Steps, With, Goto, markVars, ledgerVars
<1> QED
  BY <1>1, <1>2, <1>3, <1>4, <1>5, <1>6, <1>7, <1>8 DEF Next, Continue, Fail

\* The refund of payment_order_service.js implements RefundPromise: money goes out at
\* most once, for exactly the quota taken back, and no quota returns after it.
THEOREM Implements == Spec => PromiseKept
<1>1. Init => Promise!Init
  BY InitPromise
<1>2. TypeOK /\ RefundInv /\ [Next]_vars => [Promise!Next]_<<reversedOf, paid>>
  BY StepPromise
<1> QED
  BY <1>1, <1>2, Invariance, PTL DEF Spec, PromiseKept, Promise!Spec
=============================================================================
