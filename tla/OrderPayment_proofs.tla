------------------------ MODULE OrderPayment_proofs ------------------------
(***************************************************************************)
(* What holds of OrderPayment for every number of orders, workers,         *)
(* operators, deliveries, reconciliations and faults.                      *)
(***************************************************************************)
EXTENDS OrderPayment, TLAPS

(***************************************************************************)
(* Rows                                                                    *)
(***************************************************************************)

\* What the handlers make of a row is a row.
LEMMA RowsAreRows ==
  ASSUME NEW r \in RowType
  PROVE  /\ AfterMismatch(r) \in RowType
         /\ AfterCancelledCapture(r) \in RowType
         /\ AfterCapture(r) \in RowType
         /\ \A k \in {"failed", "cancelled"} : AfterFailure(r, k) \in RowType
         /\ AfterRefund(r) \in RowType
         /\ CaptureResult(r) \in RowType
<1> USE DEF RowType, OrderStatuses, PaymentStatuses, ORDER_TRANSITIONS,
            PAYMENT_TRANSITIONS
<1>1. AfterMismatch(r) \in RowType
  BY DEF AfterMismatch
<1>2. AfterCancelledCapture(r) \in RowType
  BY DEF AfterCancelledCapture
<1>3. AfterCapture(r) \in RowType
  BY DEF AfterCapture
<1>4. \A k \in {"failed", "cancelled"} : AfterFailure(r, k) \in RowType
  BY DEF AfterFailure
<1>5. AfterRefund(r) \in RowType
  BY DEF AfterRefund
<1> QED
  BY <1>1, <1>2, <1>3, <1>4, <1>5 DEF CaptureResult

\* Writing a row back touches one order, and leaves a placed order placed.
LEMMA FlushWrites ==
  ASSUME TypeOK, NEW o \in Orders, NEW old \in RowType, NEW new \in RowType,
         Flush(o, old, new)
  PROVE  /\ status' \in [Orders -> OrderStatuses \union {"none"}]
         /\ pay' \in [Orders -> PaymentStatuses]
         /\ tx' \in [Orders -> PaymentStatuses \union {"none"}]
         /\ \A p \in Orders : status[p] # "none" => status'[p] # "none"
         /\ \A p \in Orders : tx[p] # "none" => tx'[p] # "none"
         /\ \A p \in Orders \ {o} : /\ status'[p] = status[p]
                                    /\ pay'[p] = pay[p]
                                    /\ tx'[p] = tx[p]
<1>1. /\ old.status \in OrderStatuses /\ new.status \in OrderStatuses
      /\ old.pay \in PaymentStatuses /\ new.pay \in PaymentStatuses
      /\ old.tx \in PaymentStatuses /\ new.tx \in PaymentStatuses
  BY DEF RowType
<1>2. "none" \notin OrderStatuses /\ "none" \notin PaymentStatuses
  BY DEF OrderStatuses, PaymentStatuses, ORDER_TRANSITIONS, PAYMENT_TRANSITIONS
<1> QED
  BY <1>1, <1>2 DEF Flush, TypeOK

(***************************************************************************)
(* Types.  TypeOK is not inductive: a handler may only load a row that is  *)
(* there.  Links says why it is: events, and the requests they lead to,    *)
(* stem from an invoice, and an invoice from a checkout that has stored    *)
(* the order.  The first half of Links also says that nothing but its own  *)
(* checkout works on an order's reservation while that checkout runs.      *)
(***************************************************************************)

\* What the progress of o's checkout tells about o's rows.
CheckoutLinks(o) ==
  /\ checkout[o] = "new" => /\ status[o] = "none"
                            /\ pay[o] = "pending"
                            /\ tx[o] = "none"
                            /\ resv[o] = "none"
  /\ checkout[o] # "new" => status[o] # "none" /\ method[o] # "none"
  /\ checkout[o] \in {"new", "paying"} => psp[o] = "none"
  /\ checkout[o] \in {"paying", "recorded"} => resv[o] = "held"
  /\ checkout[o] = "recorded" => psp[o] \in {"none", "open"} /\ answer[o] # Idle
  /\ psp[o] # "none" => tx[o] # "none" /\ live /\ method[o] = "card"

\* Where events, deliveries, reconciliations and operators' requests come from.
Emitted == \A e \in sent : psp[e.order] \notin {"none", "open"}

Delivered == \A h \in Hooks : hook[h].pc # "idle" => hook[h].ev \in sent

Asked == \A r \in Recons :
           recon[r].pc = "answered" => psp[recon[r].order] \notin {"none", "open"}

Operated == \A a \in Admins :
              op[a].pc # "idle" => checkout[op[a].order] # "new"

\* The sweep works on rows of checkouts that did not come to an end.
Sweeping == \A o \in swept : checkout[o] \in {"raised", "crashed"}

Links ==
  /\ \A o \in Orders : CheckoutLinks(o)
  /\ Emitted /\ Delivered /\ Asked /\ Operated /\ Sweeping

IInv == TypeOK /\ Links

\* The invariant holds at the start.
LEMMA InitIInv ==
  ASSUME OrderPaymentAssumption
  PROVE  Init => IInv
<1> SUFFICES ASSUME Init PROVE IInv
  OBVIOUS
<1>1. TypeOK
  BY DEF OrderPaymentAssumption, Init, TypeOK, PaymentStatuses, PAYMENT_TRANSITIONS,
         AnswerType, HookType, ReconType, OpType, CheckoutStates
<1>2. Links
  BY DEF Init, Links, CheckoutLinks, Emitted, Delivered, Asked, Operated, Sweeping, Idle
<1> QED
  BY <1>1, <1>2 DEF IInv

\* What the record types say of a request.
LEMMA RequestFields ==
  ASSUME TypeOK
  PROVE  /\ \A o \in Orders : answer[o] # Idle =>
              /\ answer[o].pay \in {"pending", "authorized", "failed"}
              /\ answer[o].row \in RowType
         /\ \A h \in Hooks :
              /\ hook[h].pc \in {"idle", "lookup", "record", "apply"}
              /\ hook[h].pc = "idle" => hook[h] = Idle
              /\ hook[h].pc # "idle" => hook[h].ev \in Events
              /\ hook[h].pc \in {"record", "apply"} => hook[h].amountOk \in BOOLEAN
              /\ hook[h].pc = "apply" => hook[h].row \in RowType
         /\ \A r \in Recons :
              /\ recon[r].pc \in {"idle", "asked", "answered"}
              /\ recon[r].pc = "idle" => recon[r] = Idle
              /\ recon[r].pc # "idle" => recon[r].order \in Orders /\ recon[r].row \in RowType
              /\ recon[r].pc = "answered" =>
                   /\ recon[r].remote \in {"paid", "failed", "cancelled"}
                   /\ recon[r].amountOk \in BOOLEAN
         /\ \A a \in Admins :
              /\ op[a].pc \in {"idle", "move", "collect", "capture"}
              /\ op[a].pc = "idle" => op[a] = Idle
              /\ op[a].pc # "idle" => op[a].order \in Orders
              /\ op[a].pc = "move" => op[a].to \in OrderStatuses
              /\ op[a].pc = "collect" => op[a].to \in HandoverStates
<1>1. \A o \in Orders : answer[o] \in AnswerType
  BY DEF TypeOK
<1>2. \A h \in Hooks : hook[h] \in HookType
  BY DEF TypeOK
<1>3. \A r \in Recons : recon[r] \in ReconType
  BY DEF TypeOK
<1>4. \A a \in Admins : op[a] \in OpType
  BY DEF TypeOK
<1>5. ASSUME NEW o \in Orders, answer[o] # Idle
      PROVE  /\ answer[o].pay \in {"pending", "authorized", "failed"}
             /\ answer[o].row \in RowType
  BY <1>1, <1>5 DEF AnswerType
<1>6. ASSUME NEW h \in Hooks
      PROVE  /\ hook[h].pc \in {"idle", "lookup", "record", "apply"}
             /\ hook[h].pc = "idle" => hook[h] = Idle
             /\ hook[h].pc # "idle" => hook[h].ev \in Events
             /\ hook[h].pc \in {"record", "apply"} => hook[h].amountOk \in BOOLEAN
             /\ hook[h].pc = "apply" => hook[h].row \in RowType
  BY <1>2 DEF HookType, Idle
<1>7. ASSUME NEW r \in Recons
      PROVE  /\ recon[r].pc \in {"idle", "asked", "answered"}
             /\ recon[r].pc = "idle" => recon[r] = Idle
             /\ recon[r].pc # "idle" => recon[r].order \in Orders /\ recon[r].row \in RowType
             /\ recon[r].pc = "answered" =>
                  /\ recon[r].remote \in {"paid", "failed", "cancelled"}
                  /\ recon[r].amountOk \in BOOLEAN
  BY <1>3 DEF ReconType, Idle
<1>8. ASSUME NEW a \in Admins
      PROVE  /\ op[a].pc \in {"idle", "move", "collect", "capture"}
             /\ op[a].pc = "idle" => op[a] = Idle
             /\ op[a].pc # "idle" => op[a].order \in Orders
             /\ op[a].pc = "move" => op[a].to \in OrderStatuses
             /\ op[a].pc = "collect" => op[a].to \in HandoverStates
  BY <1>4 DEF OpType, Idle
<1> QED
  BY <1>5, <1>6, <1>7, <1>8
\* The constant sets a step's types are made of.
LEMMA StatusesDefined ==
  /\ {"placed", "payment_pending", "processing", "failed", "cancelled", "refunded"}
       \union FULFILLMENT_STATES \subseteq OrderStatuses
  /\ {"pending", "authorized", "paid", "failed", "cancelled", "refund_pending",
      "refunded"} \subseteq PaymentStatuses
  /\ "none" \notin OrderStatuses /\ "none" \notin PaymentStatuses
  /\ HandoverStates \subseteq FULFILLMENT_STATES
BY DEF OrderStatuses, PaymentStatuses, FULFILLMENT_STATES, HandoverStates,
       ORDER_TRANSITIONS, PAYMENT_TRANSITIONS

\* A row that is loaded from a placed order with a transaction is a row.
LEMMA RowLoaded ==
  ASSUME TypeOK, NEW o \in Orders, status[o] # "none", tx[o] # "none"
  PROVE  Row(o) \in RowType
BY DEF TypeOK, Row, RowType

\* What the end of a checkout writes: the payment whatever it was, the status from a
\* row that may be out of date.
LEMMA FinishWrites ==
  ASSUME IInv, NEW o \in Orders, FinishAccepted(o) \/ FinishDeclined(o)
  PROVE  /\ checkout[o] = "recorded"
         /\ answer[o].pay \in {"pending", "authorized", "failed"}
         /\ status'[o] \in {status[o], "failed", "payment_pending", "processing"}
         /\ status' \in [Orders -> OrderStatuses \union {"none"}]
         /\ \A p \in Orders : status[p] # "none" => status'[p] # "none"
         /\ \A p \in Orders \ {o} : status'[p] = status[p] /\ resv'[p] = resv[p]
         /\ pay' = [pay EXCEPT ![o] = answer[o].pay] /\ pay' \in [Orders -> PaymentStatuses]
         /\ resv' \in [Orders -> {"none", "held", "committed", "released"}]
         /\ UNCHANGED <<tx, method, seen, answer, hook, recon, op, envVars>>
         /\ \E outcome \in {"done", "declined"} : checkout' = [checkout EXCEPT ![o] = outcome]
<1> USE StatusesDefined
<1>1. PICK outcome \in {"done", "declined"} : Finish(o, outcome)
  BY DEF FinishAccepted, FinishDeclined
<1>2. checkout[o] = "recorded"
  BY DEF FinishAccepted, FinishDeclined
<1>3. answer[o].pay \in {"pending", "authorized", "failed"}
  BY <1>2, RequestFields DEF IInv, Links, CheckoutLinks
<1>4. NextStatus(o) \in {"failed", "payment_pending", "processing"}
  BY <1>3 DEF NextStatus
<1>5. {"failed", "payment_pending", "processing"} \subseteq OrderStatuses
  BY DEF OrderStatuses, ORDER_TRANSITIONS
<1>6. \/ status' = status
      \/ status' = [status EXCEPT ![o] = NextStatus(o)]
  BY <1>1 DEF Finish
<1>7. /\ pay' = [pay EXCEPT ![o] = answer[o].pay] /\ tx' = tx
      /\ UNCHANGED <<method, seen, answer, hook, recon, op, envVars>>
      /\ checkout' = [checkout EXCEPT ![o] = outcome]
  BY <1>1 DEF Finish
<1>8. /\ resv' \in [Orders -> {"none", "held", "committed", "released"}]
      /\ \A p \in Orders \ {o} : resv'[p] = resv[p]
  BY DEF FinishAccepted, FinishDeclined, ReleaseInventory, IInv, TypeOK
<1>9. /\ status'[o] \in {status[o], "failed", "payment_pending", "processing"}
      /\ status' \in [Orders -> OrderStatuses \union {"none"}]
      /\ \A p \in Orders : status[p] # "none" => status'[p] # "none"
      /\ \A p \in Orders \ {o} : status'[p] = status[p]
  BY <1>4, <1>5, <1>6 DEF IInv, TypeOK
<1>10. pay' \in [Orders -> PaymentStatuses]
  BY <1>3, <1>7 DEF IInv, TypeOK
<1> QED
  BY <1>2, <1>3, <1>7, <1>8, <1>9, <1>10

\* The steps of a checkout.
LEMMA CheckoutIInv ==
  ASSUME OrderPaymentAssumption, IInv, NEW o \in Orders, CheckoutNext(o)
  PROVE  IInv'
<1> USE StatusesDefined DEF OrderPaymentAssumption
<1>1. ASSUME NEW m \in Methods, PlaceOrder(o, m)
      PROVE  IInv'
  <2>1. TypeOK'
    BY <1>1 DEF PlaceOrder, IInv, TypeOK, envVars, CheckoutStates
  <2>2. Links'
    BY <1>1 DEF PlaceOrder, IInv, TypeOK, Links, CheckoutLinks, Emitted, Delivered,
                Asked, Operated, Sweeping, envVars
  <2> QED
    BY <2>1, <2>2 DEF IInv
<1>2. ASSUME RecordPayment(o)
      PROVE  IInv'
  <2>1. PICK a \in MappedAnswers(method[o]) :
          /\ tx' = [tx EXCEPT ![o] = a]
          /\ answer' = [answer EXCEPT ![o] =
                          [pay |-> a, row |-> [Row(o) EXCEPT !.tx = a]]]
          /\ IF live /\ method[o] = "card"
               THEN \E p \in (IF a = "failed" THEN {"none", "open"} ELSE {"open"}) :
                      psp' = [psp EXCEPT ![o] = p]
               ELSE UNCHANGED psp
    BY <1>2 DEF RecordPayment
  <2>2. a \in {"pending", "authorized", "failed"}
    BY DEF MappedAnswers
  <2>3. [Row(o) EXCEPT !.tx = a] \in RowType
    BY <1>2, <2>2 DEF RecordPayment, IInv, TypeOK, Links, CheckoutLinks, Row, RowType
  <2>4. TypeOK'
    <3>1. answer' \in [Orders -> AnswerType]
      BY <2>1, <2>2, <2>3 DEF IInv, TypeOK, AnswerType
    <3> QED
      BY <1>2, <2>1, <2>2, <3>1 DEF RecordPayment, IInv, TypeOK, CheckoutStates
  <2>5. answer'[o] # Idle
    BY <2>1 DEF IInv, TypeOK, Idle
  <2>6. /\ psp'[o] \in {"none", "open"}
        /\ psp'[o] # "none" => live /\ method[o] = "card"
        /\ \A p \in Orders \ {o} : psp'[p] = psp[p]
    BY <1>2, <2>1 DEF RecordPayment, IInv, TypeOK, Links, CheckoutLinks
  <2>7. /\ tx'[o] # "none"
        /\ \A p \in Orders \ {o} : tx'[p] = tx[p] /\ answer'[p] = answer[p]
    BY <2>1, <2>2 DEF IInv, TypeOK
  <2>8. psp[o] = "none"
    BY <1>2 DEF RecordPayment, IInv, Links, CheckoutLinks
  <2>9. \A p \in Orders : CheckoutLinks(p)'
    BY <1>2, <2>5, <2>6, <2>7 DEF RecordPayment, IInv, TypeOK, Links, CheckoutLinks
  <2>10. Emitted' /\ Delivered' /\ Asked' /\ Operated' /\ Sweeping'
    BY <1>2, <2>6, <2>8, RequestFields
       DEF RecordPayment, IInv, TypeOK, Links, Emitted, Delivered, Asked, Operated, Sweeping, Events
  <2>11. Links'
    BY <2>9, <2>10 DEF Links
  <2> QED
    BY <2>4, <2>11 DEF IInv
<1>3. ASSUME FinishAccepted(o) \/ FinishDeclined(o)
      PROVE  IInv'
  <2>1. /\ checkout[o] = "recorded"
        /\ status' \in [Orders -> OrderStatuses \union {"none"}]
        /\ \A p \in Orders : status[p] # "none" => status'[p] # "none"
        /\ \A p \in Orders \ {o} : status'[p] = status[p] /\ resv'[p] = resv[p]
        /\ pay' = [pay EXCEPT ![o] = answer[o].pay] /\ pay' \in [Orders -> PaymentStatuses]
        /\ resv' \in [Orders -> {"none", "held", "committed", "released"}]
        /\ UNCHANGED <<tx, method, seen, answer, hook, recon, op, envVars>>
    BY <1>3, FinishWrites
  <2>2. PICK outcome \in {"done", "declined"} : checkout' = [checkout EXCEPT ![o] = outcome]
    BY <1>3, FinishWrites
  <2>3. TypeOK'
    BY <2>1, <2>2 DEF IInv, TypeOK, envVars, CheckoutStates
  <2>4. \A p \in Orders : CheckoutLinks(p)'
    BY <2>1, <2>2 DEF IInv, TypeOK, envVars, Links, CheckoutLinks
  <2>5. Emitted' /\ Delivered' /\ Asked' /\ Operated' /\ Sweeping'
    BY <2>1, <2>2, RequestFields DEF IInv, TypeOK, envVars, Links, Emitted, Delivered, Asked, Operated,
       Sweeping
  <2> QED
    BY <2>3, <2>4, <2>5 DEF IInv, Links
<1>4. ASSUME FinishRaises(o) \/ CrashCheckout(o)
      PROVE  IInv'
  <2>1. TypeOK'
    BY <1>4 DEF FinishRaises, CrashCheckout, Fault, IInv, TypeOK, dbVars, envVars,
                CheckoutStates
  <2>2. Links'
    BY <1>4, RequestFields DEF FinishRaises, CrashCheckout, Fault, IInv, TypeOK, dbVars, envVars,
                Links, CheckoutLinks, Emitted, Delivered, Asked, Operated, Sweeping
  <2> QED
    BY <2>1, <2>2 DEF IInv
<1> QED
  BY <1>1, <1>2, <1>3, <1>4 DEF CheckoutNext
\* The provider's steps.
LEMMA PspIInv ==
  ASSUME IInv, NEW o \in Orders, PspNext(o)
  PROVE  IInv'
<1>1. PICK from \in SUBSET {"open", "failed", "paid"},
           to \in {"failed", "paid", "underpaid", "cancelled", "refunded"},
           k \in {"captured", "failed", "cancelled", "refunded"} :
        /\ PspMove(o, from, to)
        /\ Emit(o, k)
        /\ to = "failed" => checkout[o] = "done"
        /\ checkout[o] \notin {"paying", "recorded"} \/ from = {"paid"}
  BY DEF PspNext, PspFails, PspPays, PspExpires, PspRefunds
<1>2. [order |-> o, kind |-> k] \in Events
  BY DEF Events
<1>3. TypeOK'
  BY <1>1, <1>2 DEF PspMove, Emit, IInv, TypeOK, dbVars, reqVars
<1>4. checkout[o] \notin {"new", "paying", "recorded"}
  BY <1>1 DEF PspMove, IInv, Links, CheckoutLinks
<1>5. psp[o] # "none"
  BY <1>1 DEF PspMove
<1>6. \A p \in Orders : CheckoutLinks(p)'
  BY <1>1, <1>4, <1>5 DEF PspMove, IInv, TypeOK, Links, CheckoutLinks, dbVars, reqVars
<1>7. Emitted' /\ Delivered' /\ Asked' /\ Operated' /\ Sweeping'
  BY <1>1, RequestFields
     DEF PspMove, Emit, IInv, TypeOK, Links, Emitted, Delivered, Asked, Operated, Sweeping, Events, dbVars,
         reqVars
<1> QED
  BY <1>3, <1>6, <1>7 DEF IInv, Links

\* An order a delivery is about has a checkout that has ended, and a row.
LEMMA EventHasOrder ==
  ASSUME IInv, NEW e \in sent
  PROVE  /\ e \in Events /\ e.order \in Orders
         /\ checkout[e.order] \notin {"new", "paying", "recorded"}
         /\ psp[e.order] \notin {"none", "open"}
         /\ Row(e.order) \in RowType
<1>1. e \in Events /\ e.order \in Orders
  BY DEF IInv, TypeOK, Events
<1>2. psp[e.order] \notin {"none", "open"}
  BY DEF IInv, Links, Emitted
<1>3. /\ checkout[e.order] \notin {"new", "paying", "recorded"}
      /\ tx[e.order] # "none"
  BY <1>1, <1>2 DEF IInv, Links, CheckoutLinks
<1>4. status[e.order] # "none"
  BY <1>1, <1>3 DEF IInv, Links, CheckoutLinks
<1> QED
  BY <1>1, <1>2, <1>3, <1>4, RowLoaded DEF IInv

\* A step that writes an order whose checkout has ended, and nothing else that
\* the links mention.
LEMMA WriteKeepsCheckoutLinks ==
  ASSUME IInv, NEW o \in Orders, NEW old \in RowType, NEW new \in RowType,
         checkout[o] \notin {"new", "paying", "recorded"},
         Flush(o, old, new),
         ReleaseInventory(o) \/ UNCHANGED resv,
         UNCHANGED <<method, checkout, answer, live, psp>>
  PROVE  /\ \A p \in Orders : CheckoutLinks(p)'
         /\ resv' \in [Orders -> {"none", "held", "committed", "released"}]
<1>1. /\ resv' \in [Orders -> {"none", "held", "committed", "released"}]
      /\ \A p \in Orders \ {o} : resv'[p] = resv[p]
  BY DEF ReleaseInventory, IInv, TypeOK
<1> QED
  BY <1>1, FlushWrites DEF IInv, Links, CheckoutLinks

\* What applying an event writes.
LEMMA ApplyWrites ==
  ASSUME IInv, NEW h \in Hooks, Apply(h)
  PROVE  /\ hook[h].pc = "apply"
         /\ Applied(h)
         /\ \E new \in RowType : Flush(hook[h].ev.order, hook[h].row, new)
         /\ ReleaseInventory(hook[h].ev.order) \/ UNCHANGED resv
<1>1. hook[h].pc = "apply" /\ Applied(h)
  BY DEF Apply, ApplyCaptured, ApplyFailure, ApplyRefund
<1>2. hook[h].row \in RowType
  BY <1>1, RequestFields DEF IInv
<1>3. CASE ApplyCaptured(h)
  BY <1>1, <1>2, <1>3, RowsAreRows DEF ApplyCaptured
<1>4. CASE ApplyFailure(h)
  <2>1. CASE UNCHANGED <<status, pay, tx, resv>>
    BY <1>1, <1>2, <2>1 DEF Flush
  <2>2. CASE ~UNCHANGED <<status, pay, tx, resv>>
    BY <1>1, <1>2, <1>4, <2>2, RowsAreRows DEF ApplyFailure
  <2> QED
    BY <2>1, <2>2
<1>5. CASE ApplyRefund(h)
  BY <1>1, <1>2, <1>5, RowsAreRows DEF ApplyRefund
<1> QED
  BY <1>3, <1>4, <1>5 DEF Apply

\* The steps of a webhook delivery.
LEMMA HookIInv ==
  ASSUME OrderPaymentAssumption, IInv, NEW h \in Hooks, HookNext(h)
  PROVE  IInv'
<1> USE DEF OrderPaymentAssumption
<1>1. ASSUME NEW e \in Events, Deliver(h, e)
      PROVE  IInv'
  <2>1. hook' \in [Hooks -> HookType]
    BY <1>1 DEF Deliver, IInv, TypeOK, HookType
  <2>2. Delivered'
    BY <1>1 DEF Deliver, IInv, TypeOK, Links, Delivered, OnlyHook, envVars
  <2> QED
    BY <1>1, <2>1, <2>2 DEF Deliver, IInv, TypeOK, Links, CheckoutLinks, Emitted, Asked, Operated, Sweeping,
       OnlyHook, dbVars, envVars
<1>2. ASSUME LookupConfirms(h) \/ LookupRefuses(h) \/ RecordLosesRace(h) \/ ApplyFails(h)
      PROVE  IInv'
  <2>1. hook' \in [Hooks -> HookType]
    <3>1. ASSUME LookupConfirms(h)
          PROVE  hook' \in [Hooks -> HookType]
      <4>1. PICK b \in BOOLEAN :
              hook' = [hook EXCEPT ![h] =
                         [pc |-> "record", ev |-> hook[h].ev, amountOk |-> b]]
        BY <3>1 DEF LookupConfirms
      <4>2. hook[h].ev \in Events
        BY <3>1, RequestFields DEF LookupConfirms, IInv
      <4> QED
        BY <4>1, <4>2 DEF IInv, TypeOK, HookType
    <3>2. ASSUME LookupRefuses(h) \/ RecordLosesRace(h) \/ ApplyFails(h)
          PROVE  hook' \in [Hooks -> HookType]
      BY <3>2 DEF LookupRefuses, RecordLosesRace, ApplyFails, IInv, TypeOK, HookType
    <3> QED
      BY <1>2, <3>1, <3>2
  <2>2. Delivered'
    BY <1>2, RequestFields
       DEF LookupConfirms, LookupRefuses, RecordLosesRace, ApplyFails, IInv, TypeOK,
           Links, Delivered, OnlyHook, envVars, Idle
  <2>3. faults' \in 0..MaxFaults
    BY <1>2 DEF LookupConfirms, LookupRefuses, RecordLosesRace, ApplyFails, Fault,
       OnlyHook, envVars, IInv, TypeOK
  <2>4. UNCHANGED <<dbVars, checkout, answer, recon, op, live, psp, sent, swept, applied,
                   early>>
    BY <1>2 DEF LookupConfirms, LookupRefuses, RecordLosesRace, ApplyFails, OnlyHook,
       envVars
  <2> QED
    BY <2>1, <2>2, <2>3, <2>4 DEF IInv, TypeOK, Links, CheckoutLinks, Emitted, Asked, Operated, Sweeping,
       dbVars
<1>3. ASSUME RecordEvent(h)
      PROVE  IInv'
  <2>1. hook[h].ev \in sent /\ hook[h].ev \in Events /\ hook[h].amountOk \in BOOLEAN
    BY <1>3, RequestFields DEF RecordEvent, IInv, Links, Delivered
  <2>2. Row(hook[h].ev.order) \in RowType
    BY <2>1, EventHasOrder
  <2>3. hook' \in [Hooks -> HookType]
    BY <1>3, <2>1, <2>2 DEF RecordEvent, IInv, TypeOK, HookType
  <2>4. Delivered'
    BY <1>3, <2>1 DEF RecordEvent, IInv, TypeOK, Links, Delivered, envVars
  <2> QED
    BY <1>3, <2>1, <2>3, <2>4 DEF RecordEvent, IInv, TypeOK, Links, CheckoutLinks,
       Emitted, Asked, Operated, Sweeping, envVars
<1>4. ASSUME Apply(h)
      PROVE  IInv'
  <2> DEFINE o == hook[h].ev.order
  <2>1. /\ hook[h].pc = "apply"
        /\ Applied(h)
        /\ ReleaseInventory(o) \/ UNCHANGED resv
    BY <1>4, ApplyWrites
  <2>2. PICK new \in RowType : Flush(o, hook[h].row, new)
    BY <1>4, ApplyWrites
  <2>3. hook[h].row \in RowType /\ hook[h].ev \in sent
    BY <2>1, RequestFields DEF IInv, Links, Delivered
  <2>4. o \in Orders /\ hook[h].ev \in Events /\ checkout[o] \notin {"new", "paying", "recorded"}
    BY <2>3, EventHasOrder
  <2>5. /\ \A p \in Orders : CheckoutLinks(p)'
        /\ resv' \in [Orders -> {"none", "held", "committed", "released"}]
    BY <2>1, <2>2, <2>3, <2>4, WriteKeepsCheckoutLinks DEF Applied
  <2>6. hook' \in [Hooks -> HookType]
    BY <2>1 DEF Applied, IInv, TypeOK, HookType
  <2>7. TypeOK'
    BY <2>1, <2>2, <2>3, <2>4, <2>5, <2>6, FlushWrites DEF Applied, IInv, TypeOK
  <2>8. Emitted' /\ Delivered' /\ Asked' /\ Operated' /\ Sweeping'
    BY <2>1 DEF Applied, IInv, TypeOK, Links, Emitted, Delivered, Asked, Operated, Sweeping, Idle
  <2> QED
    BY <2>5, <2>7, <2>8 DEF IInv, Links
<1> QED
  BY <1>1, <1>2, <1>3, <1>4 DEF HookNext
\* What the end of a reconciliation writes.
LEMMA ReconcileWrites ==
  ASSUME IInv, NEW r \in Recons, ReconcilePaid(r) \/ ReconcileFailed(r)
  PROVE  /\ recon[r].pc = "answered"
         /\ Reconciled(r)
         /\ \E new \in RowType : Flush(recon[r].order, recon[r].row, new)
         /\ ReleaseInventory(recon[r].order) \/ UNCHANGED resv
<1>1. recon[r].pc = "answered" /\ Reconciled(r)
  BY DEF ReconcilePaid, ReconcileFailed, Reconciled
<1>2. recon[r].row \in RowType
  BY <1>1, RequestFields DEF IInv
<1>3. CASE ReconcilePaid(r)
  BY <1>1, <1>2, <1>3, RowsAreRows DEF ReconcilePaid
<1>4. CASE ReconcileFailed(r)
  <2>1. CASE UNCHANGED <<status, pay, tx, resv>>
    BY <1>1, <1>2, <2>1 DEF Flush
  <2>2. CASE ~UNCHANGED <<status, pay, tx, resv>>
    BY <1>1, <1>2, <1>4, <2>2, RowsAreRows DEF ReconcileFailed
  <2> QED
    BY <2>1, <2>2
<1> QED
  BY <1>1, <1>3, <1>4

\* The steps of a reconciliation.
LEMMA ReconIInv ==
  ASSUME IInv, NEW r \in Recons, ReconNext(r)
  PROVE  IInv'
<1>1. ASSUME NEW o \in Orders, StartReconcile(r, o)
      PROVE  IInv'
  <2>1. Row(o) \in RowType
    BY <1>1, RowLoaded DEF StartReconcile, Placed, IInv
  <2>2. recon' \in [Recons -> ReconType]
    BY <1>1, <2>1 DEF StartReconcile, IInv, TypeOK, ReconType
  <2>3. Asked'
    BY <1>1 DEF StartReconcile, IInv, TypeOK, Links, Asked, envVars
  <2> QED
    BY <1>1, <2>2, <2>3 DEF StartReconcile, IInv, TypeOK, Links, CheckoutLinks, Emitted,
       Delivered, Operated, Sweeping, dbVars, envVars
<1>2. ASSUME ProviderAnswers(r)
      PROVE  IInv'
  <2>1. recon[r].pc = "asked" /\ recon[r].order \in Orders /\ recon[r].row \in RowType
    BY <1>2, RequestFields DEF ProviderAnswers, IInv
  <2>2. psp[recon[r].order] \in {"paid", "underpaid", "failed", "cancelled"}
    BY <1>2 DEF ProviderAnswers
  <2>3. PICK answered \in {"paid", "failed", "cancelled"}, b \in BOOLEAN :
          recon' = [recon EXCEPT ![r] =
                      [pc |-> "answered", order |-> recon[r].order,
                       row |-> recon[r].row, remote |-> answered, amountOk |-> b]]
    BY <1>2, <2>2 DEF ProviderAnswers
  <2>4. recon' \in [Recons -> ReconType]
    BY <2>1, <2>3 DEF IInv, TypeOK, ReconType
  <2>5. Asked'
    BY <1>2, <2>2, <2>3 DEF ProviderAnswers, IInv, TypeOK, Links, Asked, envVars
  <2> QED
    BY <1>2, <2>4, <2>5 DEF ProviderAnswers, IInv, TypeOK, Links, CheckoutLinks, Emitted,
       Delivered, Operated, Sweeping, dbVars, envVars
<1>3. ASSUME ReconcileEnds(r)
      PROVE  IInv'
  <2>1. recon' \in [Recons -> ReconType]
    BY <1>3 DEF ReconcileEnds, IInv, TypeOK, ReconType
  <2>2. Asked'
    BY <1>3 DEF ReconcileEnds, IInv, TypeOK, Links, Asked, Idle, envVars
  <2> QED
    BY <1>3, <2>1, <2>2 DEF ReconcileEnds, IInv, TypeOK, Links, CheckoutLinks, Emitted,
       Delivered, Operated, Sweeping, dbVars, envVars
<1>4. ASSUME ReconcilePaid(r) \/ ReconcileFailed(r)
      PROVE  IInv'
  <2> DEFINE o == recon[r].order
  <2>1. /\ recon[r].pc = "answered"
        /\ Reconciled(r)
        /\ ReleaseInventory(o) \/ UNCHANGED resv
    BY <1>4, ReconcileWrites
  <2>2. PICK new \in RowType : Flush(o, recon[r].row, new)
    BY <1>4, ReconcileWrites
  <2>3. recon[r].row \in RowType /\ o \in Orders
    BY <2>1, RequestFields DEF IInv
  <2>4. checkout[o] \notin {"new", "paying", "recorded"}
    BY <2>1, <2>3 DEF IInv, Links, CheckoutLinks, Asked
  <2>5. /\ \A p \in Orders : CheckoutLinks(p)'
        /\ resv' \in [Orders -> {"none", "held", "committed", "released"}]
    BY <2>1, <2>2, <2>3, <2>4, WriteKeepsCheckoutLinks DEF Reconciled, envVars
  <2>6. recon' \in [Recons -> ReconType]
    BY <2>1 DEF Reconciled, IInv, TypeOK, ReconType
  <2>7. TypeOK'
    BY <2>1, <2>2, <2>3, <2>5, <2>6, FlushWrites DEF Reconciled, envVars, IInv, TypeOK
  <2>8. Emitted' /\ Delivered' /\ Asked' /\ Operated' /\ Sweeping'
    BY <2>1 DEF Reconciled, envVars, IInv, TypeOK, Links, Emitted, Delivered, Asked, Operated, Sweeping, Idle
  <2> QED
    BY <2>5, <2>7, <2>8 DEF IInv, Links
<1> QED
  BY <1>1, <1>2, <1>3, <1>4 DEF ReconNext

\* The steps of an operator.
LEMMA AdminIInv ==
  ASSUME OrderPaymentAssumption, IInv, NEW a \in Admins, AdminNext(a)
  PROVE  IInv'
<1> USE StatusesDefined DEF OrderPaymentAssumption
<1>1. ASSUME NEW o \in Orders, Placed(o), NEW request \in OpType, request.order = o,
             OperatorReads(a, request)
      PROVE  IInv'
  <2>1. checkout[o] # "new"
    BY <1>1 DEF Placed, IInv, Links, CheckoutLinks
  <2> QED
    BY <1>1, <2>1 DEF OperatorReads, IInv, TypeOK, Links, CheckoutLinks, Emitted, Delivered, Asked, Operated, Sweeping,
     dbVars, envVars
<1>2. ASSUME NEW o \in Orders, NEW s \in AdminTargets, StartMove(a, o, s)
      PROVE  IInv'
  <2>1. s \in OrderStatuses
    OBVIOUS
  <2>2. [pc |-> IF CashIsDue(o, s) THEN "collect" ELSE "move", order |-> o, to |-> s]
          \in OpType
    BY <2>1 DEF OpType, CashIsDue
  <2> QED
    BY <1>1, <1>2, <2>2 DEF StartMove
<1>3. ASSUME NEW o \in Orders, StartCapture(a, o)
      PROVE  IInv'
  <2>1. [pc |-> "capture", order |-> o] \in OpType
    BY DEF OpType
  <2> QED
    BY <1>1, <1>3, <2>1 DEF StartCapture
<1>4. ASSUME CollectCash(a) \/ CommitCapture(a)
      PROVE  IInv'
  <2>1. op[a].order \in Orders
    BY <1>4, RequestFields DEF CollectCash, CommitCapture, IInv
  <2>2. op' \in [Admins -> OpType]
    <3>1. CASE CollectCash(a)
      <4>1. op[a].pc = "collect" /\ op[a] \in OpType
        BY <3>1 DEF CollectCash, IInv, TypeOK
      <4>2. op[a] \in [pc : {"collect"}, order : Orders, to : HandoverStates]
        BY <4>1 DEF OpType, Idle
      <4>3. [op[a] EXCEPT !.pc = "move"] \in OpType
        BY <4>2 DEF OpType, FULFILLMENT_STATES
      <4> QED
        BY <3>1, <4>3 DEF CollectCash, IInv, TypeOK
    <3>2. CASE CommitCapture(a)
      BY <3>2 DEF CommitCapture, OperatorDone, IInv, TypeOK, OpType
    <3> QED
      BY <1>4, <3>1, <3>2
  <2>3. checkout[op[a].order] # "new"
    BY <1>4 DEF CollectCash, CommitCapture, IInv, Links, Operated
  <2>4. \A b \in Admins : op'[b].pc # "idle" => op[b].pc # "idle" /\ op'[b].order = op[b].order
    <3>1. CASE CollectCash(a)
      BY <3>1 DEF CollectCash, IInv, TypeOK, OpType
    <3>2. CASE CommitCapture(a)
      BY <3>2 DEF CommitCapture, OperatorDone, IInv, TypeOK, Idle
    <3> QED
      BY <1>4, <3>1, <3>2
  <2>5. Operated'
    BY <1>4, <2>4 DEF CollectCash, CommitCapture, OperatorDone, IInv, Links, Operated
  <2> QED
    BY <1>4, <2>1, <2>2, <2>3, <2>5 DEF CollectCash, CommitCapture, OperatorDone, IInv,
       TypeOK, Links, CheckoutLinks, Emitted, Delivered, Asked, Sweeping, CheckoutRuns, envVars
<1>5. ASSUME CommitMove(a)
      PROVE  IInv'
  <2>1. op[a].order \in Orders /\ op[a].to \in OrderStatuses
    BY <1>5, RequestFields DEF CommitMove, IInv
  <2>2. op' \in [Admins -> OpType]
    BY <1>5 DEF CommitMove, OperatorDone, IInv, TypeOK, OpType
  <2>3. Operated'
    BY <1>5 DEF CommitMove, OperatorDone, IInv, TypeOK, Links, Operated, Idle
  <2>4. checkout[op[a].order] # "new"
    BY <1>5 DEF CommitMove, IInv, Links, Operated
  <2> QED
    BY <1>5, <2>1, <2>2, <2>3, <2>4 DEF CommitMove, OperatorDone, IInv, TypeOK, Links,
       CheckoutLinks, Emitted, Delivered, Asked, Sweeping, envVars
<1>6. ASSUME CrashOperator(a)
      PROVE  IInv'
  <2>1. op' \in [Admins -> OpType]
    BY <1>6 DEF CrashOperator, IInv, TypeOK, OpType
  <2>2. Operated'
    BY <1>6 DEF CrashOperator, IInv, TypeOK, Links, Operated, Idle
  <2> QED
    BY <1>6, <2>1, <2>2 DEF CrashOperator, Fault, IInv, TypeOK, Links, CheckoutLinks,
       Emitted, Delivered, Asked, Sweeping, dbVars
<1> QED
  BY <1>2, <1>3, <1>4, <1>5, <1>6 DEF AdminNext

\* The sweep.
LEMMA SweepIInv ==
  ASSUME IInv, SweepReads \/ SweepCommits
  PROVE  IInv'
<1>1. CASE SweepReads
  <2>1. Expired \subseteq Orders /\ \A o \in Expired : checkout[o] \in {"raised", "crashed"}
    BY DEF Expired
  <2> QED
    BY <1>1, <2>1 DEF SweepReads, IInv, TypeOK, Links, CheckoutLinks, Emitted, Delivered, Asked,
       Operated, Sweeping, dbVars, reqVars
<1>2. CASE SweepCommits
  <2>1. resv' \in [Orders -> {"none", "held", "committed", "released"}]
    BY <1>2 DEF SweepCommits, IInv, TypeOK
  <2>2. \A o \in Orders : resv'[o] # resv[o] => checkout[o] \in {"raised", "crashed"}
    BY <1>2 DEF SweepCommits, IInv, TypeOK, Links, Sweeping
  <2>3. swept' = {} /\ UNCHANGED <<status, pay, method, tx, seen, reqVars, live, psp, sent, applied,
                                   early, faults>>
    BY <1>2 DEF SweepCommits
  <2>4. \A o \in Orders : CheckoutLinks(o)'
    BY <2>2, <2>3 DEF IInv, Links, CheckoutLinks, reqVars
  <2> QED
    BY <2>1, <2>3, <2>4 DEF IInv, TypeOK, Links, Emitted, Delivered, Asked, Operated, Sweeping,
       reqVars
<1> QED
  BY <1>1, <1>2

\* Every step keeps the invariant.
LEMMA StepIInv ==
  ASSUME OrderPaymentAssumption, IInv, [Next]_vars
  PROVE  IInv'
<1>1. CASE UNCHANGED vars
  BY <1>1 DEF vars, dbVars, reqVars, envVars, IInv, TypeOK, Links, CheckoutLinks, Emitted,
     Delivered, Asked, Operated, Sweeping
<1> QED
  BY <1>1, CheckoutIInv, PspIInv, HookIInv, ReconIInv, AdminIInv, SweepIInv DEF Next

\* The invariant holds in every behaviour.
LEMMA AlwaysIInv == Spec => []IInv
<1>1. Init => IInv
  BY OrderPaymentAssumption, InitIInv
<1>2. IInv /\ [Next]_vars => IInv'
  BY OrderPaymentAssumption, StepIInv
<1> QED
  BY <1>1, <1>2, PTL DEF Spec

\* In every behaviour, with any number of requests in progress, every variable keeps
\* its type: in particular a handler only ever works on a row that is there.
THEOREM TypeCorrect == Spec => []TypeOK
<1>1. IInv => TypeOK
  BY DEF IInv
<1> QED
  BY <1>1, AlwaysIInv, PTL

(***************************************************************************)
(* Webhooks.  The key of an event is recorded before the event is applied, *)
(* and only one delivery records it.                                       *)
(***************************************************************************)
KeyedOnce ==
  /\ applied \subseteq seen
  /\ \A h \in Hooks : hook[h].pc = "apply" => hook[h].ev \in seen
  /\ AppliedOnce

LEMMA StepKeyedOnce ==
  ASSUME IInv, KeyedOnce, [Next]_vars
  PROVE  KeyedOnce'
<1> USE DEF KeyedOnce, AppliedOnce
<1>1. ASSUME NEW h \in Hooks, RecordEvent(h)
      PROVE  KeyedOnce'
  BY <1>1 DEF RecordEvent, envVars, IInv, TypeOK
<1>2. ASSUME NEW h \in Hooks, Apply(h)
      PROVE  KeyedOnce'
  BY <1>2, ApplyWrites DEF Applied, Idle, IInv, TypeOK
<1>3. ASSUME NEW h \in Hooks, HookNext(h), ~RecordEvent(h), ~Apply(h)
      PROVE  KeyedOnce'
  BY <1>3 DEF HookNext, Deliver, LookupConfirms, LookupRefuses, RecordLosesRace, ApplyFails,
     OnlyHook, dbVars, envVars, Idle, IInv, TypeOK
<1>4. ASSUME UNCHANGED <<seen, applied, hook>>
      PROVE  KeyedOnce'
  BY <1>4
<1>5. ASSUME NEW o \in Orders, CheckoutNext(o) \/ PspNext(o)
      PROVE  UNCHANGED <<seen, applied, hook>>
  BY <1>5 DEF CheckoutNext, PlaceOrder, RecordPayment, FinishAccepted, FinishDeclined, Finish,
     FinishRaises, CrashCheckout, PspNext, PspFails, PspPays, PspExpires, PspRefunds,
     PspMove, dbVars, reqVars, envVars
<1>6. ASSUME NEW r \in Recons, ReconNext(r)
      PROVE  UNCHANGED <<seen, applied, hook>>
  BY <1>6 DEF ReconNext, StartReconcile, ProviderAnswers, ReconcileEnds, ReconcilePaid,
     ReconcileFailed, Reconciled, dbVars, envVars
<1>7. ASSUME NEW a \in Admins, AdminNext(a)
      PROVE  UNCHANGED <<seen, applied, hook>>
  BY <1>7 DEF AdminNext, StartMove, StartCapture, OperatorReads, OperatorDone, CollectCash,
     CommitMove, CommitCapture, CrashOperator, dbVars, envVars
<1>8. ASSUME SweepReads \/ SweepCommits \/ UNCHANGED vars
      PROVE  UNCHANGED <<seen, applied, hook>>
  BY <1>8 DEF SweepReads, SweepCommits, vars, dbVars, reqVars, envVars
<1> QED
  BY <1>1, <1>2, <1>3, <1>4, <1>5, <1>6, <1>7, <1>8 DEF Next

\* However many deliveries of an event are handled at one time, in however many
\* workers, the event is applied at most once.
THEOREM EventAppliedOnce == Spec => []AppliedOnce
<1>1. Init => KeyedOnce
  BY DEF Init, KeyedOnce, AppliedOnce, Idle
<1>2. IInv /\ KeyedOnce /\ [Next]_vars => KeyedOnce'
  BY StepKeyedOnce
<1>3. KeyedOnce => AppliedOnce
  BY DEF KeyedOnce
<1> QED
  BY <1>1, <1>2, <1>3, AlwaysIInv, PTL DEF Spec
(***************************************************************************)
(* Captures.  A move of goods is checked against the payment status, long  *)
(* before it is committed, and the payment status was written by a handler *)
(* that asked the provider still earlier.  What each of them relies on     *)
(* does not go away meanwhile.                                             *)
(***************************************************************************)

\* The money for o is there: at the provider, or by an operator's demo capture.
Captured(o) == IF live THEN psp[o] \in {"paid", "refunded"} ELSE tx[o] = "paid"

\* Nothing has been captured for a card order before its checkout has an answer.
NotYet(o) ==
  checkout[o] \in {"new", "paying"} /\ method[o] # "cod" => pay[o] = "pending" /\ tx[o] = "none"

PaidIsCaptured(o) == method[o] = "card" /\ pay[o] = "paid" => Captured(o)

\* What a request relies on between its check and its write.
HookRelies(h) ==
  /\ hook[h].pc \in {"record", "apply"}
  /\ hook[h].ev.kind = "captured"
  /\ hook[h].amountOk
  => psp[hook[h].ev.order] \in {"paid", "refunded"}

ReconRelies(r) ==
  recon[r].pc = "answered" /\ recon[r].remote = "paid" /\ recon[r].amountOk
  => psp[recon[r].order] \in {"paid", "refunded"}

OpRelies(a) ==
  /\ /\ op[a].pc = "move"
     /\ op[a].to \in FULFILLMENT_STATES
     /\ method[op[a].order] = "card"
     => Captured(op[a].order)
  /\ op[a].pc = "collect" => method[op[a].order] = "cod"
  /\ op[a].pc = "capture" =>
       /\ ~live
       /\ method[op[a].order] # "cod" => checkout[op[a].order] \notin {"new", "paying"}

CapturedInv ==
  /\ \A o \in Orders : NotYet(o) /\ PaidIsCaptured(o)
  /\ \A h \in Hooks : HookRelies(h)
  /\ \A r \in Recons : ReconRelies(r)
  /\ \A a \in Admins : OpRelies(a)
  /\ MovedGoodsAreCaptured

\* What the handlers make of the status and the payment of a row.
LEMMA RowsStayBack ==
  ASSUME NEW r \in RowType
  PROVE  /\ AfterMismatch(r).status \in {r.status, "failed"}
         /\ AfterMismatch(r).pay \in {r.pay, "failed"}
         /\ AfterCancelledCapture(r).status = r.status
         /\ AfterCancelledCapture(r).pay = "refund_pending"
         /\ AfterCapture(r).status \in {r.status, "processing"}
         /\ \A k \in {"failed", "cancelled"} :
              AfterFailure(r, k).status \in {r.status, k} /\ AfterFailure(r, k).pay = k
         /\ AfterRefund(r).status \in {r.status, "refunded"}
         /\ AfterRefund(r).pay \in {r.pay, "refunded"}
         /\ CaptureResult(r).status \in {r.status, "processing"}
<1>1. AfterMismatch(r).status \in {r.status, "failed"} /\ AfterMismatch(r).pay \in {r.pay, "failed"}
  BY DEF AfterMismatch
<1>2. /\ AfterCancelledCapture(r).status = r.status
      /\ AfterCancelledCapture(r).pay = "refund_pending"
  BY DEF AfterCancelledCapture, RowType
<1>3. AfterCapture(r).status \in {r.status, "processing"}
  BY DEF AfterCapture
<1>4. \A k \in {"failed", "cancelled"} :
        AfterFailure(r, k).status \in {r.status, k} /\ AfterFailure(r, k).pay = k
  BY DEF AfterFailure
<1>5. AfterRefund(r).status \in {r.status, "refunded"} /\ AfterRefund(r).pay \in {r.pay, "refunded"}
  BY DEF AfterRefund
<1>6. CaptureResult(r).status \in {r.status, "processing"}
  BY <1>2, <1>3 DEF CaptureResult
<1> QED
  BY <1>1, <1>2, <1>3, <1>4, <1>5, <1>6

\* A handler that writes a row writes what it has changed, and nothing else.
LEMMA FlushWritesChanges ==
  ASSUME TypeOK, NEW o \in Orders, NEW old \in RowType, NEW new \in RowType,
         Flush(o, old, new)
  PROVE  /\ status'[o] = status[o] \/ (status'[o] = new.status /\ new.status # old.status)
         /\ pay'[o] = pay[o] \/ (pay'[o] = new.pay /\ new.pay # old.pay)
         /\ tx'[o] = tx[o] \/ (tx'[o] = new.tx /\ new.tx # old.tx)
BY DEF Flush, TypeOK

\* What a step leaves alone decides the invariant: if captures stay, and no order
\* starts moving, is paid or restarts its checkout without one.
LEMMA CapturedKept ==
  ASSUME IInv, CapturedInv,
         UNCHANGED <<live, method>>,
         \A o \in Orders : Captured(o) => Captured(o)',
         \A o \in Orders : \/ status'[o] = status[o]
                           \/ status'[o] \notin FULFILLMENT_STATES
                           \/ method[o] = "card" => Captured(o)',
         \A o \in Orders : \/ pay'[o] = pay[o]
                           \/ pay'[o] # "paid"
                           \/ method[o] = "card" => Captured(o)',
         \A o \in Orders : checkout'[o] \in {"new", "paying"} =>
                             /\ checkout[o] \in {"new", "paying"}
                             /\ \/ pay'[o] = pay[o] /\ tx'[o] = tx[o]
                                \/ method[o] = "cod"
  PROVE  /\ \A o \in Orders : NotYet(o)' /\ PaidIsCaptured(o)'
         /\ MovedGoodsAreCaptured'
<1>1. \A o \in Orders : NotYet(o)'
  BY DEF CapturedInv, NotYet
<1>2. \A o \in Orders : PaidIsCaptured(o)'
  BY DEF CapturedInv, PaidIsCaptured
<1>3. \A o \in Orders : method[o] = "card" /\ status[o] \in FULFILLMENT_STATES => Captured(o)
  BY DEF CapturedInv, MovedGoodsAreCaptured, Captured
<1>4. \A o \in Orders : method'[o] = "card" /\ status'[o] \in FULFILLMENT_STATES
                          => Captured(o)'
  BY <1>3
<1>5. MovedGoodsAreCaptured'
  BY <1>4 DEF MovedGoodsAreCaptured, Captured
<1> QED
  BY <1>1, <1>2, <1>5
\* A request that relies on a capture goes on relying on it, unless it is itself the
\* one that takes the step.
LEMMA ReliesKept ==
  ASSUME IInv, CapturedInv,
         UNCHANGED <<live, method>>,
         \A o \in Orders : psp[o] \in {"paid", "refunded"} => psp'[o] \in {"paid", "refunded"},
         \A o \in Orders : Captured(o) => Captured(o)',
         \A o \in Orders : checkout'[o] \in {"new", "paying"} => checkout[o] \in {"new", "paying"}
  PROVE  /\ \A h \in Hooks : hook'[h] = hook[h] => HookRelies(h)'
         /\ \A r \in Recons : recon'[r] = recon[r] => ReconRelies(r)'
         /\ \A a \in Admins : op'[a] = op[a] => OpRelies(a)'
<1>1. ASSUME NEW h \in Hooks, hook'[h] = hook[h]
      PROVE  HookRelies(h)'
  <2>1. hook[h].pc # "idle" => hook[h].ev.order \in Orders
    BY RequestFields DEF IInv, Events
  <2> QED
    BY <1>1, <2>1 DEF CapturedInv, HookRelies
<1>2. ASSUME NEW r \in Recons, recon'[r] = recon[r]
      PROVE  ReconRelies(r)'
  <2>1. recon[r].pc # "idle" => recon[r].order \in Orders
    BY RequestFields DEF IInv
  <2> QED
    BY <1>2, <2>1 DEF CapturedInv, ReconRelies
<1>3. ASSUME NEW a \in Admins, op'[a] = op[a]
      PROVE  OpRelies(a)'
  <2>1. op[a].pc # "idle" => op[a].order \in Orders
    BY RequestFields DEF IInv
  <2>2. OpRelies(a)
    BY DEF CapturedInv
  <2>3. CASE op[a].pc = "idle"
    BY <1>3, <2>3 DEF OpRelies
  <2>4. CASE op[a].pc # "idle"
    <3>1. PICK o \in Orders : o = op[a].order
      BY <2>1, <2>4
    <3>2. Captured(o) => Captured(o)'
      OBVIOUS
    <3> QED
      BY <1>3, <2>2, <3>1, <3>2 DEF OpRelies, Captured
  <2> QED
    BY <2>3, <2>4
<1> QED
  BY <1>1, <1>2, <1>3

\* The steps of a checkout take nothing away: a card order has nothing captured yet.
LEMMA CheckoutCaptured ==
  ASSUME OrderPaymentAssumption, IInv, CapturedInv, NEW o \in Orders, CheckoutNext(o)
  PROVE  CapturedInv'
<1> USE StatusesDefined DEF OrderPaymentAssumption
<1>1. ASSUME NEW m \in Methods, PlaceOrder(o, m)
      PROVE  CapturedInv'
  <2>1. /\ checkout[o] = "new" /\ pay[o] = "pending" /\ tx[o] = "none" /\ psp[o] = "none"
    BY <1>1 DEF PlaceOrder, IInv, Links, CheckoutLinks
  <2>2. \A p \in Orders : NotYet(p)' /\ PaidIsCaptured(p)'
    BY <1>1, <2>1 DEF PlaceOrder, IInv, TypeOK, CapturedInv, NotYet, PaidIsCaptured, Captured,
       envVars
  <2>3. MovedGoodsAreCaptured'
    BY <1>1 DEF PlaceOrder, IInv, TypeOK, CapturedInv, MovedGoodsAreCaptured, envVars,
       FULFILLMENT_STATES
  <2>4. \A h \in Hooks : HookRelies(h)'
    BY <1>1 DEF PlaceOrder, CapturedInv, HookRelies, envVars
  <2>5. \A r \in Recons : ReconRelies(r)'
    BY <1>1 DEF PlaceOrder, CapturedInv, ReconRelies, envVars
  <2>6. ASSUME NEW a \in Admins
        PROVE  OpRelies(a)'
    <3>1. CASE op[a].pc = "idle"
      BY <1>1, <3>1 DEF PlaceOrder, OpRelies
    <3>2. CASE op[a].pc # "idle"
      <4>1. op[a].order \in Orders /\ op[a].order # o
        BY <2>1, <3>2, RequestFields DEF IInv, Links, Operated
      <4>2. OpRelies(a)
        BY DEF CapturedInv
      <4> QED
        BY <1>1, <4>1, <4>2 DEF PlaceOrder, OpRelies, Captured, envVars, IInv, TypeOK
    <3> QED
      BY <3>1, <3>2
  <2> QED
    BY <2>2, <2>3, <2>4, <2>5, <2>6 DEF CapturedInv
<1>2. ASSUME RecordPayment(o)
      PROVE  CapturedInv'
  <2>1. /\ checkout[o] = "paying" /\ psp[o] = "none"
        /\ method[o] # "cod" => ~Captured(o)
        /\ UNCHANGED <<status, pay, method, live, hook, recon, op>>
        /\ checkout' = [checkout EXCEPT ![o] = "recorded"]
    BY <1>2 DEF RecordPayment, IInv, Links, CheckoutLinks, CapturedInv, NotYet, Captured
  <2>2. \A p \in Orders \ {o} : psp'[p] = psp[p] /\ tx'[p] = tx[p]
    BY <1>2 DEF RecordPayment, IInv, TypeOK
  <2>3. \A p \in Orders : method[p] # "cod" /\ Captured(p) => Captured(p)'
    BY <2>1, <2>2 DEF Captured
  <2>4. \A p \in Orders : NotYet(p)' /\ PaidIsCaptured(p)'
    BY <2>1, <2>2, <2>3 DEF CapturedInv, NotYet, PaidIsCaptured, IInv, TypeOK
  <2>5. MovedGoodsAreCaptured'
    BY <2>1, <2>3 DEF CapturedInv, MovedGoodsAreCaptured, Captured
  <2>6. ASSUME NEW h \in Hooks
        PROVE  HookRelies(h)'
    <3>1. hook[h].pc # "idle" => hook[h].ev.order \in Orders
      BY RequestFields DEF IInv, Events
    <3> QED
      BY <2>1, <2>2, <3>1 DEF CapturedInv, HookRelies
  <2>7. ASSUME NEW r \in Recons
        PROVE  ReconRelies(r)'
    <3>1. recon[r].pc # "idle" => recon[r].order \in Orders
      BY RequestFields DEF IInv
    <3> QED
      BY <2>1, <2>2, <3>1 DEF CapturedInv, ReconRelies
  <2>8. ASSUME NEW a \in Admins
        PROVE  OpRelies(a)'
    <3>1. op[a].pc # "idle" => op[a].order \in Orders
      BY RequestFields DEF IInv
    <3>2. OpRelies(a)
      BY DEF CapturedInv
    <3> QED
      BY <2>1, <2>3, <3>1, <3>2 DEF OpRelies, IInv, TypeOK
  <2> QED
    BY <2>4, <2>5, <2>6, <2>7, <2>8 DEF CapturedInv
<1>3. ASSUME FinishAccepted(o) \/ FinishDeclined(o) \/ FinishRaises(o) \/ CrashCheckout(o)
      PROVE  CapturedInv'
  <2>1. /\ UNCHANGED <<tx, live, method, psp, hook, recon, op>>
        /\ \A p \in Orders : /\ status'[p] = status[p] \/ status'[p] \notin FULFILLMENT_STATES
                             /\ pay'[p] = pay[p] \/ (p = o /\ pay'[p] # "paid")
    <3>1. CASE FinishRaises(o) \/ CrashCheckout(o)
      BY <3>1 DEF FinishRaises, CrashCheckout, dbVars, envVars
    <3>2. CASE FinishAccepted(o) \/ FinishDeclined(o)
      BY <3>2, FinishWrites DEF IInv, TypeOK, envVars, FULFILLMENT_STATES
    <3> QED
      BY <1>3, <3>1, <3>2
  <2>2. /\ checkout[o] \in {"paying", "recorded"}
        /\ checkout'[o] \notin {"new", "paying"}
        /\ \A p \in Orders \ {o} : checkout'[p] = checkout[p]
    BY <1>3 DEF FinishAccepted, FinishDeclined, Finish, FinishRaises, CrashCheckout, IInv,
       TypeOK
  <2>3. \A p \in Orders : Captured(p)' = Captured(p)
    BY <2>1 DEF Captured
  <2>4. \A p \in Orders : checkout'[p] \in {"new", "paying"} =>
          checkout[p] \in {"new", "paying"} /\ pay'[p] = pay[p] /\ tx'[p] = tx[p]
    BY <2>1, <2>2
  <2>5. (\A p \in Orders : NotYet(p)' /\ PaidIsCaptured(p)') /\ MovedGoodsAreCaptured'
    BY <2>1, <2>3, <2>4, CapturedKept
  <2> QED
    BY <2>1, <2>3, <2>4, <2>5, ReliesKept DEF CapturedInv
<1> QED
  BY <1>1, <1>2, <1>3 DEF CheckoutNext
\* The provider does not forget a settlement.
LEMMA PspCaptured ==
  ASSUME IInv, CapturedInv, NEW o \in Orders, PspNext(o)
  PROVE  CapturedInv'
<1>1. /\ UNCHANGED <<dbVars, reqVars, live>>
      /\ \A p \in Orders : psp[p] \in {"paid", "refunded"} => psp'[p] \in {"paid", "refunded"}
  BY DEF PspNext, PspFails, PspPays, PspExpires, PspRefunds, PspMove, IInv, TypeOK
<1>2. /\ UNCHANGED <<status, pay, method, tx, checkout, hook, recon, op, live>>
  BY <1>1 DEF dbVars, reqVars
<1>3. \A p \in Orders : Captured(p) => Captured(p)'
  BY <1>1, <1>2 DEF Captured
<1>4. (\A p \in Orders : NotYet(p)' /\ PaidIsCaptured(p)') /\ MovedGoodsAreCaptured'
  BY <1>2, <1>3, CapturedKept
<1> QED
  BY <1>1, <1>2, <1>3, <1>4, ReliesKept DEF CapturedInv

\* What the application of an event makes of the order.
LEMMA ApplyStaysBack ==
  ASSUME IInv, CapturedInv, NEW h \in Hooks, Apply(h)
  PROVE  \A o \in Orders :
           /\ status'[o] = status[o] \/ status'[o] \notin FULFILLMENT_STATES
           /\ \/ pay'[o] = pay[o]
              \/ pay'[o] # "paid"
              \/ psp[o] \in {"paid", "refunded"}
<1> DEFINE o == hook[h].ev.order
           r == hook[h].row
<1>1. hook[h].pc = "apply" /\ o \in Orders /\ r \in RowType
  BY ApplyWrites, RequestFields DEF IInv, Events
<1>2. \A n \in RowType : Flush(o, r, n) => \A p \in Orders \ {o} : /\ status'[p] = status[p]
                                                               /\ pay'[p] = pay[p]
  BY <1>1, FlushWrites DEF IInv
<1>3. \A n \in RowType : Flush(o, r, n) =>
        /\ status'[o] = status[o] \/ (status'[o] = n.status /\ n.status # r.status)
        /\ pay'[o] = pay[o] \/ (pay'[o] = n.pay /\ n.pay # r.pay)
  BY <1>1, FlushWritesChanges DEF IInv
<1>4. CASE ApplyCaptured(h)
  <2>1. CASE hook[h].amountOk
    <3>1. Flush(o, r, CaptureResult(r)) /\ hook[h].ev.kind = "captured"
      BY <1>4, <2>1 DEF ApplyCaptured
    <3>2. psp[o] \in {"paid", "refunded"}
      BY <1>1, <2>1, <3>1 DEF CapturedInv, HookRelies
    <3> HIDE DEF o, r
    <3>3. CaptureResult(r) \in RowType /\ CaptureResult(r).status \in {r.status, "processing"}
      BY <1>1, RowsAreRows, RowsStayBack
    <3> QED
      BY <1>2, <1>3, <3>1, <3>2, <3>3 DEF FULFILLMENT_STATES
  <2>2. CASE ~hook[h].amountOk
    <3>1. Flush(o, r, AfterMismatch(r))
      BY <1>4, <2>2 DEF ApplyCaptured
    <3> HIDE DEF o, r
    <3>2. /\ AfterMismatch(r) \in RowType
          /\ AfterMismatch(r).status \in {r.status, "failed"}
          /\ AfterMismatch(r).pay \in {r.pay, "failed"}
      BY <1>1, RowsAreRows, RowsStayBack
    <3> QED
      BY <1>2, <1>3, <3>1, <3>2 DEF FULFILLMENT_STATES
  <2> QED
    BY <2>1, <2>2
<1>5. CASE ApplyFailure(h)
  <2>1. PICK k \in {"failed", "cancelled"} :
          Flush(o, r, AfterFailure(r, k)) \/ UNCHANGED <<status, pay>>
    BY <1>5 DEF ApplyFailure
  <2> HIDE DEF o, r
  <2>2. /\ AfterFailure(r, k) \in RowType
        /\ AfterFailure(r, k).status \in {r.status, k} /\ AfterFailure(r, k).pay = k
    BY <1>1, RowsAreRows, RowsStayBack
  <2> QED
    BY <1>2, <1>3, <2>1, <2>2 DEF FULFILLMENT_STATES
<1>6. CASE ApplyRefund(h)
  <2>1. Flush(o, r, AfterRefund(r))
    BY <1>6 DEF ApplyRefund
  <2> HIDE DEF o, r
  <2>2. /\ AfterRefund(r) \in RowType
        /\ AfterRefund(r).status \in {r.status, "refunded"}
        /\ AfterRefund(r).pay \in {r.pay, "refunded"}
    BY <1>1, RowsAreRows, RowsStayBack
  <2> QED
    BY <1>2, <1>3, <2>1, <2>2 DEF FULFILLMENT_STATES
<1> QED
  BY <1>4, <1>5, <1>6 DEF Apply

\* The steps of a delivery.
LEMMA HookCaptured ==
  ASSUME IInv, CapturedInv, NEW h \in Hooks, HookNext(h)
  PROVE  CapturedInv'
<1>1. /\ UNCHANGED <<method, checkout, recon, op, live, psp>>
      /\ \A g \in Hooks \ {h} : hook'[g] = hook[g]
  BY DEF HookNext, Deliver, LookupConfirms, LookupRefuses, RecordEvent, RecordLosesRace,
     ApplyFails, Apply, ApplyCaptured, ApplyFailure, ApplyRefund, Applied, OnlyHook, dbVars,
     envVars, IInv, TypeOK
<1>2. HookRelies(h)'
  <2>1. CASE \E e \in Events : Deliver(h, e)
    BY <2>1 DEF Deliver, HookRelies, IInv, TypeOK
  <2>2. CASE LookupConfirms(h)
    BY <1>1, <2>2 DEF LookupConfirms, HookRelies, IInv, TypeOK
  <2>3. CASE RecordEvent(h)
    BY <1>1, <2>3 DEF RecordEvent, CapturedInv, HookRelies, IInv, TypeOK
  <2>4. CASE LookupRefuses(h) \/ RecordLosesRace(h) \/ ApplyFails(h) \/ Apply(h)
    BY <2>4 DEF LookupRefuses, RecordLosesRace, ApplyFails, Apply, ApplyCaptured, ApplyFailure,
       ApplyRefund, Applied, HookRelies, Idle, IInv, TypeOK
  <2> QED
    BY <2>1, <2>2, <2>3, <2>4 DEF HookNext
<1>3. CASE Apply(h)
  <2>1. live
    <3>1. hook[h].ev \in sent
      BY <1>3, ApplyWrites DEF IInv, Links, Delivered
    <3> QED
      BY <3>1, EventHasOrder DEF IInv, Links, CheckoutLinks
  <2>2. \A p \in Orders : Captured(p) <=> psp[p] \in {"paid", "refunded"}
    BY <2>1 DEF Captured
  <2>3. \A p \in Orders : Captured(p)' <=> psp[p] \in {"paid", "refunded"}
    BY <1>1, <2>1 DEF Captured
  <2>4. \A p \in Orders : checkout'[p] \in {"new", "paying"} =>
          checkout[p] \in {"new", "paying"} /\ pay'[p] = pay[p] /\ tx'[p] = tx[p]
    <3>1. PICK new \in RowType : Flush(hook[h].ev.order, hook[h].row, new)
      BY <1>3, ApplyWrites
    <3>2. /\ hook[h].ev.order \in Orders /\ hook[h].row \in RowType
          /\ checkout[hook[h].ev.order] \notin {"new", "paying"}
      BY <1>3, ApplyWrites, RequestFields, EventHasOrder DEF IInv, Links, Delivered
    <3> QED
      BY <1>1, <3>1, <3>2, FlushWrites DEF IInv
  <2>5. (\A p \in Orders : NotYet(p)' /\ PaidIsCaptured(p)') /\ MovedGoodsAreCaptured'
    BY <1>1, <1>3, <2>2, <2>3, <2>4, ApplyStaysBack, CapturedKept
  <2> QED
    BY <1>1, <1>2, <2>2, <2>3, <2>5, ReliesKept DEF CapturedInv
<1>4. CASE ~Apply(h)
  <2>1. UNCHANGED <<status, pay, tx>>
    BY <1>4 DEF HookNext, Deliver, LookupConfirms, LookupRefuses, RecordEvent,
       RecordLosesRace, ApplyFails, OnlyHook, dbVars
  <2>2. \A p \in Orders : Captured(p)' = Captured(p)
    BY <1>1, <2>1 DEF Captured
  <2>3. (\A p \in Orders : NotYet(p)' /\ PaidIsCaptured(p)') /\ MovedGoodsAreCaptured'
    BY <1>1, <2>1, <2>2, CapturedKept
  <2> QED
    BY <1>1, <1>2, <2>2, <2>3, ReliesKept DEF CapturedInv
<1> QED
  BY <1>3, <1>4
\* What a reconciliation makes of the order, from a row however old.
LEMMA ReconcileStaysBack ==
  ASSUME IInv, CapturedInv, NEW q \in Recons, ReconcilePaid(q) \/ ReconcileFailed(q)
  PROVE  \A o \in Orders :
           /\ status'[o] = status[o] \/ status'[o] \notin FULFILLMENT_STATES
           /\ \/ pay'[o] = pay[o]
              \/ pay'[o] # "paid"
              \/ psp[o] \in {"paid", "refunded"}
<1> DEFINE o == recon[q].order
           r == recon[q].row
<1>1. recon[q].pc = "answered" /\ o \in Orders /\ r \in RowType
  BY ReconcileWrites, RequestFields DEF IInv
<1>2. \A n \in RowType : Flush(o, r, n) => \A p \in Orders \ {o} : /\ status'[p] = status[p]
                                                               /\ pay'[p] = pay[p]
  BY <1>1, FlushWrites DEF IInv
<1>3. \A n \in RowType : Flush(o, r, n) =>
        /\ status'[o] = status[o] \/ (status'[o] = n.status /\ n.status # r.status)
        /\ pay'[o] = pay[o] \/ (pay'[o] = n.pay /\ n.pay # r.pay)
  BY <1>1, FlushWritesChanges DEF IInv
<1>4. CASE ReconcilePaid(q)
  <2>1. CASE recon[q].amountOk
    <3>1. Flush(o, r, IF r.status = "cancelled" THEN AfterCancelledCapture(r)
                      ELSE AfterCapture(r))
      BY <1>4, <2>1 DEF ReconcilePaid
    <3>2. psp[o] \in {"paid", "refunded"}
      BY <1>1, <1>4, <2>1 DEF ReconcilePaid, CapturedInv, ReconRelies
    <3> HIDE DEF o, r
    <3>3. /\ AfterCapture(r) \in RowType /\ AfterCapture(r).status \in {r.status, "processing"}
          /\ AfterCancelledCapture(r) \in RowType /\ AfterCancelledCapture(r).status = r.status
      BY <1>1, RowsAreRows, RowsStayBack
    <3> QED
      BY <1>2, <1>3, <3>1, <3>2, <3>3 DEF FULFILLMENT_STATES
  <2>2. CASE ~recon[q].amountOk
    <3>1. Flush(o, r, AfterMismatch(r))
      BY <1>4, <2>2 DEF ReconcilePaid
    <3> HIDE DEF o, r
    <3>2. /\ AfterMismatch(r) \in RowType
          /\ AfterMismatch(r).status \in {r.status, "failed"}
          /\ AfterMismatch(r).pay \in {r.pay, "failed"}
      BY <1>1, RowsAreRows, RowsStayBack
    <3> QED
      BY <1>2, <1>3, <3>1, <3>2 DEF FULFILLMENT_STATES
  <2> QED
    BY <2>1, <2>2
<1>5. CASE ReconcileFailed(q)
  <2>1. PICK k \in {"failed", "cancelled"} :
          Flush(o, r, AfterFailure(r, k)) \/ UNCHANGED <<status, pay>>
    BY <1>5 DEF ReconcileFailed
  <2> HIDE DEF o, r
  <2>2. /\ AfterFailure(r, k) \in RowType
        /\ AfterFailure(r, k).status \in {r.status, k} /\ AfterFailure(r, k).pay = k
    BY <1>1, RowsAreRows, RowsStayBack
  <2> QED
    BY <1>2, <1>3, <2>1, <2>2 DEF FULFILLMENT_STATES
<1> QED
  BY <1>4, <1>5

\* The steps of a reconciliation.
LEMMA ReconCaptured ==
  ASSUME IInv, CapturedInv, NEW q \in Recons, ReconNext(q)
  PROVE  CapturedInv'
<1>1. /\ UNCHANGED <<method, checkout, hook, op, live, psp>>
      /\ \A g \in Recons \ {q} : recon'[g] = recon[g]
  BY DEF ReconNext, StartReconcile, ProviderAnswers, ReconcileEnds, ReconcilePaid,
     ReconcileFailed, Reconciled, dbVars, envVars, IInv, TypeOK
<1>2. ReconRelies(q)'
  <2>1. CASE \E o \in Orders : StartReconcile(q, o)
    BY <2>1 DEF StartReconcile, ReconRelies, IInv, TypeOK
  <2>2. CASE ProviderAnswers(q)
    <3>1. recon[q].order \in Orders
      BY <2>2, RequestFields DEF ProviderAnswers, IInv
    <3>2. psp[recon[q].order] \in {"paid", "underpaid", "failed", "cancelled"}
      BY <2>2 DEF ProviderAnswers
    <3>3. /\ recon'[q].order = recon[q].order
          /\ recon'[q].remote = IF psp[recon[q].order] = "underpaid" THEN "paid"
                                ELSE psp[recon[q].order]
          /\ recon'[q].amountOk = (psp[recon[q].order] # "underpaid")
      BY <2>2 DEF ProviderAnswers, IInv, TypeOK
    <3> QED
      BY <1>1, <3>2, <3>3 DEF ReconRelies
  <2>3. CASE ReconcileEnds(q) \/ ReconcilePaid(q) \/ ReconcileFailed(q)
    BY <2>3 DEF ReconcileEnds, ReconcilePaid, ReconcileFailed, Reconciled, ReconRelies, Idle,
       IInv, TypeOK
  <2> QED
    BY <2>1, <2>2, <2>3 DEF ReconNext
<1>3. CASE ReconcilePaid(q) \/ ReconcileFailed(q)
  <2>1. PICK new \in RowType : Flush(recon[q].order, recon[q].row, new)
    BY <1>3, ReconcileWrites
  <2>2. /\ recon[q].pc = "answered"
        /\ recon[q].order \in Orders /\ recon[q].row \in RowType
    BY <1>3, ReconcileWrites, RequestFields DEF IInv
  <2>3. psp[recon[q].order] \notin {"none", "open"}
    BY <2>2 DEF IInv, Links, Asked
  <2>4. live /\ checkout[recon[q].order] \notin {"new", "paying"}
    BY <2>2, <2>3 DEF IInv, Links, CheckoutLinks
  <2>5. \A p \in Orders : /\ Captured(p) <=> psp[p] \in {"paid", "refunded"}
                          /\ Captured(p)' <=> psp[p] \in {"paid", "refunded"}
    BY <1>1, <2>4 DEF Captured
  <2>6. \A p \in Orders : checkout'[p] \in {"new", "paying"} =>
          checkout[p] \in {"new", "paying"} /\ pay'[p] = pay[p] /\ tx'[p] = tx[p]
    BY <1>1, <2>1, <2>2, <2>4, FlushWrites DEF IInv
  <2>7. (\A p \in Orders : NotYet(p)' /\ PaidIsCaptured(p)') /\ MovedGoodsAreCaptured'
    BY <1>1, <1>3, <2>5, <2>6, ReconcileStaysBack, CapturedKept
  <2> QED
    BY <1>1, <1>2, <2>5, <2>7, ReliesKept DEF CapturedInv
<1>4. CASE ~ReconcilePaid(q) /\ ~ReconcileFailed(q)
  <2>1. UNCHANGED <<status, pay, tx>>
    BY <1>4 DEF ReconNext, StartReconcile, ProviderAnswers, ReconcileEnds, dbVars
  <2>2. \A p \in Orders : Captured(p)' = Captured(p)
    BY <1>1, <2>1 DEF Captured
  <2>3. (\A p \in Orders : NotYet(p)' /\ PaidIsCaptured(p)') /\ MovedGoodsAreCaptured'
    BY <1>1, <2>1, <2>2, CapturedKept
  <2> QED
    BY <1>1, <1>2, <2>2, <2>3, ReliesKept DEF CapturedInv
<1> QED
  BY <1>3, <1>4
\* The steps of an operator: what its request checked still holds when it commits.
LEMMA AdminCaptured ==
  ASSUME OrderPaymentAssumption, IInv, CapturedInv, NEW a \in Admins, AdminNext(a)
  PROVE  CapturedInv'
<1> USE StatusesDefined
<1>1. /\ UNCHANGED <<method, checkout, hook, recon, live, psp>>
      /\ \A b \in Admins \ {a} : op'[b] = op[b]
  BY DEF AdminNext, StartMove, StartCapture, OperatorReads, OperatorDone, CollectCash,
     CommitMove, CommitCapture, CrashOperator, dbVars, envVars, IInv, TypeOK
<1>2. OpRelies(a)
  BY DEF CapturedInv
<1>3. op[a].pc # "idle" => op[a].order \in Orders /\ checkout[op[a].order] # "new"
  BY RequestFields DEF IInv, Links, Operated
<1>4. ASSUME UNCHANGED <<status, pay, tx>>, OpRelies(a)'
      PROVE  CapturedInv'
  <2>1. \A p \in Orders : Captured(p)' = Captured(p)
    BY <1>1, <1>4 DEF Captured
  <2>2. (\A p \in Orders : NotYet(p)' /\ PaidIsCaptured(p)') /\ MovedGoodsAreCaptured'
    BY <1>1, <1>4, <2>1, CapturedKept
  <2> QED
    BY <1>1, <1>4, <2>1, <2>2, ReliesKept DEF CapturedInv
<1>5. ASSUME NEW o \in Orders, NEW s \in AdminTargets, StartMove(a, o, s)
      PROVE  CapturedInv'
  <2>1. /\ UNCHANGED <<status, pay, tx, live, psp, method, checkout>>
        /\ op' = [op EXCEPT ![a] = [pc |-> IF CashIsDue(o, s) THEN "collect" ELSE "move",
                                    order |-> o, to |-> s]]
    BY <1>5 DEF StartMove, OperatorReads, dbVars, envVars
  <2>2. /\ op'[a].pc = (IF CashIsDue(o, s) THEN "collect" ELSE "move")
        /\ op'[a].order = o
        /\ op'[a].to = s
    BY <2>1 DEF IInv, TypeOK
  <2>3. s \in FULFILLMENT_STATES /\ method[o] = "card" => Captured(o)
    BY <1>5 DEF StartMove, GateOpen, CapturedInv, PaidIsCaptured
  <2>4. CashIsDue(o, s) => method[o] = "cod"
    BY DEF CashIsDue
  <2>5. OpRelies(a)'
    BY <2>1, <2>2, <2>3, <2>4 DEF OpRelies, Captured
  <2> QED
    BY <1>4, <2>1, <2>5
<1>6. ASSUME NEW o \in Orders, StartCapture(a, o)
      PROVE  CapturedInv'
  <2>1. /\ UNCHANGED <<status, pay, tx, live, method, checkout>>
        /\ op' = [op EXCEPT ![a] = [pc |-> "capture", order |-> o]]
        /\ ~live /\ pay[o] = "authorized" /\ status[o] # "none"
    BY <1>6 DEF StartCapture, OperatorReads, Placed, dbVars, envVars
  <2>2. op'[a].pc = "capture" /\ op'[a].order = o
    BY <2>1 DEF IInv, TypeOK
  <2>3. method[o] # "cod" => checkout[o] \notin {"new", "paying"}
    BY <2>1 DEF CapturedInv, NotYet
  <2>4. OpRelies(a)'
    BY <2>1, <2>2, <2>3 DEF OpRelies
  <2> QED
    BY <1>4, <2>1, <2>4
<1>7. ASSUME CrashOperator(a)
      PROVE  CapturedInv'
  <2>1. UNCHANGED <<status, pay, tx>> /\ OpRelies(a)'
    BY <1>7 DEF CrashOperator, OpRelies, Idle, dbVars, IInv, TypeOK
  <2> QED
    BY <1>4, <2>1
<1>8. ASSUME CollectCash(a)
      PROVE  CapturedInv'
  <2>1. PICK o \in Orders : o = op[a].order
    BY <1>3, <1>8 DEF CollectCash
  <2>2. /\ method[o] = "cod"
        /\ pay' = [pay EXCEPT ![o] = "paid"] /\ tx' = [tx EXCEPT ![o] = "paid"]
        /\ UNCHANGED status
        /\ op' = [op EXCEPT ![a].pc = "move"]
    BY <1>2, <1>8, <2>1 DEF CollectCash, OpRelies
  <2>3. \A p \in Orders : Captured(p) => Captured(p)'
    BY <1>1, <2>2 DEF Captured, IInv, TypeOK
  <2>4. (\A p \in Orders : NotYet(p)' /\ PaidIsCaptured(p)') /\ MovedGoodsAreCaptured'
    BY <1>1, <2>2, <2>3, CapturedKept DEF IInv, TypeOK
  <2>5. op'[a].pc = "move" /\ op'[a].order = o
    BY <1>8, <2>1, <2>2 DEF CollectCash, IInv, TypeOK, OpType
  <2>6. OpRelies(a)'
    BY <1>1, <2>2, <2>5 DEF OpRelies
  <2> QED
    BY <1>1, <2>3, <2>4, <2>6, ReliesKept DEF CapturedInv
<1>9. ASSUME CommitMove(a)
      PROVE  CapturedInv'
  <2>1. PICK o \in Orders : o = op[a].order
    BY <1>3, <1>9 DEF CommitMove
  <2>2. /\ status' = [status EXCEPT ![o] = op[a].to]
        /\ UNCHANGED <<pay, tx>>
        /\ op' = [op EXCEPT ![a] = Idle]
    BY <1>9, <2>1 DEF CommitMove, OperatorDone
  <2>3. op[a].to \in FULFILLMENT_STATES /\ method[o] = "card" => Captured(o)
    BY <1>2, <1>9, <2>1 DEF CommitMove, OpRelies, Captured
  <2>4. \A p \in Orders : Captured(p)' = Captured(p)
    BY <1>1, <2>2 DEF Captured
  <2>5. \A p \in Orders : \/ status'[p] = status[p]
                          \/ status'[p] \notin FULFILLMENT_STATES
                          \/ method[p] = "card" => Captured(p)'
    BY <2>2, <2>3, <2>4 DEF IInv, TypeOK
  <2>6. (\A p \in Orders : NotYet(p)' /\ PaidIsCaptured(p)') /\ MovedGoodsAreCaptured'
    BY <1>1, <2>2, <2>4, <2>5, CapturedKept
  <2>7. OpRelies(a)'
    BY <2>2 DEF OpRelies, Idle, IInv, TypeOK
  <2> QED
    BY <1>1, <2>4, <2>6, <2>7, ReliesKept DEF CapturedInv
<1>10. ASSUME CommitCapture(a)
       PROVE  CapturedInv'
  <2>1. PICK o \in Orders : o = op[a].order
    BY <1>3, <1>10 DEF CommitCapture
  <2>2. /\ ~live
        /\ method[o] # "cod" => checkout[o] \notin {"new", "paying"}
        /\ pay' = [pay EXCEPT ![o] = "paid"] /\ tx' = [tx EXCEPT ![o] = "paid"]
        /\ UNCHANGED status
        /\ op' = [op EXCEPT ![a] = Idle]
    BY <1>2, <1>10, <2>1 DEF CommitCapture, OperatorDone, OpRelies
  <2>3. Captured(o)' /\ \A p \in Orders : Captured(p) => Captured(p)'
    BY <1>1, <2>2 DEF Captured, IInv, TypeOK
  <2>4. \A p \in Orders \ {o} : pay'[p] = pay[p] /\ tx'[p] = tx[p]
    BY <2>2 DEF IInv, TypeOK
  <2>5. (\A p \in Orders : NotYet(p)' /\ PaidIsCaptured(p)') /\ MovedGoodsAreCaptured'
    BY <1>1, <2>2, <2>3, <2>4, CapturedKept
  <2>6. OpRelies(a)'
    BY <2>2 DEF OpRelies, Idle, IInv, TypeOK
  <2> QED
    BY <1>1, <2>3, <2>5, <2>6, ReliesKept DEF CapturedInv
<1> QED
  BY <1>5, <1>6, <1>7, <1>8, <1>9, <1>10 DEF AdminNext

\* Every step keeps what captures rest on.
LEMMA StepCaptured ==
  ASSUME OrderPaymentAssumption, IInv, CapturedInv, [Next]_vars
  PROVE  CapturedInv'
<1>1. CASE SweepReads \/ SweepCommits \/ UNCHANGED vars
  <2>1. UNCHANGED <<status, pay, tx, method, checkout, hook, recon, op, live, psp>>
    BY <1>1 DEF SweepReads, SweepCommits, vars, dbVars, reqVars, envVars
  <2>2. \A p \in Orders : Captured(p)' = Captured(p)
    BY <2>1 DEF Captured
  <2>3. (\A p \in Orders : NotYet(p)' /\ PaidIsCaptured(p)') /\ MovedGoodsAreCaptured'
    BY <2>1, <2>2, CapturedKept
  <2> QED
    BY <2>1, <2>2, <2>3, ReliesKept DEF CapturedInv
<1> QED
  BY <1>1, CheckoutCaptured, PspCaptured, HookCaptured, ReconCaptured, AdminCaptured DEF Next

\* Goods of a card order never move without its money, with any number of workers,
\* operators, deliveries and reconciliations, and however stale the rows they hold.
THEOREM GoodsMoveOnlyWhenCaptured == Spec => []MovedGoodsAreCaptured
<1>1. Init => CapturedInv
  BY DEF Init, CapturedInv, NotYet, PaidIsCaptured, HookRelies, ReconRelies, OpRelies,
     MovedGoodsAreCaptured, Idle, FULFILLMENT_STATES
<1>2. IInv /\ CapturedInv /\ [Next]_vars => CapturedInv'
  BY OrderPaymentAssumption, StepCaptured
<1>3. CapturedInv => MovedGoodsAreCaptured
  BY DEF CapturedInv
<1> QED
  BY <1>1, <1>2, <1>3, AlwaysIInv, PTL DEF Spec
=============================================================================
