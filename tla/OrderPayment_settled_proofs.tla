-------------------- MODULE OrderPayment_settled_proofs --------------------
(***************************************************************************)
(* Settled money: a paid card order keeps its unit, the payment and the    *)
(* unit of a card order are a Sale, a settled payment only moves forward,  *)
(* and whoever has the goods has paid, for any number of orders,           *)
(* deliveries, operators and faults.                                       *)
(*                                                                         *)
(* Several workers, or a reconciliation, break all four; that is what the  *)
(* assumption below excludes.  Cash that is collected while its checkout   *)
(* is still running is overwritten by the end of that checkout: the last   *)
(* two are claimed for the orders that are not in "early".                 *)
(*                                                                         *)
(* The argument: one event loop lets nothing write the payment of a card   *)
(* order between the reload of a row and the use of it, so a handler       *)
(* decides on what the database holds.  A settlement of the provider is    *)
(* applied once, and only a checkout that ended well has one.  Cash that   *)
(* is there after the checkout is not written any more.                    *)
(***************************************************************************)
EXTENDS OrderPayment_proofs

\* One worker process serves all requests, and reconciliation is not in use: with
\* either, handlers decide on rows that are out of date.
OneWorker == SingleWorker /\ Recons = {}

(***************************************************************************)
(* What payments rest on                                                   *)
(***************************************************************************)

\* Payments that nothing has failed or given back.
Standing == {"pending", "pending_delivery", "authorized", "paid"}

\* A delivery that is about to apply its event is alone, and knows the payment.
HookFresh ==
  \A h \in Hooks : hook[h].pc = "apply" =>
    /\ \A o \in Orders : checkout[o] # "recorded"
    /\ \A g \in Hooks \ {h} : hook[g].pc # "apply"
    /\ hook[h].row.pay = pay[hook[h].ev.order]

CapturedEvent(o) == [order |-> o, kind |-> "captured"]

\* A card order is paid after its checkout only, keeps its unit as long as its payment
\* stands, and gives it back with the payment.
CardOrder(o) == method[o] = "card" =>
  /\ checkout[o] # "new"
  /\ checkout[o] # "done" => pay[o] \in {"pending", "failed", "cancelled"}
  /\ checkout[o] \in {"paying", "recorded"} => pay[o] = "pending"
  /\ checkout[o] = "recorded" => answer[o].row.pay = "pending"
  /\ checkout[o] = "done" /\ pay[o] \in Standing => resv[o] = "committed"
  /\ pay[o] \in {"failed", "cancelled"} => o \notin Holding
  /\ live /\ pay[o] \in SettledPayments => CapturedEvent(o) \in applied

\* Cash is due, or there; if its checkout is still running, it came early.
CashPayment(o) == method[o] = "cod" =>
  /\ pay[o] \in {"pending", "paid"}
  /\ checkout[o] = "recorded" => answer[o].pay = "pending"
  /\ CheckoutRuns(o) /\ pay[o] = "paid" => o \in early

\* The provider settles the invoices of checkouts that ended well.
SentByDone == \A o \in Orders : CapturedEvent(o) \in sent => checkout[o] = "done"

\* An operator captures what is authorised or captured already.
CaptureRelies(a) == op[a].pc = "capture" =>
  /\ ~live
  /\ method[op[a].order] = "card" /\ checkout[op[a].order] = "done"
  /\ pay[op[a].order] \in {"authorized", "paid"}

PayInv ==
  /\ HookFresh
  /\ \A o \in Orders : CardOrder(o) /\ CashPayment(o)
  /\ SentByDone
  /\ \A a \in Admins : CaptureRelies(a)

(***************************************************************************)
(* What is known of the system already                                     *)
(***************************************************************************)
Known == IInv /\ CapturedInv /\ KeyedOnce

LEMMA AlwaysKnown == Spec => []Known
<1>1. Init => CapturedInv /\ KeyedOnce
  BY DEF Init, CapturedInv, NotYet, PaidIsCaptured, HookRelies, ReconRelies, OpRelies,
     MovedGoodsAreCaptured, Idle, FULFILLMENT_STATES, KeyedOnce, AppliedOnce
<1>2. IInv /\ CapturedInv /\ KeyedOnce /\ [Next]_vars => CapturedInv' /\ KeyedOnce'
  BY OrderPaymentAssumption, StepCaptured, StepKeyedOnce
<1>3. IInv /\ CapturedInv /\ KeyedOnce <=> Known
  BY DEF Known
<1> QED
  BY <1>1, <1>2, <1>3, AlwaysIInv, PTL DEF Spec

\* The rows of PAYMENT_TRANSITIONS that matter here.
LEMMA PaymentTable ==
  /\ SettledPayments \subseteq PaymentStatuses
  /\ \A p \in SettledPayments : /\ CanPay(p, p)
                                /\ ~CanPay(p, "failed") /\ ~CanPay(p, "cancelled")
  /\ \A p \in SettledPayments : \A q : CanPay(p, q) => q \in SettledPayments
  /\ \A p \in PaymentStatuses : CanPay(p, "refunded") => p \in SettledPayments
  /\ \A p \in PaymentStatuses : CanPay(p, "paid") => p \in Standing \union SettledPayments
BY DEF SettledPayments, PaymentStatuses, PAYMENT_TRANSITIONS, CanPay, Standing

\* A delivery that is about to apply an event knows a card order, live.
LEMMA AboutToApply ==
  ASSUME Known, PayInv, NEW h \in Hooks, hook[h].pc = "apply"
  PROVE  /\ hook[h].ev \in Events /\ hook[h].ev.order \in Orders /\ hook[h].row \in RowType
         /\ hook[h].ev.kind \in {"captured", "failed", "cancelled", "refunded"}
         /\ live /\ method[hook[h].ev.order] = "card"
         /\ checkout[hook[h].ev.order] \notin {"new", "paying", "recorded"}
         /\ hook[h].ev \notin applied
         /\ hook[h].row.pay = pay[hook[h].ev.order]
         /\ hook[h].ev.kind = "captured" => /\ hook[h].ev = CapturedEvent(hook[h].ev.order)
                                            /\ checkout[hook[h].ev.order] = "done"
<1>1. hook[h].ev \in sent /\ hook[h].row \in RowType
  BY RequestFields DEF Known, IInv, Links, Delivered
<1>2. /\ hook[h].ev \in Events /\ hook[h].ev.order \in Orders
      /\ checkout[hook[h].ev.order] \notin {"new", "paying", "recorded"}
      /\ psp[hook[h].ev.order] \notin {"none", "open"}
  BY <1>1, EventHasOrder DEF Known
<1>3. live /\ method[hook[h].ev.order] = "card"
  BY <1>2 DEF Known, IInv, Links, CheckoutLinks
<1>4. hook[h].ev \notin applied /\ hook[h].row.pay = pay[hook[h].ev.order]
  BY DEF Known, KeyedOnce, AppliedOnce, PayInv, HookFresh
<1>5. ASSUME hook[h].ev.kind = "captured"
      PROVE  /\ hook[h].ev = CapturedEvent(hook[h].ev.order)
             /\ checkout[hook[h].ev.order] = "done"
  <2>1. hook[h].ev = CapturedEvent(hook[h].ev.order)
    BY <1>2, <1>5 DEF Events, CapturedEvent
  <2> QED
    BY <1>1, <1>2, <2>1 DEF PayInv, SentByDone
<1>6. hook[h].ev.kind \in {"captured", "failed", "cancelled", "refunded"}
  BY <1>2 DEF Events
<1> QED
  BY <1>1, <1>2, <1>3, <1>4, <1>5, <1>6

\* What an event makes of the payment of its order: settled money goes forward, only
\* a capture settles it, and a unit is given back only with the payment.
LEMMA ApplyPays ==
  ASSUME Known, PayInv, NEW h \in Hooks, Apply(h), NEW o \in Orders, o = hook[h].ev.order
  PROVE  /\ pay[o] \in SettledPayments => CanPay(pay[o], pay'[o])
         /\ pay'[o] \in SettledPayments => pay[o] \in SettledPayments \/ hook[h].ev = CapturedEvent(o)
         /\ pay'[o] \in Standing => pay[o] \in Standing /\ resv'[o] = resv[o]
         /\ \/ resv'[o] = resv[o]
            \/ pay'[o] \in {"failed", "cancelled"} /\ pay[o] \notin SettledPayments
         /\ pay'[o] \in {"failed", "cancelled"} => resv'[o] \notin {"held", "committed"}
         /\ /\ checkout[o] # "done"
            /\ pay[o] \in {"pending", "failed", "cancelled"}
            => pay'[o] \in {"pending", "failed", "cancelled"}
         /\ \A p \in Orders \ {o} : pay'[p] = pay[p] /\ resv'[p] = resv[p]
<1> DEFINE r == hook[h].row
<1>1. /\ hook[h].pc = "apply"
      /\ ReleaseInventory(o) \/ UNCHANGED resv
      /\ \E new \in RowType : Flush(o, r, new)
  BY ApplyWrites DEF Known
<1>2. /\ r \in RowType /\ r.pay = pay[o] /\ pay[o] \in PaymentStatuses
      /\ hook[h].ev \notin applied
      /\ live /\ method[o] = "card"
      /\ hook[h].ev.kind = "captured" => hook[h].ev = CapturedEvent(o) /\ checkout[o] = "done"
  BY <1>1, AboutToApply DEF Known, IInv, TypeOK
<1>3. \A new \in RowType : Flush(o, r, new) => pay'[o] = new.pay
  BY <1>2 DEF Flush, Known, IInv, TypeOK
<1>4. \A p \in Orders \ {o} : pay'[p] = pay[p] /\ resv'[p] = resv[p]
  BY <1>1, <1>2, FlushWrites DEF ReleaseInventory, Known, IInv, TypeOK
<1>8. pay[o] \in {"failed", "cancelled"} => resv[o] \notin {"held", "committed"}
  BY <1>2 DEF PayInv, CardOrder, Holding
<1>9. ReleaseInventory(o) => resv'[o] \notin {"held", "committed"}
  BY DEF ReleaseInventory, Known, IInv, TypeOK
<1> HIDE DEF r
<1>5. CASE ApplyCaptured(h)
  <2>1. hook[h].ev.kind = "captured"
    BY <1>5 DEF ApplyCaptured
  <2>2. pay[o] \notin SettledPayments
    BY <1>2, <2>1 DEF PayInv, CardOrder, Holding
  <2>3. CASE hook[h].amountOk
    <3>1. Flush(o, r, CaptureResult(r)) /\ resv' = resv
      BY <1>5, <2>3 DEF ApplyCaptured, r
    <3>2. pay'[o] = CaptureResult(r).pay
      BY <1>2, <1>3, <3>1, RowsAreRows
    <3>3. /\ pay'[o] \in {pay[o], "refund_pending", "paid"}
          /\ pay'[o] = "paid" => pay[o] \in Standing
      BY <1>2, <2>2, <3>2, RowsStayBack, PaymentTable DEF CaptureResult, AfterCapture, Standing
    <3> QED
      BY <1>2, <1>4, <1>8, <2>1, <2>2, <3>1, <3>3 DEF Standing, SettledPayments
  <2>4. CASE ~hook[h].amountOk
    <3>1. /\ Flush(o, r, AfterMismatch(r))
          /\ IF MismatchFailsOrder(r) THEN ReleaseInventory(o) ELSE resv' = resv
      BY <1>5, <2>4 DEF ApplyCaptured, r
    <3>2. pay'[o] = AfterMismatch(r).pay
      BY <1>2, <1>3, <3>1, RowsAreRows
    <3>3. IF MismatchFailsOrder(r) THEN pay'[o] = "failed" /\ ReleaseInventory(o)
           ELSE pay'[o] = pay[o] /\ resv' = resv
      BY <1>2, <3>1, <3>2 DEF AfterMismatch
    <3> QED
      BY <1>2, <1>4, <1>8, <1>9, <2>1, <2>2, <3>3 DEF Standing, SettledPayments
  <2> QED
    BY <2>3, <2>4
<1>6. CASE ApplyFailure(h)
  <2> DEFINE k == hook[h].ev.kind
  <2>1. k \in {"failed", "cancelled"}
    BY <1>6 DEF ApplyFailure
  <2>2. CASE CanPay(r.pay, k)
    <3>1. Flush(o, r, AfterFailure(r, k)) /\ ReleaseInventory(o)
      BY <1>6, <2>2 DEF ApplyFailure, r
    <3>2. AfterFailure(r, k) \in RowType /\ AfterFailure(r, k).pay = k
      BY <1>2, <2>1, RowsAreRows, RowsStayBack
    <3>3. pay'[o] = k
      BY <1>3, <3>1, <3>2
    <3>4. pay[o] \notin SettledPayments
      BY <1>2, <2>1, <2>2, PaymentTable
    <3> QED
      BY <1>4, <1>9, <2>1, <3>1, <3>3, <3>4 DEF Standing, SettledPayments
  <2>3. CASE ~CanPay(r.pay, k)
    <3>1. pay' = pay /\ resv' = resv
      BY <1>6, <2>3 DEF ApplyFailure, r
    <3> QED
      BY <1>4, <1>8, <3>1, PaymentTable
  <2> QED
    BY <2>2, <2>3
<1>7. CASE ApplyRefund(h)
  <2>1. Flush(o, r, AfterRefund(r)) /\ resv' = resv
    BY <1>7 DEF ApplyRefund, r
  <2>2. pay'[o] = AfterRefund(r).pay
    BY <1>2, <1>3, <2>1, RowsAreRows
  <2>3. IF CanPay(pay[o], "refunded") THEN pay'[o] = "refunded" ELSE pay'[o] = pay[o]
    BY <1>2, <2>2 DEF AfterRefund
  <2> QED
    BY <1>2, <1>4, <1>8, <2>1, <2>3, PaymentTable DEF Standing, SettledPayments
<1> QED
  BY <1>5, <1>6, <1>7 DEF Apply

(***************************************************************************)
(* Every step keeps what payments rest on                                  *)
(***************************************************************************)

\* An order that a step leaves alone.
LEMMA OrderKept ==
  ASSUME PayInv, NEW o \in Orders, live' = live, applied \subseteq applied',
         early \subseteq early',
         pay'[o] = pay[o], method'[o] = method[o], checkout'[o] = checkout[o],
         answer'[o] = answer[o], resv'[o] = resv[o]
  PROVE  CardOrder(o)' /\ CashPayment(o)'
<1>1. CapturedEvent(o)' = CapturedEvent(o)
  BY DEF CapturedEvent
<1>2. CardOrder(o) /\ CashPayment(o)
  BY DEF PayInv
<1>3. CardOrder(o)'
  BY <1>1, <1>2 DEF CardOrder, Holding
<1>4. CashPayment(o)'
  BY <1>2 DEF CashPayment, CheckoutRuns
<1> QED
  BY <1>3, <1>4

\* A step that leaves the orders and the deliveries alone.
LEMMA AllKept ==
  ASSUME Known, PayInv, SentByDone', UNCHANGED <<pay, method, checkout, answer, resv, live, applied, early>>,
         \A h \in Hooks : hook'[h] = hook[h] \/ hook'[h].pc # "apply",
         \A a \in Admins : op'[a] = op[a] \/ op'[a].pc # "capture"
  PROVE  PayInv'
<1>1. \A o \in Orders : CardOrder(o)' /\ CashPayment(o)'
  BY OrderKept
<1>2. HookFresh'
  BY DEF PayInv, HookFresh
<1>3. \A a \in Admins : CaptureRelies(a)'
  BY DEF PayInv, CaptureRelies
<1> QED
  BY <1>1, <1>2, <1>3 DEF PayInv

\* A checkout places its order, or asks the provider: no delivery is half done.
LEMMA CheckoutBeginsPays ==
  ASSUME OrderPaymentAssumption, OneWorker, Known, PayInv, NEW o \in Orders,
         (\E m \in Methods : PlaceOrder(o, m)) \/ RecordPayment(o)
  PROVE  PayInv'
<1>1. /\ UNCHANGED <<pay, live, applied, early, sent, hook, op>>
      /\ checkout[o] \in {"new", "paying"} /\ LoopFree
      /\ \A p \in Orders \ {o} : /\ checkout'[p] = checkout[p] /\ answer'[p] = answer[p]
                                 /\ method'[p] = method[p] /\ resv'[p] = resv[p]
      /\ checkout'[o] \in {"paying", "recorded"}
  BY DEF PlaceOrder, RecordPayment, envVars, Known, IInv, TypeOK
<1>2. \A h \in Hooks : hook'[h].pc # "apply"
  BY <1>1 DEF LoopFree, OneWorker
<1>3. CardOrder(o)' /\ CashPayment(o)'
  <2>1. CASE \E m \in Methods : PlaceOrder(o, m)
    <3>1. checkout[o] = "new" /\ pay[o] = "pending"
      BY <2>1 DEF PlaceOrder, Known, IInv, Links, CheckoutLinks
    <3>2. checkout'[o] = "paying" /\ pay'[o] = "pending" /\ method'[o] \in Methods
      BY <1>1, <2>1, <3>1 DEF PlaceOrder, Known, IInv, TypeOK
    <3>3. CardOrder(o)'
      BY <3>2 DEF CardOrder, Holding, SettledPayments
    <3>4. CashPayment(o)'
      BY <3>2 DEF CashPayment
    <3> QED
      BY <3>3, <3>4
  <2>2. CASE RecordPayment(o)
    <3>1. PICK a \in MappedAnswers(method[o]) :
            answer' = [answer EXCEPT ![o] = [pay |-> a, row |-> [Row(o) EXCEPT !.tx = a]]]
      BY <2>2 DEF RecordPayment
    <3>2. answer'[o].pay = a /\ answer'[o].row.pay = pay[o]
      BY <3>1 DEF Row, Known, IInv, TypeOK
    <3>3. checkout[o] = "paying" /\ checkout'[o] = "recorded" /\ method' = method
      BY <2>2 DEF RecordPayment, Known, IInv, TypeOK
    <3>4. CardOrder(o) /\ CashPayment(o)
      BY DEF PayInv
    <3>5. method[o] = "cod" => a = "pending"
      BY DEF MappedAnswers
    <3>6. CardOrder(o)'
      BY <1>1, <3>2, <3>3, <3>4 DEF CardOrder, Holding, SettledPayments
    <3>7. CashPayment(o)'
      BY <1>1, <3>2, <3>3, <3>4, <3>5 DEF CashPayment, CheckoutRuns
    <3> QED
      BY <3>6, <3>7
  <2> QED
    BY <2>1, <2>2
<1>4. \A p \in Orders : CardOrder(p)' /\ CashPayment(p)'
  BY <1>1, <1>3, OrderKept
<1>5. SentByDone'
  BY <1>1 DEF PayInv, SentByDone, CapturedEvent
<1>6. ASSUME NEW a \in Admins PROVE CaptureRelies(a)'
  <2>1. op[a].pc = "capture" => op[a].order \in Orders /\ op[a].order # o
    BY <1>1, RequestFields DEF PayInv, CaptureRelies, Known, IInv
  <2> QED
    BY <1>1, <2>1 DEF PayInv, CaptureRelies
<1> QED
  BY <1>2, <1>4, <1>5, <1>6 DEF PayInv, HookFresh

\* What the end of a checkout writes into the payment.
LEMMA FinishPays ==
  ASSUME Known, PayInv, NEW o \in Orders, FinishAccepted(o) \/ FinishDeclined(o)
  PROVE  /\ checkout[o] = "recorded"
         /\ \A p \in Orders \ {o} : pay'[p] = pay[p]
         /\ pay'[o] = answer[o].pay
         /\ answer[o].pay \in {"pending", "authorized", "failed"}
BY FinishWrites DEF Known, IInv, TypeOK

\* A checkout ends.
LEMMA CheckoutEndsPays ==
  ASSUME OrderPaymentAssumption, OneWorker, Known, PayInv, NEW o \in Orders,
         FinishAccepted(o) \/ FinishDeclined(o) \/ FinishRaises(o) \/ CrashCheckout(o)
  PROVE  PayInv'
<1>1. /\ UNCHANGED <<method, answer, hook, op, live, sent, applied, early>>
      /\ checkout[o] \in {"paying", "recorded"}
      /\ \A p \in Orders \ {o} : /\ checkout'[p] = checkout[p] /\ resv'[p] = resv[p]
                                 /\ pay'[p] = pay[p]
      /\ checkout'[o] \in {"done", "declined", "raised", "crashed"}
  <2>1. CASE FinishAccepted(o) \/ FinishDeclined(o)
    <3>1. PICK outcome \in {"done", "declined"} : Finish(o, outcome)
      BY <2>1 DEF FinishAccepted, FinishDeclined
    <3>2. \A p \in Orders \ {o} : resv'[p] = resv[p]
      BY <2>1 DEF FinishAccepted, FinishDeclined, ReleaseInventory, Known, IInv, TypeOK
    <3>3. /\ UNCHANGED <<method, answer, hook, op, live, sent, applied, early>>
          /\ checkout' = [checkout EXCEPT ![o] = outcome]
      BY <3>1 DEF Finish, envVars
    <3> QED
      BY <2>1, <3>2, <3>3, FinishPays DEF Known, IInv, TypeOK
  <2>2. CASE FinishRaises(o) \/ CrashCheckout(o)
    BY <2>2 DEF FinishRaises, CrashCheckout, dbVars, envVars, Known, IInv, TypeOK
  <2> QED
    BY <2>1, <2>2
<1>2. CardOrder(o) /\ CashPayment(o)
  BY DEF PayInv
<1>3. CardOrder(o)' /\ CashPayment(o)'
  <2>1. CASE FinishAccepted(o) \/ FinishDeclined(o)
    <3>1. /\ checkout[o] = "recorded"
          /\ pay'[o] = answer[o].pay
          /\ answer[o].pay \in {"pending", "authorized", "failed"}
      BY <2>1, FinishPays
    <3>2. method[o] = "card" => pay'[o] = answer[o].pay
      BY <1>2, <3>1 DEF CardOrder, Holding
    <3>3. \/ checkout'[o] = "done" /\ resv'[o] = "committed" /\ answer[o].pay # "failed"
          \/ /\ checkout'[o] = "declined" /\ answer[o].pay = "failed"
             /\ resv'[o] \notin {"held", "committed"}
      BY <2>1 DEF FinishAccepted, FinishDeclined, Finish, ReleaseInventory, Known, IInv, TypeOK
    <3>4. CardOrder(o)'
      BY <1>1, <3>1, <3>2, <3>3 DEF CardOrder, Holding, SettledPayments
    <3>5. CashPayment(o)'
      BY <1>1, <1>2, <3>1 DEF CashPayment, CheckoutRuns
    <3> QED
      BY <3>4, <3>5
  <2>2. CASE FinishRaises(o) \/ CrashCheckout(o)
    <3>1. UNCHANGED <<pay, resv>> /\ checkout'[o] \in {"raised", "crashed"}
      BY <2>2 DEF FinishRaises, CrashCheckout, dbVars, Known, IInv, TypeOK
    <3>2. CardOrder(o)'
      BY <1>1, <1>2, <3>1 DEF CardOrder, Holding, SettledPayments
    <3>3. CashPayment(o)'
      BY <1>1, <1>2, <3>1 DEF CashPayment, CheckoutRuns
    <3> QED
      BY <3>2, <3>3
  <2> QED
    BY <2>1, <2>2
<1>4. \A p \in Orders : CardOrder(p)' /\ CashPayment(p)'
  BY <1>1, <1>3, OrderKept
<1>5. SentByDone'
  BY <1>1 DEF PayInv, SentByDone, CapturedEvent
<1>6. HookFresh'
  <2> SUFFICES ASSUME NEW h \in Hooks, hook[h].pc = "apply"
               PROVE  /\ \A p \in Orders : checkout'[p] # "recorded"
                      /\ \A g \in Hooks \ {h} : hook[g].pc # "apply"
                      /\ hook[h].row.pay = pay'[hook[h].ev.order]
    BY <1>1 DEF HookFresh
  <2>1. /\ \A p \in Orders : checkout[p] # "recorded"
        /\ \A g \in Hooks \ {h} : hook[g].pc # "apply"
        /\ hook[h].row.pay = pay[hook[h].ev.order]
    BY DEF PayInv, HookFresh
  <2>2. hook[h].ev.order \in Orders \ {o}
    BY <1>1, AboutToApply
  <2> QED
    BY <1>1, <2>1, <2>2
<1>7. ASSUME NEW a \in Admins PROVE CaptureRelies(a)'
  <2>1. op[a].pc = "capture" => op[a].order \in Orders /\ op[a].order # o
    BY <1>1, RequestFields DEF PayInv, CaptureRelies, Known, IInv
  <2> QED
    BY <1>1, <2>1 DEF PayInv, CaptureRelies
<1> QED
  BY <1>4, <1>5, <1>6, <1>7 DEF PayInv

\* The provider settles what a checkout that ended well has offered.
LEMMA ProviderPays ==
  ASSUME Known, PayInv, NEW o \in Orders, PspNext(o)
  PROVE  PayInv'
<1>1. UNCHANGED <<pay, method, checkout, answer, resv, live, applied, early, hook, op>>
  BY DEF PspNext, PspFails, PspPays, PspExpires, PspRefunds, PspMove, dbVars, reqVars
<1>2. PICK k : /\ sent' = sent \union {[order |-> o, kind |-> k]}
               /\ k = "captured" => checkout[o] = "done"
  BY DEF PspNext, PspFails, PspPays, PspExpires, PspRefunds, Emit
<1>3. SentByDone'
  <2> SUFFICES ASSUME NEW p \in Orders, CapturedEvent(p) \in sent'
               PROVE  checkout[p] = "done"
    BY <1>1 DEF SentByDone, CapturedEvent
  <2>1. CASE CapturedEvent(p) \in sent
    BY <2>1 DEF PayInv, SentByDone
  <2>2. CASE CapturedEvent(p) = [order |-> o, kind |-> k]
    BY <1>2, <2>2 DEF CapturedEvent
  <2> QED
    BY <1>2, <2>1, <2>2
<1> QED
  BY <1>1, <1>3, AllKept

\* An event is applied.
LEMMA ApplyKeeps ==
  ASSUME Known, PayInv, NEW h \in Hooks, Apply(h)
  PROVE  PayInv'
<1>1. PICK o \in Orders : o = hook[h].ev.order
  BY ApplyWrites, AboutToApply DEF Known
<1>2. /\ hook[h].pc = "apply" /\ Applied(h)
      /\ live /\ method[o] = "card" /\ checkout[o] \notin {"new", "paying", "recorded"}
      /\ hook[h].ev.kind = "captured" => checkout[o] = "done"
  BY <1>1, ApplyWrites, AboutToApply DEF Known
<1>3. /\ UNCHANGED <<method, checkout, answer, op, live, sent, early>>
      /\ applied' = applied \union {hook[h].ev}
      /\ hook' = [hook EXCEPT ![h] = Idle]
  BY <1>2 DEF Applied
<1>4. CardOrder(o)'
  <2>1. CardOrder(o)
    BY DEF PayInv
  <2>2. /\ pay'[o] \in SettledPayments => pay[o] \in SettledPayments \/ hook[h].ev = CapturedEvent(o)
        /\ pay'[o] \in Standing => pay[o] \in Standing /\ resv'[o] = resv[o]
        /\ /\ checkout[o] # "done"
           /\ pay[o] \in {"pending", "failed", "cancelled"}
           => pay'[o] \in {"pending", "failed", "cancelled"}
        /\ pay'[o] \in {"failed", "cancelled"} => resv'[o] \notin {"held", "committed"}
    BY <1>1, ApplyPays
  <2>3. checkout'[o] # "done" => pay'[o] \in {"pending", "failed", "cancelled"}
    BY <1>2, <1>3, <2>1, <2>2 DEF CardOrder, Holding
  <2>4. checkout'[o] = "done" /\ pay'[o] \in Standing => resv'[o] = "committed"
    BY <1>2, <1>3, <2>1, <2>2 DEF CardOrder, Holding
  <2>5. pay'[o] \in SettledPayments => CapturedEvent(o)' \in applied'
    BY <1>2, <1>3, <2>1, <2>2 DEF CardOrder, Holding, CapturedEvent
  <2> QED
    BY <1>2, <1>3, <2>2, <2>3, <2>4, <2>5 DEF CardOrder, Holding
<1>5. CashPayment(o)'
  BY <1>2, <1>3 DEF CashPayment
<1>6. \A p \in Orders \ {o} : pay'[p] = pay[p] /\ resv'[p] = resv[p]
  BY <1>1, ApplyPays
<1>7. \A p \in Orders : CardOrder(p)' /\ CashPayment(p)'
  BY <1>3, <1>4, <1>5, <1>6, OrderKept
<1>8. SentByDone'
  BY <1>3 DEF PayInv, SentByDone, CapturedEvent
<1>9. HookFresh'
  <2>1. \A g \in Hooks : hook'[g].pc # "apply"
    BY <1>2, <1>3 DEF PayInv, HookFresh, Known, IInv, TypeOK, Idle
  <2> QED
    BY <2>1 DEF HookFresh
<1>10. \A a \in Admins : CaptureRelies(a)'
  BY <1>2, <1>3 DEF PayInv, CaptureRelies
<1> QED
  BY <1>7, <1>8, <1>9, <1>10 DEF PayInv

\* A delivery goes on.
LEMMA HookPays ==
  ASSUME OneWorker, Known, PayInv, NEW h \in Hooks, HookNext(h)
  PROVE  PayInv'
<1>1. CASE Apply(h)
  BY <1>1, ApplyKeeps
<1>2. CASE ~Apply(h)
  <2>1. /\ UNCHANGED <<pay, method, checkout, answer, resv, live, applied, early, sent, op>>
        /\ \A g \in Hooks \ {h} : hook'[g] = hook[g]
    BY <1>2 DEF HookNext, Deliver, LookupConfirms, LookupRefuses, RecordEvent, RecordLosesRace,
       ApplyFails, OnlyHook, dbVars, envVars, Known, IInv, TypeOK
  <2>2. SentByDone'
    BY <2>1 DEF PayInv, SentByDone, CapturedEvent
  <2>3. CASE RecordEvent(h)
    <3>1. /\ LoopFree
          /\ hook' = [hook EXCEPT ![h] = [pc |-> "apply", ev |-> hook[h].ev,
                                         amountOk |-> hook[h].amountOk,
                                         row |-> Row(hook[h].ev.order)]]
      BY <2>3 DEF RecordEvent
    <3>2. /\ hook'[h].ev = hook[h].ev /\ hook'[h].row = Row(hook[h].ev.order)
      BY <3>1 DEF Known, IInv, TypeOK
    <3>3. hook'[h].row.pay = pay'[hook'[h].ev.order]
      BY <2>1, <3>2 DEF Row
    <3>4. /\ \A o \in Orders : checkout[o] # "recorded"
          /\ \A g \in Hooks : hook[g].pc # "apply"
      BY <3>1 DEF LoopFree, OneWorker
    <3>5. HookFresh'
      BY <2>1, <3>3, <3>4 DEF HookFresh
    <3>6. \A o \in Orders : CardOrder(o)' /\ CashPayment(o)'
      BY <2>1, OrderKept
    <3>7. \A a \in Admins : CaptureRelies(a)'
      BY <2>1 DEF PayInv, CaptureRelies
    <3> QED
      BY <2>2, <3>5, <3>6, <3>7 DEF PayInv
  <2>4. CASE ~RecordEvent(h)
    <3>1. hook'[h].pc # "apply"
      BY <1>2, <2>4 DEF HookNext, Deliver, LookupConfirms, LookupRefuses, RecordLosesRace,
         ApplyFails, Idle, Known, IInv, TypeOK
    <3> QED
      BY <2>1, <2>2, <3>1, AllKept
  <2> QED
    BY <2>3, <2>4
<1> QED
  BY <1>1, <1>2

\* An operator is paid in cash, or captures an authorisation.
LEMMA SettlePays ==
  ASSUME Known, PayInv, NEW a \in Admins, CollectCash(a) \/ CommitCapture(a)
  PROVE  /\ PayInv'
         /\ \E o \in Orders : /\ pay' = [pay EXCEPT ![o] = "paid"]
                              /\ pay[o] \in SettledPayments => pay[o] = "paid"
<1>1. PICK o \in Orders : o = op[a].order
  BY RequestFields DEF CollectCash, CommitCapture, Known, IInv
<1>2. /\ pay' = [pay EXCEPT ![o] = "paid"]
      /\ UNCHANGED <<method, checkout, answer, resv, hook, live, applied, sent>>
  BY <1>1 DEF CollectCash, CommitCapture, OperatorDone, envVars
<1>3. \/ /\ method[o] = "cod" /\ pay[o] \in {"pending", "paid"}
         /\ early \subseteq early' /\ (CheckoutRuns(o) => o \in early')
      \/ /\ method[o] = "card" /\ ~live /\ checkout[o] = "done"
         /\ pay[o] \in {"authorized", "paid"} /\ early' = early
  <2>1. CASE CollectCash(a)
    <3>1. method[o] = "cod"
      BY <1>1, <2>1 DEF CollectCash, Known, CapturedInv, OpRelies
    <3>2. early \subseteq early' /\ (CheckoutRuns(o) => o \in early')
      BY <1>1, <2>1 DEF CollectCash
    <3> QED
      BY <3>1, <3>2 DEF PayInv, CashPayment
  <2>2. CASE CommitCapture(a)
    BY <1>1, <2>2 DEF CommitCapture, OperatorDone, envVars, PayInv, CaptureRelies
  <2> QED
    BY <2>1, <2>2
<1>4. \A p \in Orders : pay'[p] = IF p = o THEN "paid" ELSE pay[p]
  BY <1>2 DEF Known, IInv, TypeOK
<1>5. CardOrder(o)' /\ CashPayment(o)'
  <2>1. CardOrder(o) /\ CashPayment(o)
    BY DEF PayInv
  <2>2. CardOrder(o)'
    BY <1>2, <1>3, <1>4, <2>1 DEF CardOrder, Holding, Standing
  <2>3. CashPayment(o)'
    BY <1>2, <1>3, <1>4, <2>1 DEF CashPayment, CheckoutRuns
  <2> QED
    BY <2>2, <2>3
<1>6. \A p \in Orders : CardOrder(p)' /\ CashPayment(p)'
  BY <1>2, <1>3, <1>4, <1>5, OrderKept
<1>7. SentByDone'
  BY <1>2 DEF PayInv, SentByDone, CapturedEvent
<1>8. HookFresh'
  <2> SUFFICES ASSUME NEW h \in Hooks, hook[h].pc = "apply"
               PROVE  hook[h].row.pay = pay'[hook[h].ev.order]
    BY <1>2 DEF PayInv, HookFresh
  <2>1. hook[h].ev.order \in Orders /\ hook[h].row.pay = pay[hook[h].ev.order]
        /\ live /\ method[hook[h].ev.order] = "card"
    BY AboutToApply
  <2>2. hook[h].ev.order # o
    BY <1>3, <2>1
  <2> QED
    BY <1>4, <2>1, <2>2
<1>9. ASSUME NEW b \in Admins PROVE CaptureRelies(b)'
  <2>1. op'[b].pc = "capture" => op'[b] = op[b]
    BY DEF CollectCash, CommitCapture, OperatorDone, Known, IInv, TypeOK, OpType, Idle
  <2>2. op[b].pc = "capture" => op[b].order \in Orders
    BY RequestFields DEF Known, IInv
  <2> QED
    BY <1>2, <1>4, <2>1, <2>2 DEF PayInv, CaptureRelies
<1>10. pay[o] \in SettledPayments => pay[o] = "paid"
  BY <1>3 DEF SettledPayments
<1> QED
  BY <1>2, <1>6, <1>7, <1>8, <1>9, <1>10 DEF PayInv

\* An operator goes on.
LEMMA AdminPays ==
  ASSUME Known, PayInv, NEW a \in Admins, AdminNext(a)
  PROVE  PayInv'
<1>1. CASE CollectCash(a) \/ CommitCapture(a)
  BY <1>1, SettlePays
<1>2. CASE ~CollectCash(a) /\ ~CommitCapture(a)
  <2>1. /\ UNCHANGED <<pay, method, checkout, answer, resv, live, applied, early, sent, hook>>
        /\ \A b \in Admins \ {a} : op'[b] = op[b]
    BY <1>2 DEF AdminNext, StartMove, StartCapture, OperatorReads, OperatorDone, CommitMove,
       CrashOperator, dbVars, envVars, Known, IInv, TypeOK
  <2>2. SentByDone'
    BY <2>1 DEF PayInv, SentByDone, CapturedEvent
  <2>3. CASE \E o \in Orders : StartCapture(a, o)
    <3>1. PICK o \in Orders : StartCapture(a, o)
      BY <2>3
    <3>2. /\ ~live /\ status[o] # "none" /\ pay[o] = "authorized"
          /\ op' = [op EXCEPT ![a] = [pc |-> "capture", order |-> o]]
      BY <3>1 DEF StartCapture, OperatorReads, Placed
    <3>3. method[o] = "card" /\ checkout[o] = "done"
      <4>1. checkout[o] # "new" /\ method[o] \in {"card", "cod"}
        BY <3>2 DEF Known, IInv, TypeOK, Links, CheckoutLinks
      <4> QED
        BY <3>2, <4>1 DEF PayInv, CardOrder, Holding, CashPayment
    <3>4. op'[a].order = o
      BY <3>2 DEF Known, IInv, TypeOK
    <3>5. \A b \in Admins : CaptureRelies(b)'
      BY <2>1, <3>2, <3>3, <3>4 DEF PayInv, CaptureRelies
    <3>6. HookFresh'
      BY <2>1 DEF PayInv, HookFresh
    <3>7. \A p \in Orders : CardOrder(p)' /\ CashPayment(p)'
      BY <2>1, OrderKept
    <3> QED
      BY <2>2, <3>5, <3>6, <3>7 DEF PayInv
  <2>4. CASE ~(\E o \in Orders : StartCapture(a, o))
    <3>1. op'[a].pc # "capture"
      BY <1>2, <2>4 DEF AdminNext, StartMove, OperatorReads, OperatorDone, CommitMove,
         CrashOperator, Idle, Known, IInv, TypeOK
    <3> QED
      BY <2>1, <2>2, <3>1, AllKept
  <2> QED
    BY <2>3, <2>4
<1> QED
  BY <1>1, <1>2

\* The sweep takes units only from checkouts that did not end well.
LEMMA SweepPays ==
  ASSUME PayInv, Known, SweepReads \/ SweepCommits
  PROVE  PayInv'
<1>1. UNCHANGED <<pay, method, checkout, answer, live, applied, early, sent, hook, op>>
  BY DEF SweepReads, SweepCommits, dbVars, reqVars
<1>2. \A o \in Orders :
        resv'[o] # resv[o] => resv'[o] = "released" /\ checkout[o] # "done"
  BY DEF SweepReads, SweepCommits, dbVars, Known, IInv, TypeOK, Links, Sweeping
<1>3. \A o \in Orders : CardOrder(o)' /\ CashPayment(o)'
  BY <1>1, <1>2 DEF PayInv, CardOrder, Holding, CashPayment, CheckoutRuns, CapturedEvent
<1>4. HookFresh'
  BY <1>1 DEF PayInv, HookFresh
<1>5. SentByDone'
  BY <1>1 DEF PayInv, SentByDone, CapturedEvent
<1>6. \A a \in Admins : CaptureRelies(a)'
  BY <1>1 DEF PayInv, CaptureRelies
<1> QED
  BY <1>3, <1>4, <1>5, <1>6 DEF PayInv

LEMMA InitPays ==
  ASSUME Init
  PROVE  PayInv
<1>1. HookFresh /\ SentByDone /\ (\A a \in Admins : CaptureRelies(a))
  BY DEF Init, HookFresh, SentByDone, CaptureRelies, Idle
<1>2. \A o \in Orders : CardOrder(o) /\ CashPayment(o)
  BY DEF Init, CardOrder, CashPayment
<1> QED
  BY <1>1, <1>2 DEF PayInv

LEMMA StepPays ==
  ASSUME OrderPaymentAssumption, OneWorker, Known, PayInv, [Next]_vars
  PROVE  PayInv'
<1>1. CASE UNCHANGED vars
  <2>1. UNCHANGED <<pay, method, checkout, answer, resv, live, applied, early, sent, hook, op>>
    BY <1>1 DEF vars, dbVars, reqVars, envVars
  <2>2. SentByDone'
    BY <2>1 DEF PayInv, SentByDone, CapturedEvent
  <2> QED
    BY <2>1, <2>2, AllKept
<1>2. ASSUME NEW o \in Orders, CheckoutNext(o) PROVE PayInv'
  BY <1>2, CheckoutBeginsPays, CheckoutEndsPays DEF CheckoutNext
<1>3. ~\E r \in Recons : ReconNext(r)
  BY DEF OneWorker
<1> QED
  BY <1>1, <1>2, <1>3, ProviderPays, HookPays, AdminPays, SweepPays DEF Next

LEMMA AlwaysPays == OneWorker => (Spec => [](Known /\ PayInv))
<1> SUFFICES ASSUME OneWorker PROVE Spec => [](Known /\ PayInv)
  OBVIOUS
<1>1. Init => PayInv
  BY InitPays
<1>2. Known /\ PayInv /\ [Next]_vars => PayInv'
  BY OrderPaymentAssumption, StepPays
<1> QED
  BY <1>1, <1>2, AlwaysKnown, PTL DEF Spec

\* No failure callback, sweep or broken checkout puts the unit of a paid card order back
\* on sale, with any number of orders, deliveries, operators and faults: as long as one
\* worker serves them, and no reconciliation runs.
THEOREM PaidOrdersHoldUnits == OneWorker => (Spec => []PaidHoldsUnit)
<1> SUFFICES ASSUME OneWorker PROVE Spec => []PaidHoldsUnit
  OBVIOUS
<1>1. PayInv => PaidHoldsUnit
  BY DEF PayInv, CardOrder, PaidHoldsUnit, Standing, Holding
<1> QED
  BY <1>1, AlwaysPays, PTL

(***************************************************************************)
(* A card order is a Sale                                                  *)
(***************************************************************************)

\* What a payment status says of a sale.
LEMMA PaymentKinds ==
  /\ Undecided \subseteq Standing
  /\ Standing = Undecided \union {"paid"}
  /\ PaymentStatuses = Undecided \union SettledPayments \union {"failed", "cancelled"}
  /\ \A p \in Undecided : p \notin SettledPayments \union {"failed", "cancelled"}
  /\ \A p \in SettledPayments : p \notin {"failed", "cancelled"}
BY DEF Undecided, Standing, SettledPayments, PaymentStatuses, PAYMENT_TRANSITIONS

\* The deals a step may make of one order, when it leaves the other orders alone.
LEMMA OneDeal ==
  ASSUME NEW o \in Orders,
         \A p \in Orders \ {o} :
           pay'[p] = pay[p] /\ resv'[p] = resv[p] /\ method'[p] = method[p],
         \/ DealOf(o)' = DealOf(o)
         \/ DealOf(o) = "none" /\ DealOf(o)' = "open"
         \/ DealOf(o) = "open" /\ DealOf(o)' = "settled"
         \/ DealOf(o) \in {"open", "lapsed"} /\ DealOf(o)' = "void"
         \/ DealOf(o) = "void" /\ DealOf(o)' = "owed"
  PROVE  [SaleOf!DealNext]_deals
<1>1. \A p \in Orders \ {o} : DealOf(p)' = DealOf(p)
  BY DEF DealOf, Holding
<1>2. deals' = [p \in Orders |-> IF p = o THEN DealOf(o)' ELSE deals[p]] /\ deals[o] = DealOf(o)
  BY <1>1 DEF deals
<1>3. CASE DealOf(o)' = DealOf(o)
  <2>1. \A p \in Orders : DealOf(p)' = DealOf(p)
    BY <1>1, <1>3
  <2> QED
    BY <2>1 DEF deals
<1>4. CASE DealOf(o) = "none" /\ DealOf(o)' = "open"
  BY <1>2, <1>4 DEF SaleOf!DealNext, SaleOf!Open, SaleOf!Become
<1>5. CASE DealOf(o) = "open" /\ DealOf(o)' = "settled"
  BY <1>2, <1>5 DEF SaleOf!DealNext, SaleOf!Settle, SaleOf!Become
<1>6. CASE DealOf(o) \in {"open", "lapsed"} /\ DealOf(o)' = "void"
  BY <1>2, <1>6 DEF SaleOf!DealNext, SaleOf!Void, SaleOf!Become
<1>7. CASE DealOf(o) = "void" /\ DealOf(o)' = "owed"
  BY <1>2, <1>7 DEF SaleOf!DealNext, SaleOf!Owe, SaleOf!Become
<1> QED
  BY <1>3, <1>4, <1>5, <1>6, <1>7

\* The steps of a checkout: an order opens, and stays open or is void at the end.
LEMMA CheckoutSale ==
  ASSUME OrderPaymentAssumption, Known, PayInv, NEW o \in Orders, CheckoutNext(o)
  PROVE  [SaleOf!DealNext]_deals
<1>1. CASE \E m \in Methods : PlaceOrder(o, m)
  <2>1. PICK m \in Methods : PlaceOrder(o, m)
    BY <1>1
  <2>2. /\ pay' = pay /\ pay[o] = "pending" /\ checkout[o] = "new"
        /\ resv' = [resv EXCEPT ![o] = "held"]
        /\ method' = [method EXCEPT ![o] = m]
    BY <2>1 DEF PlaceOrder, Known, IInv, Links, CheckoutLinks
  <2>3. DealOf(o) = "none"
    BY <2>2 DEF DealOf, PayInv, CardOrder
  <2>4. resv'[o] = "held" /\ pay'[o] = "pending"
    BY <2>2 DEF Known, IInv, TypeOK
  <2>5. DealOf(o)' \in {"none", "open"}
    BY <2>4 DEF DealOf, Holding, Undecided, SettledPayments
  <2>6. \A p \in Orders \ {o} :
          pay'[p] = pay[p] /\ resv'[p] = resv[p] /\ method'[p] = method[p]
    BY <2>2 DEF Known, IInv, TypeOK
  <2> QED
    BY <2>3, <2>5, <2>6, OneDeal
<1>2. CASE RecordPayment(o) \/ FinishRaises(o) \/ CrashCheckout(o)
  <2>1. UNCHANGED <<pay, resv, method>>
    BY <1>2 DEF RecordPayment, FinishRaises, CrashCheckout, dbVars
  <2>2. DealOf(o)' = DealOf(o)
    BY <2>1 DEF DealOf, Holding
  <2> QED
    BY <2>1, <2>2, OneDeal
<1>3. CASE FinishAccepted(o) \/ FinishDeclined(o)
  <2>1. /\ checkout[o] = "recorded" /\ method' = method
        /\ \A p \in Orders \ {o} : pay'[p] = pay[p] /\ resv'[p] = resv[p]
        /\ pay'[o] = answer[o].pay /\ answer[o].pay \in {"pending", "authorized", "failed"}
    BY <1>3, FinishWrites, FinishPays DEF Known
  <2>2. \/ resv'[o] = "committed" /\ answer[o].pay # "failed"
        \/ resv'[o] \notin {"held", "committed"} /\ answer[o].pay = "failed"
    BY <1>3 DEF FinishAccepted, FinishDeclined, ReleaseInventory, Known, IInv, TypeOK
  <2>3. resv[o] = "held" /\ (method[o] = "card" => pay[o] = "pending")
    BY <2>1 DEF Known, IInv, Links, CheckoutLinks, PayInv, CardOrder
  <2>4. CASE method[o] # "card"
    <3>1. DealOf(o)' = DealOf(o)
      BY <2>1, <2>4 DEF DealOf
    <3> QED
      BY <2>1, <3>1, OneDeal
  <2>5. CASE method[o] = "card"
    <3>1. DealOf(o) = "open"
      BY <2>3, <2>5 DEF DealOf, Holding, Undecided, SettledPayments
    <3>2. DealOf(o)' \in {"open", "void"}
      BY <2>1, <2>2, <2>5 DEF DealOf, Holding, Undecided, SettledPayments
    <3> QED
      BY <2>1, <3>1, <3>2, OneDeal
  <2> QED
    BY <2>4, <2>5
<1> QED
  BY <1>1, <1>2, <1>3 DEF CheckoutNext

\* The sweep: what it takes back together was open, or is back already.
LEMMA SweepSale ==
  ASSUME Known, PayInv, SweepReads \/ SweepCommits
  PROVE  [SaleOf!DealNext]_deals
<1> DEFINE S == {p \in swept : method[p] = "card" /\ p \in Holding}
<1>1. CASE SweepReads
  <2>1. UNCHANGED <<pay, resv, method>>
    BY <1>1 DEF SweepReads, dbVars
  <2>2. \A p \in Orders : DealOf(p)' = DealOf(p)
    BY <2>1 DEF DealOf, Holding
  <2> QED
    BY <2>2 DEF deals
<1>2. CASE SweepCommits
  <2>1. /\ UNCHANGED <<pay, method>> /\ swept \subseteq Orders
        /\ \A p \in Orders : resv'[p] = IF p \in swept THEN "released" ELSE resv[p]
    BY <1>2 DEF SweepCommits, Known, IInv, TypeOK
  <2>2. ASSUME NEW p \in S PROVE DealOf(p) = "open" /\ DealOf(p)' = "lapsed"
    <3>1. /\ method[p] = "card" /\ p \in Holding /\ p \in Orders
          /\ checkout[p] \in {"raised", "crashed"}
      BY <2>1 DEF Known, IInv, Links, Sweeping
    <3>2. pay[p] = "pending"
      BY <3>1 DEF PayInv, CardOrder
    <3> QED
      BY <2>1, <3>1, <3>2 DEF DealOf, Holding, Undecided, SettledPayments
  <2>3. ASSUME NEW p \in Orders \ S PROVE DealOf(p)' = DealOf(p)
    <3>1. CASE method[p] # "card"
      BY <2>1, <3>1 DEF DealOf
    <3>2. CASE method[p] = "card"
      <4>1. (p \in Holding)' <=> p \in Holding
        BY <2>1, <3>2 DEF Holding
      <4> QED
        BY <2>1, <4>1 DEF DealOf
    <3> QED
      BY <3>1, <3>2
  <2>4. S \in SUBSET Orders
    BY <2>1
  <2> HIDE DEF S
  <2>5. /\ \A p \in S : deals[p] = "open"
        /\ deals' = [p \in Orders |-> IF p \in S THEN "lapsed" ELSE deals[p]]
    BY <2>2, <2>3, <2>4 DEF deals
  <2> QED
    BY <2>4, <2>5 DEF SaleOf!DealNext, SaleOf!Lapse, SaleOf!Become
<1> QED
  BY <1>1, <1>2

\* A callback settles an open sale, makes an open or lapsed one void, or leaves a void
\* one owed.
LEMMA ApplySale ==
  ASSUME Known, PayInv, NEW h \in Hooks, Apply(h)
  PROVE  [SaleOf!DealNext]_deals
<1> USE PaymentKinds
<1>1. PICK o \in Orders : o = hook[h].ev.order
  BY ApplyWrites, AboutToApply DEF Known
<1>2. /\ method' = method /\ method[o] = "card"
      /\ hook[h].ev.kind = "captured" => checkout[o] = "done"
      /\ pay[o] \in PaymentStatuses /\ pay'[o] \in PaymentStatuses
  <2>1. PICK new \in RowType : Flush(o, hook[h].row, new)
    BY <1>1, ApplyWrites DEF Known
  <2>2. hook[h].row \in RowType
    BY ApplyWrites, AboutToApply DEF Known
  <2>3. pay' \in [Orders -> PaymentStatuses]
    BY <2>1, <2>2, FlushWrites DEF Known, IInv
  <2> QED
    BY <1>1, <2>3, ApplyWrites, AboutToApply DEF Applied, Known, IInv, TypeOK
<1>3. /\ pay[o] \in SettledPayments => pay'[o] \in SettledPayments
      /\ pay'[o] \in SettledPayments => pay[o] \in SettledPayments \/ checkout[o] = "done"
      /\ pay'[o] \in Standing => pay[o] \in Standing
      /\ \/ resv'[o] = resv[o]
         \/ pay'[o] \in {"failed", "cancelled"} /\ pay[o] \notin SettledPayments
      /\ pay'[o] \in {"failed", "cancelled"} => resv'[o] \notin {"held", "committed"}
      /\ \A p \in Orders \ {o} : pay'[p] = pay[p] /\ resv'[p] = resv[p]
  <2>1. /\ pay[o] \in SettledPayments => CanPay(pay[o], pay'[o])
        /\ pay'[o] \in SettledPayments
             => pay[o] \in SettledPayments \/ hook[h].ev = CapturedEvent(o)
        /\ pay'[o] \in Standing => pay[o] \in Standing /\ resv'[o] = resv[o]
        /\ \/ resv'[o] = resv[o]
           \/ pay'[o] \in {"failed", "cancelled"} /\ pay[o] \notin SettledPayments
        /\ pay'[o] \in {"failed", "cancelled"} => resv'[o] \notin {"held", "committed"}
        /\ \A p \in Orders \ {o} : pay'[p] = pay[p] /\ resv'[p] = resv[p]
    BY <1>1, ApplyPays
  <2>2. hook[h].ev = CapturedEvent(o) => checkout[o] = "done"
    BY <1>2 DEF CapturedEvent
  <2>3. pay[o] \in SettledPayments => pay'[o] \in SettledPayments
    BY <2>1, PaymentTable
  <2> QED
    BY <2>1, <2>2, <2>3
<1>4. /\ checkout[o] = "done" /\ pay[o] \in Standing => o \in Holding
      /\ pay[o] \in SettledPayments => checkout[o] = "done"
      /\ pay[o] \in {"failed", "cancelled"} => o \notin Holding
  BY <1>2 DEF PayInv, CardOrder, Holding, SettledPayments
<1>5. (o \in Holding)' <=> resv'[o] \in {"held", "committed"}
  BY DEF Holding
<1>6. o \in Holding <=> resv[o] \in {"held", "committed"}
  BY DEF Holding
<1>7. CASE pay'[o] \in {"failed", "cancelled"}
  <2>1. DealOf(o)' = "void"
    BY <1>2, <1>3, <1>5, <1>7 DEF DealOf
  <2>2. DealOf(o) \in {"open", "lapsed", "void"}
    BY <1>2, <1>3, <1>4, <1>7 DEF DealOf
  <2> QED
    BY <1>2, <1>3, <2>1, <2>2, OneDeal
<1>8. CASE pay'[o] \in Undecided
  <2>1. pay[o] \in Undecided /\ resv'[o] = resv[o]
    BY <1>2, <1>3, <1>8
  <2>2. DealOf(o)' = DealOf(o)
    BY <1>2, <1>5, <1>6, <1>8, <2>1 DEF DealOf
  <2> QED
    BY <1>2, <1>3, <2>2, OneDeal
<1>9. CASE pay'[o] \in SettledPayments
  <2>1. resv'[o] = resv[o] /\ ((o \in Holding)' <=> o \in Holding)
    BY <1>3, <1>5, <1>6, <1>9
  <2>2. CASE pay[o] \in SettledPayments
    <3>1. o \notin Holding => pay[o] # "paid" /\ pay'[o] # "paid"
      BY <1>3, <1>4, <2>2 DEF SettledPayments
    <3>2. DealOf(o)' = DealOf(o)
      BY <1>2, <1>9, <2>1, <2>2, <3>1 DEF DealOf
    <3> QED
      BY <1>2, <1>3, <3>2, OneDeal
  <2>3. CASE pay[o] \in Undecided
    <3>1. o \in Holding
      BY <1>3, <1>4, <1>9, <2>3
    <3>2. DealOf(o) = "open" /\ DealOf(o)' = "settled"
      BY <1>2, <1>9, <2>1, <2>3, <3>1 DEF DealOf
    <3> QED
      BY <1>2, <1>3, <3>2, OneDeal
  <2>4. CASE pay[o] \in {"failed", "cancelled"}
    <3>1. pay'[o] # "paid" /\ o \notin Holding
      BY <1>3, <1>4, <2>4
    <3>2. DealOf(o) = "void" /\ DealOf(o)' = "owed"
      BY <1>2, <1>9, <2>1, <2>4, <3>1 DEF DealOf
    <3> QED
      BY <1>2, <1>3, <3>2, OneDeal
  <2> QED
    BY <1>2, <2>2, <2>3, <2>4
<1> QED
  BY <1>2, <1>7, <1>8, <1>9

\* A step that touches no payment and no reservation.
LEMMA SaleStutters ==
  ASSUME UNCHANGED <<pay, resv, method>>
  PROVE  [SaleOf!DealNext]_deals
<1>1. \A p \in Orders : DealOf(p)' = DealOf(p)
  BY DEF DealOf, Holding
<1> QED
  BY <1>1 DEF deals

\* An operator settles an open sale.
LEMMA AdminSale ==
  ASSUME Known, PayInv, NEW a \in Admins, AdminNext(a)
  PROVE  [SaleOf!DealNext]_deals
<1>1. CASE CollectCash(a) \/ CommitCapture(a)
  <2>1. PICK o \in Orders : o = op[a].order
    BY <1>1, RequestFields DEF CollectCash, CommitCapture, Known, IInv
  <2>2. pay' = [pay EXCEPT ![o] = "paid"] /\ UNCHANGED <<method, resv>>
    BY <1>1, <2>1 DEF CollectCash, CommitCapture, OperatorDone
  <2>3. /\ \A p \in Orders \ {o} : pay'[p] = pay[p]
        /\ pay'[o] = "paid"
    BY <2>2 DEF Known, IInv, TypeOK
  <2>4. CASE CollectCash(a)
    <3>1. method[o] = "cod"
      BY <2>1, <2>4 DEF CollectCash, Known, CapturedInv, OpRelies
    <3>2. DealOf(o)' = DealOf(o)
      BY <2>2, <3>1 DEF DealOf
    <3> QED
      BY <2>2, <2>3, <3>2, OneDeal
  <2>5. CASE CommitCapture(a)
    <3>1. method[o] = "card" /\ checkout[o] = "done" /\ pay[o] \in {"authorized", "paid"}
      BY <2>1, <2>5 DEF CommitCapture, PayInv, CaptureRelies
    <3>2. o \in Holding /\ (o \in Holding)'
      BY <2>2, <3>1 DEF PayInv, CardOrder, Standing, Holding
    <3>3. DealOf(o) \in {"open", "settled"} /\ DealOf(o)' = "settled"
      BY <2>2, <2>3, <3>1, <3>2 DEF DealOf, Undecided, SettledPayments
    <3> QED
      BY <2>2, <2>3, <3>3, OneDeal
  <2> QED
    BY <1>1, <2>4, <2>5
<1>2. CASE ~CollectCash(a) /\ ~CommitCapture(a)
  <2>1. UNCHANGED <<pay, resv, method>>
    BY <1>2 DEF AdminNext, StartMove, StartCapture, OperatorReads, CommitMove, OperatorDone,
       CrashOperator, dbVars
  <2> QED
    BY <2>1, SaleStutters
<1> QED
  BY <1>1, <1>2

\* Every step is a step of the sales, or none.
LEMMA StepSale ==
  ASSUME OrderPaymentAssumption, OneWorker, Known, PayInv, [Next]_vars
  PROVE  [SaleOf!DealNext]_deals
<1>1. CASE UNCHANGED vars
  BY <1>1, SaleStutters DEF vars, dbVars
<1>2. ASSUME NEW o \in Orders, PspNext(o)
      PROVE  [SaleOf!DealNext]_deals
  <2>1. UNCHANGED <<pay, resv, method>>
    BY <1>2 DEF PspNext, PspFails, PspPays, PspExpires, PspRefunds, PspMove, dbVars
  <2> QED
    BY <2>1, SaleStutters
<1>3. ASSUME NEW h \in Hooks, HookNext(h)
      PROVE  [SaleOf!DealNext]_deals
  <2>1. CASE Apply(h)
    BY <2>1, ApplySale
  <2>2. CASE ~Apply(h)
    <3>1. UNCHANGED <<pay, resv, method>>
      BY <1>3, <2>2 DEF HookNext, Deliver, LookupConfirms, LookupRefuses, RecordEvent,
         RecordLosesRace, ApplyFails, OnlyHook, dbVars
    <3> QED
      BY <3>1, SaleStutters
  <2> QED
    BY <2>1, <2>2
<1>4. ~\E r \in Recons : ReconNext(r)
  BY DEF OneWorker
<1> QED
  BY <1>1, <1>2, <1>3, <1>4, CheckoutSale, SweepSale, AdminSale DEF Next

\* The payment and the unit of a card order are a sale, whatever the order in which
\* checkouts, callbacks, operators, sweeps and crashes write them: with one worker and no
\* reconciliation.
THEOREM OrdersAreSales == OneWorker => (Spec => ImplementsSale)
<1> SUFFICES ASSUME OneWorker PROVE Spec => ImplementsSale
  OBVIOUS
<1>1. Init => SaleOf!DealInit
  BY DEF Init, SaleOf!DealInit, deals, DealOf
<1>2. Known /\ PayInv /\ [Next]_vars
        => [SaleOf!DealNext]_deals
  BY OrderPaymentAssumption, StepSale
<1>3. Spec => [](Known /\ PayInv)
  BY AlwaysPays
<1> QED
  BY <1>1, <1>2, <1>3, PTL DEF Spec, ImplementsSale, SaleOf!SaleSpec

(***************************************************************************)
(* What the handover of the goods rests on                                 *)
(***************************************************************************)

\* No step takes settled money back, unless it was collected early.
LEMMA MoneyForward ==
  ASSUME OneWorker, Known, PayInv, [Next]_vars, NEW o \in Orders \ early,
         pay[o] \in SettledPayments
  PROVE  CanPay(pay[o], pay'[o])
<1>1. CASE pay'[o] = pay[o]
  BY <1>1, PaymentTable
<1>2. ASSUME NEW q \in Orders, FinishAccepted(q) \/ FinishDeclined(q)
      PROVE  pay'[o] = pay[o]
  <2>1. CASE o # q
    BY <1>2, <2>1, FinishPays
  <2>2. CASE o = q
    <3>1. checkout[o] = "recorded"
      BY <1>2, <2>2, FinishPays
    <3>2. method[o] \in {"card", "cod"}
      BY <3>1 DEF Known, IInv, TypeOK, Links, CheckoutLinks
    <3> QED
      BY <3>1, <3>2 DEF PayInv, CardOrder, CashPayment, CheckoutRuns, SettledPayments
  <2> QED
    BY <2>1, <2>2
<1>3. ASSUME NEW h \in Hooks, Apply(h)
      PROVE  CanPay(pay[o], pay'[o])
  <2>1. hook[h].ev.order \in Orders
    BY <1>3, ApplyWrites, AboutToApply DEF Known
  <2>2. CASE o = hook[h].ev.order
    BY <1>3, <2>2, ApplyPays
  <2>3. CASE o # hook[h].ev.order
    <3>1. pay'[o] = pay[o]
      BY <1>3, <2>1, <2>3, ApplyPays
    <3> QED
      BY <1>1, <3>1
  <2> QED
    BY <2>2, <2>3
<1>4. ASSUME NEW a \in Admins, CollectCash(a) \/ CommitCapture(a)
      PROVE  CanPay(pay[o], pay'[o])
  <2>1. PICK q \in Orders : /\ pay' = [pay EXCEPT ![q] = "paid"]
                            /\ pay[q] \in SettledPayments => pay[q] = "paid"
    BY <1>4, SettlePays
  <2>2. pay'[o] = pay[o]
    BY <2>1 DEF Known, IInv, TypeOK
  <2> QED
    BY <1>1, <2>2
<1>5. ASSUME NEW q \in Orders,
             \/ \E m \in Methods : PlaceOrder(q, m)
             \/ RecordPayment(q) \/ FinishRaises(q) \/ CrashCheckout(q) \/ PspNext(q)
      PROVE  pay' = pay
  BY <1>5 DEF PlaceOrder, RecordPayment, FinishRaises, CrashCheckout, PspNext, PspFails, PspPays,
     PspExpires, PspRefunds, PspMove, dbVars
<1>6. ASSUME NEW h \in Hooks, HookNext(h), ~Apply(h)
      PROVE  pay' = pay
  BY <1>6 DEF HookNext, Deliver, LookupConfirms, LookupRefuses, RecordEvent, RecordLosesRace,
     ApplyFails, OnlyHook, dbVars
<1>7. ASSUME NEW a \in Admins, AdminNext(a), ~CollectCash(a), ~CommitCapture(a)
      PROVE  pay' = pay
  BY <1>7 DEF AdminNext, StartMove, StartCapture, OperatorReads, CommitMove, CrashOperator, dbVars
<1>8. CASE SweepReads \/ SweepCommits \/ UNCHANGED vars
  BY <1>1, <1>8 DEF SweepReads, SweepCommits, vars, dbVars
<1>9. ~\E r \in Recons : ReconNext(r)
  BY DEF OneWorker
<1>10. ASSUME NEW q \in Orders, CheckoutNext(q) \/ PspNext(q)
       PROVE  pay'[o] = pay[o]
  BY <1>2, <1>5, <1>10 DEF CheckoutNext
<1>11. ASSUME NEW h \in Hooks, HookNext(h)
       PROVE  CanPay(pay[o], pay'[o])
  BY <1>1, <1>3, <1>6, <1>11
<1>12. ASSUME NEW a \in Admins, AdminNext(a)
       PROVE  CanPay(pay[o], pay'[o])
  BY <1>1, <1>4, <1>7, <1>12
<1> QED
  BY <1>1, <1>8, <1>9, <1>10, <1>11, <1>12 DEF Next

\* A checkout and a delivery hand nothing over.
LEMMA CheckoutHandsNothingOver ==
  ASSUME Known, PayInv, NEW o \in Orders, CheckoutNext(o)
  PROVE  /\ op' = op
         /\ \A p \in Orders \ {o} : status'[p] = status[p] /\ pay'[p] = pay[p]
         /\ status'[o] = status[o] \/ status'[o] \notin HandoverStates
<1>1. CASE \E m \in Methods : PlaceOrder(o, m)
  <2>1. "placed" \notin HandoverStates
    BY DEF HandoverStates
  <2> QED
    BY <1>1, <2>1 DEF PlaceOrder, Known, IInv, TypeOK
<1>2. CASE RecordPayment(o) \/ FinishRaises(o) \/ CrashCheckout(o)
  BY <1>2 DEF RecordPayment, FinishRaises, CrashCheckout, dbVars
<1>3. CASE FinishAccepted(o) \/ FinishDeclined(o)
  <2>1. {"failed", "payment_pending", "processing"} \intersect HandoverStates = {}
    BY DEF HandoverStates
  <2> QED
    BY <1>3, <2>1, FinishWrites, FinishPays DEF Known
<1> QED
  BY <1>1, <1>2, <1>3 DEF CheckoutNext

LEMMA DeliveryHandsNothingOver ==
  ASSUME Known, PayInv, NEW h \in Hooks, HookNext(h)
  PROVE  /\ UNCHANGED <<op, method, checkout, answer>>
         /\ \A p \in Orders : status'[p] = status[p] \/ status'[p] \notin HandoverStates
<1>1. UNCHANGED <<op, method, checkout, answer>>
  BY DEF HookNext, Deliver, LookupConfirms, LookupRefuses, RecordEvent, RecordLosesRace,
     ApplyFails, Apply, ApplyCaptured, ApplyFailure, ApplyRefund, Applied, OnlyHook, dbVars
<1>2. CASE Apply(h)
  <2>1. PICK o \in Orders : o = hook[h].ev.order
    BY <1>2, ApplyWrites, AboutToApply DEF Known
  <2>2. method[o] = "card" /\ hook[h].row \in RowType
    BY <1>2, <2>1, ApplyWrites, AboutToApply DEF Known
  <2>3. PICK new \in RowType : Flush(o, hook[h].row, new)
    BY <1>2, <2>1, ApplyWrites DEF Known
  <2>4. \A p \in Orders \ {o} : status'[p] = status[p] /\ pay'[p] = pay[p]
    BY <2>2, <2>3, FlushWrites DEF Known, IInv
  <2>5. status'[o] = status[o] \/ status'[o] \notin FULFILLMENT_STATES
    BY <1>2, <2>1, ApplyStaysBack DEF Known
  <2> QED
    BY <1>1, <2>2, <2>4, <2>5, StatusesDefined
<1>3. CASE ~Apply(h)
  BY <1>1, <1>3 DEF HookNext, Deliver, LookupConfirms, LookupRefuses, RecordEvent, RecordLosesRace,
     ApplyFails, OnlyHook, dbVars
<1> QED
  BY <1>2, <1>3

\* Early cash stays early.
LEMMA EarlyStays ==
  ASSUME Known, [Next]_vars
  PROVE  early \subseteq early'
BY DEF Next, vars, dbVars, reqVars, envVars, CheckoutNext, PlaceOrder, RecordPayment, FinishAccepted,
   FinishDeclined, Finish, FinishRaises, CrashCheckout, PspNext, PspFails, PspPays, PspExpires,
   PspRefunds, PspMove, HookNext, Deliver, LookupConfirms, LookupRefuses, RecordEvent,
   RecordLosesRace, OnlyHook, Apply, ApplyCaptured, ApplyFailure, ApplyRefund, Applied, ApplyFails,
   ReconNext, StartReconcile, ProviderAnswers, ReconcileEnds, ReconcilePaid, ReconcileFailed,
   Reconciled, AdminNext, StartMove, StartCapture, OperatorReads, CollectCash, CommitMove,
   CommitCapture, OperatorDone, CrashOperator, SweepReads, SweepCommits

\* An order that is handed over, or about to be, has settled money.
GoodsPaid ==
  /\ HandedOverIsPaid
  /\ \A a \in Admins :
       /\ op[a].pc = "move" /\ op[a].to \in HandoverStates
       /\ op[a].order \notin early
       => pay[op[a].order] \in SettledPayments

\* A step that hands nothing over, and starts no such move.
LEMMA GoodsKept ==
  ASSUME OneWorker, Known, PayInv, GoodsPaid, [Next]_vars,
         \A o \in Orders : status'[o] = status[o] \/ status'[o] \notin HandoverStates,
         \A a \in Admins : op'[a] = op[a] \/ op'[a].pc # "move"
  PROVE  GoodsPaid'
<1>1. \A o \in Orders \ early : pay[o] \in SettledPayments => pay'[o] \in SettledPayments
  BY MoneyForward, PaymentTable
<1>2. HandedOverIsPaid'
  BY <1>1, EarlyStays DEF GoodsPaid, HandedOverIsPaid
<1>3. ASSUME NEW a \in Admins, op'[a].pc = "move", op'[a].to \in HandoverStates,
             op'[a].order \notin early'
      PROVE  pay'[op'[a].order] \in SettledPayments
  <2>1. op'[a] = op[a] /\ op[a].order \in Orders
    BY <1>3, RequestFields DEF Known, IInv
  <2> QED
    BY <1>1, <1>3, <2>1, EarlyStays DEF GoodsPaid
<1> QED
  BY <1>2, <1>3 DEF GoodsPaid

\* The steps of an operator.
LEMMA AdminGoods ==
  ASSUME OneWorker, Known, PayInv, GoodsPaid, Next, NEW a \in Admins, AdminNext(a)
  PROVE  GoodsPaid'
<1>1. \A o \in Orders \ early : pay[o] \in SettledPayments => pay'[o] \in SettledPayments
  BY MoneyForward, PaymentTable
<1>2. \A b \in Admins \ {a} : op'[b] = op[b]
  BY DEF AdminNext, StartMove, StartCapture, OperatorReads, CollectCash, CommitMove, CommitCapture,
     OperatorDone, CrashOperator, Known, IInv, TypeOK
<1>3. \A b \in Admins : op[b].pc # "idle" => op[b].order \in Orders
  BY RequestFields DEF Known, IInv
<1>4. early \subseteq early'
  BY EarlyStays
<1>5. ASSUME \A o \in Orders : status'[o] = status[o] \/ status'[o] \notin HandoverStates,
             /\ op'[a].pc = "move" /\ op'[a].to \in HandoverStates
             => pay'[op'[a].order] \in SettledPayments
      PROVE  GoodsPaid'
  <2>1. HandedOverIsPaid'
    BY <1>1, <1>4, <1>5 DEF GoodsPaid, HandedOverIsPaid
  <2>2. ASSUME NEW b \in Admins, op'[b].pc = "move", op'[b].to \in HandoverStates,
               op'[b].order \notin early'
        PROVE  pay'[op'[b].order] \in SettledPayments
    BY <1>1, <1>2, <1>3, <1>4, <1>5, <2>2 DEF GoodsPaid
  <2> QED
    BY <2>1, <2>2 DEF GoodsPaid
<1>6. CASE \E o \in Orders, s \in AdminTargets : StartMove(a, o, s)
  <2>1. PICK o \in Orders, s \in AdminTargets : StartMove(a, o, s)
    BY <1>6
  <2>2. /\ GateOpen(s, pay[o], method[o]) /\ UNCHANGED <<status, pay>>
        /\ op' = [op EXCEPT ![a] = [pc |-> IF CashIsDue(o, s) THEN "collect" ELSE "move",
                                   order |-> o, to |-> s]]
    BY <2>1 DEF StartMove, OperatorReads, dbVars
  <2>3. /\ op'[a].order = o /\ op'[a].to = s
        /\ op'[a].pc = IF CashIsDue(o, s) THEN "collect" ELSE "move"
    BY <2>2 DEF Known, IInv, TypeOK
  <2>4. s \in HandoverStates /\ ~CashIsDue(o, s) => pay[o] \in SettledPayments
    BY <2>2 DEF GateOpen, CashIsDue, FULFILLMENT_STATES, HandoverStates, SettledPayments
  <2> QED
    BY <1>5, <2>2, <2>3, <2>4
<1>7. CASE CollectCash(a)
  <2>1. op[a] \in OpType /\ op[a].pc = "collect" /\ op' = [op EXCEPT ![a].pc = "move"]
    BY <1>7 DEF CollectCash, Known, IInv, TypeOK
  <2>2. op'[a].order = op[a].order /\ status' = status
    BY <1>7, <2>1 DEF CollectCash, OpType, Idle, Known, IInv, TypeOK
  <2>3. pay'[op[a].order] = "paid"
    BY <1>3, <1>7, <2>1 DEF CollectCash, Known, IInv, TypeOK
  <2> QED
    BY <1>5, <2>2, <2>3 DEF SettledPayments
<1>8. CASE CommitMove(a)
  <2>1. PICK o \in Orders : o = op[a].order
    BY <1>3, <1>8 DEF CommitMove
  <2>2. /\ op[a].pc = "move" /\ UNCHANGED <<pay, early>>
        /\ status'[o] = op[a].to
        /\ \A p \in Orders \ {o} : status'[p] = status[p]
        /\ op'[a].pc = "idle"
    BY <1>8, <2>1 DEF CommitMove, OperatorDone, envVars, Idle, Known, IInv, TypeOK
  <2>3. HandedOverIsPaid'
    BY <2>1, <2>2 DEF GoodsPaid, HandedOverIsPaid
  <2> QED
    BY <1>2, <2>2, <2>3 DEF GoodsPaid
<1>9. CASE CommitCapture(a) \/ CrashOperator(a) \/ \E o \in Orders : StartCapture(a, o)
  <2>1. status' = status /\ op'[a].pc # "move"
    BY <1>9 DEF CommitCapture, OperatorDone, CrashOperator, StartCapture, OperatorReads, dbVars,
       Idle, Known, IInv, TypeOK
  <2> QED
    BY <1>5, <2>1
<1> QED
  BY <1>6, <1>7, <1>8, <1>9 DEF AdminNext

LEMMA StepGoods ==
  ASSUME OneWorker, Known, PayInv, GoodsPaid, [Next]_vars
  PROVE  GoodsPaid'
<1>1. CASE SweepReads \/ SweepCommits \/ UNCHANGED vars \/ \E o \in Orders : PspNext(o)
  <2>1. UNCHANGED <<status, op>>
    BY <1>1 DEF SweepReads, SweepCommits, vars, dbVars, reqVars, PspNext, PspFails, PspPays,
       PspExpires, PspRefunds, PspMove
  <2> QED
    BY <2>1, GoodsKept
<1>2. ASSUME NEW o \in Orders, CheckoutNext(o) PROVE GoodsPaid'
  BY <1>2, CheckoutHandsNothingOver, GoodsKept
<1>3. ASSUME NEW h \in Hooks, HookNext(h) PROVE GoodsPaid'
  BY <1>3, DeliveryHandsNothingOver, GoodsKept
<1>4. ~\E r \in Recons : ReconNext(r)
  BY DEF OneWorker
<1> QED
  BY <1>1, <1>2, <1>3, <1>4, AdminGoods DEF Next

\* Late or reordered callbacks and operators never turn money that is settled back into
\* pending, failed or cancelled: with one worker and no reconciliation, and but for cash
\* that was collected before its checkout ended.
THEOREM SettledMoneyGoesForward == OneWorker => (Spec => SettledForwardOnly)
<1> SUFFICES ASSUME OneWorker PROVE Spec => SettledForwardOnly
  OBVIOUS
<1>1. Known /\ PayInv /\ [Next]_vars
        => [\A o \in Orders \ early : pay[o] \in SettledPayments => CanPay(pay[o], pay'[o])]_vars
  BY MoneyForward
<1>2. Spec => [](Known /\ PayInv)
  BY AlwaysPays
<1> QED
  BY <1>1, <1>2, PTL DEF Spec, SettledForwardOnly

\* Whoever has the goods has paid, cash on delivery included, whatever comes between the
\* checks of an operator's move and its commit, under the same assumption.
THEOREM GoodsHandedOverArePaid == OneWorker => (Spec => []HandedOverIsPaid)
<1> SUFFICES ASSUME OneWorker PROVE Spec => []HandedOverIsPaid
  OBVIOUS
<1>1. Init => GoodsPaid
  BY DEF Init, GoodsPaid, HandedOverIsPaid, HandoverStates, Idle
<1>2. Known /\ PayInv /\ GoodsPaid /\ [Next]_vars => GoodsPaid'
  BY StepGoods
<1>3. GoodsPaid => HandedOverIsPaid
  BY DEF GoodsPaid
<1>4. Spec => [](Known /\ PayInv)
  BY AlwaysPays
<1> QED
  BY <1>1, <1>2, <1>3, <1>4, PTL DEF Spec
=============================================================================
