---------------------------- MODULE OrderPayment ----------------------------
(***************************************************************************)
(* An order from checkout to handover, and everything that races for it:   *)
(* the checkout request, the payment provider's webhooks, reconciliation,  *)
(* the operators' transitions and the sweep of expired reservations.       *)
(*                                                                         *)
(* A handler loads the rows it works on, holds them across whatever it     *)
(* waits for, and writes back the columns it changed; nothing locks the    *)
(* order row.  A COMMIT expires the loaded rows, so what follows a COMMIT  *)
(* starts from the database again.  Loading and writing are separate steps *)
(* here, and anything may happen between them except what the event loop   *)
(* of a single worker excludes: there, a webhook or checkout that is past  *)
(* its last await runs to its end before another one resumes.  Operators   *)
(* run in threads and the sweep in another process: they always interleave.*)
(* An order has one reservation row.  Here the row has its status only: how*)
(* many units are on the shelf, and what reading a row and adding its units*)
(* to the shelf in separate statements does to that number, is Inventory's *)
(* subject.                                                                *)
(***************************************************************************)
EXTENDS Naturals, OrderStates

CONSTANTS
  Orders,        \* orders that may be placed
  Methods,       \* payment methods customers use: "card" (hosted), "cod"
  Modes,         \* values settings.PAYMENTS_LIVE may have
  AdminTargets,  \* statuses the operators move orders to
  Admins,        \* operator requests being handled at one time
  Hooks,         \* webhook deliveries being handled at one time
  Recons,        \* reconciliation requests being handled at one time
  SingleWorker,  \* one worker process serves all requests, or several do
  FaultSites,    \* handlers that may die: "checkout", "operator", "webhook"
  MaxFaults      \* bound: how often in a behaviour

ASSUME OrderPaymentAssumption ==
  /\ Methods \subseteq {"card", "cod"}
  /\ Modes \subseteq BOOLEAN
  /\ AdminTargets \subseteq OrderStatuses
  /\ SingleWorker \in BOOLEAN
  /\ FaultSites \subseteq {"checkout", "operator", "webhook"}
  /\ MaxFaults \in Nat

VARIABLES
  \* the database
  status,   \* orders.status, "none" before the order is placed
  pay,      \* orders.payment_status
  method,   \* orders.payment_method
  tx,       \* status of the order's latest payment transaction, or "none"
  resv,     \* status of the order's inventory reservation, or "none"
  seen,     \* webhook_events: the deduplication keys recorded
  \* the requests being handled
  checkout, \* where the checkout request of each order stands
  answer,   \* the provider's answer to a checkout, and the order as reloaded then
  hook,     \* the webhook deliveries in progress
  recon,    \* the reconciliations in progress
  op,       \* the operator requests in progress
  \* the deployment and the outside
  live,     \* settings.PAYMENTS_LIVE
  psp,      \* the invoice of each order at the payment provider
  sent,     \* events the provider has emitted (delivered any number of times)
  swept,    \* orders whose rows the sweep, a process of its own, has read as held
  applied,  \* history: events whose handling has run to its end
  early,    \* history: orders whose cash was collected before their checkout ended
  faults    \* crashes and failures so far

dbVars  == <<status, pay, method, tx, resv, seen>>
reqVars == <<checkout, answer, hook, recon, op>>
envVars == <<live, psp, sent, swept, applied, early, faults>>
vars    == <<dbVars, reqVars, envVars>>

Events == [order : Orders, kind : {"captured", "failed", "cancelled", "refunded"}]

Idle == [pc |-> "idle"]

\* The columns a handler loads with an order and its latest transaction.
Row(o) == [status |-> status[o], pay |-> pay[o], tx |-> tx[o]]

RowType == [status : OrderStatuses, pay : PaymentStatuses, tx : PaymentStatuses]

HookType ==
  {Idle} \union [pc : {"lookup"}, ev : Events]
         \union [pc : {"record"}, ev : Events, amountOk : BOOLEAN]
         \union [pc : {"apply"}, ev : Events, amountOk : BOOLEAN, row : RowType]

ReconType ==
  {Idle} \union [pc : {"asked"}, order : Orders, row : RowType]
         \union [pc : {"answered"}, order : Orders, row : RowType,
                 remote : {"paid", "failed", "cancelled"}, amountOk : BOOLEAN]

OpType ==
  {Idle} \union [pc : {"move"}, order : Orders, to : OrderStatuses]
         \union [pc : {"collect"}, order : Orders, to : HandoverStates]
         \union [pc : {"capture"}, order : Orders]

\* What the checkout request knows when the provider has answered.
AnswerType ==
  {Idle} \union [pay : {"pending", "authorized", "failed"}, row : RowType]

CheckoutStates ==
  {"new", "paying", "recorded", "done", "declined", "raised", "crashed"}

TypeOK ==
  /\ status \in [Orders -> OrderStatuses \union {"none"}]
  /\ pay \in [Orders -> PaymentStatuses]
  /\ method \in [Orders -> {"none", "card", "cod"}]
  /\ tx \in [Orders -> PaymentStatuses \union {"none"}]
  /\ resv \in [Orders -> {"none", "held", "committed", "released"}]
  /\ seen \subseteq Events
  /\ checkout \in [Orders -> CheckoutStates]
  /\ answer \in [Orders -> AnswerType]
  /\ hook \in [Hooks -> HookType]
  /\ recon \in [Recons -> ReconType]
  /\ op \in [Admins -> OpType]
  /\ live \in BOOLEAN
  /\ psp \in [Orders -> {"none", "open", "failed", "paid", "underpaid",
                         "cancelled", "refunded"}]
  /\ sent \subseteq Events
  /\ swept \subseteq Orders
  /\ applied \subseteq Events
  /\ early \subseteq Orders
  /\ faults \in 0..MaxFaults

Init ==
  /\ status = [o \in Orders |-> "none"]
  /\ pay = [o \in Orders |-> "pending"]
  /\ method = [o \in Orders |-> "none"]
  /\ tx = [o \in Orders |-> "none"]
  /\ resv = [o \in Orders |-> "none"]
  /\ seen = {}
  /\ checkout = [o \in Orders |-> "new"]
  /\ answer = [o \in Orders |-> Idle]
  /\ hook = [h \in Hooks |-> Idle]
  /\ recon = [r \in Recons |-> Idle]
  /\ op = [a \in Admins |-> Idle]
  /\ live \in Modes
  /\ psp = [o \in Orders |-> "none"]
  /\ sent = {}
  /\ swept = {}
  /\ applied = {}
  /\ early = {}
  /\ faults = 0

\* A handler dies: its process crashes, or the database fails under it.
Fault(site) ==
  /\ site \in FaultSites
  /\ faults < MaxFaults
  /\ faults' = faults + 1

Placed(o) == status[o] # "none"

\* No checkout or webhook is between its last await and its end, or there are
\* other workers to resume a request.
LoopFree ==
  SingleWorker => /\ \A o \in Orders : checkout[o] # "recorded"
                  /\ \A h \in Hooks : hook[h].pc # "apply"

(***************************************************************************)
(* Writing an order back.  The session updates only the columns that       *)
(* differ from the row it loaded; the others keep what the database holds. *)
(***************************************************************************)
Flush(o, old, new) ==
  /\ status' = IF new.status = old.status THEN status
               ELSE [status EXCEPT ![o] = new.status]
  /\ pay' = IF new.pay = old.pay THEN pay ELSE [pay EXCEPT ![o] = new.pay]
  /\ tx' = IF new.tx = old.tx THEN tx ELSE [tx EXCEPT ![o] = new.tx]

\* Mutant: reservations that are committed already are forgotten.
ReleaseHeldOnly(o) ==
  resv' = IF resv[o] = "held" THEN [resv EXCEPT ![o] = "released"] ELSE resv

\* _release_inventory_for_order: the rows of the order that are not released
\* become released.  A row read as unreleased that another process releases
\* meanwhile is written again, to the same status.
ReleaseInventory(o) ==
  resv' = IF resv[o] \in {"held", "committed"}
          THEN [resv EXCEPT ![o] = "released"] ELSE resv

(***************************************************************************)
(* Checkout                                                                *)
(***************************************************************************)

\* The first half, up to the call to the payment provider: the reservation and
\* the order are committed together, the reservation is attached to the order.
\* A checkout that finds too little stock places no order.
PlaceOrder(o, m) ==
  /\ LoopFree
  /\ checkout[o] = "new"
  /\ resv' = [resv EXCEPT ![o] = "held"]
  /\ status' = [status EXCEPT ![o] = "placed"]
  /\ method' = [method EXCEPT ![o] = m]
  /\ checkout' = [checkout EXCEPT ![o] = "paying"]
  /\ UNCHANGED <<pay, tx, seen, answer, hook, recon, op, envVars>>

\* Mutant: the provider's word for cash on delivery is not mapped.
UnmappedAnswers(m) ==
  IF m = "cod" THEN {"pending_delivery"}
  ELSE IF live THEN {"pending", "failed"} ELSE {"authorized"}

\* _map_provider_status of what initiate_payment can answer: the demo adapter
\* authorises, cash on delivery is pending, the live gateway opens an invoice
\* or fails.
MappedAnswers(m) ==
  IF m = "cod" THEN {"pending"}
  ELSE IF live THEN {"pending", "failed"} ELSE {"authorized"}

\* The provider's answer arrives and the payment transaction is committed; the
\* order is read again.  A connection that breaks after the provider has opened
\* the invoice counts as failed.
RecordPayment(o) ==
  /\ LoopFree
  /\ checkout[o] = "paying"
  /\ \E a \in MappedAnswers(method[o]) :
       /\ tx' = [tx EXCEPT ![o] = a]
       /\ answer' = [answer EXCEPT ![o] =
                       [pay |-> a, row |-> [Row(o) EXCEPT !.tx = a]]]
       /\ IF live /\ method[o] = "card"
            THEN \E p \in (IF a = "failed" THEN {"none", "open"} ELSE {"open"}) :
                   psp' = [psp EXCEPT ![o] = p]
            ELSE UNCHANGED psp
  /\ checkout' = [checkout EXCEPT ![o] = "recorded"]
  /\ UNCHANGED <<status, pay, method, resv, seen, hook, recon, op,
                 live, sent, swept, applied, early, faults>>

\* The status checkout leaves the order in.
NextStatus(o) ==
  CASE answer[o].pay = "failed"                          -> "failed"
    [] answer[o].pay = "pending" /\ method[o] # "cod"    -> "payment_pending"
    [] OTHER                                             -> "processing"

\* _transition accepts the move from the status the request has read.
MoveAccepted(o) ==
  \/ answer[o].row.status = NextStatus(o)
  \/ CanMove(answer[o].row.status, NextStatus(o))

\* The end of checkout: the order's new status and payment are written, and the
\* request is over.  The payment is assigned while the order is still expired by
\* the COMMIT of the transaction: there is no loaded value to compare with, and
\* the column is written whatever the database holds.  The status is loaded
\* first, and written when it differs.
Finish(o, outcome) ==
  /\ status' = IF NextStatus(o) = answer[o].row.status THEN status
               ELSE [status EXCEPT ![o] = NextStatus(o)]
  /\ pay' = [pay EXCEPT ![o] = answer[o].pay]
  /\ UNCHANGED tx
  /\ checkout' = [checkout EXCEPT ![o] = outcome]
  /\ UNCHANGED <<method, seen, answer, hook, recon, op, envVars>>

FinishAccepted(o) ==
  /\ checkout[o] = "recorded"
  /\ answer[o].pay # "failed"
  /\ MoveAccepted(o)
  /\ Finish(o, "done")
  /\ resv' = [resv EXCEPT ![o] = "committed"]

FinishDeclined(o) ==
  /\ checkout[o] = "recorded"
  /\ answer[o].pay = "failed"
  /\ MoveAccepted(o)
  /\ Finish(o, "declined")
  /\ ReleaseInventory(o)

\* The move is not in the table any more: _transition raises, the session rolls
\* back, and only what was committed before stays.
FinishRaises(o) ==
  /\ checkout[o] = "recorded"
  /\ ~MoveAccepted(o)
  /\ checkout' = [checkout EXCEPT ![o] = "raised"]
  /\ UNCHANGED <<dbVars, answer, hook, recon, op, envVars>>

CrashCheckout(o) ==
  /\ checkout[o] \in {"paying", "recorded"}
  /\ Fault("checkout")
  /\ checkout' = [checkout EXCEPT ![o] = "crashed"]
  /\ UNCHANGED <<dbVars, answer, hook, recon, op, live, psp, sent, swept, applied,
                 early>>

\* Mutant: only crashed checkouts are thought of.
ExpiredCrashed == {o \in Orders : resv[o] = "held" /\ checkout[o] = "crashed"}

\* The sweep of reservations held for more than 30 minutes.  A checkout request
\* ends long before that, so an old held reservation is one whose checkout has
\* ended without committing or releasing it.
Expired == {o \in Orders : /\ resv[o] = "held"
                           /\ checkout[o] \in {"raised", "crashed"}}

\* The sweep reads the expired rows, without a lock.
SweepReads ==
  /\ swept = {}
  /\ Expired # {}
  /\ swept' = Expired
  /\ UNCHANGED <<dbVars, reqVars, live, psp, sent, applied, early, faults>>

\* It marks every row it has read, whatever became of the row since, and commits.
SweepCommits ==
  /\ swept # {}
  /\ resv' = [o \in Orders |-> IF o \in swept THEN "released" ELSE resv[o]]
  /\ swept' = {}
  /\ UNCHANGED <<status, pay, method, tx, seen, reqVars, live, psp, sent, applied,
                 early, faults>>

(***************************************************************************)
(* The payment provider.  Customers reach the hosted page with the link in *)
(* the answer of a checkout that was accepted; they may retry after a      *)
(* failed attempt.  An unpaid invoice expires, hours after the checkout.   *)
(***************************************************************************)
Emit(o, k) == sent' = sent \union {[order |-> o, kind |-> k]}

PspMove(o, from, to) ==
  /\ psp[o] \in from
  /\ psp' = [psp EXCEPT ![o] = to]
  /\ UNCHANGED <<dbVars, reqVars, live, swept, applied, early, faults>>

PspFails(o) ==
  /\ checkout[o] = "done"
  /\ PspMove(o, {"open"}, "failed")
  /\ Emit(o, "failed")

\* The invoice is settled, for the amount due or for another one.
PspPays(o) ==
  /\ checkout[o] = "done"
  /\ \E p \in {"paid", "underpaid"} : PspMove(o, {"open", "failed"}, p)
  /\ Emit(o, "captured")

PspExpires(o) ==
  /\ checkout[o] \notin {"paying", "recorded"}
  /\ PspMove(o, {"open", "failed"}, "cancelled")
  /\ Emit(o, "cancelled")

PspRefunds(o) ==
  /\ PspMove(o, {"paid"}, "refunded")
  /\ Emit(o, "refunded")

(***************************************************************************)
(* What an event does to the row a handler holds.  r is that row.          *)
(***************************************************************************)

\* _verify_settled_amount_and_currency refuses the settlement.
MismatchFailsOrder(r) == r.pay \in {"pending", "authorized"}

AfterMismatch(r) ==
  [ status |-> IF MismatchFailsOrder(r)
                  /\ r.status \in {"placed", "payment_pending", "processing"}
               THEN "failed" ELSE r.status,
    pay |-> IF MismatchFailsOrder(r) THEN "failed" ELSE r.pay,
    tx |-> IF CanPay(r.tx, "failed") THEN "failed" ELSE r.tx ]

AfterCancelledCapture(r) == [r EXCEPT !.pay = "refund_pending", !.tx = "refund_pending"]

AfterCapture(r) ==
  [ status |-> IF r.status \in {"placed", "payment_pending"} THEN "processing"
               ELSE r.status,
    pay |-> "paid",
    tx |-> "paid" ]

\* k, "failed" or "cancelled", is the order status as well as the payment's.
AfterFailure(r, k) ==
  [ status |-> IF CanMove(r.status, k) THEN k ELSE r.status, pay |-> k, tx |-> k ]

AfterRefund(r) ==
  IF CanPay(r.pay, "refunded")
  THEN [ status |-> IF CanMove(r.status, "refunded") THEN "refunded" ELSE r.status,
         pay |-> "refunded",
         tx |-> "refunded" ]
  ELSE r

(***************************************************************************)
(* Webhooks: look the key up, confirm a capture with the provider, record  *)
(* the key (COMMIT), apply the event to the order as it then is (COMMIT).  *)
(***************************************************************************)

\* What a step of delivery h leaves alone when it only moves the delivery on.
OnlyHook == UNCHANGED <<dbVars, checkout, answer, recon, op, envVars>>

\* A delivery of an event whose key is recorded answers "duplicate" and changes
\* nothing.
Deliver(h, e) ==
  /\ LoopFree
  /\ hook[h] = Idle
  /\ e \in sent
  /\ e \notin seen
  /\ hook' = [hook EXCEPT ![h] =
                IF e.kind = "captured" THEN [pc |-> "lookup", ev |-> e]
                ELSE [pc |-> "record", ev |-> e, amountOk |-> TRUE]]
  /\ OnlyHook

\* Mutant: the amount is not compared.
LookupConfirmsAnyAmount(h) ==
  /\ LoopFree
  /\ hook[h].pc = "lookup"
  /\ psp[hook[h].ev.order] \in {"paid", "underpaid"}
  /\ hook' = [hook EXCEPT ![h] = [pc |-> "record", ev |-> @.ev, amountOk |-> TRUE]]
  /\ OnlyHook

LookupConfirms(h) ==
  /\ LoopFree
  /\ hook[h].pc = "lookup"
  /\ LET p == psp[hook[h].ev.order] IN
       /\ p \in {"paid", "underpaid"}
       /\ hook' = [hook EXCEPT ![h] =
                     [pc |-> "record", ev |-> @.ev, amountOk |-> p = "paid"]]
  /\ OnlyHook

\* Mutant: the key is recorded before the lookup has confirmed the capture.
LookupRefusesForGood(h) ==
  /\ LoopFree
  /\ hook[h].pc = "lookup"
  /\ seen' = seen \union {hook[h].ev}
  /\ hook' = [hook EXCEPT ![h] = Idle]
  /\ UNCHANGED <<status, pay, method, tx, resv, checkout, answer, recon,
                 op, envVars>>

\* The provider does not confirm the capture, or the lookup fails: nothing is
\* recorded, so that a later delivery is handled from the start.
LookupRefuses(h) ==
  /\ LoopFree
  /\ hook[h].pc = "lookup"
  /\ hook' = [hook EXCEPT ![h] = Idle]
  /\ OnlyHook

\* Mutant: the key is not unique.
RecordEventAgain(h) ==
  /\ LoopFree
  /\ hook[h].pc = "record"
  /\ seen' = seen \union {hook[h].ev}
  /\ hook' = [hook EXCEPT ![h] = [pc |-> "apply", ev |-> @.ev, amountOk |-> @.amountOk,
                                 row |-> Row(@.ev.order)]]
  /\ UNCHANGED <<status, pay, method, tx, resv, checkout, answer, recon,
                 op, envVars>>

\* record_webhook_event commits the key; the order is read again.
RecordEvent(h) ==
  /\ LoopFree
  /\ hook[h].pc = "record"
  /\ hook[h].ev \notin seen
  /\ seen' = seen \union {hook[h].ev}
  /\ hook' = [hook EXCEPT ![h] = [pc |-> "apply", ev |-> @.ev, amountOk |-> @.amountOk,
                                 row |-> Row(@.ev.order)]]
  /\ UNCHANGED <<status, pay, method, tx, resv, checkout, answer, recon,
                 op, envVars>>

\* The unique key is taken: IntegrityError, "duplicate".
RecordLosesRace(h) ==
  /\ LoopFree
  /\ hook[h].pc = "record"
  /\ hook[h].ev \in seen
  /\ hook' = [hook EXCEPT ![h] = Idle]
  /\ OnlyHook

\* What ends the handling of the event in h.
Applied(h) ==
  /\ hook' = [hook EXCEPT ![h] = Idle]
  /\ applied' = applied \union {hook[h].ev}
  /\ UNCHANGED <<method, seen, checkout, answer, recon, op, live, psp, sent, swept,
                 early, faults>>

\* Mutant: a capture is taken whatever the payment has become.
CaptureUnchecked(r) ==
  IF r.status = "cancelled" THEN AfterCancelledCapture(r) ELSE AfterCapture(r)

\* The order and transaction as the capture leaves them.
CaptureResult(r) ==
  IF r.status = "cancelled" THEN AfterCancelledCapture(r)
  ELSE IF CanPay(r.pay, "paid") THEN AfterCapture(r)
  ELSE r

ApplyCaptured(h) ==
  /\ hook[h].pc = "apply"
  /\ hook[h].ev.kind = "captured"
  /\ LET o == hook[h].ev.order
         r == hook[h].row IN
       IF hook[h].amountOk
         THEN Flush(o, r, CaptureResult(r)) /\ UNCHANGED resv
         ELSE /\ Flush(o, r, AfterMismatch(r))
              /\ IF MismatchFailsOrder(r) THEN ReleaseInventory(o)
                 ELSE UNCHANGED resv
  /\ Applied(h)

\* Mutant: a late failure undoes a settled payment.
ApplyFailureUnchecked(h) ==
  /\ hook[h].pc = "apply"
  /\ hook[h].ev.kind \in {"failed", "cancelled"}
  /\ Flush(hook[h].ev.order, hook[h].row, AfterFailure(hook[h].row, hook[h].ev.kind))
  /\ ReleaseInventory(hook[h].ev.order)
  /\ Applied(h)

ApplyFailure(h) ==
  /\ hook[h].pc = "apply"
  /\ hook[h].ev.kind \in {"failed", "cancelled"}
  /\ LET o == hook[h].ev.order
         r == hook[h].row
         k == hook[h].ev.kind IN
       IF CanPay(r.pay, k)
         THEN Flush(o, r, AfterFailure(r, k)) /\ ReleaseInventory(o)
         ELSE UNCHANGED <<status, pay, tx, resv>>
  /\ Applied(h)

ApplyRefund(h) ==
  /\ hook[h].pc = "apply"
  /\ hook[h].ev.kind = "refunded"
  /\ Flush(hook[h].ev.order, hook[h].row, AfterRefund(hook[h].row))
  /\ UNCHANGED resv
  /\ Applied(h)

Apply(h) == ApplyCaptured(h) \/ ApplyFailure(h) \/ ApplyRefund(h)

\* The process or the database fails after the key is committed and before the
\* event is.
ApplyFails(h) ==
  /\ hook[h].pc = "apply"
  /\ Fault("webhook")
  /\ hook' = [hook EXCEPT ![h] = Idle]
  /\ UNCHANGED <<dbVars, checkout, answer, recon, op, live, psp, sent, swept, applied,
                 early>>

(***************************************************************************)
(* Reconciliation: load the order and its transaction, ask the provider    *)
(* (await), write the answer over the rows loaded before.                  *)
(***************************************************************************)
StartReconcile(r, o) ==
  /\ LoopFree
  /\ recon[r] = Idle
  /\ Placed(o)
  /\ live /\ method[o] = "card"
  /\ pay[o] \notin {"paid", "refunded"}
  /\ tx[o] # "none"
  /\ recon' = [recon EXCEPT ![r] = [pc |-> "asked", order |-> o, row |-> Row(o)]]
  /\ UNCHANGED <<dbVars, checkout, answer, hook, op, envVars>>

\* The provider reads its books; the answer travels back.
ProviderAnswers(r) ==
  /\ recon[r].pc = "asked"
  /\ LET p == psp[recon[r].order] IN
       /\ p \in {"paid", "underpaid", "failed", "cancelled"}
       /\ recon' = [recon EXCEPT ![r] =
                      [pc |-> "answered", order |-> @.order, row |-> @.row,
                       remote |-> IF p = "underpaid" THEN "paid" ELSE p,
                       amountOk |-> p # "underpaid"]]
  /\ UNCHANGED <<dbVars, checkout, answer, hook, op, envVars>>

\* The invoice is still open, unknown or refunded, or the lookup failed.
ReconcileEnds(r) ==
  /\ LoopFree
  /\ recon[r].pc = "asked"
  /\ recon' = [recon EXCEPT ![r] = Idle]
  /\ UNCHANGED <<dbVars, checkout, answer, hook, op, envVars>>

Reconciled(r) ==
  /\ LoopFree
  /\ recon[r].pc = "answered"
  /\ recon' = [recon EXCEPT ![r] = Idle]
  /\ UNCHANGED <<method, seen, checkout, answer, hook, op, envVars>>

ReconcilePaid(r) ==
  /\ Reconciled(r)
  /\ recon[r].remote = "paid"
  /\ LET o   == recon[r].order
         old == recon[r].row IN
       IF recon[r].amountOk
         THEN /\ Flush(o, old, IF old.status = "cancelled"
                               THEN AfterCancelledCapture(old) ELSE AfterCapture(old))
              /\ UNCHANGED resv
         ELSE /\ Flush(o, old, AfterMismatch(old))
              /\ IF MismatchFailsOrder(old) THEN ReleaseInventory(o)
                 ELSE UNCHANGED resv

ReconcileFailed(r) ==
  /\ Reconciled(r)
  /\ recon[r].remote \in {"failed", "cancelled"}
  /\ LET o   == recon[r].order
         old == recon[r].row
         k   == recon[r].remote IN
       IF CanPay(old.pay, k)
         THEN Flush(o, old, AfterFailure(old, k)) /\ ReleaseInventory(o)
         ELSE UNCHANGED <<status, pay, tx, resv>>

(***************************************************************************)
(* The operators.  A request reads the order and checks the move, then     *)
(* commits the move (and its audit row).                                   *)
(***************************************************************************)
OperatorReads(a, request) ==
  /\ op[a] = Idle
  /\ op' = [op EXCEPT ![a] = request]
  /\ UNCHANGED <<dbVars, checkout, answer, hook, recon, envVars>>

OperatorDone(a) ==
  /\ op' = [op EXCEPT ![a] = Idle]
  /\ UNCHANGED <<method, resv, seen, checkout, answer, hook, recon, envVars>>

\* Mutant: cash is only thought of at the pick-up desk.
CashIsDueAtPickup(o, s) == s = "picked_up" /\ method[o] = "cod" /\ pay[o] # "paid"

\* The handover of an order whose cash is not recorded yet.
CashIsDue(o, s) == s \in HandoverStates /\ method[o] = "cod" /\ pay[o] # "paid"

\* _transition's checks.
StartMove(a, o, s) ==
  /\ Placed(o)
  /\ CanMove(status[o], s)
  /\ GateOpen(s, pay[o], method[o])
  /\ OperatorReads(a, [pc |-> IF CashIsDue(o, s) THEN "collect" ELSE "move",
                       order |-> o, to |-> s])

\* The checkout request has stored the order and is not over.
CheckoutRuns(o) == checkout[o] \in {"paying", "recorded"}

\* _settle_cod_at_handover: the cash is committed before the move is.
CollectCash(a) ==
  /\ op[a].pc = "collect"
  /\ pay' = [pay EXCEPT ![op[a].order] = "paid"]
  /\ tx' = [tx EXCEPT ![op[a].order] = "paid"]
  /\ op' = [op EXCEPT ![a].pc = "move"]
  /\ early' = early \union {o \in {op[a].order} : CheckoutRuns(o)}
  /\ UNCHANGED <<status, method, resv, seen, checkout, answer, hook, recon,
                 live, psp, sent, swept, applied, faults>>

CommitMove(a) ==
  /\ op[a].pc = "move"
  /\ status' = [status EXCEPT ![op[a].order] = op[a].to]
  /\ UNCHANGED <<pay, tx>>
  /\ OperatorDone(a)

\* capture_demo_payment: the operator captures what the demo adapter authorised.
StartCapture(a, o) ==
  /\ ~live
  /\ Placed(o)
  /\ pay[o] = "authorized"
  /\ OperatorReads(a, [pc |-> "capture", order |-> o])

CommitCapture(a) ==
  /\ op[a].pc = "capture"
  /\ pay' = [pay EXCEPT ![op[a].order] = "paid"]
  /\ tx' = [tx EXCEPT ![op[a].order] = "paid"]
  /\ UNCHANGED status
  /\ OperatorDone(a)

\* The request dies before its next COMMIT.
CrashOperator(a) ==
  /\ op[a] # Idle
  /\ Fault("operator")
  /\ op' = [op EXCEPT ![a] = Idle]
  /\ UNCHANGED <<dbVars, checkout, answer, hook, recon, live, psp, sent, swept, applied,
                 early>>

(***************************************************************************)
(* The specification                                                       *)
(***************************************************************************)
CheckoutNext(o) ==
  \/ \E m \in Methods : PlaceOrder(o, m)
  \/ RecordPayment(o)
  \/ FinishAccepted(o) \/ FinishDeclined(o) \/ FinishRaises(o)
  \/ CrashCheckout(o)

PspNext(o) == PspFails(o) \/ PspPays(o) \/ PspExpires(o) \/ PspRefunds(o)

HookNext(h) ==
  \/ \E e \in Events : Deliver(h, e)
  \/ LookupConfirms(h) \/ LookupRefuses(h)
  \/ RecordEvent(h) \/ RecordLosesRace(h)
  \/ Apply(h) \/ ApplyFails(h)

ReconNext(r) ==
  \/ \E o \in Orders : StartReconcile(r, o)
  \/ ProviderAnswers(r) \/ ReconcileEnds(r)
  \/ ReconcilePaid(r) \/ ReconcileFailed(r)

AdminNext(a) ==
  \/ \E o \in Orders, s \in AdminTargets : StartMove(a, o, s)
  \/ \E o \in Orders : StartCapture(a, o)
  \/ CollectCash(a) \/ CommitMove(a) \/ CommitCapture(a)
  \/ CrashOperator(a)

Next ==
  \/ \E o \in Orders : CheckoutNext(o) \/ PspNext(o)
  \/ \E h \in Hooks : HookNext(h)
  \/ \E r \in Recons : ReconNext(r)
  \/ \E a \in Admins : AdminNext(a)
  \/ SweepReads \/ SweepCommits

Spec == Init /\ [][Next]_vars

\* The event loop resumes every request that can go on; the sweep runs every 15
\* minutes; the provider redelivers an event until it is acknowledged, and its
\* lookup does not fail for ever.
Fairness ==
  /\ \A o \in Orders : /\ SF_vars(RecordPayment(o))
                       /\ WF_vars(FinishAccepted(o) \/ FinishDeclined(o)
                                  \/ FinishRaises(o))
  /\ WF_vars(SweepReads) /\ WF_vars(SweepCommits)
  /\ \A h \in Hooks : /\ SF_vars(LookupConfirms(h))
                      /\ SF_vars(RecordEvent(h) \/ RecordLosesRace(h))
                      /\ WF_vars(Apply(h))
  /\ \A e \in Events : SF_vars(\E h \in Hooks : Deliver(h, e))

FairSpec == Spec /\ Fairness

(***************************************************************************)
(* Properties                                                              *)
(***************************************************************************)

\* The orders holding a unit.
Holding == {o \in Orders : resv[o] \in {"held", "committed"}}

\* Payments that are neither there nor off.
Undecided == {"pending", "pending_delivery", "authorized"}

\* A card order as a sale: what its reservation and its payment say together.
DealOf(o) ==
  IF method[o] # "card" THEN "none"
  ELSE LET kept == o \in Holding
           p    == pay[o] IN
       CASE kept /\ p \in Undecided                  -> "open"
         [] kept /\ p \in SettledPayments            -> "settled"
         [] ~kept /\ p \in {"failed", "cancelled"}   -> "void"
         [] ~kept /\ p \in Undecided                 -> "lapsed"
         [] ~kept /\ p \in SettledPayments \ {"paid"} -> "owed"
         [] OTHER                                    -> "broken"

deals == [o \in Orders |-> DealOf(o)]

SaleOf == INSTANCE Sale WITH deal <- deals

\* Whatever checkouts, callbacks, operators, sweeps and crashes do to the payment and
\* the reservation of a card order, in whatever order, the two together are a sale:
\* a payment fails only with its unit given back, a settled order's unit is never
\* given back, and money for a unit that was given back is owed, not paid.
ImplementsSale == SaleOf!SaleSpec

\* A card order whose payment stands as paid still holds its unit: no failure
\* callback, sweep or raised checkout has put the unit back on sale.
PaidHoldsUnit ==
  \A o \in Orders : method[o] = "card" /\ pay[o] = "paid" => o \in Holding

\* Goods of a card order move only if the provider has the full amount of its
\* invoice (live), or an operator has captured the demo authorisation.
MovedGoodsAreCaptured ==
  \A o \in Orders :
    method[o] = "card" /\ status[o] \in FULFILLMENT_STATES =>
      IF live THEN psp[o] \in {"paid", "refunded"} ELSE tx[o] = "paid"

\* Whoever has the goods has paid: an order that is picked up or delivered has
\* settled money, cash on delivery included, whichever operators, webhooks and
\* crashes come between the checks of a move and its commit.  Not claimed for cash
\* that was collected while the order's checkout was still running: the end of that
\* checkout writes "pending" over it.
HandedOverIsPaid ==
  \A o \in Orders \ early : status[o] \in HandoverStates => pay[o] \in SettledPayments

\* A webhook event is applied at most once, however often and however
\* concurrently it is delivered: no delivery is about to apply an event that is
\* applied already or that another delivery is about to apply.
AppliedOnce ==
  \A h \in Hooks : hook[h].pc = "apply" =>
    /\ hook[h].ev \notin applied
    /\ \A g \in Hooks \ {h} : hook[g].pc = "apply" => hook[g].ev # hook[h].ev

\* A settled payment only moves forward along PAYMENT_TRANSITIONS: late or
\* reordered callbacks never turn paid or refunded money back into pending,
\* failed or cancelled.  Cash collected before its checkout ended is excepted.
SettledForwardOnly ==
  [][\A o \in Orders \ early : pay[o] \in SettledPayments => CanPay(pay[o], pay'[o])]_vars

\* A cancelled order never goes back toward the customer, whatever settlement
\* arrives late.
CancelledNeverShips ==
  [][\A o \in Orders : status[o] = "cancelled"
                          => status'[o] \notin {"processing"} \union FULFILLMENT_STATES]_vars

\* A reservation does not stay held: checkout commits or releases it, or the
\* sweep gives the unit back after the checkout request died.
HeldIsTransient ==
  \A o \in Orders : resv[o] = "held" ~> resv[o] # "held"

\* A capture the provider has announced and stands by is applied in the end.
CaptureIsApplied ==
  \A o \in Orders :
    LET e == [order |-> o, kind |-> "captured"] IN
    e \in sent ~> e \in applied \/ psp[o] = "refunded"
=============================================================================
