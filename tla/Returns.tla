------------------------------ MODULE Returns ------------------------------
(***************************************************************************)
(* Returns and refunds of one order that was paid by card and handed over. *)
(* Customers open returns, operators reject them and move the order on,    *)
(* somebody asks for the refund, the gateway pays it and calls back.  Or   *)
(* it takes the refund without paying it: then it approves it later, which *)
(* pays it, or declines it.                                                *)
(*                                                                         *)
(* No request locks anything.  Each loads rows, holds them until its       *)
(* session commits, and writes back the columns it changed; the refund     *)
(* also waits for the gateway in between.  Whatever a request has not      *)
(* committed when it raises or dies is rolled back, but what the gateway   *)
(* has paid stays paid.  Money is counted in cents.                        *)
(***************************************************************************)
EXTENDS Naturals, FiniteSets, OrderStates

CONSTANTS
  Requests,       \* requests that are handled at one time
  Items,          \* the items of the order
  Subtotal,       \* what a set of items is refunded with
  Total,          \* orders.total_amount
  Tolerance,      \* by how much refunds may exceed it or fall short of it
  ReturnIds,      \* return requests that may be opened
  AdminTargets,   \* statuses the operators move the order to
  MaxRefunds      \* bound: refunds of one return that the gateway takes

ASSUME ReturnsAssumption ==
  /\ IsFiniteSet(Items)
  /\ Subtotal \in [SUBSET Items -> Nat]
  /\ Total \in Nat
  /\ Tolerance \in Nat
  /\ AdminTargets \subseteq OrderStatuses
  /\ MaxRefunds \in Nat

VARIABLES
  \* the database
  status,     \* orders.status
  pay,        \* orders.payment_status
  refunded,   \* payment_transactions.refunded_amount
  flagged,    \* items with is_returned
  netted,     \* items with a 'return' event in the attribution ledger
  returns,    \* return_requests, status "none" before they are opened
  seen,       \* webhook_events: the amounts of the refund callbacks recorded
  \* the requests being handled
  run,
  \* the gateway
  taken,      \* how many refunds of each return it has taken
  waiting,    \* how many of them it has neither approved nor declined
  payouts,    \* how often it has paid each return
  accepted    \* the sum of the refunds it has taken

gatewayVars == <<taken, waiting, payouts, accepted>>
dbVars == <<status, pay, refunded, flagged, netted, returns, seen>>
vars   == <<dbVars, run, gatewayVars>>

ReturnStatuses == {"requested", "approved", "rejected", "refunded"}

None == [status |-> "none", items |-> {}]
Idle == [pc |-> "idle"]

\* refund_amount of a return: the subtotals of its items.
Amount(id) == Subtotal[returns[id].items]

\* The columns a refund loads before it asks the gateway.
RefundRow(id) ==
  [status |-> status, ret |-> returns[id].status, refunded |-> refunded]

RefundRowType ==
  [status : OrderStatuses, ret : ReturnStatuses, refunded : Nat]

RunType ==
  {Idle} \union [pc : {"insert"}, items : SUBSET Items]
         \union [pc : {"inserted", "ledger"}, id : ReturnIds]
         \union [pc : {"move"}, id : ReturnIds, status : OrderStatuses]
         \union [pc : {"reject"}, id : ReturnIds, status : OrderStatuses]
         \union [pc : {"asked"}, id : ReturnIds, row : RefundRowType]
         \union [pc : {"answered"}, id : ReturnIds, row : RefundRowType,
                 answer : {"refunded", "refund_pending", "failed"}]
         \union [pc : {"recorded"}, amount : Nat]
         \union [pc : {"apply"}, amount : Nat, status : OrderStatuses,
                 pay : PaymentStatuses, refunded : Nat]
         \union [pc : {"operate"}, to : OrderStatuses, status : OrderStatuses]

TypeOK ==
  /\ status \in OrderStatuses
  /\ pay \in PaymentStatuses
  /\ refunded \in Nat
  /\ flagged \subseteq Items
  /\ netted \subseteq Items
  /\ returns \in [ReturnIds -> {None} \union [status : ReturnStatuses, items : SUBSET Items]]
  /\ seen \subseteq Nat
  /\ run \in [Requests -> RunType]
  /\ taken \in [ReturnIds -> 0..MaxRefunds]
  /\ waiting \in [ReturnIds -> Nat]
  /\ payouts \in [ReturnIds -> Nat]
  /\ accepted \in Nat

Init ==
  /\ status = "delivered"  \* picked_up has the same moves
  /\ pay = "paid"
  /\ refunded = 0
  /\ flagged = {}
  /\ netted = {}
  /\ returns = [id \in ReturnIds |-> None]
  /\ seen = {}
  /\ run = [q \in Requests |-> Idle]
  /\ taken = [id \in ReturnIds |-> 0]
  /\ waiting = [id \in ReturnIds |-> 0]
  /\ payouts = [id \in ReturnIds |-> 0]
  /\ accepted = 0

At(q, pc) == run[q].pc = pc

Goto(q, r) == run' = [run EXCEPT ![q] = r]

Ends(q) == Goto(q, Idle)

\* A flush writes a column only if its value changed since it was loaded.
Written(new, loaded, current) == IF new # loaded THEN new ELSE current

\* May _transition move an order it has loaded in status s to t?
MayMove(s, t) == t = s \/ CanMove(s, t)

-----------------------------------------------------------------------------
\* create_return

EligibleStatuses == {"delivered", "picked_up", "completed"}

\* The order and its items are loaded and checked.
CheckReturn(q) ==
  /\ At(q, "idle")
  /\ status \in EligibleStatuses
  /\ \E items \in SUBSET Items \ {{}} :
       /\ items \intersect flagged = {}
       /\ Goto(q, [pc |-> "insert", items |-> items])
  /\ UNCHANGED <<dbVars, gatewayVars>>

\* create_return_request: the return, its items and their flags, then COMMIT.
InsertReturn(q) ==
  /\ At(q, "insert")
  /\ \E id \in ReturnIds :
       /\ returns[id] = None
       /\ returns' = [returns EXCEPT ![id] = [status |-> "requested", items |-> run[q].items]]
       /\ Goto(q, [pc |-> "inserted", id |-> id])
  /\ flagged' = flagged \union run[q].items
  /\ UNCHANGED <<status, pay, refunded, netted, seen, gatewayVars>>

\* The COMMIT has expired the order: _transition checks it as it is now.  If it
\* raises, the return stays.
ReloadOrder(q) ==
  /\ At(q, "inserted")
  /\ Goto(q, IF status = "return_requested" THEN [pc |-> "ledger", id |-> run[q].id]
             ELSE IF CanMove(status, "return_requested")
               THEN [pc |-> "move", id |-> run[q].id, status |-> status]
             ELSE Idle)
  /\ UNCHANGED <<dbVars, gatewayVars>>

\* The move and its event are committed.
MoveToReturnRequested(q) ==
  /\ At(q, "move")
  /\ status' = "return_requested"
  /\ Goto(q, [pc |-> "ledger", id |-> run[q].id])
  /\ UNCHANGED <<pay, refunded, flagged, netted, returns, seen, gatewayVars>>

\* _record_return_ledger, whose failures are logged and swallowed, as if the
\* request died here.
RecordLedger(q) ==
  /\ At(q, "ledger")
  /\ netted' = netted \union returns[run[q].id].items
  /\ Ends(q)
  /\ UNCHANGED <<status, pay, refunded, flagged, returns, seen, gatewayVars>>

-----------------------------------------------------------------------------
\* reject_return

\* The return is loaded and checked, and its order with it.
CheckReject(q) ==
  /\ At(q, "idle")
  /\ \E id \in ReturnIds :
       /\ returns[id].status \in {"requested", "approved"}
       /\ Goto(q, [pc |-> "reject", id |-> id, status |-> status])
  /\ UNCHANGED <<dbVars, gatewayVars>>

\* Mutant: a rejection forgets to give the items back.
RejectKeepsFlags(q) ==
  /\ At(q, "reject")
  /\ MayMove(run[q].status, "rejected")
  /\ netted' = netted \ returns[run[q].id].items
  /\ returns' = [returns EXCEPT ![run[q].id].status = "rejected"]
  /\ status' = Written("rejected", run[q].status, status)
  /\ Ends(q)
  /\ UNCHANGED <<pay, refunded, flagged, seen, gatewayVars>>

\* Flags, ledger, return and order in one COMMIT.
Reject(q) ==
  /\ At(q, "reject")
  /\ MayMove(run[q].status, "rejected")
  /\ flagged' = flagged \ returns[run[q].id].items
  /\ netted' = netted \ returns[run[q].id].items
  /\ returns' = [returns EXCEPT ![run[q].id].status = "rejected"]
  /\ status' = Written("rejected", run[q].status, status)
  /\ Ends(q)
  /\ UNCHANGED <<pay, refunded, seen, gatewayVars>>

\* _transition raises: all of it is rolled back.
RejectRaises(q) ==
  /\ At(q, "reject")
  /\ ~MayMove(run[q].status, "rejected")
  /\ Ends(q)
  /\ UNCHANGED <<dbVars, gatewayVars>>

-----------------------------------------------------------------------------
\* refund_return

\* Mutant: the refundable balance is not checked.
NothingExceeds(id) == FALSE

\* The refund would exceed the balance of the transaction by more than a cent.
Exceeds(id) == refunded + Amount(id) > Total + Tolerance

\* Return, order and transaction are loaded and checked; then the handler awaits
\* the gateway.  Only a return that reads as refunded is turned away.
AskRefund(q) ==
  /\ At(q, "idle")
  /\ \E id \in ReturnIds :
       /\ returns[id].status \in ReturnStatuses \ {"refunded"}
       /\ ~Exceeds(id)
       /\ Goto(q, [pc |-> "asked", id |-> id, row |-> RefundRow(id)])
  /\ UNCHANGED <<dbVars, gatewayVars>>

\* What the handler has in hand when the gateway has answered a.
Answered(q, a) ==
  [pc |-> "answered", id |-> run[q].id, row |-> run[q].row, answer |-> a]

\* The gateway takes a refund of the return q asks for, and answers a.
Takes(q, a) ==
  /\ At(q, "asked")
  /\ taken[run[q].id] < MaxRefunds
  /\ taken' = [taken EXCEPT ![run[q].id] = @ + 1]
  /\ accepted' = accepted + Amount(run[q].id)
  /\ Goto(q, Answered(q, a))

\* It pays at once; if its answer is lost, that reads as failed.
GatewayPays(q) ==
  /\ \E a \in {"refunded", "failed"} : Takes(q, a)
  /\ payouts' = [payouts EXCEPT ![run[q].id] = @ + 1]
  /\ UNCHANGED <<dbVars, waiting>>

\* Mutant: what waits for an approval reads as refunded.
AcceptsAsRefunded(q) ==
  /\ \E a \in {"refunded", "failed"} : Takes(q, a)
  /\ waiting' = [waiting EXCEPT ![run[q].id] = @ + 1]
  /\ UNCHANGED <<dbVars, payouts>>

\* It takes the refund for a later approval: any other status in its answer.
GatewayAccepts(q) ==
  /\ \E a \in {"refund_pending", "failed"} : Takes(q, a)
  /\ waiting' = [waiting EXCEPT ![run[q].id] = @ + 1]
  /\ UNCHANGED <<dbVars, payouts>>

\* It approves what waits, which pays it, or declines it, of which it says nothing.
GatewayDecides(id) ==
  /\ waiting[id] > 0
  /\ waiting' = [waiting EXCEPT ![id] = @ - 1]
  /\ payouts' \in {payouts, [payouts EXCEPT ![id] = @ + 1]}
  /\ UNCHANGED <<dbVars, run, taken, accepted>>

\* No v3 credentials, an id it cannot resolve, an error status, no connection.
GatewayRefuses(q) ==
  /\ At(q, "asked")
  /\ Goto(q, Answered(q, "failed"))
  /\ UNCHANGED <<dbVars, gatewayVars>>

\* What the transaction's refunded_amount becomes.
NewRefunded(q) == run[q].row.refunded + Amount(run[q].id)

\* The order is refunded, but for a cent.
IsFull(q) == NewRefunded(q) + Tolerance >= Total

\* The order's status after a confirmed refund.
RefundTarget(q) == IF IsFull(q) THEN "refunded" ELSE "partially_returned"

\* Mutant: an unconfirmed refund is taken for a pending one.
AnyAnswerIsPending(q) == run[q].answer # "refunded"

\* The gateway has taken the refund and will pay it later.
AnswerIsPending(q) == run[q].answer = "refund_pending"

\* Mutant: the return takes the gateway's word for its status.
BookPendingAsAnswered(q) ==
  /\ At(q, "answered")
  /\ AnswerIsPending(q)
  /\ refunded' = Written(NewRefunded(q), run[q].row.refunded, refunded)
  /\ returns' = [returns EXCEPT ![run[q].id].status =
                   Written(run[q].answer, run[q].row.ret, @)]
  /\ Ends(q)
  /\ UNCHANGED <<status, pay, flagged, netted, seen, gatewayVars>>

\* A pending refund approves the return and leaves the order alone.
BookPending(q) ==
  /\ At(q, "answered")
  /\ AnswerIsPending(q)
  /\ refunded' = Written(NewRefunded(q), run[q].row.refunded, refunded)
  /\ returns' = [returns EXCEPT ![run[q].id].status =
                   Written("approved", run[q].row.ret, @)]
  /\ Ends(q)
  /\ UNCHANGED <<status, pay, flagged, netted, seen, gatewayVars>>

\* A confirmed refund moves the order too, from the status loaded before the await.
BookRefunded(q) ==
  /\ At(q, "answered")
  /\ run[q].answer = "refunded"
  /\ MayMove(run[q].row.status, RefundTarget(q))
  /\ refunded' = Written(NewRefunded(q), run[q].row.refunded, refunded)
  /\ returns' = [returns EXCEPT ![run[q].id].status = "refunded"]
  /\ status' = Written(RefundTarget(q), run[q].row.status, status)
  /\ pay' = IF IsFull(q) THEN "refunded" ELSE pay
  /\ Ends(q)
  /\ UNCHANGED <<flagged, netted, seen, gatewayVars>>

\* The gateway did not confirm, or _transition raises: nothing is recorded.
RefundRaises(q) ==
  /\ At(q, "answered")
  /\ \/ run[q].answer = "failed"
     \/ run[q].answer = "refunded" /\ ~MayMove(run[q].row.status, RefundTarget(q))
  /\ Ends(q)
  /\ UNCHANGED <<dbVars, gatewayVars>>

-----------------------------------------------------------------------------
\* The gateway's refund callback: process_webhook with "refund.succeeded"

\* Transaction and amount make the deduplication key; it is committed first.
RecordRefundEvent(q) ==
  /\ At(q, "idle")
  /\ \E id \in ReturnIds :
       /\ payouts[id] > 0
       /\ Amount(id) \notin seen
       /\ seen' = seen \union {Amount(id)}
       /\ Goto(q, [pc |-> "recorded", amount |-> Amount(id)])
  /\ UNCHANGED <<status, pay, refunded, flagged, netted, returns, gatewayVars>>

\* The order is loaded again; a payment that may not become refunded is left.
LoadForRefundEvent(q) ==
  /\ At(q, "recorded")
  /\ Goto(q, IF CanPay(pay, "refunded")
               THEN [pc |-> "apply", amount |-> run[q].amount, status |-> status,
                     pay |-> pay, refunded |-> refunded]
               ELSE Idle)
  /\ UNCHANGED <<dbVars, gatewayVars>>

\* Payment, refunded amount and, where the table allows it, the order.
ApplyRefundEvent(q) ==
  /\ At(q, "apply")
  /\ pay' = Written("refunded", run[q].pay, pay)
  /\ refunded' = Written(run[q].amount, run[q].refunded, refunded)
  /\ status' = IF CanMove(run[q].status, "refunded") THEN "refunded" ELSE status
  /\ Ends(q)
  /\ UNCHANGED <<flagged, netted, returns, seen, gatewayVars>>

-----------------------------------------------------------------------------
\* transition_order

CheckMove(q) ==
  /\ At(q, "idle")
  /\ \E t \in AdminTargets :
       /\ CanMove(status, t)
       /\ Goto(q, [pc |-> "operate", to |-> t, status |-> status])
  /\ UNCHANGED <<dbVars, gatewayVars>>

Move(q) ==
  /\ At(q, "operate")
  /\ status' = run[q].to
  /\ Ends(q)
  /\ UNCHANGED <<pay, refunded, flagged, netted, returns, seen, gatewayVars>>

-----------------------------------------------------------------------------
\* A request dies: what it has not committed is rolled back.
Dies(q) ==
  /\ ~At(q, "idle")
  /\ Ends(q)
  /\ UNCHANGED <<dbVars, gatewayVars>>

CreateStep(q) ==
  \/ CheckReturn(q) \/ InsertReturn(q) \/ ReloadOrder(q)
  \/ MoveToReturnRequested(q) \/ RecordLedger(q)
RejectStep(q) == CheckReject(q) \/ Reject(q) \/ RejectRaises(q)
RefundStep(q) ==
  \/ AskRefund(q) \/ GatewayPays(q) \/ GatewayAccepts(q) \/ GatewayRefuses(q)
  \/ BookPending(q) \/ BookRefunded(q) \/ RefundRaises(q)
EventStep(q) == RecordRefundEvent(q) \/ LoadForRefundEvent(q) \/ ApplyRefundEvent(q)
MoveStep(q) == CheckMove(q) \/ Move(q)

Next ==
  \/ \E q \in Requests :
       CreateStep(q) \/ RejectStep(q) \/ RefundStep(q) \/ EventStep(q) \/ MoveStep(q) \/ Dies(q)
  \/ \E id \in ReturnIds : GatewayDecides(id)

Spec == Init /\ [][Next]_vars

-----------------------------------------------------------------------------
\* The transaction never shows more refunded than the order cost and the cent the
\* check allows, although refund_return computes the amount from a balance it read
\* before its await and callbacks overwrite it.
RecordedWithinTotal == refunded <= Total + Tolerance

\* The books never claim money back that the gateway has not taken a refund for, and
\* a return marked refunded has been paid, whatever the interleaving of refunds that
\* overwrite each other's sums.  What is booked need not be paid: refunded_amount
\* counts a refund that waits, and keeps one that is declined.
BooksAreBacked ==
  /\ refunded <= accepted
  /\ \A id \in ReturnIds : returns[id].status = "refunded" => payouts[id] > 0

\* An item marked returned belongs to a return that was not rejected: otherwise it
\* can neither be returned again nor exchanged.  Creation and rejection of
\* returns that share an item overlap.
FlaggedItemHasReturn ==
  \A i \in flagged : \E id \in ReturnIds :
    i \in returns[id].items /\ returns[id].status # "rejected"

\* "Duplicate refund request -> idempotent return, single PSP refund call": the
\* gateway pays a return once.
RefundedOnce == \A id \in ReturnIds : payouts[id] <= 1
=============================================================================
