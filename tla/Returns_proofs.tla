--------------------------- MODULE Returns_proofs ---------------------------
(***************************************************************************)
(* What holds of Returns for every number of requests, items and returns,  *)
(* every price, every tolerance and every number of refunds.               *)
(*                                                                         *)
(* The argument for the money: a refund writes the sum of the balance it   *)
(* has loaded and its own amount, and a callback writes one amount.  Both  *)
(* were within the total and the tolerance when the refund was checked,    *)
(* and the gateway has taken both by then; what is written is stale, but   *)
(* never too much.                                                         *)
(***************************************************************************)
EXTENDS Returns, TLAPS

\* What a request knows at its place.
RequestOK(q) ==
  /\ run[q].pc \in {"inserted", "ledger", "move", "reject", "asked", "answered"}
       => returns[run[q].id].status # "none"
  /\ run[q].pc \in {"asked", "answered"} =>
       /\ run[q].row.refunded <= accepted
       /\ run[q].row.refunded + Amount(run[q].id) <= Total + Tolerance
  /\ run[q].pc = "answered" /\ run[q].answer # "failed" =>
       run[q].row.refunded + Amount(run[q].id) <= accepted
  /\ run[q].pc = "answered" /\ run[q].answer = "refunded" => payouts[run[q].id] > 0
  /\ run[q].pc \in {"recorded", "apply"} => run[q].amount <= Total + Tolerance /\ run[q].amount <= accepted

\* What the gateway has paid or may still pay was opened, is within the total, and
\* was taken.
TakenReturns ==
  \A id \in ReturnIds : payouts[id] > 0 \/ waiting[id] > 0 =>
    /\ returns[id].status # "none"
    /\ Amount(id) <= Total + Tolerance
    /\ Amount(id) <= accepted

IInv ==
  /\ TypeOK
  /\ \A q \in Requests : RequestOK(q)
  /\ TakenReturns
  /\ RecordedWithinTotal
  /\ BooksAreBacked
  /\ FlaggedItemHasReturn

\* The constant sets a step's types are made of.
LEMMA StatusesDefined ==
  /\ {"delivered", "return_requested", "rejected", "refunded", "partially_returned"}
       \subseteq OrderStatuses
  /\ {"paid", "refunded"} \subseteq PaymentStatuses
BY DEF OrderStatuses, PaymentStatuses, ORDER_TRANSITIONS, PAYMENT_TRANSITIONS

\* An amount is a number.
LEMMA AmountNat ==
  ASSUME ReturnsAssumption, TypeOK, NEW id \in ReturnIds
  PROVE  Amount(id) \in Nat /\ returns[id].items \subseteq Items
<1>1. returns[id].items \subseteq Items
  BY DEF TypeOK, None
<1> QED
  BY <1>1 DEF Amount, ReturnsAssumption

\* What the record types say of a request.
LEMMA RunFields ==
  ASSUME TypeOK, NEW q \in Requests
  PROVE  /\ run[q].pc = "insert" => run[q].items \subseteq Items
         /\ run[q].pc \in {"inserted", "ledger", "move", "reject", "asked", "answered"}
              => run[q].id \in ReturnIds
         /\ run[q].pc \in {"move", "reject", "apply", "operate"} => run[q].status \in OrderStatuses
         /\ run[q].pc \in {"asked", "answered"} =>
              /\ run[q].row \in RefundRowType
              /\ run[q].row.status \in OrderStatuses
              /\ run[q].row.ret \in ReturnStatuses
              /\ run[q].row.refunded \in Nat
         /\ run[q].pc = "answered" => run[q].answer \in {"refunded", "refund_pending", "failed"}
         /\ run[q].pc \in {"recorded", "apply"} => run[q].amount \in Nat
         /\ run[q].pc = "apply" => run[q].pay \in PaymentStatuses /\ run[q].refunded \in Nat
         /\ run[q].pc = "operate" => run[q].to \in OrderStatuses
<1>1. run[q] \in RunType
  BY DEF TypeOK
<1> QED
  BY <1>1 DEF RunType, Idle, RefundRowType

\* Records that describe a request.
LEMMA RunRecords ==
  /\ Idle \in RunType
  /\ \A S \in SUBSET Items : [pc |-> "insert", items |-> S] \in RunType
  /\ \A id \in ReturnIds :
       /\ [pc |-> "inserted", id |-> id] \in RunType
       /\ [pc |-> "ledger", id |-> id] \in RunType
       /\ \A s \in OrderStatuses : /\ [pc |-> "move", id |-> id, status |-> s] \in RunType
                                   /\ [pc |-> "reject", id |-> id, status |-> s] \in RunType
       /\ \A w \in RefundRowType :
            /\ [pc |-> "asked", id |-> id, row |-> w] \in RunType
            /\ \A a \in {"refunded", "refund_pending", "failed"} :
                 [pc |-> "answered", id |-> id, row |-> w, answer |-> a] \in RunType
  /\ \A n \in Nat :
       /\ [pc |-> "recorded", amount |-> n] \in RunType
       /\ \A s \in OrderStatuses, p \in PaymentStatuses, m \in Nat :
            [pc |-> "apply", amount |-> n, status |-> s, pay |-> p, refunded |-> m] \in RunType
  /\ \A s, t \in OrderStatuses : [pc |-> "operate", to |-> t, status |-> s] \in RunType
BY DEF RunType

\* The invariant holds at the start.
LEMMA InitIInv ==
  ASSUME ReturnsAssumption
  PROVE  Init => IInv
<1> SUFFICES ASSUME Init PROVE IInv
  OBVIOUS
<1>1. TypeOK
  <2>1. run \in [Requests -> RunType]
    BY RunRecords DEF Init
  <2>2. returns \in [ReturnIds -> {None} \union [status : ReturnStatuses, items : SUBSET Items]]
    BY DEF Init
  <2>3. /\ taken \in [ReturnIds -> 0..MaxRefunds]
        /\ waiting \in [ReturnIds -> Nat] /\ payouts \in [ReturnIds -> Nat]
    BY DEF Init, ReturnsAssumption
  <2> QED
    BY <2>1, <2>2, <2>3, StatusesDefined DEF Init, TypeOK
<1>2. \A q \in Requests : RequestOK(q)
  BY DEF Init, RequestOK, Idle
<1>3. TakenReturns
  BY DEF Init, TakenReturns
<1>4. RecordedWithinTotal /\ BooksAreBacked /\ FlaggedItemHasReturn
  BY DEF Init, RecordedWithinTotal, BooksAreBacked, FlaggedItemHasReturn, None,
         ReturnsAssumption
<1> QED
  BY <1>1, <1>2, <1>3, <1>4 DEF IInv

\* Opened returns stay open, keep their items, and the gateway takes nothing back
\* that it has paid: then the requests that do not move know what they knew.
Forward ==
  /\ \A id \in ReturnIds : returns[id].status # "none" =>
       returns'[id].status # "none" /\ returns'[id].items = returns[id].items
  /\ \A id \in ReturnIds : payouts[id] > 0 => payouts'[id] > 0
  /\ accepted <= accepted'

LEMMA OthersKept ==
  ASSUME ReturnsAssumption, IInv, TypeOK', NEW q \in Requests, NEW r, Goto(q, r), Forward
  PROVE  \A p \in Requests \ {q} : RequestOK(p)'
<1> SUFFICES ASSUME NEW p \in Requests \ {q} PROVE RequestOK(p)'
  OBVIOUS
<1>1. run'[p] = run[p] /\ TypeOK
  BY DEF Goto, IInv, TypeOK
<1>2. RequestOK(p)
  BY DEF IInv
<1>3. CASE run[p].pc \in {"inserted", "ledger", "move", "reject", "asked", "answered"}
  <2>1. run[p].id \in ReturnIds
    BY <1>1, <1>3, RunFields
  <2>2. returns[run[p].id].status # "none"
    BY <1>2, <1>3 DEF RequestOK
  <2>3. returns'[run[p].id].status # "none" /\ Amount(run[p].id)' = Amount(run[p].id)
    BY <1>1, <2>1, <2>2 DEF Forward, Amount
  <2>4. accepted \in Nat /\ accepted' \in Nat /\ accepted <= accepted'
    BY <1>1 DEF TypeOK, Forward
  <2>5. run[p].pc \in {"asked", "answered"} =>
          run[p].row.refunded \in Nat /\ Amount(run[p].id) \in Nat
    BY <1>1, <2>1, RunFields, AmountNat
  <2>6. run[p].pc \in {"asked", "answered"} =>
          /\ run[p].row.refunded <= accepted'
          /\ run[p].row.refunded + Amount(run[p].id) <= Total + Tolerance
    BY <1>2, <2>4, <2>5 DEF RequestOK
  <2>7. run[p].pc = "answered" /\ run[p].answer # "failed" =>
          run[p].row.refunded + Amount(run[p].id) <= accepted'
    <3> SUFFICES ASSUME run[p].pc = "answered", run[p].answer # "failed"
                 PROVE  run[p].row.refunded + Amount(run[p].id) <= accepted'
      OBVIOUS
    <3>1. run[p].row.refunded + Amount(run[p].id) <= accepted
      BY <1>2 DEF RequestOK
    <3> QED
      BY <2>4, <2>5, <3>1
  <2>8. run[p].pc = "answered" /\ run[p].answer = "refunded" => payouts'[run[p].id] > 0
    BY <1>2, <2>1 DEF RequestOK, Forward
  <2> QED
    BY <1>1, <1>3, <2>3, <2>6, <2>7, <2>8 DEF RequestOK
<1>4. CASE run[p].pc \in {"recorded", "apply"}
  <2>1. run[p].amount \in Nat /\ accepted \in Nat /\ accepted' \in Nat /\ accepted <= accepted'
    BY <1>1, <1>4, RunFields DEF TypeOK, Forward
  <2>2. run[p].amount <= Total + Tolerance /\ run[p].amount <= accepted
    BY <1>2, <1>4 DEF RequestOK
  <2>3. run[p].amount <= accepted'
    BY <2>1, <2>2
  <2> QED
    BY <1>1, <1>4, <2>2, <2>3 DEF RequestOK
<1>5. CASE run[p].pc \notin {"inserted", "ledger", "move", "reject", "asked", "answered",
                            "recorded", "apply"}
  BY <1>1, <1>5 DEF RequestOK
<1> QED
  BY <1>3, <1>4, <1>5

\* A step that writes neither returns, flags nor books, and pays nothing.
LEMMA MoveIInv ==
  ASSUME ReturnsAssumption, IInv, NEW q \in Requests, NEW r \in RunType, Goto(q, r),
         UNCHANGED <<refunded, flagged, returns, taken, waiting, payouts, accepted>>,
         status' \in OrderStatuses, pay' \in PaymentStatuses,
         netted' \subseteq Items, seen' \subseteq Nat,
         RequestOK(q)'
  PROVE  IInv'
<1>1. TypeOK /\ accepted \in Nat
  BY DEF IInv, TypeOK
<1>2. TypeOK'
  BY <1>1 DEF TypeOK, Goto
<1>3. Forward
  BY <1>1 DEF Forward
<1>4. \A p \in Requests : RequestOK(p)'
  BY <1>2, <1>3, OthersKept DEF Goto
<1>5. TakenReturns' /\ RecordedWithinTotal' /\ BooksAreBacked' /\ FlaggedItemHasReturn'
  BY DEF IInv, TakenReturns, RecordedWithinTotal, BooksAreBacked, FlaggedItemHasReturn, Amount
<1> QED
  BY <1>2, <1>4, <1>5 DEF IInv

\* A request that goes to a place where it knows nothing.
LEMMA FreeIInv ==
  ASSUME ReturnsAssumption, IInv, NEW q \in Requests, NEW r \in RunType, Goto(q, r),
         r.pc \in {"idle", "insert", "operate"},
         UNCHANGED <<refunded, flagged, returns, taken, waiting, payouts, accepted>>,
         status' \in OrderStatuses, pay' \in PaymentStatuses,
         netted' \subseteq Items, seen' \subseteq Nat
  PROVE  IInv'
<1>1. run'[q] = r
  BY DEF Goto, IInv, TypeOK
<1>2. RequestOK(q)'
  BY <1>1 DEF RequestOK
<1> QED
  BY <1>2, MoveIInv

\* The steps of create_return.
LEMMA CreateIInv ==
  ASSUME ReturnsAssumption, IInv, NEW q \in Requests, CreateStep(q)
  PROVE  IInv'
<1> USE DEF dbVars, gatewayVars
<1>1. TypeOK /\ RequestOK(q) /\ Idle \in RunType /\ Idle.pc = "idle"
  BY RunRecords DEF IInv, Idle
<1>2. /\ status \in OrderStatuses /\ pay \in PaymentStatuses
      /\ netted \subseteq Items /\ seen \subseteq Nat
  BY <1>1 DEF TypeOK
<1>3. CASE CheckReturn(q)
  <2>1. PICK items \in SUBSET Items : Goto(q, [pc |-> "insert", items |-> items])
    BY <1>3 DEF CheckReturn
  <2>2. [pc |-> "insert", items |-> items] \in RunType
    BY RunRecords
  <2> QED
    BY <1>2, <1>3, <2>1, <2>2, FreeIInv DEF CheckReturn
<1>4. CASE InsertReturn(q)
  <2>1. PICK id \in ReturnIds :
          /\ returns[id] = None
          /\ returns' = [returns EXCEPT ![id] = [status |-> "requested", items |-> run[q].items]]
          /\ Goto(q, [pc |-> "inserted", id |-> id])
    BY <1>4 DEF InsertReturn
  <2>2. run[q].items \subseteq Items
    BY <1>1, <1>4, RunFields DEF InsertReturn, At
  <2>3. /\ returns'[id] = [status |-> "requested", items |-> run[q].items]
        /\ \A t \in ReturnIds \ {id} : returns'[t] = returns[t]
        /\ returns' \in [ReturnIds -> {None} \union [status : ReturnStatuses, items : SUBSET Items]]
    BY <1>1, <2>1, <2>2 DEF TypeOK, ReturnStatuses
  <2>4. [pc |-> "inserted", id |-> id] \in RunType
    BY RunRecords
  <2>5. UNCHANGED <<status, pay, refunded, netted, seen, taken, waiting, payouts, accepted>>
        /\ flagged' = flagged \union run[q].items
    BY <1>4 DEF InsertReturn
  <2>6. TypeOK'
    BY <1>1, <2>1, <2>2, <2>3, <2>4, <2>5 DEF TypeOK, Goto
  <2>7. returns[id].status = "none" /\ ~(payouts[id] > 0) /\ ~(waiting[id] > 0)
    BY <2>1 DEF None, IInv, TakenReturns
  <2>8. accepted <= accepted' /\ Forward
    BY <1>1, <2>3, <2>5, <2>7 DEF Forward, TypeOK
  <2>9. run'[q] = [pc |-> "inserted", id |-> id]
    BY <1>1, <2>1 DEF TypeOK, Goto
  <2>10. RequestOK(q)'
    BY <2>3, <2>9 DEF RequestOK
  <2>11. \A p \in Requests : RequestOK(p)'
    BY <2>1, <2>6, <2>8, <2>10, OthersKept
  <2>12. TakenReturns' /\ RecordedWithinTotal' /\ BooksAreBacked'
    BY <2>3, <2>5, <2>7
    DEF IInv, TakenReturns, RecordedWithinTotal, BooksAreBacked, Amount
  <2>13. FlaggedItemHasReturn'
    <3> SUFFICES ASSUME NEW i \in flagged'
                 PROVE  \E t \in ReturnIds : i \in returns'[t].items /\ returns'[t].status # "rejected"
      BY DEF FlaggedItemHasReturn
    <3>1. CASE i \in run[q].items
      BY <2>3, <3>1
    <3>2. CASE i \notin run[q].items
      <4>1. PICK t \in ReturnIds : i \in returns[t].items /\ returns[t].status # "rejected"
        BY <2>5, <3>2 DEF IInv, FlaggedItemHasReturn
      <4>2. t # id
        BY <2>1, <4>1 DEF None
      <4> QED
        BY <2>3, <4>1, <4>2
    <3> QED
      BY <3>1, <3>2
  <2> QED
    BY <2>6, <2>11, <2>12, <2>13 DEF IInv
<1>5. CASE ReloadOrder(q)
  <2>1. run[q].id \in ReturnIds /\ returns[run[q].id].status # "none"
    BY <1>1, <1>5, RunFields DEF ReloadOrder, At, RequestOK
  <2> DEFINE r == IF status = "return_requested" THEN [pc |-> "ledger", id |-> run[q].id]
                  ELSE IF CanMove(status, "return_requested")
                    THEN [pc |-> "move", id |-> run[q].id, status |-> status]
                  ELSE Idle
  <2>2. r \in RunType /\ r.pc \in {"idle", "ledger", "move"} /\ (r.pc # "idle" => r.id = run[q].id)
    <3>1. [pc |-> "ledger", id |-> run[q].id] \in RunType
      BY <2>1, RunRecords
    <3>2. [pc |-> "move", id |-> run[q].id, status |-> status] \in RunType
      BY <1>2, <2>1, RunRecords
    <3> QED
      BY <1>1, <3>1, <3>2
  <2>3. Goto(q, r) /\ run'[q] = r
    BY <1>1, <1>5 DEF ReloadOrder, Goto, TypeOK
  <2>4. UNCHANGED <<status, pay, refunded, flagged, netted, returns, seen, taken, waiting, payouts, accepted>>
    BY <1>5 DEF ReloadOrder
  <2>5. RequestOK(q)'
    BY <2>1, <2>2, <2>3, <2>4 DEF RequestOK
  <2> HIDE DEF r
  <2> QED
    BY <1>2, <2>2, <2>3, <2>4, <2>5, MoveIInv
<1>6. CASE MoveToReturnRequested(q)
  <2>1. run[q].id \in ReturnIds /\ returns[run[q].id].status # "none"
    BY <1>1, <1>6, RunFields DEF MoveToReturnRequested, At, RequestOK
  <2>2. [pc |-> "ledger", id |-> run[q].id] \in RunType
    BY <2>1, RunRecords
  <2>3. run'[q] = [pc |-> "ledger", id |-> run[q].id]
    BY <1>1, <1>6 DEF MoveToReturnRequested, Goto, TypeOK
  <2>4. RequestOK(q)'
    BY <1>6, <2>1, <2>3 DEF RequestOK, MoveToReturnRequested
  <2> QED
    BY <1>2, <1>6, <2>2, <2>4, MoveIInv, StatusesDefined DEF MoveToReturnRequested
<1>7. CASE RecordLedger(q)
  <2>1. run[q].id \in ReturnIds
    BY <1>1, <1>7, RunFields DEF RecordLedger, At
  <2>2. netted' \subseteq Items
    BY <1>1, <1>2, <1>7, <2>1, AmountNat DEF RecordLedger
  <2> QED
    BY <1>1, <1>2, <1>7, <2>2, FreeIInv DEF RecordLedger, Ends
<1> QED
  BY <1>3, <1>4, <1>5, <1>6, <1>7 DEF CreateStep

\* The steps of reject_return.
LEMMA RejectIInv ==
  ASSUME ReturnsAssumption, IInv, NEW q \in Requests, RejectStep(q)
  PROVE  IInv'
<1> USE DEF dbVars, gatewayVars
<1>1. TypeOK /\ RequestOK(q) /\ Idle \in RunType /\ Idle.pc = "idle"
  BY RunRecords DEF IInv, Idle
<1>2. /\ status \in OrderStatuses /\ pay \in PaymentStatuses
      /\ netted \subseteq Items /\ seen \subseteq Nat
  BY <1>1 DEF TypeOK
<1>3. CASE CheckReject(q)
  <2>1. PICK id \in ReturnIds :
          /\ returns[id].status \in {"requested", "approved"}
          /\ Goto(q, [pc |-> "reject", id |-> id, status |-> status])
    BY <1>3 DEF CheckReject
  <2>2. [pc |-> "reject", id |-> id, status |-> status] \in RunType
    BY <1>2, RunRecords
  <2>3. run'[q] = [pc |-> "reject", id |-> id, status |-> status]
    BY <1>1, <2>1 DEF Goto, TypeOK
  <2>4. RequestOK(q)'
    BY <1>3, <2>1, <2>3 DEF RequestOK, CheckReject
  <2> QED
    BY <1>2, <1>3, <2>1, <2>2, <2>4, MoveIInv DEF CheckReject
<1>4. CASE Reject(q)
  <2> DEFINE id == run[q].id
  <2>1. id \in ReturnIds /\ returns[id].status # "none" /\ run[q].status \in OrderStatuses
    BY <1>1, <1>4, RunFields DEF Reject, At, RequestOK
  <2>2. /\ returns'[id].status = "rejected" /\ returns'[id].items = returns[id].items
        /\ \A t \in ReturnIds \ {id} : returns'[t] = returns[t]
        /\ returns' \in [ReturnIds -> {None} \union [status : ReturnStatuses, items : SUBSET Items]]
    BY <1>1, <1>4, <2>1 DEF Reject, TypeOK, ReturnStatuses, None
  <2>3. /\ UNCHANGED <<pay, refunded, seen, taken, waiting, payouts, accepted>>
        /\ flagged' = flagged \ returns[id].items
        /\ Goto(q, Idle)
    BY <1>4 DEF Reject, Ends
  <2>4. status' \in OrderStatuses /\ netted' \subseteq Items
    BY <1>2, <1>4, StatusesDefined DEF Reject, Written
  <2>5. TypeOK'
    BY <1>1, <2>2, <2>3, <2>4 DEF TypeOK, Goto
  <2>6. Forward
    BY <1>1, <2>2, <2>3 DEF Forward, TypeOK
  <2>7. run'[q] = Idle
    BY <1>1, <2>3 DEF TypeOK, Goto
  <2>8. \A p \in Requests : RequestOK(p)'
    BY <2>3, <2>5, <2>6, <2>7, <1>1, OthersKept DEF RequestOK
  <2>9. \A t \in ReturnIds : returns'[t].items = returns[t].items
    BY <2>2
  <2>10. TakenReturns' /\ RecordedWithinTotal' /\ BooksAreBacked'
    BY <2>2, <2>3, <2>9
    DEF IInv, TakenReturns, RecordedWithinTotal, BooksAreBacked, Amount
  <2>11. FlaggedItemHasReturn'
    BY <2>2, <2>3 DEF IInv, FlaggedItemHasReturn
  <2> QED
    BY <2>5, <2>8, <2>10, <2>11 DEF IInv
<1>5. CASE RejectRaises(q)
  BY <1>1, <1>2, <1>5, FreeIInv DEF RejectRaises, Ends
<1> QED
  BY <1>3, <1>4, <1>5 DEF RejectStep

\* The gateway takes a refund: it is within the total, and after it the sum of what
\* was taken covers the balance the request will write.
LEMMA TakesIInv ==
  ASSUME ReturnsAssumption, IInv, NEW q \in Requests,
         NEW a \in {"refunded", "refund_pending", "failed"}, Takes(q, a), UNCHANGED dbVars,
         waiting' \in [ReturnIds -> Nat], payouts' \in [ReturnIds -> Nat],
         \A t \in ReturnIds : payouts[t] > 0 => payouts'[t] > 0,
         \A t \in ReturnIds \ {run[q].id} : payouts'[t] = payouts[t] /\ waiting'[t] = waiting[t],
         a = "refunded" => payouts'[run[q].id] > 0
  PROVE  IInv'
<1> DEFINE id == run[q].id
<1>1. TypeOK /\ RequestOK(q) /\ run[q].pc = "asked"
  BY DEF IInv, Takes, At
<1>2. accepted \in Nat /\ Total \in Nat /\ Tolerance \in Nat /\ refunded \in Nat
  BY <1>1 DEF TypeOK, ReturnsAssumption
<1>3. /\ id \in ReturnIds /\ returns[id].status # "none"
      /\ run[q].row \in RefundRowType /\ run[q].row.refunded \in Nat
      /\ run[q].row.refunded <= accepted
      /\ run[q].row.refunded + Amount(id) <= Total + Tolerance
  BY <1>1, RunFields DEF RequestOK
<1>4. Amount(id) \in Nat
  BY <1>1, <1>3, AmountNat
<1>5. /\ UNCHANGED <<status, pay, refunded, flagged, netted, returns, seen>>
      /\ accepted' = accepted + Amount(id)
      /\ taken' = [taken EXCEPT ![id] = @ + 1]
      /\ taken[id] < MaxRefunds
      /\ Goto(q, Answered(q, a))
  BY DEF Takes, dbVars
<1>6. taken' \in [ReturnIds -> 0..MaxRefunds]
  <2>1. taken[id] \in 0..MaxRefunds /\ MaxRefunds \in Nat
    BY <1>1, <1>3 DEF TypeOK, ReturnsAssumption
  <2>2. taken[id] + 1 \in 0..MaxRefunds
    BY <1>5, <2>1
  <2> QED
    BY <1>1, <1>3, <1>5, <2>2 DEF TypeOK
<1>7. /\ accepted' \in Nat /\ accepted <= accepted' /\ Amount(id) <= accepted'
      /\ run[q].row.refunded <= accepted' /\ run[q].row.refunded + Amount(id) <= accepted'
      /\ Amount(id) <= Total + Tolerance
  BY <1>2, <1>3, <1>4, <1>5
<1>8. TypeOK'
  <2>1. Answered(q, a) \in RunType
    BY <1>3, RunRecords DEF Answered
  <2> QED
    BY <1>1, <1>5, <1>6, <1>7, <2>1 DEF TypeOK, Goto
<1>9. Forward
  BY <1>5, <1>7 DEF Forward
<1>10. \A p \in Requests : RequestOK(p)'
  <2>1. run'[q] = Answered(q, a)
    BY <1>1, <1>5 DEF Goto, TypeOK
  <2>2. RequestOK(q)'
    BY <1>3, <1>5, <1>7, <2>1 DEF RequestOK, Answered, Amount
  <2> QED
    BY <1>5, <1>8, <1>9, <2>2, OthersKept
<1>11. TakenReturns'
  <2> SUFFICES ASSUME NEW t \in ReturnIds, payouts'[t] > 0 \/ waiting'[t] > 0
               PROVE  /\ returns[t].status # "none"
                      /\ Amount(t) <= Total + Tolerance
                      /\ Amount(t) <= accepted'
    BY <1>5 DEF TakenReturns, Amount
  <2>1. CASE t = id
    BY <1>3, <1>7, <2>1
  <2>2. CASE t # id
    <3>1. returns[t].status # "none" /\ Amount(t) <= Total + Tolerance /\ Amount(t) <= accepted
      BY <2>2 DEF IInv, TakenReturns
    <3>2. Amount(t) \in Nat
      BY <1>1, AmountNat
    <3> QED
      BY <1>2, <1>7, <3>1, <3>2
  <2> QED
    BY <2>1, <2>2
<1>12. RecordedWithinTotal' /\ FlaggedItemHasReturn'
  BY <1>5 DEF IInv, RecordedWithinTotal, FlaggedItemHasReturn
<1>13. BooksAreBacked'
  BY <1>2, <1>5, <1>7 DEF IInv, BooksAreBacked
<1> QED
  BY <1>8, <1>10, <1>11, <1>12, <1>13 DEF IInv

\* The gateway approves or declines a refund that waits.
LEMMA DecideIInv ==
  ASSUME ReturnsAssumption, IInv, NEW id \in ReturnIds, GatewayDecides(id)
  PROVE  IInv'
<1>1. TypeOK
  BY DEF IInv
<1>2. UNCHANGED <<status, pay, refunded, flagged, netted, returns, seen, run, taken, accepted>>
  BY DEF GatewayDecides, dbVars
<1>3. /\ waiting' \in [ReturnIds -> Nat] /\ payouts' \in [ReturnIds -> Nat]
      /\ \A t \in ReturnIds : payouts[t] > 0 => payouts'[t] > 0
      /\ \A t \in ReturnIds : payouts'[t] > 0 \/ waiting'[t] > 0 =>
                                payouts[t] > 0 \/ waiting[t] > 0
  <2>1. waiting[id] > 0 /\ waiting' = [waiting EXCEPT ![id] = @ - 1]
    BY DEF GatewayDecides
  <2>2. CASE payouts' = payouts
    BY <1>1, <2>1, <2>2 DEF TypeOK
  <2>3. CASE payouts' = [payouts EXCEPT ![id] = @ + 1]
    BY <1>1, <2>1, <2>3 DEF TypeOK
  <2> QED
    BY <2>2, <2>3 DEF GatewayDecides
<1>4. TypeOK'
  BY <1>1, <1>2, <1>3 DEF TypeOK
<1>5. \A q \in Requests : RequestOK(q)'
  <2> SUFFICES ASSUME NEW q \in Requests PROVE RequestOK(q)'
    OBVIOUS
  <2>1. run[q].pc = "answered" => run[q].id \in ReturnIds
    BY <1>1, RunFields
  <2> QED
    BY <1>2, <1>3, <2>1 DEF IInv, RequestOK, Amount
<1>6. TakenReturns'
  BY <1>2, <1>3 DEF IInv, TakenReturns, Amount
<1>7. RecordedWithinTotal' /\ FlaggedItemHasReturn'
  BY <1>2 DEF IInv, RecordedWithinTotal, FlaggedItemHasReturn
<1>8. BooksAreBacked'
  BY <1>2, <1>3 DEF IInv, BooksAreBacked
<1> QED
  BY <1>4, <1>5, <1>6, <1>7, <1>8 DEF IInv

\* The steps of refund_return up to the gateway's answer.
LEMMA AskIInv ==
  ASSUME ReturnsAssumption, IInv, NEW q \in Requests,
         AskRefund(q) \/ GatewayPays(q) \/ GatewayAccepts(q) \/ GatewayRefuses(q)
  PROVE  IInv'
<1> USE DEF dbVars, gatewayVars
<1>1. TypeOK /\ RequestOK(q)
  BY DEF IInv
<1>2. /\ status \in OrderStatuses /\ pay \in PaymentStatuses
      /\ netted \subseteq Items /\ seen \subseteq Nat /\ accepted \in Nat /\ refunded \in Nat
      /\ Total \in Nat
  BY <1>1 DEF TypeOK, ReturnsAssumption
<1>3. CASE AskRefund(q)
  <2>1. PICK id \in ReturnIds :
          /\ returns[id].status \in ReturnStatuses \ {"refunded"}
          /\ ~Exceeds(id)
          /\ Goto(q, [pc |-> "asked", id |-> id, row |-> RefundRow(id)])
    BY <1>3 DEF AskRefund
  <2>2. RefundRow(id) \in RefundRowType /\ RefundRow(id).refunded = refunded
    BY <1>2, <2>1 DEF RefundRow, RefundRowType
  <2>3. [pc |-> "asked", id |-> id, row |-> RefundRow(id)] \in RunType
    BY <2>2, RunRecords
  <2>4. run'[q] = [pc |-> "asked", id |-> id, row |-> RefundRow(id)]
    BY <1>1, <2>1 DEF Goto, TypeOK
  <2>5. Amount(id) \in Nat /\ refunded + Amount(id) <= Total + Tolerance /\ refunded <= accepted
    BY <1>1, <1>2, <2>1, AmountNat DEF Exceeds, IInv, BooksAreBacked
  <2>6. UNCHANGED <<status, pay, refunded, flagged, netted, returns, seen, taken, waiting, payouts, accepted>>
    BY <1>3 DEF AskRefund
  <2>7. RequestOK(q)'
    BY <2>1, <2>2, <2>4, <2>5, <2>6 DEF RequestOK, Amount, ReturnStatuses
  <2> QED
    BY <1>2, <2>1, <2>3, <2>6, <2>7, MoveIInv
<1>4. CASE GatewayPays(q)
  <2>1. PICK a \in {"refunded", "failed"} : Takes(q, a)
    BY <1>4 DEF GatewayPays
  <2>2. run[q].id \in ReturnIds
    BY <1>1, <2>1, RunFields DEF Takes, At
  <2>3. UNCHANGED <<dbVars, waiting>> /\ payouts' = [payouts EXCEPT ![run[q].id] = @ + 1]
    BY <1>4 DEF GatewayPays
  <2>4. /\ waiting' \in [ReturnIds -> Nat] /\ payouts' \in [ReturnIds -> Nat]
        /\ \A t \in ReturnIds : payouts[t] > 0 => payouts'[t] > 0
        /\ payouts'[run[q].id] > 0
        /\ \A t \in ReturnIds \ {run[q].id} : payouts'[t] = payouts[t] /\ waiting'[t] = waiting[t]
    BY <1>1, <2>2, <2>3 DEF TypeOK
  <2> QED
    BY <2>1, <2>3, <2>4, TakesIInv
<1>5. CASE GatewayAccepts(q)
  <2>1. PICK a \in {"refund_pending", "failed"} : Takes(q, a)
    BY <1>5 DEF GatewayAccepts
  <2>2. run[q].id \in ReturnIds
    BY <1>1, <2>1, RunFields DEF Takes, At
  <2>3. UNCHANGED <<dbVars, payouts>> /\ waiting' = [waiting EXCEPT ![run[q].id] = @ + 1]
    BY <1>5 DEF GatewayAccepts
  <2>4. /\ waiting' \in [ReturnIds -> Nat] /\ payouts' \in [ReturnIds -> Nat]
        /\ \A t \in ReturnIds : payouts[t] > 0 => payouts'[t] > 0
        /\ \A t \in ReturnIds \ {run[q].id} : payouts'[t] = payouts[t] /\ waiting'[t] = waiting[t]
    BY <1>1, <2>2, <2>3 DEF TypeOK
  <2> QED
    BY <2>1, <2>3, <2>4, TakesIInv
<1>6. CASE GatewayRefuses(q)
  <2>1. run[q].id \in ReturnIds /\ run[q].row \in RefundRowType
    BY <1>1, <1>6, RunFields DEF GatewayRefuses, At
  <2>2. Answered(q, "failed") \in RunType
    BY <2>1, RunRecords DEF Answered
  <2>3. run'[q] = Answered(q, "failed")
    BY <1>1, <1>6 DEF GatewayRefuses, Goto, TypeOK
  <2>4. UNCHANGED <<status, pay, refunded, flagged, netted, returns, seen, taken, waiting, payouts, accepted>>
    BY <1>6 DEF GatewayRefuses
  <2>5. RequestOK(q)'
    BY <1>1, <1>6, <2>3, <2>4 DEF RequestOK, Answered, GatewayRefuses, At, Amount
  <2> QED
    BY <1>2, <1>6, <2>2, <2>4, <2>5, MoveIInv DEF GatewayRefuses
<1> QED
  BY <1>3, <1>4, <1>5, <1>6

\* A step that writes the books and frees the request: the new balance is within
\* the total and was taken, and a return it marks refunded is paid.
LEMMA BookIInv ==
  ASSUME ReturnsAssumption, IInv, NEW q \in Requests, Goto(q, Idle),
         UNCHANGED <<flagged, netted, seen, taken, waiting, payouts, accepted>>,
         status' \in OrderStatuses, pay' \in PaymentStatuses,
         refunded' \in Nat, refunded' <= Total + Tolerance, refunded' <= accepted,
         returns' \in [ReturnIds -> {None} \union [status : ReturnStatuses, items : SUBSET Items]],
         \A t \in ReturnIds :
           \/ returns'[t] = returns[t]
           \/ /\ returns[t].status # "none" /\ returns'[t].items = returns[t].items
              /\ returns'[t].status \in {"approved", "refunded"}
              /\ returns'[t].status = "refunded" => payouts[t] > 0
  PROVE  IInv'
<1>1. TypeOK /\ Idle \in RunType /\ Idle.pc = "idle"
  BY RunRecords DEF IInv, Idle
<1>2. TypeOK'
  BY <1>1 DEF TypeOK, Goto
<1>3. \A t \in ReturnIds :
        /\ returns'[t].items = returns[t].items
        /\ returns[t].status # "none" => returns'[t].status # "none"
        /\ returns[t].status # "rejected" => returns'[t].status # "rejected"
  OBVIOUS
<1>4. Forward
  BY <1>1, <1>3 DEF Forward, TypeOK
<1>5. run'[q] = Idle
  BY <1>1 DEF TypeOK, Goto
<1>6. \A p \in Requests : RequestOK(p)'
  BY <1>1, <1>2, <1>4, <1>5, OthersKept DEF RequestOK
<1>7. TakenReturns'
  BY <1>3 DEF IInv, TakenReturns, Amount
<1>8. RecordedWithinTotal' /\ BooksAreBacked'
  BY DEF IInv, RecordedWithinTotal, BooksAreBacked
<1>9. FlaggedItemHasReturn'
  BY <1>3 DEF IInv, FlaggedItemHasReturn
<1> QED
  BY <1>2, <1>6, <1>7, <1>8, <1>9 DEF IInv

\* What refund_return books.
LEMMA RefundIInv ==
  ASSUME ReturnsAssumption, IInv, NEW q \in Requests,
         BookPending(q) \/ BookRefunded(q) \/ RefundRaises(q)
  PROVE  IInv'
<1> USE DEF dbVars, gatewayVars
<1> DEFINE id == run[q].id
<1>1. TypeOK /\ RequestOK(q) /\ run[q].pc = "answered"
  BY DEF IInv, BookPending, BookRefunded, RefundRaises, At
<1>2. /\ status \in OrderStatuses /\ pay \in PaymentStatuses
      /\ netted \subseteq Items /\ seen \subseteq Nat /\ accepted \in Nat /\ refunded \in Nat
      /\ refunded <= Total + Tolerance /\ refunded <= accepted
  BY <1>1 DEF TypeOK, IInv, RecordedWithinTotal, BooksAreBacked
<1>3. id \in ReturnIds /\ returns[id].status # "none" /\ run[q].row.refunded \in Nat
      /\ run[q].row.ret \in ReturnStatuses /\ run[q].row.status \in OrderStatuses
  BY <1>1, RunFields DEF RequestOK
<1>4. NewRefunded(q) \in Nat /\ NewRefunded(q) <= Total + Tolerance
  BY <1>1, <1>3, AmountNat DEF RequestOK, NewRefunded
<1>5. /\ run[q].answer # "failed" => NewRefunded(q) <= accepted
      /\ run[q].answer = "refunded" => payouts[id] > 0
  BY <1>1 DEF RequestOK, NewRefunded
<1>6. CASE BookPending(q)
  <2>1. /\ UNCHANGED <<status, pay, flagged, netted, seen, taken, waiting, payouts, accepted>>
        /\ refunded' = Written(NewRefunded(q), run[q].row.refunded, refunded)
        /\ returns' = [returns EXCEPT ![id].status = Written("approved", run[q].row.ret, @)]
        /\ Goto(q, Idle)
        /\ NewRefunded(q) <= accepted
    BY <1>5, <1>6 DEF BookPending, Ends, AnswerIsPending
  <2>2. refunded' \in Nat /\ refunded' <= Total + Tolerance /\ refunded' <= accepted
    BY <1>2, <1>4, <2>1 DEF Written
  <2>3. \/ returns' = returns
        \/ returns' = [returns EXCEPT ![id].status = "approved"]
    <3>1. CASE run[q].row.ret # "approved"
      BY <2>1, <3>1 DEF Written
    <3>2. CASE run[q].row.ret = "approved"
      <4>1. returns' = [returns EXCEPT ![id].status = returns[id].status]
        BY <2>1, <3>2 DEF Written
      <4>2. returns \in [ReturnIds -> {None} \union [status : ReturnStatuses, items : SUBSET Items]]
            /\ returns[id] \in [status : ReturnStatuses, items : SUBSET Items]
        BY <1>1, <1>3 DEF TypeOK, None
      <4>3. [returns[id] EXCEPT !.status = returns[id].status] = returns[id]
        BY <4>2
      <4>4. returns' = [returns EXCEPT ![id] = returns[id]]
        BY <4>1, <4>3
      <4> QED
        BY <4>2, <4>4
    <3> QED
      BY <3>1, <3>2
  <2>4. /\ returns' \in [ReturnIds -> {None} \union [status : ReturnStatuses, items : SUBSET Items]]
        /\ \A t \in ReturnIds \ {id} : returns'[t] = returns[t]
        /\ \/ returns'[id] = returns[id]
           \/ returns'[id].status = "approved" /\ returns'[id].items = returns[id].items
    BY <1>1, <1>3, <2>3 DEF TypeOK, None, ReturnStatuses
  <2> QED
    BY <1>2, <1>3, <2>1, <2>2, <2>4, BookIInv
<1>7. CASE BookRefunded(q)
  <2>1. /\ UNCHANGED <<flagged, netted, seen, taken, waiting, payouts, accepted>>
        /\ refunded' = Written(NewRefunded(q), run[q].row.refunded, refunded)
        /\ returns' = [returns EXCEPT ![id].status = "refunded"]
        /\ Goto(q, Idle)
        /\ NewRefunded(q) <= accepted /\ payouts[id] > 0
    BY <1>5, <1>7 DEF BookRefunded, Ends
  <2>2. refunded' \in Nat /\ refunded' <= Total + Tolerance /\ refunded' <= accepted
    BY <1>2, <1>4, <2>1 DEF Written
  <2>3. status' \in OrderStatuses /\ pay' \in PaymentStatuses
    BY <1>2, <1>7, StatusesDefined DEF BookRefunded, Written, RefundTarget
  <2>4. /\ returns' \in [ReturnIds -> {None} \union [status : ReturnStatuses, items : SUBSET Items]]
        /\ \A t \in ReturnIds \ {id} : returns'[t] = returns[t]
        /\ returns'[id].status = "refunded" /\ returns'[id].items = returns[id].items
    BY <1>1, <1>3, <2>1 DEF TypeOK, None, ReturnStatuses
  <2> QED
    BY <1>3, <2>1, <2>2, <2>3, <2>4, BookIInv
<1>8. CASE RefundRaises(q)
  <2>1. Idle \in RunType /\ Idle.pc = "idle"
    BY RunRecords DEF Idle
  <2> QED
    BY <1>2, <1>8, <2>1, FreeIInv DEF RefundRaises, Ends
<1> QED
  BY <1>6, <1>7, <1>8

\* The refund callback.
LEMMA EventIInv ==
  ASSUME ReturnsAssumption, IInv, NEW q \in Requests, EventStep(q)
  PROVE  IInv'
<1> USE DEF dbVars, gatewayVars
<1>1. TypeOK /\ RequestOK(q) /\ Idle \in RunType /\ Idle.pc = "idle"
  BY RunRecords DEF IInv, Idle
<1>2. /\ status \in OrderStatuses /\ pay \in PaymentStatuses
      /\ netted \subseteq Items /\ seen \subseteq Nat /\ accepted \in Nat /\ refunded \in Nat
      /\ refunded <= Total + Tolerance /\ refunded <= accepted
  BY <1>1 DEF TypeOK, IInv, RecordedWithinTotal, BooksAreBacked
<1>3. CASE RecordRefundEvent(q)
  <2>1. PICK id \in ReturnIds :
          /\ payouts[id] > 0
          /\ seen' = seen \union {Amount(id)}
          /\ Goto(q, [pc |-> "recorded", amount |-> Amount(id)])
    BY <1>3 DEF RecordRefundEvent
  <2>2. Amount(id) \in Nat /\ Amount(id) <= Total + Tolerance /\ Amount(id) <= accepted
    BY <1>1, <2>1, AmountNat DEF IInv, TakenReturns
  <2>3. [pc |-> "recorded", amount |-> Amount(id)] \in RunType
    BY <2>2, RunRecords
  <2>4. run'[q] = [pc |-> "recorded", amount |-> Amount(id)]
    BY <1>1, <2>1 DEF Goto, TypeOK
  <2>5. UNCHANGED <<status, pay, refunded, flagged, netted, returns, taken, waiting, payouts, accepted>>
    BY <1>3 DEF RecordRefundEvent
  <2>6. RequestOK(q)'
    BY <2>2, <2>4, <2>5 DEF RequestOK
  <2>7. seen' \subseteq Nat
    BY <1>2, <2>1, <2>2
  <2> QED
    BY <1>2, <2>1, <2>3, <2>5, <2>6, <2>7, MoveIInv
<1>4. CASE LoadForRefundEvent(q)
  <2>1. run[q].amount \in Nat /\ run[q].amount <= Total + Tolerance /\ run[q].amount <= accepted
    BY <1>1, <1>4, RunFields DEF LoadForRefundEvent, At, RequestOK
  <2> DEFINE r == [pc |-> "apply", amount |-> run[q].amount, status |-> status,
                   pay |-> pay, refunded |-> refunded]
  <2>2. r \in RunType
    BY <1>2, <2>1, RunRecords
  <2>3. UNCHANGED <<status, pay, refunded, flagged, netted, returns, seen, taken, waiting, payouts, accepted>>
    BY <1>4 DEF LoadForRefundEvent
  <2>4. CASE Goto(q, r)
    <3>1. run'[q] = r
      BY <1>1, <2>4 DEF Goto, TypeOK
    <3>2. RequestOK(q)'
      BY <2>1, <2>3, <3>1 DEF RequestOK
    <3> HIDE DEF r
    <3> QED
      BY <1>2, <2>2, <2>3, <2>4, <3>2, MoveIInv
  <2>5. CASE Goto(q, Idle)
    BY <1>1, <1>2, <2>3, <2>5, FreeIInv
  <2> QED
    BY <1>4, <2>4, <2>5 DEF LoadForRefundEvent
<1>5. CASE ApplyRefundEvent(q)
  <2>1. run[q].amount \in Nat /\ run[q].amount <= Total + Tolerance /\ run[q].amount <= accepted
    BY <1>1, <1>5, RunFields DEF ApplyRefundEvent, At, RequestOK
  <2>2. /\ UNCHANGED <<flagged, netted, returns, seen, taken, waiting, payouts, accepted>>
        /\ Goto(q, Idle)
    BY <1>5 DEF ApplyRefundEvent, Ends
  <2>3. refunded' \in Nat /\ refunded' <= Total + Tolerance /\ refunded' <= accepted
    BY <1>2, <1>5, <2>1 DEF ApplyRefundEvent, Written
  <2>4. status' \in OrderStatuses /\ pay' \in PaymentStatuses
    BY <1>2, <1>5, StatusesDefined DEF ApplyRefundEvent, Written
  <2>5. returns' \in [ReturnIds -> {None} \union [status : ReturnStatuses, items : SUBSET Items]]
    BY <1>1, <2>2 DEF TypeOK
  <2> QED
    BY <2>2, <2>3, <2>4, <2>5, BookIInv
<1> QED
  BY <1>3, <1>4, <1>5 DEF EventStep

\* Every step keeps the invariant.
LEMMA StepIInv ==
  ASSUME ReturnsAssumption, IInv, [Next]_vars
  PROVE  IInv'
<1> USE DEF dbVars, gatewayVars
<1>1. TypeOK /\ Idle \in RunType /\ Idle.pc = "idle"
  BY RunRecords DEF IInv, Idle
<1>2. /\ status \in OrderStatuses /\ pay \in PaymentStatuses
      /\ netted \subseteq Items /\ seen \subseteq Nat
  BY <1>1 DEF TypeOK
<1>3. ASSUME NEW q \in Requests, RefundStep(q)
      PROVE  IInv'
  BY <1>3, AskIInv, RefundIInv DEF RefundStep
<1>4. ASSUME NEW q \in Requests, CheckMove(q)
      PROVE  IInv'
  <2>1. PICK t \in AdminTargets : Goto(q, [pc |-> "operate", to |-> t, status |-> status])
    BY <1>4 DEF CheckMove
  <2>2. [pc |-> "operate", to |-> t, status |-> status] \in RunType
    BY <1>2, RunRecords DEF ReturnsAssumption
  <2> QED
    BY <1>2, <1>4, <2>1, <2>2, FreeIInv DEF CheckMove
<1>5. ASSUME NEW q \in Requests, Move(q)
      PROVE  IInv'
  <2>1. status' \in OrderStatuses
    BY <1>1, <1>5, RunFields DEF Move, At
  <2> QED
    BY <1>1, <1>2, <1>5, <2>1, FreeIInv DEF Move, Ends
<1>6. ASSUME NEW q \in Requests, Dies(q)
      PROVE  IInv'
  BY <1>1, <1>2, <1>6, FreeIInv DEF Dies, Ends
<1>7. CASE UNCHANGED vars
  <2>1. TypeOK'
    BY <1>1, <1>7 DEF vars, TypeOK
  <2> QED
    BY <1>7, <2>1 DEF vars, IInv, RequestOK, TakenReturns, RecordedWithinTotal, BooksAreBacked,
                      FlaggedItemHasReturn, Amount
<1> QED
  BY <1>3, <1>4, <1>5, <1>6, <1>7, CreateIInv, RejectIInv, EventIInv, DecideIInv
  DEF Next, MoveStep

LEMMA AlwaysIInv ==
  ASSUME ReturnsAssumption
  PROVE  Spec => []IInv
BY InitIInv, StepIInv, PTL DEF Spec

\* Rows and requests are what the module says.
THEOREM ReturnsTypeCorrect == Spec => []TypeOK
<1>1. IInv => TypeOK
  BY DEF IInv
<1> QED
  BY <1>1, AlwaysIInv, ReturnsAssumption, PTL

\* The transaction never shows more refunded than the order cost and the tolerance of
\* refund_return's check.
THEOREM RefundsWithinTotal == Spec => []RecordedWithinTotal
<1>1. IInv => RecordedWithinTotal
  BY DEF IInv
<1> QED
  BY <1>1, AlwaysIInv, ReturnsAssumption, PTL

\* The books never claim money back that the gateway has not taken a refund for, and
\* a return marked refunded has been paid.
THEOREM RefundsAreBacked == Spec => []BooksAreBacked
<1>1. IInv => BooksAreBacked
  BY DEF IInv
<1> QED
  BY <1>1, AlwaysIInv, ReturnsAssumption, PTL

\* A flagged item has a return that was not rejected.
THEOREM FlagsHaveReturns == Spec => []FlaggedItemHasReturn
<1>1. IInv => FlaggedItemHasReturn
  BY DEF IInv
<1> QED
  BY <1>1, AlwaysIInv, ReturnsAssumption, PTL
=============================================================================
