----------------------------- MODULE Inventory -----------------------------
(***************************************************************************)
(* The stock of the SKUs under concurrent checkouts, statement by          *)
(* statement: what _reserve_inventory, _commit_reservations,               *)
(* _release_inventory_for_order and the sweep of expired reservations do   *)
(* between BEGIN and COMMIT, with the row locks of SELECT ... FOR UPDATE.  *)
(*                                                                         *)
(* A checkout loads its cart together with the SKUs.  lock_sku locks the   *)
(* SKU's row later, but the session keeps the object it has: the stock it  *)
(* checks and writes back is the one it loaded with the cart.              *)
(*                                                                         *)
(* Around them, what keeps a checkout from being placed twice and a code   *)
(* from being redeemed too often: the idempotency key, the cart that is    *)
(* cleared at the end, and the limits of a promotion.                      *)
(*                                                                         *)
(* The checkouts of one server share an event loop.  From the cart to the  *)
(* call to the payment provider, and from its answer to the end, a         *)
(* checkout does not await: while it waits for a row lock, its server      *)
(* waits.  So it does while a callback of the payment provider gives the    *)
(* units of a failed or cancelled order back, which takes locks as the     *)
(* sweep does.                                                             *)
(***************************************************************************)
EXTENDS Naturals, Sequences, FiniteSets

CONSTANTS
  Skus,
  Supply,     \* [Skus -> Nat], the stock at the start
  Checkouts,  \* one checkout request each
  Cart,       \* [Checkouts -> Seq([sku, qty])], a line per SKU
  Basket,     \* [Checkouts -> carts], the cart it comes from
  Server,     \* [Checkouts \union Callbacks -> servers], where a request is handled
  Key,        \* [Checkouts -> idempotency keys], NoKey for none
  NoKey,
  Limits,     \* limits of promotions: the checkouts that count, and how many may
              \* redeem (max_redemptions: all with the code; max_per_user: a person's)
  Sweepers,   \* runs of the sweep that may overlap
  Callbacks,  \* one request each that gives back the units of an order: the delivery
              \* of an event of the provider, or a reconciliation
  Nobody

ASSUME InventoryAssumption ==
  /\ Supply \in [Skus -> Nat]
  /\ \A c \in Checkouts :
       /\ Cart[c] \in Seq([sku : Skus, qty : Nat \ {0}])
       /\ \A i, j \in DOMAIN Cart[c] : Cart[c][i].sku = Cart[c][j].sku => i = j
  /\ IsFiniteSet(Checkouts)
  /\ Limits \subseteq [over : SUBSET Checkouts, max : Nat]
  /\ Checkouts \intersect (Sweepers \union Callbacks) = {}
  /\ Sweepers \intersect Callbacks = {}
  /\ Nobody \notin Checkouts \union Sweepers \union Callbacks

VARIABLES
  stock,     \* product_skus.stock_level
  resv,      \* status of each reservation row, "none" before it is inserted
  lock,      \* who holds the row lock of each SKU
  pc,        \* where each checkout stands
  line,      \* the cart line a checkout locks next
  snap,      \* stock_level as loaded with the cart
  sweep,     \* the sweeps and callbacks in progress: the rows read, those whose SKU
             \* is still to be locked, and the next of them
  redeemed,  \* the checkouts with a row in promotion_redemptions
  cleared,   \* the carts that were converted
  taken,     \* the callbacks that have been taken up
  again      \* history: the rows whose units were given back a second time

sideVars == <<redeemed, cleared, taken, again>>
vars == <<stock, resv, lock, pc, line, snap, sweep, sideVars>>

\* Reservation rows: one per checkout and cart line.
Rows == UNION {{c} \X DOMAIN Cart[c] : c \in Checkouts}

RowsOf(c) == {r \in Rows : r[1] = c}
Sku(r)    == Cart[r[1]][r[2]].sku
Qty(r)    == Cart[r[1]][r[2]].qty

\* The units in the rows of R, one by one, and how many there are.
UnitsOf(R) == UNION {{r} \X (1..Qty(r)) : r \in R}
Units(R)   == Cardinality(UnitsOf(R))

\* Those who give units back that they have read without a lock.
Releasers == Sweepers \union Callbacks

Procs == Checkouts \union Releasers
Idle  == [rows |-> {}, left |-> {}, next |-> Nobody]

\* No SKU is loaded: before the cart is, and after a COMMIT or ROLLBACK.
Expired == [k \in Skus |-> 0]

Ended == {"rejected", "replayed", "done", "declined", "crashed"}

\* Between two awaits of a checkout.
Busy == {"keyed", "loaded", "locking", "reserved", "releasing", "accepted"}

\* The order of the checkout is in the database.
Placed(c) ==
  pc[c] \in {"reserved", "paying", "releasing", "accepted", "done", "declined", "crashed"}

\* Does the checkout use a promotion's code?
HasCode(c) == \E l \in Limits : c \in l.over

TypeOK ==
  /\ stock \in [Skus -> Nat]
  /\ resv \in [Rows -> {"none", "held", "committed", "released"}]
  /\ lock \in [Skus -> Procs \union {Nobody}]
  /\ pc \in [Checkouts -> {"new", "paying"} \union Busy \union Ended]
  /\ line \in [Checkouts -> Nat]
  /\ snap \in [Checkouts -> [Skus -> Nat]]
  /\ sweep \in [Releasers -> [rows : SUBSET Rows, left : SUBSET Rows,
                             next : Rows \union {Nobody}]]
  /\ redeemed \subseteq Checkouts
  /\ cleared \subseteq {Basket[c] : c \in Checkouts}
  /\ taken \subseteq Callbacks
  /\ again \subseteq Rows

Init ==
  /\ stock = Supply
  /\ resv = [r \in Rows |-> "none"]
  /\ lock = [k \in Skus |-> Nobody]
  /\ pc = [c \in Checkouts |-> "new"]
  /\ line = [c \in Checkouts |-> 1]
  /\ snap = [c \in Checkouts |-> Expired]
  /\ sweep = [s \in Releasers |-> Idle]
  /\ redeemed = {}
  /\ cleared = {}
  /\ taken = {}
  /\ again = {}

\* No other request on the server of p is between two awaits.
ServerFree(p) ==
  /\ \A d \in Checkouts \ {p} : Server[d] = Server[p] => pc[d] \notin Busy
  /\ \A b \in Callbacks \ {p} : Server[b] = Server[p] => sweep[b] = Idle

Unlocked(p) == [k \in Skus |-> IF lock[k] = p THEN Nobody ELSE lock[k]]

Moves(c, to) == pc' = [pc EXCEPT ![c] = to]

\* The SKU checkout c locks next, in the order of its cart, and when there is
\* none left.
NextSku(c) == Cart[c][line[c]].sku
LinesLocked(c) == line[c] > Len(Cart[c])

LockNext(c) ==
  /\ ~LinesLocked(c)
  /\ lock[NextSku(c)] = Nobody
  /\ lock' = [lock EXCEPT ![NextSku(c)] = c]
  /\ line' = [line EXCEPT ![c] = @ + 1]

\* ROLLBACK, or COMMIT: the transaction of p ends, its locks with it, and the
\* session forgets what it has loaded.
EndTransaction(p) ==
  /\ lock' = Unlocked(p)
  /\ snap' = IF p \in Checkouts THEN [snap EXCEPT ![p] = Expired] ELSE snap
  /\ line' = IF p \in Checkouts THEN [line EXCEPT ![p] = 1] ELSE line

(***************************************************************************)
(* A checkout                                                              *)
(***************************************************************************)

\* An order has taken the idempotency key of c: it is answered to its owner, and
\* anybody else is refused.
KeySpent(c) == Key[c] # NoKey /\ \E d \in Checkouts : Placed(d) /\ Key[d] = Key[c]

CheckKey(c) ==
  /\ pc[c] = "new"
  /\ ServerFree(c)
  /\ Moves(c, IF KeySpent(c) THEN "replayed" ELSE "keyed")
  /\ UNCHANGED <<stock, resv, lock, line, snap, sweep, sideVars>>

\* There is something in the cart, and all of it in stock.
Buyable(c) ==
  Basket[c] \notin cleared /\ \A i \in DOMAIN Cart[c] : stock[Cart[c][i].sku] > 0

\* get_cart_with_items and _assert_sizes_selected.
LoadCart(c) ==
  /\ pc[c] = "keyed"
  /\ IF Buyable(c)
       THEN snap' = [snap EXCEPT ![c] = stock] /\ Moves(c, IF HasCode(c) THEN "loaded" ELSE "locking")
       ELSE UNCHANGED snap /\ Moves(c, "rejected")
  /\ UNCHANGED <<stock, resv, lock, line, sweep, sideVars>>

\* Mutant: the last redemption may be exceeded by one.
HasAllowanceOffByOne(c) ==
  \A l \in Limits : c \in l.over => Cardinality(redeemed \intersect l.over) <= l.max

\* The redemptions that count against c are below every limit.
HasAllowance(c) ==
  \A l \in Limits : c \in l.over => Cardinality(redeemed \intersect l.over) < l.max

\* _resolve_promo.
ResolvePromo(c) ==
  /\ pc[c] = "loaded"
  /\ IF HasAllowance(c) THEN Moves(c, "locking") /\ UNCHANGED snap
       ELSE Moves(c, "rejected") /\ snap' = [snap EXCEPT ![c] = Expired]
  /\ UNCHANGED <<stock, resv, lock, line, sweep, sideVars>>

\* Mutant: the quantity is not compared with the stock.
LockLineUnchecked(c) ==
  /\ pc[c] = "locking"
  /\ LockNext(c)
  /\ UNCHANGED <<stock, resv, pc, snap, sweep, sideVars>>

\* Phase 1: lock the line's SKU and validate it, on the object in the session.
LockLine(c) ==
  /\ pc[c] = "locking"
  /\ ~LinesLocked(c)
  /\ snap[c][NextSku(c)] >= Cart[c][line[c]].qty
  /\ LockNext(c)
  /\ UNCHANGED <<stock, resv, pc, snap, sweep, sideVars>>

\* InventoryUnavailableError: rollback, the request is over.
Reject(c) ==
  /\ pc[c] = "locking"
  /\ ~LinesLocked(c)
  /\ lock[NextSku(c)] = Nobody
  /\ snap[c][NextSku(c)] < Cart[c][line[c]].qty
  /\ EndTransaction(c)
  /\ Moves(c, "rejected")
  /\ UNCHANGED <<stock, resv, sweep, sideVars>>

\* What phase 2 makes of the stock: every line's, from the object in the session.
Taken(c) ==
  [k \in Skus |-> IF \E r \in RowsOf(c) : Sku(r) = k
                   THEN snap[c][k] - Qty(CHOOSE r \in RowsOf(c) : Sku(r) = k)
                   ELSE stock[k]]

\* Mutant: the key of an order is not unique.
ReserveUnderAnyKey(c) ==
  /\ pc[c] = "locking"
  /\ LinesLocked(c)
  /\ stock' = Taken(c)
  /\ resv' = [r \in Rows |-> IF r[1] = c THEN "held" ELSE resv[r]]
  /\ EndTransaction(c)
  /\ Moves(c, IF HasCode(c) THEN "reserved" ELSE "paying")
  /\ UNCHANGED <<sweep, sideVars>>

\* Phase 2: write the stock, insert the held rows, and create_order commits them
\* with an order under the key.
Reserve(c) ==
  /\ pc[c] = "locking"
  /\ LinesLocked(c)
  /\ ~KeySpent(c)
  /\ stock' = Taken(c)
  /\ resv' = [r \in Rows |-> IF r[1] = c THEN "held" ELSE resv[r]]
  /\ EndTransaction(c)
  /\ Moves(c, IF HasCode(c) THEN "reserved" ELSE "paying")
  /\ UNCHANGED <<sweep, sideVars>>

\* IntegrityError, the key was taken since it was looked up: rollback, and the
\* order that has it is answered.
LoseKey(c) ==
  /\ pc[c] = "locking"
  /\ LinesLocked(c)
  /\ KeySpent(c)
  /\ EndTransaction(c)
  /\ Moves(c, "replayed")
  /\ UNCHANGED <<stock, resv, sweep, sideVars>>

\* The redemption has a COMMIT of its own, after the order's.
Redeem(c) ==
  /\ pc[c] = "reserved"
  /\ redeemed' = redeemed \union {c}
  /\ Moves(c, "paying")
  /\ UNCHANGED <<stock, resv, lock, line, snap, sweep, cleared, taken, again>>

\* The payment was not refused: _commit_reservations writes every row of the
\* request, whatever has become of it.
Accept(c) ==
  /\ pc[c] = "paying"
  /\ ServerFree(c)
  /\ resv' = [r \in Rows |-> IF r[1] = c THEN "committed" ELSE resv[r]]
  /\ Moves(c, "accepted")
  /\ UNCHANGED <<stock, lock, line, snap, sweep, sideVars>>

\* clear_cart, after that COMMIT and with its own.
ClearCart(c) ==
  /\ pc[c] = "accepted"
  /\ cleared' = cleared \union {Basket[c]}
  /\ Moves(c, "done")
  /\ UNCHANGED <<stock, resv, lock, line, snap, sweep, redeemed, taken, again>>

\* The payment was refused: _release_inventory_for_order locks the SKUs of the
\* rows not released yet ...
Decline(c) ==
  /\ pc[c] = "paying"
  /\ ServerFree(c)
  /\ Moves(c, "releasing")
  /\ UNCHANGED <<stock, resv, lock, line, snap, sweep, sideVars>>

LockToRelease(c) ==
  /\ pc[c] = "releasing"
  /\ LockNext(c)
  /\ UNCHANGED <<stock, resv, pc, snap, sweep, sideVars>>

\* What giving back the rows of R makes of the stock, read under the locks.
Restored(R) ==
  [k \in Skus |-> stock[k] + Units({r \in R : Sku(r) = k})]

MarkReleased(R) == [r \in Rows |-> IF r \in R THEN "released" ELSE resv[r]]

\* ... and gives the units back.
Release(c) ==
  /\ pc[c] = "releasing"
  /\ LinesLocked(c)
  /\ stock' = Restored({r \in RowsOf(c) : resv[r] # "released"})
  /\ resv' = MarkReleased(RowsOf(c))
  /\ EndTransaction(c)
  /\ Moves(c, "declined")
  /\ UNCHANGED <<sweep, sideVars>>

\* How a request ends that fails in the middle: nothing is left of one that had
\* not placed its order yet, the others leave their rows as they are.
Broken(c) == IF Placed(c) THEN "crashed" ELSE "rejected"

\* Mutant: the connection of a crashed request keeps its locks.
CrashKeepsLocks(c) ==
  /\ pc[c] \in Busy \union {"paying"}
  /\ Moves(c, Broken(c))
  /\ UNCHANGED <<stock, resv, lock, line, snap, sweep, sideVars>>

Crash(c) ==
  /\ pc[c] \in Busy \union {"paying"}
  /\ EndTransaction(c)
  /\ Moves(c, Broken(c))
  /\ UNCHANGED <<stock, resv, sweep, sideVars>>

(***************************************************************************)
(* The sweep of rows held for more than 30 minutes, and the callback of a  *)
(* failed or cancelled payment                                             *)
(***************************************************************************)

\* Mutant: the sweep does not wait until a request must be over.
HeldRows == {r \in Rows : resv[r] = "held"}

\* A request that still runs is younger than that.
StaleRows == {r \in Rows : resv[r] = "held" /\ pc[r[1]] \in Ended}

\* What a sweep or callback that has read the rows R may go on with when the rows L
\* are left: the queries state no order.
Going(R, L) ==
  {[rows |-> R, left |-> L, next |-> n] : n \in IF L = {} THEN {Nobody} ELSE L}

\* The rows are read without a lock.
SweepReads(s) ==
  /\ sweep[s] = Idle
  /\ StaleRows # {}
  /\ \E g \in Going(StaleRows, StaleRows) : sweep' = [sweep EXCEPT ![s] = g]
  /\ UNCHANGED <<stock, resv, lock, pc, line, snap, sideVars>>

\* The rows of the order of c that a callback gives back.  The payment_status it has
\* written before is not flushed: it does not hold up a second callback.
UnreleasedRows(c) == {r \in RowsOf(c) : resv[r] # "released"}

\* A payment fails or is cancelled on the page the customer got as the answer to the
\* checkout, or the invoice expires, also when there was no answer.  The event's key
\* is committed first: the event is not taken up a second time.
CallbackReads(b) ==
  /\ b \notin taken
  /\ ServerFree(b)
  /\ \E c \in Checkouts :
       /\ pc[c] \in {"done", "crashed"}
       /\ UnreleasedRows(c) # {}
       /\ \E g \in Going(UnreleasedRows(c), UnreleasedRows(c)) :
            sweep' = [sweep EXCEPT ![b] = g]
  /\ taken' = taken \union {b}
  /\ UNCHANGED <<stock, resv, lock, pc, line, snap, redeemed, cleared, again>>

\* It fails in the middle: rollback.
CallbackBreaks(b) ==
  /\ sweep[b] # Idle
  /\ EndTransaction(b)
  /\ sweep' = [sweep EXCEPT ![b] = Idle]
  /\ UNCHANGED <<stock, resv, pc, sideVars>>

\* Lock the SKU of the next row; its object is loaded under the lock.
SweepLocks(s) ==
  LET w == sweep[s] IN
  /\ w.left # {}
  /\ lock[Sku(w.next)] \in {Nobody, s}
  /\ lock' = [lock EXCEPT ![Sku(w.next)] = s]
  /\ \E g \in Going(w.rows, w.left \ {w.next}) : sweep' = [sweep EXCEPT ![s] = g]
  /\ UNCHANGED <<stock, resv, pc, line, snap, sideVars>>

\* Every row that was read is given back, whatever has become of it.
SweepCommits(s) ==
  /\ sweep[s].rows # {}
  /\ sweep[s].left = {}
  /\ stock' = Restored(sweep[s].rows)
  /\ resv' = MarkReleased(sweep[s].rows)
  /\ EndTransaction(s)
  /\ sweep' = [sweep EXCEPT ![s] = Idle]
  /\ again' = again \union {r \in sweep[s].rows : resv[r] = "released"}
  /\ UNCHANGED <<pc, redeemed, cleared, taken>>

(***************************************************************************)
(* The database resolves a cycle of waiting transactions by failing one.   *)
(***************************************************************************)
WaitsFor(p) ==
  IF p \in Releasers
    THEN IF sweep[p].left = {} THEN {} ELSE {lock[Sku(sweep[p].next)]}
  ELSE IF pc[p] \in {"locking", "releasing"} /\ ~LinesLocked(p) THEN {lock[NextSku(p)]}
  ELSE {}

\* Every one of D waits for another of D and is waited for.
Deadlocked(D) ==
  \A p \in D : /\ WaitsFor(p) # {} /\ WaitsFor(p) \subseteq D \ {p}
               /\ \E q \in D : p \in WaitsFor(q)

DeadlockVictim(p) ==
  /\ \E D \in SUBSET Procs : p \in D /\ Deadlocked(D)
  /\ EndTransaction(p)
  /\ IF p \in Releasers
       THEN sweep' = [sweep EXCEPT ![p] = Idle] /\ UNCHANGED pc
       ELSE Moves(p, Broken(p)) /\ UNCHANGED sweep
  /\ UNCHANGED <<stock, resv, sideVars>>

(***************************************************************************)
(* The specification                                                       *)
(***************************************************************************)
CheckoutStep(c) ==
  \/ CheckKey(c) \/ LoadCart(c) \/ ResolvePromo(c)
  \/ Reserve(c) \/ LoseKey(c) \/ Redeem(c)
  \/ Accept(c) \/ ClearCart(c) \/ Decline(c) \/ Release(c)

Locking(c) == LockLine(c) \/ Reject(c) \/ LockToRelease(c)

Next ==
  \/ \E c \in Checkouts : CheckoutStep(c) \/ Locking(c) \/ Crash(c)
  \/ \E s \in Sweepers : SweepReads(s)
  \/ \E b \in Callbacks : CallbackReads(b) \/ CallbackBreaks(b)
  \/ \E s \in Releasers : SweepLocks(s) \/ SweepCommits(s)
  \/ \E p \in Procs : DeadlockVictim(p)

Spec == Init /\ [][Next]_vars

\* A server works on its requests in turn, the database grants row locks in turn
\* and detects deadlocks, and the sweep runs every 15 minutes.  No callback need come.
Fairness ==
  /\ \A c \in Checkouts : SF_vars(CheckoutStep(c)) /\ SF_vars(Locking(c))
  /\ \A s \in Sweepers : WF_vars(SweepReads(s))
  /\ \A s \in Releasers : WF_vars(SweepCommits(s)) /\ SF_vars(SweepLocks(s))
  /\ WF_vars(\E p \in Procs : DeadlockVictim(p))

FairSpec == Spec /\ Fairness

(***************************************************************************)
(* Properties                                                              *)
(***************************************************************************)

\* The units of SKU k in rows that have not been given back.
Outstanding(k) == Units({r \in Rows : Sku(r) = k /\ resv[r] \in {"held", "committed"}})

NotOversold(k) == stock[k] + Outstanding(k) <= Supply[k]

\* Never more units promised than there are: shelf and unreleased reservations
\* together do not exceed the supply, whatever checkouts, crashes and sweeps
\* interleave.
NoOversell == \A k \in Skus : NotOversold(k)

\* Every buyer of k is on one server.
SoldByOne(k) == \A r, q \in Rows : Sku(r) = k /\ Sku(q) = k => Server[r[1]] = Server[q[1]]

\* That much holds of a SKU whose buyers are all on one server, wherever its units
\* are given back: an event loop does not let a second cart be loaded while a first
\* one reserves.  Until a sweep and a callback, or two sweeps, give back the units of
\* one row, which neither looks at again under its locks.
NoOversellOnOneServer ==
  \A k \in Skus :
    SoldByOne(k) /\ (\A r \in again : Sku(r) # k) => NotOversold(k)

\* A unit given back is not sold from the same row again: no late checkout step
\* turns a released row into a held or committed one.
ReleasedForGood ==
  [][\A r \in Rows : resv[r] = "released" => resv'[r] = "released"]_vars

\* A customer who sends a checkout again, because the first answer does not come,
\* has one order: also when the second request reaches another server and looks
\* the key up before the first has committed.
OneOrderPerKey ==
  \A c, d \in Checkouts :
    Placed(c) /\ Placed(d) /\ Key[c] = Key[d] /\ Key[c] # NoKey => c = d

\* A code is not redeemed more often than its limits allow, although redemptions
\* are counted long before they are inserted: on one server nothing comes
\* between the two.
LimitsKeptOnOneServer ==
  \A l \in Limits :
    (\A c, d \in l.over : Server[c] = Server[d]) => Cardinality(redeemed \intersect l.over) <= l.max

\* Carts that name the same SKUs in different orders, the sweep and callbacks do not
\* block each other for ever: every checkout ends.
EveryCheckoutEnds == <>[](\A c \in Checkouts : pc[c] \in Ended)

\* The units of a crashed checkout come back: in the end no row is held.
HeldIsReclaimed == <>[](\A r \in Rows : resv[r] # "held")
=============================================================================
