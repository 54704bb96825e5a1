-------------------------- MODULE Inventory_proofs --------------------------
(***************************************************************************)
(* One order per idempotency key, limits of promotions kept on one server, *)
(* and reservations released for good: for any carts, servers, keys,       *)
(* limits, crashes, deadlocks, overlapping sweeps and callbacks.           *)
(*                                                                         *)
(* The argument: which steps lead to an order is decided by where each     *)
(* checkout stands.  Of the checkouts of one server at most one is between *)
(* two awaits, so nothing is redeemed between its count and its own        *)
(* redemption.  Sweeps and callbacks only hold rows of checkouts that have *)
(* ended with an order, and no checkout writes its rows after that.        *)
(***************************************************************************)
EXTENDS Inventory, FiniteSetTheorems, TLAPS

Places == {"new", "paying"} \union Busy \union Ended

\* Where the order of a checkout is in the database.
AfterOrder == {"reserved", "paying", "releasing", "accepted", "done", "declined", "crashed"}

Typed ==
  /\ pc \in [Checkouts -> Places]
  /\ resv \in [Rows -> {"none", "held", "committed", "released"}]
  /\ sweep \in [Releasers -> [rows : SUBSET Rows, left : SUBSET Rows, next : Rows \union {Nobody}]]
  /\ redeemed \subseteq Checkouts

\* One event loop runs one checkout between two awaits.
OneBusy ==
  \A c, d \in Checkouts :
    Server[c] = Server[d] /\ pc[c] \in Busy /\ pc[d] \in Busy => c = d

OneServer(l) == \A c, d \in l.over : Server[c] = Server[d]

Used(l) == Cardinality(redeemed \intersect l.over)

\* Whoever goes on to redeem still has an allowance.
Allowance ==
  \A l \in Limits : OneServer(l) =>
    /\ Used(l) <= l.max
    /\ \A c \in l.over : pc[c] \in {"locking", "reserved"} => Used(l) < l.max

\* What the place of a checkout says of its rows.
RowsOK ==
  \A r \in Rows :
    /\ pc[r[1]] \notin AfterOrder => resv[r] = "none"
    /\ pc[r[1]] \in {"reserved", "paying"} => resv[r] = "held"

\* Sweeps and callbacks give back rows of checkouts that have ended with an order.
SweptEnded ==
  \A s \in Releasers : \A r \in sweep[s].rows : pc[r[1]] \in {"done", "declined", "crashed"}

IInv == Typed /\ OneBusy /\ OneOrderPerKey /\ Allowance /\ RowsOK /\ SweptEnded

LEMMA RowOwner == \A r \in Rows : r[1] \in Checkouts
BY DEF Rows

\* A step of checkout c to another place, with what the code has checked before.
MayMove(c, to) ==
  /\ to \in Places
  /\ to \in Busy => pc[c] \in Busy \/ ServerFree(c)
  /\ to \in AfterOrder => pc[c] \in AfterOrder \/ ~KeySpent(c)
  /\ to \in {"locking", "reserved"} =>
       \/ to = "locking" /\ (~HasCode(c) \/ HasAllowance(c))
       \/ to = "reserved" /\ pc[c] = "locking"
  /\ pc[c] \in Ended => to \in Ended

\* Every step of a checkout is one of these.
LEMMA CheckoutMoves ==
  ASSUME IInv, NEW c \in Checkouts, CheckoutStep(c) \/ Reject(c) \/ Crash(c)
  PROVE  \E to : Moves(c, to) /\ MayMove(c, to)
<1>1. CASE CheckKey(c)
  BY <1>1 DEF CheckKey, MayMove, Places, Busy, Ended, AfterOrder
<1>2. CASE LoadCart(c)
  BY <1>2 DEF LoadCart, MayMove, Places, Busy, Ended, AfterOrder
<1>3. CASE ResolvePromo(c)
  BY <1>3 DEF ResolvePromo, MayMove, Places, Busy, Ended, AfterOrder
<1>4. CASE Reserve(c)
  BY <1>4 DEF Reserve, MayMove, Places, Busy, Ended, AfterOrder
<1>5. CASE LoseKey(c) \/ Reject(c)
  BY <1>5 DEF LoseKey, Reject, MayMove, Places, Busy, Ended, AfterOrder
<1>6. CASE Redeem(c) \/ ClearCart(c) \/ Release(c)
  BY <1>6 DEF Redeem, ClearCart, Release, MayMove, Places, Busy, Ended, AfterOrder
<1>7. CASE Accept(c) \/ Decline(c)
  BY <1>7 DEF Accept, Decline, MayMove, Places, Busy, Ended, AfterOrder
<1>8. CASE Crash(c)
  BY <1>8 DEF Crash, Broken, Placed, MayMove, Places, Busy, Ended, AfterOrder
<1> QED
  BY <1>1, <1>2, <1>3, <1>4, <1>5, <1>6, <1>7, <1>8 DEF CheckoutStep

\* Such a step keeps one checkout per server and one order per key.
LEMMA MoveKeeps ==
  ASSUME IInv, NEW c \in Checkouts, NEW to, Moves(c, to), MayMove(c, to)
  PROVE  /\ pc' \in [Checkouts -> Places]
         /\ OneBusy'
         /\ OneOrderPerKey'
         /\ \A d \in Checkouts : pc'[d] = IF d = c THEN to ELSE pc[d]
<1>1. pc \in [Checkouts -> Places] /\ to \in Places
  BY DEF IInv, Typed, MayMove
<1>2. \A d \in Checkouts : pc'[d] = IF d = c THEN to ELSE pc[d]
  BY <1>1 DEF Moves
<1>3. pc' \in [Checkouts -> Places]
  BY <1>1 DEF Moves
<1>4. OneBusy'
  <2>1. to \in Busy => \A d \in Checkouts \ {c} : Server[d] = Server[c] => pc[d] \notin Busy
    BY DEF MayMove, ServerFree, IInv, OneBusy
  <2> QED
    BY <1>2, <2>1 DEF IInv, OneBusy
<1>5. OneOrderPerKey'
  <2>1. \A d \in Checkouts : Placed(d) <=> pc[d] \in AfterOrder
    BY DEF Placed, AfterOrder
  <2>2. \A d \in Checkouts : Placed(d)' <=> (IF d = c THEN to ELSE pc[d]) \in AfterOrder
    BY <1>2 DEF Placed, AfterOrder
  <2>3. to \in AfterOrder /\ ~Placed(c) /\ Key[c] # NoKey =>
          \A d \in Checkouts : Key[d] = Key[c] => ~Placed(d)
    BY <2>1 DEF MayMove, KeySpent
  <2> QED
    BY <2>1, <2>2, <2>3 DEF IInv, OneOrderPerKey
<1> QED
  BY <1>2, <1>3, <1>4, <1>5

\* It keeps the allowances if nothing is redeemed.
LEMMA MoveKeepsAllowance ==
  ASSUME InventoryAssumption, IInv, NEW c \in Checkouts, NEW to, Moves(c, to), MayMove(c, to),
         redeemed' = redeemed
  PROVE  Allowance'
<1> SUFFICES ASSUME NEW l \in Limits, OneServer(l)
             PROVE  /\ Used(l) <= l.max
                    /\ \A d \in l.over : pc'[d] \in {"locking", "reserved"} => Used(l) < l.max
  BY DEF Allowance, OneServer, Used
<1>1. l.over \subseteq Checkouts
  BY DEF InventoryAssumption
<1>2. Used(l) <= l.max /\ \A d \in l.over : pc[d] \in {"locking", "reserved"} => Used(l) < l.max
  BY DEF IInv, Allowance
<1>3. ASSUME c \in l.over, to \in {"locking", "reserved"} PROVE Used(l) < l.max
  <2>1. CASE pc[c] = "locking"
    BY <1>2, <1>3, <2>1
  <2>2. CASE to = "locking" /\ (~HasCode(c) \/ HasAllowance(c))
    BY <1>3, <2>2 DEF HasCode, HasAllowance, Used
  <2> QED
    BY <1>3, <2>1, <2>2 DEF MayMove
<1> QED
  BY <1>1, <1>2, <1>3, MoveKeeps

\* One more redemption fits, and nobody else on the server waits for one.
LEMMA RedeemKeepsAllowance ==
  ASSUME InventoryAssumption, IInv, NEW c \in Checkouts, Redeem(c)
  PROVE  Allowance'
<1> SUFFICES ASSUME NEW l \in Limits, OneServer(l)
             PROVE  /\ Used(l)' <= l.max
                    /\ \A d \in l.over : pc'[d] \in {"locking", "reserved"} => Used(l)' < l.max
  BY DEF Allowance, OneServer
<1>1. l.over \subseteq Checkouts /\ l.max \in Nat /\ IsFiniteSet(redeemed \intersect l.over)
  BY FS_Subset DEF InventoryAssumption
<1>2. Used(l) <= l.max /\ \A d \in l.over : pc[d] \in {"locking", "reserved"} => Used(l) < l.max
  BY DEF IInv, Allowance
<1>3. pc[c] = "reserved" /\ redeemed' = redeemed \union {c}
      /\ \A d \in Checkouts : pc'[d] = IF d = c THEN "paying" ELSE pc[d]
  BY DEF Redeem, Moves, IInv, Typed
<1>4. CASE c \in l.over
  <2>1. Used(l)' <= Used(l) + 1 /\ Used(l) \in Nat /\ Used(l)' \in Nat
    <3>1. redeemed' \intersect l.over = (redeemed \intersect l.over) \union {c}
      BY <1>3, <1>4
    <3>2. /\ IsFiniteSet((redeemed \intersect l.over) \union {c})
          /\ Cardinality((redeemed \intersect l.over) \union {c}) =
               IF c \in redeemed \intersect l.over THEN Cardinality(redeemed \intersect l.over)
               ELSE Cardinality(redeemed \intersect l.over) + 1
      BY <1>1, FS_AddElement
    <3>3. Cardinality(redeemed \intersect l.over) \in Nat
      BY <1>1, FS_CardinalityType
    <3>4. /\ Used(l) = Cardinality(redeemed \intersect l.over)
          /\ Used(l)' = Cardinality((redeemed \intersect l.over) \union {c})
      BY <3>1 DEF Used
    <3> QED
      BY <3>2, <3>3, <3>4
  <2>2. Used(l) < l.max
    BY <1>2, <1>3, <1>4
  <2>3. \A d \in l.over : pc'[d] \notin {"locking", "reserved"}
    BY <1>1, <1>3, <1>4 DEF OneServer, IInv, OneBusy, Busy
  <2> QED
    BY <1>1, <2>1, <2>2, <2>3
<1>5. CASE c \notin l.over
  <2>1. redeemed' \intersect l.over = redeemed \intersect l.over
    BY <1>3, <1>5
  <2>2. Used(l)' = Used(l)
    BY <2>1 DEF Used
  <2>3. \A d \in l.over : pc'[d] = pc[d]
    BY <1>1, <1>3, <1>5
  <2> QED
    BY <1>2, <2>2, <2>3
<1> QED
  BY <1>4, <1>5

\* A move that leaves the rows alone, into or out of an order only when the rows
\* say so.
LEMMA MoveKeepsRows ==
  ASSUME IInv, NEW c \in Checkouts, NEW to, Moves(c, to), MayMove(c, to),
         resv' = resv, sweep' = sweep,
         to \in AfterOrder <=> pc[c] \in AfterOrder,
         to \in {"reserved", "paying"} => pc[c] \in {"reserved", "paying"},
         pc[c] \notin {"done", "declined", "crashed"}
  PROVE  RowsOK' /\ SweptEnded'
<1>1. \A r \in Rows : pc'[r[1]] = IF r[1] = c THEN to ELSE pc[r[1]]
  BY MoveKeeps, RowOwner
<1>2. RowsOK'
  BY <1>1 DEF IInv, RowsOK
<1>3. SweptEnded'
  BY <1>1 DEF IInv, Typed, SweptEnded
<1> QED
  BY <1>2, <1>3

\* Steps of a checkout before its order, and those after it that write no row.
LEMMA QuietIInv ==
  ASSUME InventoryAssumption, IInv, NEW c \in Checkouts,
         \/ CheckKey(c) \/ LoadCart(c) \/ ResolvePromo(c) \/ LoseKey(c) \/ Reject(c)
         \/ Redeem(c) \/ ClearCart(c) \/ Decline(c) \/ Crash(c)
  PROVE  IInv'
<1>1. PICK to : Moves(c, to) /\ MayMove(c, to)
  BY CheckoutMoves DEF CheckoutStep
<1>2. resv' = resv /\ sweep' = sweep
  BY DEF CheckKey, LoadCart, ResolvePromo, LoseKey, Reject, Redeem, ClearCart, Decline, Crash
<1>3. pc' \in [Checkouts -> Places] /\ OneBusy' /\ OneOrderPerKey' /\ to = pc'[c]
  BY <1>1, MoveKeeps
<1>4. RowsOK' /\ SweptEnded'
  <2>1. /\ pc'[c] \in AfterOrder <=> pc[c] \in AfterOrder
        /\ pc'[c] \in {"reserved", "paying"} => pc[c] \in {"reserved", "paying"}
        /\ pc[c] \notin {"done", "declined", "crashed"}
    <3>1. CASE CheckKey(c) \/ LoadCart(c) \/ ResolvePromo(c) \/ LoseKey(c) \/ Reject(c)
      BY <3>1 DEF IInv, Typed, CheckKey, LoadCart, ResolvePromo, LoseKey, Reject, Moves, AfterOrder
    <3>2. CASE Redeem(c) \/ ClearCart(c) \/ Decline(c)
      BY <3>2 DEF IInv, Typed, Redeem, ClearCart, Decline, Moves, AfterOrder
    <3>3. CASE Crash(c)
      BY <3>3 DEF IInv, Typed, Crash, Broken, Placed, Moves, Busy, AfterOrder
    <3> QED
      BY <3>1, <3>2, <3>3
  <2> QED
    BY <1>1, <1>2, <1>3, <2>1, MoveKeepsRows
<1>5. Allowance' /\ redeemed' \subseteq Checkouts
  <2>1. CASE Redeem(c)
    BY <2>1, RedeemKeepsAllowance DEF Redeem, IInv, Typed
  <2>2. CASE ~Redeem(c)
    <3>1. redeemed' = redeemed
      BY <2>2 DEF sideVars, CheckKey, LoadCart, ResolvePromo, LoseKey, Reject, ClearCart, Decline, Crash
    <3> QED
      BY <1>1, <3>1, MoveKeepsAllowance DEF IInv, Typed
  <2> QED
    BY <2>1, <2>2
<1> QED
  BY <1>2, <1>3, <1>4, <1>5 DEF IInv, Typed

\* The three steps of a checkout that write its rows.
LEMMA WriteIInv ==
  ASSUME InventoryAssumption, IInv, NEW c \in Checkouts, Reserve(c) \/ Accept(c) \/ Release(c)
  PROVE  IInv'
<1>1. PICK to : Moves(c, to) /\ MayMove(c, to)
  BY CheckoutMoves DEF CheckoutStep
<1>2. sweep' = sweep /\ redeemed' = redeemed
  BY DEF Reserve, Accept, Release, sideVars
<1>3. pc' \in [Checkouts -> Places] /\ OneBusy' /\ OneOrderPerKey' /\ Allowance'
      /\ \A d \in Checkouts : pc'[d] = IF d = c THEN to ELSE pc[d]
  BY <1>1, <1>2, MoveKeeps, MoveKeepsAllowance
<1>4. PICK s \in {"held", "committed", "released"} :
        /\ resv' = [r \in Rows |-> IF r[1] = c THEN s ELSE resv[r]]
        /\ to \in {"reserved", "paying"} => s = "held"
        /\ to \in AfterOrder
        /\ pc[c] \in {"locking", "paying", "releasing"}
  <2>1. CASE Reserve(c)
    BY <1>1, <2>1 DEF Reserve, Moves, AfterOrder, IInv, Typed
  <2>2. CASE Accept(c)
    BY <1>1, <2>2 DEF Accept, Moves, AfterOrder, IInv, Typed
  <2>3. CASE Release(c)
    <3>1. resv' = [r \in Rows |-> IF r[1] = c THEN "released" ELSE resv[r]]
      BY <2>3 DEF Release, MarkReleased, RowsOf
    <3> QED
      BY <1>1, <2>3, <3>1 DEF Release, Moves, AfterOrder, IInv, Typed
  <2> QED
    BY <2>1, <2>2, <2>3
<1>5. resv' \in [Rows -> {"none", "held", "committed", "released"}]
  BY <1>4 DEF IInv, Typed
<1>6. RowsOK'
  BY <1>3, <1>4, RowOwner DEF IInv, RowsOK
<1>7. SweptEnded'
  BY <1>2, <1>3, <1>4, RowOwner DEF IInv, Typed, SweptEnded
<1> QED
  BY <1>2, <1>3, <1>5, <1>6, <1>7 DEF IInv, Typed

\* Nothing but locks, stock or the objects of a session changes.
LEMMA StutterIInv ==
  ASSUME IInv, UNCHANGED <<pc, resv, sweep, redeemed>>
  PROVE  IInv'
BY DEF IInv, Typed, OneBusy, OneOrderPerKey, Placed, Allowance, OneServer, Used, RowsOK, SweptEnded

\* A sweep or callback reads, locks, and gives back.
ReleaserStep(s) ==
  \/ s \in Sweepers /\ SweepReads(s)
  \/ s \in Callbacks /\ (CallbackReads(s) \/ CallbackBreaks(s))
  \/ SweepLocks(s) \/ SweepCommits(s)

LEMMA SweepIInv ==
  ASSUME IInv, NEW s \in Releasers, ReleaserStep(s)
  PROVE  IInv'
<1>1. pc' = pc /\ redeemed' = redeemed
  BY DEF ReleaserStep, SweepReads, CallbackReads, CallbackBreaks, SweepCommits, SweepLocks, sideVars
<1>2. OneBusy' /\ OneOrderPerKey' /\ Allowance'
  BY <1>1 DEF IInv, OneBusy, OneOrderPerKey, Placed, Allowance, OneServer, Used
<1>3. CASE SweepReads(s)
  <2>1. PICK g \in Going(StaleRows, StaleRows) : sweep' = [sweep EXCEPT ![s] = g]
    BY <1>3 DEF SweepReads
  <2>2. g.rows = StaleRows /\ g \in [rows : SUBSET Rows, left : SUBSET Rows, next : Rows \union {Nobody}]
    BY DEF Going, StaleRows
  <2>3. \A r \in StaleRows : pc[r[1]] \in {"done", "declined", "crashed"}
    BY DEF StaleRows, IInv, RowsOK, AfterOrder, Ended
  <2>4. Typed' /\ SweptEnded'
    BY <1>1, <1>3, <2>1, <2>2, <2>3 DEF SweepReads, IInv, Typed, SweptEnded
  <2>5. RowsOK'
    BY <1>1, <1>3 DEF SweepReads, IInv, RowsOK
  <2> QED
    BY <1>2, <2>4, <2>5 DEF IInv
<1>4. CASE SweepLocks(s)
  <2>1. PICK g \in Going(sweep[s].rows, sweep[s].left \ {sweep[s].next}) :
          sweep' = [sweep EXCEPT ![s] = g]
    BY <1>4 DEF SweepLocks
  <2>2. g.rows = sweep[s].rows
        /\ g \in [rows : SUBSET Rows, left : SUBSET Rows, next : Rows \union {Nobody}]
    BY DEF Going, IInv, Typed
  <2>3. Typed' /\ SweptEnded'
    BY <1>1, <1>4, <2>1, <2>2 DEF SweepLocks, IInv, Typed, SweptEnded
  <2>4. RowsOK'
    BY <1>1, <1>4 DEF SweepLocks, IInv, RowsOK
  <2> QED
    BY <1>2, <2>3, <2>4 DEF IInv
<1>5. CASE SweepCommits(s)
  <2>1. resv' = [r \in Rows |-> IF r \in sweep[s].rows THEN "released" ELSE resv[r]]
    BY <1>5 DEF SweepCommits, MarkReleased
  <2>2. sweep' = [sweep EXCEPT ![s] = Idle]
        /\ Idle \in [rows : SUBSET Rows, left : SUBSET Rows, next : Rows \union {Nobody}]
        /\ Idle.rows = {}
    BY <1>5 DEF SweepCommits, Idle
  <2>3. Typed' /\ SweptEnded'
    BY <1>1, <2>1, <2>2 DEF IInv, Typed, SweptEnded
  <2>4. RowsOK'
    BY <1>1, <2>1 DEF IInv, RowsOK, SweptEnded, AfterOrder
  <2> QED
    BY <1>2, <2>3, <2>4 DEF IInv
<1>6. CASE CallbackReads(s)
  <2>1. PICK c \in Checkouts :
          /\ pc[c] \in {"done", "crashed"}
          /\ \E g \in Going(UnreleasedRows(c), UnreleasedRows(c)) : sweep' = [sweep EXCEPT ![s] = g]
    BY <1>6 DEF CallbackReads
  <2>2. PICK g \in Going(UnreleasedRows(c), UnreleasedRows(c)) : sweep' = [sweep EXCEPT ![s] = g]
    BY <2>1
  <2>3. g.rows = UnreleasedRows(c)
        /\ g \in [rows : SUBSET Rows, left : SUBSET Rows, next : Rows \union {Nobody}]
    BY DEF Going, UnreleasedRows, RowsOf
  <2>4. \A r \in UnreleasedRows(c) : pc[r[1]] \in {"done", "declined", "crashed"}
    BY <2>1 DEF UnreleasedRows, RowsOf
  <2>5. Typed' /\ SweptEnded'
    BY <1>1, <1>6, <2>2, <2>3, <2>4 DEF CallbackReads, IInv, Typed, SweptEnded
  <2>6. RowsOK'
    BY <1>1, <1>6 DEF CallbackReads, IInv, RowsOK
  <2> QED
    BY <1>2, <2>5, <2>6 DEF IInv
<1>7. CASE CallbackBreaks(s)
  <2>1. /\ sweep' = [sweep EXCEPT ![s] = Idle] /\ resv' = resv
        /\ Idle \in [rows : SUBSET Rows, left : SUBSET Rows, next : Rows \union {Nobody}]
        /\ Idle.rows = {}
    BY <1>7 DEF CallbackBreaks, Idle
  <2>2. Typed' /\ SweptEnded' /\ RowsOK'
    BY <1>1, <2>1 DEF IInv, Typed, SweptEnded, RowsOK
  <2> QED
    BY <1>2, <2>2 DEF IInv
<1> QED
  BY <1>3, <1>4, <1>5, <1>6, <1>7 DEF ReleaserStep

\* The database fails one transaction of a cycle.
LEMMA VictimIInv ==
  ASSUME InventoryAssumption, IInv, NEW p \in Procs, DeadlockVictim(p)
  PROVE  IInv'
<1>1. redeemed' = redeemed /\ resv' = resv
  BY DEF DeadlockVictim, sideVars
<1>2. CASE p \in Releasers
  <2>1. pc' = pc /\ sweep' = [sweep EXCEPT ![p] = Idle]
    BY <1>2 DEF DeadlockVictim
  <2>2. Idle \in [rows : SUBSET Rows, left : SUBSET Rows, next : Rows \union {Nobody}] /\ Idle.rows = {}
    BY DEF Idle
  <2>3. Typed' /\ SweptEnded'
    BY <1>1, <1>2, <2>1, <2>2 DEF IInv, Typed, SweptEnded
  <2> QED
    BY <1>1, <2>1, <2>3
       DEF IInv, OneBusy, OneOrderPerKey, Placed, Allowance, OneServer, Used, RowsOK
<1>3. CASE p \notin Releasers
  <2>1. p \in Checkouts /\ Moves(p, Broken(p)) /\ sweep' = sweep
    BY <1>3 DEF DeadlockVictim, Procs
  <2>2. pc[p] \in {"locking", "releasing"}
    <3>1. PICK D \in SUBSET Procs : p \in D /\ Deadlocked(D)
      BY DEF DeadlockVictim
    <3>2. WaitsFor(p) # {}
      BY <3>1 DEF Deadlocked
    <3> QED
      BY <1>3, <3>2 DEF WaitsFor
  <2>3. MayMove(p, Broken(p))
    BY <2>2 DEF MayMove, Broken, Placed, Places, Busy, Ended, AfterOrder
  <2>4. pc' \in [Checkouts -> Places] /\ OneBusy' /\ OneOrderPerKey' /\ Allowance'
    BY <1>1, <2>1, <2>3, MoveKeeps, MoveKeepsAllowance
  <2>5. /\ Broken(p) \in AfterOrder <=> pc[p] \in AfterOrder
        /\ Broken(p) \notin {"reserved", "paying"}
        /\ pc[p] \notin {"done", "declined", "crashed"}
    BY <2>2 DEF Broken, Placed, AfterOrder
  <2>6. RowsOK' /\ SweptEnded'
    BY <1>1, <2>1, <2>3, <2>5, MoveKeepsRows
  <2> QED
    BY <1>1, <2>1, <2>4, <2>6 DEF IInv, Typed
<1> QED
  BY <1>2, <1>3

\* The invariant holds at the start.
LEMMA InitIInv ==
  ASSUME InventoryAssumption
  PROVE  Init => IInv
<1> SUFFICES ASSUME Init PROVE IInv
  OBVIOUS
<1>1. Typed
  BY DEF Init, Typed, Places, Idle
<1>2. \A c \in Checkouts : pc[c] = "new"
  BY DEF Init
<1>3. OneBusy /\ OneOrderPerKey
  BY <1>2 DEF OneBusy, OneOrderPerKey, Placed, Busy
<1>4. Allowance
  <2>1. \A l \in Limits : redeemed \intersect l.over = {}
    BY DEF Init
  <2>2. \A l \in Limits : Used(l) = 0 /\ l.max \in Nat /\ l.over \subseteq Checkouts
    BY <2>1, FS_EmptySet DEF Used, InventoryAssumption
  <2> QED
    BY <1>2, <2>2 DEF Allowance
<1>5. RowsOK
  BY <1>2, RowOwner DEF Init, RowsOK, AfterOrder
<1>6. SweptEnded
  BY DEF Init, SweptEnded, Idle
<1> QED
  BY <1>1, <1>3, <1>4, <1>5, <1>6 DEF IInv

\* Every step keeps the invariant.
LEMMA StepIInv ==
  ASSUME InventoryAssumption, IInv, [Next]_vars
  PROVE  IInv'
<1>1. CASE UNCHANGED vars
  BY <1>1, StutterIInv DEF vars, sideVars
<1>2. ASSUME NEW c \in Checkouts, CheckoutStep(c) \/ Locking(c) \/ Crash(c)
      PROVE  IInv'
  <2>1. CASE LockLine(c) \/ LockToRelease(c)
    BY <2>1, StutterIInv DEF LockLine, LockToRelease, sideVars
  <2> QED
    BY <1>2, <2>1, QuietIInv, WriteIInv DEF CheckoutStep, Locking
<1> QED
  BY <1>1, <1>2, SweepIInv, VictimIInv DEF Next, Releasers, ReleaserStep

LEMMA AlwaysIInv ==
  ASSUME InventoryAssumption
  PROVE  Spec => []IInv
BY InitIInv, StepIInv, PTL DEF Spec

\* A checkout that is sent again under its key places one order, on any number
\* of servers.
THEOREM KeyOrdersOnce == Spec => []OneOrderPerKey
<1>1. IInv => OneOrderPerKey
  BY DEF IInv
<1> QED
  BY <1>1, AlwaysIInv, InventoryAssumption, PTL

\* The limits of a promotion hold as long as the checkouts they count are on
\* one server.
THEOREM LimitsKept == Spec => []LimitsKeptOnOneServer
<1>1. IInv => LimitsKeptOnOneServer
  BY DEF IInv, Allowance, OneServer, Used, LimitsKeptOnOneServer
<1> QED
  BY <1>1, AlwaysIInv, InventoryAssumption, PTL

\* A step does not write the row of a released reservation.
LEMMA ReleasedStays ==
  ASSUME IInv, [Next]_vars, NEW r \in Rows, resv[r] = "released"
  PROVE  resv'[r] = "released"
<1>1. r[1] \in Checkouts /\ pc[r[1]] \notin {"locking", "paying"}
  BY RowOwner DEF IInv, RowsOK, AfterOrder
<1>2. CASE resv' = resv
  BY <1>2
<1>3. ASSUME NEW c \in Checkouts, Reserve(c) PROVE resv'[r] = "released"
  BY <1>1, <1>3 DEF Reserve
<1>4. ASSUME NEW c \in Checkouts, Accept(c) PROVE resv'[r] = "released"
  BY <1>1, <1>4 DEF Accept
<1>5. ASSUME NEW c \in Checkouts, Release(c) PROVE resv'[r] = "released"
  BY <1>5 DEF Release, MarkReleased
<1>6. ASSUME NEW s \in Releasers, SweepCommits(s) PROVE resv'[r] = "released"
  BY <1>6 DEF SweepCommits, MarkReleased
<1>7. ASSUME NEW c \in Checkouts,
             \/ CheckKey(c) \/ LoadCart(c) \/ ResolvePromo(c) \/ LoseKey(c) \/ Redeem(c)
             \/ ClearCart(c) \/ Decline(c) \/ Locking(c) \/ Crash(c)
      PROVE  resv' = resv
  BY <1>7 DEF CheckKey, LoadCart, ResolvePromo, LoseKey, Redeem, ClearCart, Decline, Locking,
              LockLine, Reject, LockToRelease, Crash
<1>8. ASSUME NEW s \in Releasers,
             SweepReads(s) \/ CallbackReads(s) \/ CallbackBreaks(s) \/ SweepLocks(s)
      PROVE  resv' = resv
  BY <1>8 DEF SweepReads, CallbackReads, CallbackBreaks, SweepLocks
<1>9. ASSUME NEW p \in Procs, DeadlockVictim(p) PROVE resv' = resv
  BY <1>9 DEF DeadlockVictim
<1> QED
  BY <1>2, <1>3, <1>4, <1>5, <1>6, <1>7, <1>8, <1>9 DEF Next, vars, CheckoutStep, Releasers

\* What has been given back is never sold from the same row again.
THEOREM ReleasedRowsStay == Spec => ReleasedForGood
<1>1. IInv /\ [Next]_vars =>
        [\A r \in Rows : resv[r] = "released" => resv'[r] = "released"]_vars
  BY ReleasedStays
<1> QED
  BY <1>1, AlwaysIInv, InventoryAssumption, PTL DEF Spec, ReleasedForGood
=============================================================================
