----------------------- MODULE Inventory_stock_proofs -----------------------
(***************************************************************************)
(* The stock of the SKUs: no checkout takes it below zero, and a SKU whose *)
(* buyers share a server is not oversold, for any carts, quantities,       *)
(* supplies, crashes, deadlocks, overlapping sweeps and callbacks, until   *)
(* the units of one row are given back twice.                              *)
(*                                                                         *)
(* The argument: the quantity of a line is compared with the very object   *)
(* it is taken from, so that object never goes below zero, however old it  *)
(* is.  On one server it is not too high either: between the loading of a  *)
(* cart and its reservation nobody there takes stock, and whoever else     *)
(* writes it only gives units back.                                        *)
(***************************************************************************)
EXTENDS Inventory_proofs

(***************************************************************************)
(* Counting units                                                          *)
(***************************************************************************)

\* The image of a finite set under a function is finite.
LEMMA ImageFinite ==
  ASSUME NEW S, IsFiniteSet(S), NEW T, NEW f \in [S -> T], \A t \in T : \E s \in S : f[s] = t
  PROVE  IsFiniteSet(T)
<1>1. f \in Surjection(S, T)
  BY DEF Surjection
<1> QED
  BY <1>1, FS_Surjection

\* A line of a cart is a quantity of a SKU.
LEMMA LineFields ==
  ASSUME InventoryAssumption, NEW c \in Checkouts, NEW i \in DOMAIN Cart[c]
  PROVE  Cart[c][i] \in [sku : Skus, qty : Nat \ {0}]
<1> DEFINE L == [sku : Skus, qty : Nat \ {0}]
<1>1. Cart[c] \in Seq(L)
  BY DEF InventoryAssumption
<1> HIDE DEF L
<1>2. Cart[c][i] \in L
  BY <1>1
<1> QED
  BY <1>2 DEF L

\* Lines are counted from one.
LEMMA DomainIsNat ==
  ASSUME InventoryAssumption, NEW c \in Checkouts
  PROVE  DOMAIN Cart[c] = 1..Len(Cart[c]) /\ Len(Cart[c]) \in Nat
BY DEF InventoryAssumption

\* A row names a checkout and a line of its cart.
LEMMA RowFields ==
  ASSUME InventoryAssumption, NEW r \in Rows
  PROVE  /\ r[1] \in Checkouts /\ r[2] \in DOMAIN Cart[r[1]] /\ r = <<r[1], r[2]>>
         /\ Sku(r) \in Skus /\ Qty(r) \in Nat \ {0}
<1>1. PICK c \in Checkouts : r \in {c} \X DOMAIN Cart[c]
  BY DEF Rows
<1>2. r[1] = c /\ r[2] \in DOMAIN Cart[c] /\ r = <<r[1], r[2]>>
  BY <1>1
<1>3. Cart[c][r[2]] \in [sku : Skus, qty : Nat \ {0}]
  BY <1>2, LineFields
<1> QED
  BY <1>2, <1>3 DEF Sku, Qty

\* Every line of a cart has its row.
LEMMA LineHasRow ==
  ASSUME NEW c \in Checkouts, NEW i \in DOMAIN Cart[c]
  PROVE  /\ <<c, i>> \in RowsOf(c)
         /\ Sku(<<c, i>>) = Cart[c][i].sku
         /\ Qty(<<c, i>>) = Cart[c][i].qty
BY DEF Rows, RowsOf, Sku, Qty

LEMMA RowsFinite ==
  ASSUME InventoryAssumption
  PROVE  IsFiniteSet(Rows)
<1> DEFINE lines == [c \in Checkouts |-> {c} \X DOMAIN Cart[c]]
           T     == {{c} \X DOMAIN Cart[c] : c \in Checkouts}
<1>1. IsFiniteSet(T)
  <2>1. lines \in [Checkouts -> T] /\ \A t \in T : \E c \in Checkouts : lines[c] = t
    OBVIOUS
  <2>2. IsFiniteSet(Checkouts)
    BY DEF InventoryAssumption
  <2> HIDE DEF lines, T
  <2> QED
    BY <2>1, <2>2, ImageFinite
<1>2. ASSUME NEW c \in Checkouts PROVE IsFiniteSet({c} \X DOMAIN Cart[c])
  <2>1. DOMAIN Cart[c] = 1..Len(Cart[c]) /\ Len(Cart[c]) \in Nat
    BY DEF InventoryAssumption
  <2>2. IsFiniteSet(DOMAIN Cart[c])
    BY <2>1, FS_Interval
  <2> QED
    BY <2>2, FS_Singleton, FS_Product
<1>3. \A t \in T : IsFiniteSet(t)
  BY <1>2
<1> QED
  BY <1>1, <1>3, FS_UNION DEF Rows

\* The units in a set of rows are a finite set.
LEMMA UnitsFinite ==
  ASSUME InventoryAssumption, NEW R \in SUBSET Rows
  PROVE  IsFiniteSet(UnitsOf(R)) /\ Units(R) \in Nat
<1> DEFINE units == [r \in R |-> {r} \X (1..Qty(r))]
           T     == {{r} \X (1..Qty(r)) : r \in R}
<1>1. IsFiniteSet(R)
  BY RowsFinite, FS_Subset
<1>2. IsFiniteSet(T)
  <2>1. units \in [R -> T] /\ \A t \in T : \E r \in R : units[r] = t
    OBVIOUS
  <2> HIDE DEF units, T
  <2> QED
    BY <1>1, <2>1, ImageFinite
<1>3. ASSUME NEW r \in R PROVE IsFiniteSet({r} \X (1..Qty(r)))
  <2>1. Qty(r) \in Nat
    BY RowFields
  <2>2. IsFiniteSet(1..Qty(r))
    BY <2>1, FS_Interval
  <2> QED
    BY <2>2, FS_Singleton, FS_Product
<1>4. IsFiniteSet(UnitsOf(R))
  BY <1>2, <1>3, FS_UNION DEF UnitsOf
<1> QED
  BY <1>4, FS_CardinalityType DEF Units

\* The units of rows that have none in common add up.
LEMMA UnitsAdd ==
  ASSUME InventoryAssumption, NEW R \in SUBSET Rows, NEW S \in SUBSET Rows, R \intersect S = {}
  PROVE  Units(R \union S) = Units(R) + Units(S)
<1>1. UnitsOf(R \union S) = UnitsOf(R) \union UnitsOf(S)
  BY DEF UnitsOf
<1>2. UnitsOf(R) \intersect UnitsOf(S) = {}
  BY DEF UnitsOf
<1>3. IsFiniteSet(UnitsOf(R)) /\ IsFiniteSet(UnitsOf(S)) /\ Units(R) \in Nat /\ Units(S) \in Nat
  BY UnitsFinite
<1>4. Cardinality(UnitsOf(R) \union UnitsOf(S)) =
        Cardinality(UnitsOf(R)) + Cardinality(UnitsOf(S)) - Cardinality(UnitsOf(R) \intersect UnitsOf(S))
  BY <1>3, FS_Union
<1>5. Cardinality(UnitsOf(R) \intersect UnitsOf(S)) = 0
  BY <1>2, FS_EmptySet
<1>6. Units(R \union S) = Units(R) + Units(S) - 0
  BY <1>1, <1>4, <1>5 DEF Units
<1> QED
  BY <1>3, <1>6

\* The units of a set of rows are those of a part of it and of the rest.
LEMMA UnitsSplit ==
  ASSUME InventoryAssumption, NEW R \in SUBSET Rows, NEW S \in SUBSET R
  PROVE  Units(R) = Units(S) + Units(R \ S)
<1>1. R = S \union (R \ S) /\ S \intersect (R \ S) = {}
  OBVIOUS
<1> QED
  BY <1>1, UnitsAdd

\* One row holds the units of its line.
LEMMA UnitsOfOne ==
  ASSUME InventoryAssumption, NEW r \in Rows
  PROVE  Units({r}) = Qty(r)
<1>1. UnitsOf({r}) = {r} \X (1..Qty(r))
  BY DEF UnitsOf
<1>2. Qty(r) \in Nat
  BY RowFields
<1>3. IsFiniteSet(1..Qty(r)) /\ Cardinality(1..Qty(r)) = Qty(r)
  BY <1>2, FS_Interval
<1>4. IsFiniteSet({r}) /\ Cardinality({r}) = 1
  BY FS_Singleton
<1>5. Cardinality({r} \X (1..Qty(r))) = Cardinality({r}) * Cardinality(1..Qty(r))
  BY <1>3, <1>4, FS_Product
<1>6. Units({r}) = 1 * Qty(r)
  BY <1>1, <1>3, <1>4, <1>5 DEF Units
<1> QED
  BY <1>2, <1>6

(***************************************************************************)
(* Types.  The stock a checkout writes is what it has loaded less what it  *)
(* takes: it is a number because each line was compared with that object.  *)
(***************************************************************************)

\* Lines are locked from the first one on.
FromTheFirst == \A c \in Checkouts : pc[c] \in {"new", "keyed", "loaded"} => line[c] = 1

\* The lines a checkout has locked are in the stock it has loaded.
Compared ==
  \A c \in Checkouts : pc[c] = "locking" =>
    \A i \in DOMAIN Cart[c] : i < line[c] => snap[c][Cart[c][i].sku] >= Cart[c][i].qty

TInv == TypeOK /\ FromTheFirst /\ Compared

\* The end of a transaction.
LEMMA Ending ==
  ASSUME TypeOK, NEW p \in Procs, EndTransaction(p)
  PROVE  /\ lock' \in [Skus -> Procs \union {Nobody}]
         /\ snap' \in [Checkouts -> [Skus -> Nat]]
         /\ line' \in [Checkouts -> Nat]
         /\ p \in Checkouts => line'[p] = 1
         /\ \A d \in Checkouts \ {p} : snap'[d] = snap[d] /\ line'[d] = line[d]
<1>1. lock' \in [Skus -> Procs \union {Nobody}]
  BY DEF EndTransaction, Unlocked, TypeOK
<1>2. Expired \in [Skus -> Nat]
  BY DEF Expired
<1> QED
  BY <1>1, <1>2 DEF EndTransaction, TypeOK

\* The locking of a line's SKU.
LEMMA LockingNext ==
  ASSUME TypeOK, NEW c \in Checkouts, LockNext(c)
  PROVE  /\ lock' \in [Skus -> Procs \union {Nobody}]
         /\ line' \in [Checkouts -> Nat]
         /\ line'[c] = line[c] + 1
         /\ \A d \in Checkouts \ {c} : line'[d] = line[d]
<1>1. line \in [Checkouts -> Nat] /\ line' = [line EXCEPT ![c] = line[c] + 1]
  BY DEF LockNext, TypeOK
<1>2. lock \in [Skus -> Procs \union {Nobody}] /\ lock' = [lock EXCEPT ![NextSku(c)] = c]
  BY DEF LockNext, TypeOK
<1>3. lock' \in [Skus -> Procs \union {Nobody}]
  BY <1>2 DEF Procs
<1>4. line[c] + 1 \in Nat
  BY <1>1
<1> QED
  BY <1>1, <1>3, <1>4

\* The steps of a checkout that leave the stock alone, and those of the database.
LEMMA QuietTypes ==
  ASSUME InventoryAssumption, IInv, TInv, NEW c \in Checkouts,
         \/ CheckKey(c) \/ LoadCart(c) \/ ResolvePromo(c) \/ LoseKey(c) \/ Reject(c)
         \/ Redeem(c) \/ Accept(c) \/ ClearCart(c) \/ Decline(c) \/ Crash(c)
         \/ LockLine(c) \/ LockToRelease(c)
  PROVE  TInv'
<1>1. CASE LockLine(c)
  <2>1. /\ LockNext(c) /\ snap[c][NextSku(c)] >= Cart[c][line[c]].qty
        /\ UNCHANGED <<stock, resv, pc, snap, sweep, redeemed, cleared, taken, again>>
        /\ pc[c] = "locking"
    BY <1>1 DEF LockLine, sideVars
  <2>2. TypeOK'
    BY <2>1, LockingNext DEF TInv, TypeOK
  <2>3. FromTheFirst'
    BY <2>1, LockingNext DEF TInv, FromTheFirst
  <2>4. Compared'
    <3> SUFFICES ASSUME NEW d \in Checkouts, pc[d] = "locking", NEW i \in DOMAIN Cart[d],
                        i < line'[d]
                 PROVE  snap[d][Cart[d][i].sku] >= Cart[d][i].qty
      BY <2>1 DEF Compared
    <3>1. CASE d # c \/ i < line[c]
      <4>1. i < line[d]
        BY <2>1, <3>1, LockingNext DEF TInv
      <4> QED
        BY <4>1 DEF TInv, Compared
    <3>2. CASE d = c /\ ~(i < line[c])
      <4>1. line[c] \in Nat /\ line'[c] = line[c] + 1
        BY <2>1, LockingNext DEF TInv, TypeOK
      <4>2. i \in Nat
        BY DomainIsNat
      <4>3. i < line[c] + 1
        BY <3>2, <4>1
      <4>4. i = line[c]
        BY <3>2, <4>1, <4>2, <4>3
      <4> QED
        BY <2>1, <3>2, <4>4 DEF NextSku
    <3> QED
      BY <3>1, <3>2
  <2> QED
    BY <2>2, <2>3, <2>4 DEF TInv
<1>2. CASE LockToRelease(c)
  <2>1. /\ LockNext(c)
        /\ UNCHANGED <<stock, resv, pc, snap, sweep, redeemed, cleared, taken, again>>
        /\ pc[c] = "releasing"
    BY <1>2 DEF LockToRelease, sideVars
  <2> QED
    BY <2>1, LockingNext DEF TInv, TypeOK, FromTheFirst, Compared
<1>3. CASE LoseKey(c) \/ Reject(c) \/ Crash(c)
  <2>1. PICK to \in Ended : Moves(c, to)
    BY <1>3 DEF LoseKey, Reject, Crash, Broken, Ended
  <2>2. /\ EndTransaction(c) /\ c \in Procs
        /\ UNCHANGED <<stock, resv, sweep, redeemed, cleared, taken, again>>
    BY <1>3 DEF LoseKey, Reject, Crash, sideVars, Procs
  <2>3. \A d \in Checkouts : pc'[d] = IF d = c THEN to ELSE pc[d]
    BY <2>1 DEF Moves, TInv, TypeOK
  <2>4. TypeOK'
    BY <2>1, <2>2, Ending DEF Moves, TInv, TypeOK
  <2>5. \A d \in Checkouts \ {c} : snap'[d] = snap[d] /\ line'[d] = line[d]
    BY <2>2, Ending DEF TInv
  <2>6. FromTheFirst'
    BY <2>1, <2>3, <2>5 DEF TInv, FromTheFirst, Ended
  <2>7. Compared'
    BY <2>1, <2>3, <2>5 DEF TInv, Compared, Ended
  <2> QED
    BY <2>4, <2>6, <2>7 DEF TInv
<1>4. CASE LoadCart(c)
  <2>1. pc[c] = "keyed" /\ line[c] = 1
    BY <1>4 DEF LoadCart, TInv, FromTheFirst
  <2>2. PICK to \in {"loaded", "locking", "rejected"} : Moves(c, to)
    BY <1>4 DEF LoadCart
  <2>3. /\ UNCHANGED <<stock, resv, lock, line, sweep, redeemed, cleared, taken, again>>
        /\ snap' = [snap EXCEPT ![c] = stock] \/ snap' = snap
    BY <1>4 DEF LoadCart, sideVars
  <2>4. \A d \in Checkouts : pc'[d] = IF d = c THEN to ELSE pc[d]
    BY <2>2 DEF Moves, TInv, TypeOK
  <2>5. TypeOK'
    <3>1. snap' \in [Checkouts -> [Skus -> Nat]]
      BY <2>3 DEF TInv, TypeOK
    <3>2. pc' \in [Checkouts -> {"new", "paying"} \union Busy \union Ended]
      BY <2>2 DEF Moves, TInv, TypeOK, Busy, Ended
    <3> QED
      BY <2>3, <3>1, <3>2 DEF TInv, TypeOK
  <2>6. \A i \in DOMAIN Cart[c] : ~(i < line[c])
    BY <2>1, DomainIsNat
  <2>7. FromTheFirst' /\ Compared'
    BY <2>1, <2>2, <2>3, <2>4, <2>6 DEF TInv, TypeOK, FromTheFirst, Compared
  <2> QED
    BY <2>5, <2>7 DEF TInv
<1>5. CASE ResolvePromo(c)
  <2>1. pc[c] = "loaded" /\ line[c] = 1
    BY <1>5 DEF ResolvePromo, TInv, FromTheFirst
  <2>2. PICK to \in {"locking", "rejected"} : Moves(c, to)
    BY <1>5 DEF ResolvePromo
  <2>3. /\ UNCHANGED <<stock, resv, lock, line, sweep, redeemed, cleared, taken, again>>
        /\ snap' = [snap EXCEPT ![c] = Expired] \/ snap' = snap
    BY <1>5 DEF ResolvePromo, sideVars
  <2>4. \A d \in Checkouts : pc'[d] = IF d = c THEN to ELSE pc[d]
    BY <2>2 DEF Moves, TInv, TypeOK
  <2>5. Expired \in [Skus -> Nat]
    BY DEF Expired
  <2>6. TypeOK'
    <3>1. snap' \in [Checkouts -> [Skus -> Nat]]
      BY <2>3, <2>5 DEF TInv, TypeOK
    <3>2. pc' \in [Checkouts -> {"new", "paying"} \union Busy \union Ended]
      BY <2>2 DEF Moves, TInv, TypeOK, Busy, Ended
    <3> QED
      BY <2>3, <3>1, <3>2 DEF TInv, TypeOK
  <2>7. \A i \in DOMAIN Cart[c] : ~(i < line[c])
    BY <2>1, DomainIsNat
  <2>8. FromTheFirst' /\ Compared'
    BY <2>1, <2>2, <2>3, <2>4, <2>7 DEF TInv, TypeOK, FromTheFirst, Compared
  <2> QED
    BY <2>6, <2>8 DEF TInv
<1>6. CASE CheckKey(c) \/ Redeem(c) \/ Accept(c) \/ ClearCart(c) \/ Decline(c)
  <2>1. PICK to \in Places \ {"locking", "loaded"} : Moves(c, to) /\ (to = "keyed" => pc[c] = "new") /\ to # "new"
    BY <1>6 DEF CheckKey, Redeem, Accept, ClearCart, Decline, Places, Busy, Ended
  <2>2. /\ UNCHANGED <<stock, lock, line, snap, sweep>>
        /\ resv' \in [Rows -> {"none", "held", "committed", "released"}]
        /\ redeemed' \subseteq Checkouts /\ cleared' \subseteq {Basket[d] : d \in Checkouts}
        /\ taken' = taken /\ again' = again
    BY <1>6 DEF CheckKey, Redeem, Accept, ClearCart, Decline, sideVars, TInv, TypeOK
  <2>3. \A d \in Checkouts : pc'[d] = IF d = c THEN to ELSE pc[d]
    BY <2>1 DEF Moves, TInv, TypeOK
  <2>4. TypeOK'
    BY <2>1, <2>2 DEF Moves, TInv, TypeOK, Places
  <2>5. FromTheFirst' /\ Compared'
    BY <2>1, <2>2, <2>3 DEF TInv, FromTheFirst, Compared
  <2> QED
    BY <2>4, <2>5 DEF TInv
<1> QED
  BY <1>1, <1>2, <1>3, <1>4, <1>5, <1>6

\* A cart has one row for each SKU in it.
LEMMA OneRowPerSku ==
  ASSUME InventoryAssumption, NEW c \in Checkouts, NEW r \in RowsOf(c), NEW q \in RowsOf(c),
         Sku(r) = Sku(q)
  PROVE  r = q
<1>1. /\ r \in Rows /\ q \in Rows /\ r[1] = c /\ q[1] = c
  BY DEF RowsOf
<1>2. /\ r[2] \in DOMAIN Cart[c] /\ q[2] \in DOMAIN Cart[c]
      /\ r = <<c, r[2]>> /\ q = <<c, q[2]>>
  BY <1>1, RowFields
<1>3. Cart[c][r[2]].sku = Cart[c][q[2]].sku
  BY <1>1 DEF Sku
<1>4. r[2] = q[2]
  BY <1>2, <1>3 DEF InventoryAssumption
<1> QED
  BY <1>2, <1>4

\* A reservation takes the units of each line from the stock that was loaded, and
\* leaves the other SKUs alone.
LEMMA TakenStock ==
  ASSUME InventoryAssumption, TInv, NEW c \in Checkouts, pc[c] = "locking", LinesLocked(c)
  PROVE  /\ Taken(c) \in [Skus -> Nat]
         /\ \A r \in RowsOf(c) : Taken(c)[Sku(r)] = snap[c][Sku(r)] - Qty(r)
         /\ \A k \in Skus : (\A r \in RowsOf(c) : Sku(r) # k) => Taken(c)[k] = stock[k]
<1>1. stock \in [Skus -> Nat] /\ snap[c] \in [Skus -> Nat]
  BY DEF TInv, TypeOK
<1>2. ASSUME NEW r \in RowsOf(c)
      PROVE  /\ Sku(r) \in Skus
             /\ Taken(c)[Sku(r)] = snap[c][Sku(r)] - Qty(r)
             /\ snap[c][Sku(r)] - Qty(r) \in Nat
  <2>1. r \in Rows /\ r[1] = c
    BY DEF RowsOf
  <2>2. Sku(r) \in Skus /\ Qty(r) \in Nat /\ r[2] \in DOMAIN Cart[c]
    BY <2>1, RowFields
  <2>3. (CHOOSE q \in RowsOf(c) : Sku(q) = Sku(r)) = r
    BY OneRowPerSku
  <2>4. r[2] < line[c]
    <3>1. r[2] \in 1..Len(Cart[c]) /\ Len(Cart[c]) \in Nat
      BY <2>2, DomainIsNat
    <3>2. line[c] > Len(Cart[c]) /\ line[c] \in Nat
      BY DEF LinesLocked, TInv, TypeOK
    <3> QED
      BY <3>1, <3>2
  <2>5. snap[c][Sku(r)] >= Qty(r)
    BY <2>1, <2>2, <2>4 DEF TInv, Compared, Sku, Qty
  <2>6. Taken(c)[Sku(r)] = snap[c][Sku(r)] - Qty(r)
    BY <2>2, <2>3 DEF Taken
  <2>7. snap[c][Sku(r)] \in Nat
    BY <1>1, <2>2
  <2> QED
    BY <2>2, <2>5, <2>6, <2>7
<1>3. ASSUME NEW k \in Skus, \A r \in RowsOf(c) : Sku(r) # k
      PROVE  Taken(c)[k] = stock[k]
  BY <1>3 DEF Taken
<1>4. \A k \in Skus : Taken(c)[k] \in Nat
  BY <1>1, <1>2, <1>3
<1>5. Taken(c) \in [Skus -> Nat]
  BY <1>4 DEF Taken
<1> QED
  BY <1>2, <1>3, <1>5

\* What is given back is added.
LEMMA RestoredStock ==
  ASSUME InventoryAssumption, TypeOK, NEW R \in SUBSET Rows
  PROVE  /\ Restored(R) \in [Skus -> Nat]
         /\ \A k \in Skus : /\ Restored(R)[k] = stock[k] + Units({r \in R : Sku(r) = k})
                            /\ stock[k] <= Restored(R)[k]
<1>1. \A k \in Skus : {r \in R : Sku(r) = k} \in SUBSET Rows
  OBVIOUS
<1>2. \A k \in Skus : Units({r \in R : Sku(r) = k}) \in Nat
  BY <1>1, UnitsFinite
<1>3. \A k \in Skus : stock[k] \in Nat
  BY DEF TypeOK
<1> QED
  BY <1>2, <1>3 DEF Restored

\* The steps that write the stock.
LEMMA WritingTypes ==
  ASSUME InventoryAssumption, IInv, TInv, NEW c \in Checkouts, Reserve(c) \/ Release(c)
  PROVE  TInv'
<1>1. PICK to \in {"reserved", "paying", "declined"} : Moves(c, to)
  BY DEF Reserve, Release
<1>2. /\ EndTransaction(c) /\ c \in Procs
      /\ UNCHANGED <<sweep, redeemed, cleared, taken, again>>
  BY DEF Reserve, Release, sideVars, Procs
<1>3. \A d \in Checkouts : pc'[d] = IF d = c THEN to ELSE pc[d]
  BY <1>1 DEF Moves, TInv, TypeOK
<1>4. stock' \in [Skus -> Nat]
  <2>1. CASE Reserve(c)
    BY <2>1, TakenStock DEF Reserve
  <2>2. CASE Release(c)
    <3>1. {r \in RowsOf(c) : resv[r] # "released"} \in SUBSET Rows
      BY DEF RowsOf
    <3> QED
      BY <2>2, <3>1, RestoredStock DEF Release, TInv
  <2> QED
    BY <2>1, <2>2
<1>5. resv' \in [Rows -> {"none", "held", "committed", "released"}]
  BY DEF Reserve, Release, MarkReleased, TInv, TypeOK
<1>6. pc' \in [Checkouts -> {"new", "paying"} \union Busy \union Ended]
  BY <1>1 DEF Moves, TInv, TypeOK, Busy, Ended
<1>7. TypeOK'
  BY <1>2, <1>4, <1>5, <1>6, Ending DEF TInv, TypeOK
<1>8. \A d \in Checkouts \ {c} : snap'[d] = snap[d] /\ line'[d] = line[d]
  BY <1>2, Ending DEF TInv
<1>9. FromTheFirst'
  BY <1>1, <1>3, <1>8 DEF TInv, FromTheFirst
<1>10. Compared'
  BY <1>1, <1>3, <1>8 DEF TInv, Compared
<1> QED
  BY <1>7, <1>9, <1>10 DEF TInv

\* The steps of a sweep or callback.
LEMMA SweepTypes ==
  ASSUME InventoryAssumption, IInv, IInv', TInv, NEW s \in Releasers, ReleaserStep(s)
  PROVE  TInv'
<1>1. /\ pc' = pc /\ redeemed' = redeemed /\ cleared' = cleared
      /\ sweep' \in [Releasers -> [rows : SUBSET Rows, left : SUBSET Rows, next : Rows \union {Nobody}]]
      /\ resv' \in [Rows -> {"none", "held", "committed", "released"}]
  BY DEF ReleaserStep, SweepReads, CallbackReads, CallbackBreaks, SweepCommits, SweepLocks, sideVars,
         IInv, Typed
<1>2. s \in Procs /\ s \notin Checkouts
  BY DEF Procs, Releasers, InventoryAssumption
<1>3. sweep[s].rows \in SUBSET Rows
  BY DEF IInv, Typed
<1>4. taken' \subseteq Callbacks /\ again' \subseteq Rows
  <2>1. taken \subseteq Callbacks /\ again \subseteq Rows
    BY DEF TInv, TypeOK
  <2>2. taken' = taken \/ (s \in Callbacks /\ taken' = taken \union {s})
    BY DEF ReleaserStep, SweepReads, CallbackReads, CallbackBreaks, SweepCommits, SweepLocks, sideVars
  <2>3. again' = again \/ again' = again \union {r \in sweep[s].rows : resv[r] = "released"}
    BY DEF ReleaserStep, SweepReads, CallbackReads, CallbackBreaks, SweepCommits, SweepLocks, sideVars
  <2> QED
    BY <1>3, <2>1, <2>2, <2>3
<1>5. CASE SweepReads(s) \/ CallbackReads(s)
  BY <1>1, <1>4, <1>5 DEF SweepReads, CallbackReads, TInv, TypeOK, FromTheFirst, Compared
<1>6. CASE SweepLocks(s)
  <2>1. lock' \in [Skus -> Procs \union {Nobody}]
    BY <1>2, <1>6 DEF SweepLocks, TInv, TypeOK
  <2> QED
    BY <1>1, <1>4, <1>6, <2>1 DEF SweepLocks, TInv, TypeOK, FromTheFirst, Compared
<1>7. CASE SweepCommits(s) \/ CallbackBreaks(s)
  <2>1. stock' \in [Skus -> Nat]
    <3>1. stock' = Restored(sweep[s].rows) \/ stock' = stock
      BY <1>7 DEF SweepCommits, CallbackBreaks
    <3>2. Restored(sweep[s].rows) \in [Skus -> Nat]
      BY <1>3, RestoredStock DEF TInv
    <3>3. stock \in [Skus -> Nat]
      BY DEF TInv, TypeOK
    <3> QED
      BY <3>1, <3>2, <3>3
  <2>2. EndTransaction(s)
    BY <1>7 DEF SweepCommits, CallbackBreaks
  <2>3. line' = line /\ snap' = snap
    BY <1>2, <2>2 DEF EndTransaction
  <2>4. lock' \in [Skus -> Procs \union {Nobody}]
    BY <1>2, <2>2, Ending DEF TInv
  <2> QED
    BY <1>1, <1>4, <2>1, <2>3, <2>4 DEF TInv, TypeOK, FromTheFirst, Compared
<1> QED
  BY <1>5, <1>6, <1>7 DEF ReleaserStep

\* The database fails one transaction of a cycle.
LEMMA VictimTypes ==
  ASSUME InventoryAssumption, IInv, IInv', TInv, NEW p \in Procs, DeadlockVictim(p)
  PROVE  TInv'
<1>1. /\ EndTransaction(p)
      /\ UNCHANGED <<stock, resv, redeemed, cleared, taken, again>>
      /\ sweep' \in [Releasers -> [rows : SUBSET Rows, left : SUBSET Rows, next : Rows \union {Nobody}]]
  BY DEF DeadlockVictim, sideVars, IInv, Typed
<1>2. pc' \in [Checkouts -> {"new", "paying"} \union Busy \union Ended]
  BY DEF IInv, Typed, Places
<1>3. \A d \in Checkouts : pc'[d] = pc[d] \/ (d = p /\ pc'[d] \in Ended)
  BY DEF DeadlockVictim, Moves, Broken, Ended, TInv, TypeOK
<1>4. TypeOK'
  BY <1>1, <1>2, Ending DEF TInv, TypeOK
<1>5. \A d \in Checkouts : /\ d # p => snap'[d] = snap[d] /\ line'[d] = line[d]
                           /\ d = p => line'[d] = 1
  BY <1>1, Ending DEF TInv
<1>6. FromTheFirst'
  BY <1>3, <1>5 DEF TInv, FromTheFirst, Ended
<1>7. Compared'
  <2> SUFFICES ASSUME NEW d \in Checkouts, pc'[d] = "locking", NEW i \in DOMAIN Cart[d], i < line'[d]
               PROVE  snap'[d][Cart[d][i].sku] >= Cart[d][i].qty
    BY DEF Compared
  <2>1. CASE d # p
    BY <1>3, <1>5, <2>1 DEF TInv, Compared
  <2>2. CASE d = p
    BY <1>5, <2>2, DomainIsNat
  <2> QED
    BY <2>1, <2>2
<1> QED
  BY <1>4, <1>6, <1>7 DEF TInv

\* The invariant holds at the start.
LEMMA InitTypes ==
  ASSUME InventoryAssumption
  PROVE  Init => TInv
<1> SUFFICES ASSUME Init PROVE TInv
  OBVIOUS
<1>1. TypeOK
  BY DEF Init, TypeOK, InventoryAssumption, Expired, Idle
<1>2. FromTheFirst /\ Compared
  BY DEF Init, FromTheFirst, Compared
<1> QED
  BY <1>1, <1>2 DEF TInv

\* Every step keeps it.
LEMMA StepTypes ==
  ASSUME InventoryAssumption, IInv, IInv', TInv, [Next]_vars
  PROVE  TInv'
<1>1. CASE UNCHANGED vars
  BY <1>1 DEF vars, sideVars, TInv, TypeOK, FromTheFirst, Compared
<1>2. ASSUME NEW c \in Checkouts, CheckoutStep(c) \/ Locking(c) \/ Crash(c)
      PROVE  TInv'
  BY <1>2, QuietTypes, WritingTypes DEF CheckoutStep, Locking
<1> QED
  BY <1>1, <1>2, SweepTypes, VictimTypes DEF Next, Releasers, ReleaserStep

LEMMA AlwaysTyped == Spec => [](IInv /\ TInv)
<1>1. Init => TInv
  BY InventoryAssumption, InitTypes
<1>2. IInv /\ IInv' /\ TInv /\ [Next]_vars => TInv'
  BY InventoryAssumption, StepTypes
<1> QED
  BY <1>1, <1>2, AlwaysIInv, InventoryAssumption, PTL DEF Spec

\* In every behaviour every variable keeps its type.  In particular stock_level is
\* never negative: not when a checkout writes it from an object it has loaded before
\* it waited for the row, and not on several servers.
THEOREM StockTypeCorrect == Spec => []TypeOK
<1>1. TInv => TypeOK
  BY DEF TInv
<1> QED
  BY <1>1, AlwaysTyped, PTL

(***************************************************************************)
(* Overselling                                                             *)
(***************************************************************************)

\* The SKUs in the cart of c.
Wanted(c) == {Cart[c][i].sku : i \in DOMAIN Cart[c]}

LEMMA WantedSkus ==
  ASSUME InventoryAssumption, NEW c \in Checkouts
  PROVE  /\ Wanted(c) \subseteq Skus
         /\ \A k \in Wanted(c) : \E r \in RowsOf(c) : Sku(r) = k
         /\ \A r \in RowsOf(c) : Sku(r) \in Wanted(c)
<1>1. ASSUME NEW k \in Wanted(c) PROVE k \in Skus /\ \E r \in RowsOf(c) : Sku(r) = k
  <2>1. PICK i \in DOMAIN Cart[c] : k = Cart[c][i].sku
    BY DEF Wanted
  <2>2. Cart[c][i] \in [sku : Skus, qty : Nat \ {0}]
    BY LineFields
  <2>3. <<c, i>> \in RowsOf(c) /\ Sku(<<c, i>>) = Cart[c][i].sku
    BY LineHasRow
  <2> QED
    BY <2>1, <2>2, <2>3
<1>2. ASSUME NEW r \in RowsOf(c) PROVE Sku(r) \in Wanted(c)
  <2>1. r \in Rows /\ r[1] = c
    BY DEF RowsOf
  <2> QED
    BY <2>1, RowFields DEF Wanted, Sku
<1> QED
  BY <1>1, <1>2

\* The stock a checkout has loaded of such a SKU is not more than there is.
NotTooHigh ==
  \A c \in Checkouts : pc[c] \in {"loaded", "locking"} =>
    \A k \in Wanted(c) : SoldByOne(k) => snap[c][k] <= stock[k]

\* The rows of a checkout that may give them back are held, and no row of an order is
\* missing.
StillHeld ==
  \A r \in Rows :
    /\ pc[r[1]] \in {"reserved", "paying", "releasing"} => resv[r] = "held"
    /\ pc[r[1]] \in AfterOrder => resv[r] # "none"

\* No units of k were given back twice.
GivenOnce(k) == \A r \in again : Sku(r) # k

SoldInv == NotTooHigh /\ StillHeld /\ NoOversellOnOneServer

\* The rows behind what is outstanding of k.
OutRows(k) == {r \in Rows : Sku(r) = k /\ resv[r] \in {"held", "committed"}}

LEMMA OutstandingIsNat ==
  ASSUME InventoryAssumption, NEW k
  PROVE  Outstanding(k) = Units(OutRows(k)) /\ Outstanding(k) \in Nat
<1>1. OutRows(k) \in SUBSET Rows
  BY DEF OutRows
<1> QED
  BY <1>1, UnitsFinite DEF Outstanding, OutRows

\* Giving back rows adds to the shelf, and moves their units there from the
\* reservations if none of them has been given back.
LEMMA GivingBack ==
  ASSUME InventoryAssumption, TypeOK, NEW R \in SUBSET Rows,
         stock' = Restored(R), resv' = MarkReleased(R)
  PROVE  \A k \in Skus :
           /\ stock[k] <= stock'[k]
           /\ (\A r \in R : Sku(r) = k => resv[r] \in {"held", "committed"}) =>
                stock'[k] + Outstanding(k)' = stock[k] + Outstanding(k)
<1> SUFFICES ASSUME NEW k \in Skus
             PROVE  /\ stock[k] <= stock'[k]
                    /\ (\A r \in R : Sku(r) = k => resv[r] \in {"held", "committed"}) =>
                         stock'[k] + Outstanding(k)' = stock[k] + Outstanding(k)
  OBVIOUS
<1>0. stock[k] <= stock'[k]
  BY RestoredStock
<1> SUFFICES ASSUME \A r \in R : Sku(r) = k => resv[r] \in {"held", "committed"}
             PROVE  stock'[k] + Outstanding(k)' = stock[k] + Outstanding(k)
  BY <1>0
<1> DEFINE B == {r \in R : Sku(r) = k}
<1>1. OutRows(k) \in SUBSET Rows /\ B \in SUBSET OutRows(k)
  BY DEF OutRows
<1>2. OutRows(k)' = OutRows(k) \ B
  BY DEF OutRows, MarkReleased
<1>3. Units(OutRows(k)) = Units(B) + Units(OutRows(k) \ B)
  BY <1>1, UnitsSplit
<1>4. Outstanding(k)' = Units(OutRows(k)')
  BY DEF Outstanding, OutRows
<1>5. B \in SUBSET Rows /\ OutRows(k) \ B \in SUBSET Rows
  BY <1>1
<1>6. Units(B) \in Nat /\ Units(OutRows(k) \ B) \in Nat
  BY <1>5, UnitsFinite
<1>7. stock'[k] = stock[k] + Units(B) /\ stock[k] \in Nat
  <2>1. stock[k] \in Nat
    BY DEF TypeOK
  <2>2. stock'[k] = Restored(R)[k]
    OBVIOUS
  <2> QED
    BY <2>1, <2>2, RestoredStock
<1> HIDE DEF B
<1>8. Outstanding(k) = Units(B) + Units(OutRows(k) \ B) /\ Outstanding(k)' = Units(OutRows(k) \ B)
  BY <1>2, <1>3, <1>4, OutstandingIsNat
<1> QED
  BY <1>6, <1>7, <1>8

\* A reservation on one server takes from the shelf at least what it adds to the
\* reservations.
LEMMA Reserving ==
  ASSUME InventoryAssumption, IInv, TInv, SoldInv, NEW c \in Checkouts, Reserve(c),
         NEW k \in Skus, SoldByOne(k)
  PROVE  stock'[k] + Outstanding(k)' <= stock[k] + Outstanding(k)
<1>1. /\ pc[c] = "locking" /\ LinesLocked(c)
      /\ stock' = Taken(c)
      /\ resv' = [r \in Rows |-> IF r[1] = c THEN "held" ELSE resv[r]]
  BY DEF Reserve
<1>2. \A r \in RowsOf(c) : resv[r] = "none"
  BY <1>1 DEF IInv, RowsOK, AfterOrder, RowsOf
<1>3. stock[k] \in Nat /\ snap[c][k] \in Nat /\ Outstanding(k) \in Nat
  <2>1. stock \in [Skus -> Nat] /\ snap[c] \in [Skus -> Nat]
    BY DEF TInv, TypeOK
  <2> QED
    BY <2>1, OutstandingIsNat
<1>4. OutRows(k) \in SUBSET Rows /\ Outstanding(k) = Units(OutRows(k))
      /\ Outstanding(k)' = Units(OutRows(k)')
  BY OutstandingIsNat DEF OutRows, Outstanding
<1>5. CASE \E r \in RowsOf(c) : Sku(r) = k
  <2>1. PICK r \in RowsOf(c) : Sku(r) = k
    BY <1>5
  <2>2. r \in Rows /\ r[1] = c /\ Qty(r) \in Nat /\ k \in Wanted(c)
    BY <2>1, RowFields, WantedSkus DEF RowsOf
  <2>3. OutRows(k)' = OutRows(k) \union {r}
    <3>1. \A q \in RowsOf(c) : Sku(q) = k => q = r
      BY <2>1, OneRowPerSku
    <3>2. \A q \in Rows : q[1] = c <=> q \in RowsOf(c)
      BY DEF RowsOf
    <3> QED
      BY <1>1, <2>1, <2>2, <3>1, <3>2 DEF OutRows
  <2>4. r \notin OutRows(k)
    BY <1>2 DEF OutRows
  <2>5. {r} \in SUBSET Rows /\ OutRows(k) \intersect {r} = {}
    BY <2>2, <2>4
  <2>6. Units(OutRows(k) \union {r}) = Units(OutRows(k)) + Units({r})
    BY <1>4, <2>5, UnitsAdd
  <2>7. Outstanding(k)' = Outstanding(k) + Qty(r)
    BY <1>4, <2>2, <2>3, <2>6, UnitsOfOne
  <2>8. stock'[k] = snap[c][k] - Qty(r)
    BY <1>1, <2>1, TakenStock
  <2>9. snap[c][k] <= stock[k]
    BY <1>1, <2>2 DEF SoldInv, NotTooHigh
  <2> QED
    BY <1>3, <2>2, <2>7, <2>8, <2>9
<1>6. CASE \A r \in RowsOf(c) : Sku(r) # k
  <2>1. stock'[k] = stock[k]
    BY <1>1, <1>6, TakenStock
  <2>2. OutRows(k)' = OutRows(k)
    BY <1>1, <1>6 DEF OutRows, RowsOf
  <2> QED
    BY <1>3, <1>4, <2>1, <2>2
<1> QED
  BY <1>5, <1>6

\* Nobody else on its server has loaded the stock a checkout writes.
LEMMA ReservingAlone ==
  ASSUME InventoryAssumption, IInv, TInv, NEW c \in Checkouts, Reserve(c),
         NEW d \in Checkouts \ {c}, pc[d] \in {"loaded", "locking"},
         NEW k \in Wanted(d), SoldByOne(k)
  PROVE  stock'[k] = stock[k]
<1>1. k \in Skus /\ \E q \in Rows : q[1] = d /\ Sku(q) = k
  BY WantedSkus DEF RowsOf
<1>2. Server[c] # Server[d]
  BY DEF Reserve, IInv, OneBusy, Busy
<1>3. \A r \in RowsOf(c) : Sku(r) # k
  BY <1>1, <1>2 DEF SoldByOne, RowsOf
<1>4. Taken(c)[k] = stock[k]
  BY <1>1, <1>3, TakenStock DEF Reserve
<1> QED
  BY <1>4 DEF Reserve

\* How a step may change what NotTooHigh speaks of.
LEMMA KeepsNotTooHigh ==
  ASSUME InventoryAssumption, TInv, TInv', NotTooHigh,
         \A d \in Checkouts : pc'[d] \in {"loaded", "locking"} =>
           \/ pc[d] \in {"loaded", "locking"} /\ snap'[d] = snap[d]
           \/ snap'[d] = stock /\ stock' = stock,
         \A d \in Checkouts : pc[d] \in {"loaded", "locking"} /\ pc'[d] \in {"loaded", "locking"} =>
           \A k \in Wanted(d) : SoldByOne(k) => stock[k] <= stock'[k]
  PROVE  NotTooHigh'
<1> SUFFICES ASSUME NEW d \in Checkouts, pc'[d] \in {"loaded", "locking"}, NEW k \in Wanted(d),
                    SoldByOne(k)
             PROVE  snap'[d][k] <= stock'[k]
  BY DEF NotTooHigh, SoldByOne
<1>1. k \in Skus
  BY WantedSkus
<1>2. stock[k] \in Nat /\ stock'[k] \in Nat /\ snap[d][k] \in Nat /\ snap'[d][k] \in Nat
  <2>1. stock \in [Skus -> Nat] /\ snap[d] \in [Skus -> Nat]
    BY DEF TInv, TypeOK
  <2>2. stock' \in [Skus -> Nat] /\ snap'[d] \in [Skus -> Nat]
    BY DEF TInv, TypeOK
  <2> QED
    BY <1>1, <2>1, <2>2
<1>3. CASE pc[d] \in {"loaded", "locking"} /\ snap'[d] = snap[d]
  <2>1. snap[d][k] <= stock[k] /\ stock[k] <= stock'[k]
    BY <1>3 DEF NotTooHigh
  <2> QED
    BY <1>2, <1>3, <2>1
<1>4. CASE snap'[d] = stock /\ stock' = stock
  BY <1>2, <1>4
<1> QED
  BY <1>3, <1>4

\* A step that changes neither the stock nor what is outstanding.
LEMMA KeepsSold ==
  ASSUME NoOversellOnOneServer, stock' = stock, again' = again, \A r \in Rows :
           resv'[r] \in {"held", "committed"} <=> resv[r] \in {"held", "committed"}
  PROVE  NoOversellOnOneServer'
<1>1. \A k : Outstanding(k)' = Outstanding(k)
  BY DEF Outstanding
<1> QED
  BY <1>1 DEF NoOversellOnOneServer, NotOversold, SoldByOne

\* A step that does not add to shelf and reservations of the SKUs sold on one server.
LEMMA KeepsBound ==
  ASSUME InventoryAssumption, TInv, TInv', NoOversellOnOneServer,
         again \subseteq again',
         \A k \in Skus : SoldByOne(k) /\ GivenOnce(k)' =>
           stock'[k] + Outstanding(k)' <= stock[k] + Outstanding(k)
  PROVE  NoOversellOnOneServer'
<1> SUFFICES ASSUME NEW k \in Skus, SoldByOne(k), GivenOnce(k)'
             PROVE  stock'[k] + Outstanding(k)' <= Supply[k]
  BY DEF NoOversellOnOneServer, NotOversold, SoldByOne, GivenOnce
<1>1. stock[k] + Outstanding(k) <= Supply[k]
  BY DEF NoOversellOnOneServer, NotOversold, GivenOnce
<1>2. stock[k] \in Nat /\ stock'[k] \in Nat /\ Outstanding(k) \in Nat /\ Supply[k] \in Nat
  BY OutstandingIsNat DEF TInv, TypeOK, InventoryAssumption
<1>3. Outstanding(k)' \in Nat
  <2>1. OutRows(k)' \in SUBSET Rows
    BY DEF OutRows
  <2>2. Outstanding(k)' = Units(OutRows(k)')
    BY DEF Outstanding, OutRows
  <2> QED
    BY <2>1, <2>2, UnitsFinite
<1>4. stock'[k] + Outstanding(k)' <= stock[k] + Outstanding(k)
  OBVIOUS
<1> QED
  BY <1>1, <1>2, <1>3, <1>4

\* The steps of a checkout that leave the units where they are.
LEMMA QuietSold ==
  ASSUME InventoryAssumption, IInv, TInv, TInv', SoldInv, NEW c \in Checkouts,
         \/ CheckKey(c) \/ LoadCart(c) \/ ResolvePromo(c) \/ LoseKey(c) \/ Reject(c)
         \/ Redeem(c) \/ Accept(c) \/ ClearCart(c) \/ Decline(c) \/ Crash(c)
         \/ LockLine(c) \/ LockToRelease(c)
  PROVE  SoldInv'
<1>1. stock' = stock /\ again' = again
  BY DEF CheckKey, LoadCart, ResolvePromo, LoseKey, Reject, Redeem, Accept, ClearCart, Decline,
         Crash, LockLine, LockToRelease, sideVars
<1>2. \A d \in Checkouts \ {c} : pc'[d] = pc[d] /\ snap'[d] = snap[d]
  <2>1. CASE LoseKey(c) \/ Reject(c) \/ Crash(c)
    <3>1. EndTransaction(c) /\ c \in Procs
      BY <2>1 DEF LoseKey, Reject, Crash, Procs
    <3> QED
      BY <2>1, <3>1, Ending DEF LoseKey, Reject, Crash, Moves, TInv, TypeOK
  <2> QED
    BY <2>1 DEF CheckKey, LoadCart, ResolvePromo, Redeem, Accept, ClearCart, Decline, LockLine,
                LockToRelease, Moves, TInv, TypeOK
<1>3. pc'[c] \in {"loaded", "locking"} =>
        snap'[c] = stock \/ (pc[c] \in {"loaded", "locking"} /\ snap'[c] = snap[c])
  BY DEF CheckKey, LoadCart, ResolvePromo, LoseKey, Reject, Redeem, Accept, ClearCart, Decline,
         Crash, Broken, LockLine, LockToRelease, Moves, TInv, TypeOK
<1>4. NotTooHigh'
  <2>1. \A d \in Checkouts : pc'[d] \in {"loaded", "locking"} =>
           \/ pc[d] \in {"loaded", "locking"} /\ snap'[d] = snap[d]
           \/ snap'[d] = stock /\ stock' = stock
    BY <1>1, <1>2, <1>3
  <2>2. \A d \in Checkouts : \A k \in Wanted(d) : stock[k] <= stock'[k]
    <3>1. \A k \in Skus : stock[k] <= stock[k]
      BY DEF TInv, TypeOK
    <3> QED
      BY <1>1, <3>1, WantedSkus
  <2> QED
    BY <2>1, <2>2, KeepsNotTooHigh DEF SoldInv
<1>5. \A r \in Rows :
        /\ resv'[r] = resv[r] \/ (r[1] = c /\ resv[r] = "held" /\ resv'[r] = "committed" /\ pc'[c] = "accepted")
        /\ pc'[r[1]] \in {"reserved", "paying", "releasing"} =>
             pc[r[1]] \in {"reserved", "paying", "releasing"}
        /\ pc'[r[1]] \in AfterOrder => pc[r[1]] \in AfterOrder
  <2>1. CASE Accept(c)
    BY <2>1, RowOwner DEF Accept, Moves, IInv, RowsOK, TInv, TypeOK, AfterOrder
  <2>2. CASE ~Accept(c)
    <3>1. resv' = resv
      BY <2>2 DEF CheckKey, LoadCart, ResolvePromo, LoseKey, Reject, Redeem, ClearCart, Decline,
                  Crash, LockLine, LockToRelease
    <3>2. pc'[c] \in {"reserved", "paying", "releasing"} => pc[c] \in {"reserved", "paying", "releasing"}
      BY <2>2 DEF CheckKey, LoadCart, ResolvePromo, LoseKey, Reject, Redeem, ClearCart, Decline,
                  Crash, Broken, LockLine, LockToRelease, Moves, TInv, TypeOK
    <3>3. pc'[c] \in AfterOrder => pc[c] \in AfterOrder
      BY <2>2 DEF CheckKey, LoadCart, ResolvePromo, LoseKey, Reject, Redeem, ClearCart, Decline,
                  Crash, Broken, Placed, LockLine, LockToRelease, Moves, TInv, TypeOK, AfterOrder
    <3> QED
      BY <1>2, <3>1, <3>2, <3>3, RowOwner
  <2> QED
    BY <2>1, <2>2
<1>6. StillHeld'
  BY <1>5 DEF SoldInv, StillHeld
<1>7. NoOversellOnOneServer'
  BY <1>1, <1>5, KeepsSold DEF SoldInv
<1> QED
  BY <1>4, <1>6, <1>7 DEF SoldInv

\* A checkout reserves its lines.
LEMMA ReserveSold ==
  ASSUME InventoryAssumption, IInv, TInv, TInv', SoldInv, NEW c \in Checkouts, Reserve(c)
  PROVE  SoldInv'
<1>1. PICK to \in {"reserved", "paying"} : Moves(c, to)
  BY DEF Reserve
<1>2. /\ EndTransaction(c) /\ c \in Procs /\ again' = again /\ pc[c] = "locking"
      /\ resv' = [r \in Rows |-> IF r[1] = c THEN "held" ELSE resv[r]]
  BY DEF Reserve, Procs, sideVars
<1>3. \A d \in Checkouts : pc'[d] = IF d = c THEN to ELSE pc[d]
  BY <1>1 DEF Moves, TInv, TypeOK
<1>4. \A d \in Checkouts \ {c} : snap'[d] = snap[d]
  BY <1>2, Ending DEF TInv
<1>5. NotTooHigh'
  <2>1. \A d \in Checkouts : pc'[d] \in {"loaded", "locking"} =>
          d # c /\ pc[d] \in {"loaded", "locking"} /\ snap'[d] = snap[d]
    BY <1>3, <1>4
  <2>2. ASSUME NEW d \in Checkouts, pc'[d] \in {"loaded", "locking"}, NEW k \in Wanted(d),
               SoldByOne(k)
        PROVE  stock[k] <= stock'[k]
    <3>1. stock'[k] = stock[k]
      BY <2>1, <2>2, ReservingAlone
    <3>2. stock[k] \in Nat
      BY WantedSkus DEF TInv, TypeOK
    <3> QED
      BY <3>1, <3>2
  <2> QED
    BY <2>1, <2>2, KeepsNotTooHigh DEF SoldInv
<1>6. StillHeld'
  BY <1>2, <1>3, RowOwner DEF SoldInv, StillHeld
<1>7. NoOversellOnOneServer'
  BY <1>2, Reserving, KeepsBound DEF SoldInv
<1> QED
  BY <1>5, <1>6, <1>7 DEF SoldInv

\* A refused checkout gives its rows back: all of them are held.
LEMMA ReleaseSold ==
  ASSUME InventoryAssumption, IInv, TInv, TInv', SoldInv, NEW c \in Checkouts, Release(c)
  PROVE  SoldInv'
<1>1. /\ Moves(c, "declined") /\ EndTransaction(c) /\ c \in Procs /\ again' = again
      /\ pc[c] = "releasing"
      /\ stock' = Restored({r \in RowsOf(c) : resv[r] # "released"})
      /\ resv' = MarkReleased(RowsOf(c))
  BY DEF Release, Procs, sideVars
<1>2. RowsOf(c) \in SUBSET Rows /\ \A r \in RowsOf(c) : resv[r] = "held"
  BY <1>1 DEF RowsOf, SoldInv, StillHeld
<1>3. {r \in RowsOf(c) : resv[r] # "released"} = RowsOf(c)
  BY <1>2
<1>4. \A k \in Skus : /\ stock[k] <= stock'[k]
                      /\ stock'[k] + Outstanding(k)' = stock[k] + Outstanding(k)
  BY <1>1, <1>2, <1>3, GivingBack DEF TInv
<1>5. \A d \in Checkouts : pc'[d] = IF d = c THEN "declined" ELSE pc[d]
  BY <1>1 DEF Moves, TInv, TypeOK
<1>6. \A d \in Checkouts \ {c} : snap'[d] = snap[d]
  BY <1>1, Ending DEF TInv
<1>7. NotTooHigh'
  <2>1. \A d \in Checkouts : pc'[d] \in {"loaded", "locking"} =>
          pc[d] \in {"loaded", "locking"} /\ snap'[d] = snap[d]
    BY <1>5, <1>6
  <2>2. \A d \in Checkouts : \A k \in Wanted(d) : stock[k] <= stock'[k]
    BY <1>4, WantedSkus
  <2> QED
    BY <2>1, <2>2, KeepsNotTooHigh DEF SoldInv
<1>8. StillHeld'
  BY <1>1, <1>5, RowOwner DEF SoldInv, StillHeld, MarkReleased, RowsOf
<1>9. NoOversellOnOneServer'
  <2>1. \A k \in Skus : stock'[k] + Outstanding(k)' <= stock[k] + Outstanding(k)
    <3> TAKE k \in Skus
    <3>1. stock[k] \in Nat /\ Outstanding(k) \in Nat
      BY OutstandingIsNat DEF TInv, TypeOK
    <3> QED
      BY <1>4, <3>1
  <2> QED
    BY <1>1, <2>1, KeepsBound DEF SoldInv
<1> QED
  BY <1>7, <1>8, <1>9 DEF SoldInv

\* A sweep or callback adds the units of the rows it has read to the shelf; what was
\* there already has been given back twice.
LEMMA SweepSold ==
  ASSUME InventoryAssumption, IInv, TInv, TInv', SoldInv, NEW s \in Releasers, ReleaserStep(s)
  PROVE  SoldInv'
<1>1. pc' = pc /\ s \in Procs /\ s \notin Checkouts
  BY DEF ReleaserStep, SweepReads, CallbackReads, CallbackBreaks, SweepCommits, SweepLocks, Procs,
         Releasers, InventoryAssumption
<1>2. snap' = snap
  BY <1>1 DEF ReleaserStep, SweepReads, CallbackReads, CallbackBreaks, SweepCommits, SweepLocks,
              EndTransaction
<1>3. ASSUME \A k \in Skus : stock[k] <= stock'[k] PROVE NotTooHigh'
  <2>1. \A d \in Checkouts : \A k \in Wanted(d) : stock[k] <= stock'[k]
    BY <1>3, WantedSkus
  <2> QED
    BY <1>1, <1>2, <2>1, KeepsNotTooHigh DEF SoldInv
<1>4. CASE SweepReads(s) \/ CallbackReads(s) \/ CallbackBreaks(s) \/ SweepLocks(s)
  <2>1. stock' = stock /\ resv' = resv /\ again' = again
    BY <1>4 DEF SweepReads, CallbackReads, CallbackBreaks, SweepLocks, sideVars
  <2>2. \A k \in Skus : stock[k] <= stock'[k]
    BY <2>1 DEF TInv, TypeOK
  <2>3. StillHeld'
    BY <1>1, <2>1 DEF SoldInv, StillHeld
  <2>4. NoOversellOnOneServer'
    BY <2>1, KeepsSold DEF SoldInv
  <2> QED
    BY <1>3, <2>2, <2>3, <2>4 DEF SoldInv
<1>5. CASE SweepCommits(s)
  <2> DEFINE R == sweep[s].rows
  <2>1. /\ stock' = Restored(R) /\ resv' = MarkReleased(R)
        /\ again' = again \union {r \in R : resv[r] = "released"}
    BY <1>5 DEF SweepCommits
  <2>2. R \in SUBSET Rows /\ \A r \in R : resv[r] \in {"held", "committed", "released"}
    <3>1. R \in SUBSET Rows /\ \A r \in R : pc[r[1]] \in AfterOrder
      BY DEF IInv, Typed, SweptEnded, AfterOrder
    <3> QED
      BY <3>1 DEF SoldInv, StillHeld, IInv, Typed
  <2> HIDE DEF R
  <2>3. \A k \in Skus :
          /\ stock[k] <= stock'[k]
          /\ (\A r \in R : Sku(r) = k => resv[r] \in {"held", "committed"}) =>
               stock'[k] + Outstanding(k)' = stock[k] + Outstanding(k)
    BY <2>1, <2>2, GivingBack DEF TInv
  <2>4. StillHeld'
    <3>1. \A r \in R : pc[r[1]] \notin {"reserved", "paying", "releasing"}
      BY DEF R, IInv, SweptEnded
    <3> QED
      BY <1>1, <2>1, <3>1 DEF SoldInv, StillHeld, MarkReleased
  <2>5. NoOversellOnOneServer'
    <3>1. ASSUME NEW k \in Skus, GivenOnce(k)'
          PROVE  stock'[k] + Outstanding(k)' <= stock[k] + Outstanding(k)
      <4>1. \A r \in R : Sku(r) = k => resv[r] \in {"held", "committed"}
        BY <2>1, <2>2, <3>1 DEF GivenOnce
      <4>2. stock[k] \in Nat /\ Outstanding(k) \in Nat
        BY OutstandingIsNat DEF TInv, TypeOK
      <4> QED
        BY <2>3, <4>1, <4>2
    <3> QED
      BY <2>1, <3>1, KeepsBound DEF SoldInv
  <2> QED
    BY <1>3, <2>3, <2>4, <2>5 DEF SoldInv
<1> QED
  BY <1>4, <1>5 DEF ReleaserStep

\* The database fails one transaction of a cycle: nothing of it is left.
LEMMA VictimSold ==
  ASSUME InventoryAssumption, IInv, TInv, TInv', SoldInv, NEW p \in Procs, DeadlockVictim(p)
  PROVE  SoldInv'
<1>1. EndTransaction(p) /\ stock' = stock /\ resv' = resv /\ again' = again
  BY DEF DeadlockVictim, sideVars
<1>2. \A d \in Checkouts : pc'[d] = pc[d] \/ (d = p /\ pc'[d] \in Ended)
  BY DEF DeadlockVictim, Moves, Broken, Ended, TInv, TypeOK
<1>3. \A d \in Checkouts \ {p} : snap'[d] = snap[d]
  BY <1>1, Ending DEF TInv
<1>4. NotTooHigh'
  <2>1. \A d \in Checkouts : pc'[d] \in {"loaded", "locking"} =>
          \/ pc[d] \in {"loaded", "locking"} /\ snap'[d] = snap[d]
          \/ snap'[d] = stock /\ stock' = stock
    <3> SUFFICES ASSUME NEW d \in Checkouts, pc'[d] \in {"loaded", "locking"}
                 PROVE  pc[d] \in {"loaded", "locking"} /\ (snap'[d] = snap[d] \/ snap'[d] = stock)
      BY <1>1
    <3>1. pc[d] = pc'[d]
      BY <1>2 DEF Ended
    <3>2. CASE d # p
      BY <1>3, <3>1, <3>2
    <3>3. CASE d = p
      <4>1. p \notin Releasers
        BY <3>3 DEF InventoryAssumption, Releasers
      <4>2. pc'[p] = Broken(p)
        BY <3>3, <4>1 DEF DeadlockVictim, Moves, TInv, TypeOK
      <4> QED
        BY <3>3, <4>2 DEF Broken
    <3> QED
      BY <3>2, <3>3
  <2>2. \A d \in Checkouts : \A k \in Wanted(d) : stock[k] <= stock'[k]
    <3>1. \A k \in Skus : stock[k] <= stock[k]
      BY DEF TInv, TypeOK
    <3> QED
      BY <1>1, <3>1, WantedSkus
  <2> QED
    BY <2>1, <2>2, KeepsNotTooHigh DEF SoldInv
<1>5. StillHeld'
  <2>1. \A d \in Checkouts : pc'[d] \in AfterOrder => pc[d] \in AfterOrder
    <3>1. CASE p \in Checkouts
      <4>1. p \notin Releasers
        BY <3>1 DEF InventoryAssumption, Releasers
      <4>2. \A d \in Checkouts : pc'[d] = IF d = p THEN Broken(p) ELSE pc[d]
        BY <3>1, <4>1 DEF DeadlockVictim, Moves, TInv, TypeOK
      <4> QED
        BY <4>2 DEF Broken, Placed, AfterOrder
    <3> QED
      BY <1>2, <3>1
  <2> QED
    BY <1>1, <1>2, <2>1, RowOwner DEF SoldInv, StillHeld, Ended
<1>6. NoOversellOnOneServer'
  BY <1>1, KeepsSold DEF SoldInv
<1> QED
  BY <1>4, <1>5, <1>6 DEF SoldInv

\* At the start the shelf is full and nothing is reserved.
LEMMA InitSold ==
  ASSUME InventoryAssumption, Init
  PROVE  SoldInv
<1>1. NotTooHigh /\ StillHeld
  BY RowOwner DEF Init, NotTooHigh, StillHeld, AfterOrder
<1>2. \A k \in Skus : stock[k] = Supply[k] /\ Supply[k] \in Nat
  BY DEF Init, InventoryAssumption
<1>3. \A k \in Skus : Outstanding(k) = 0
  <2> TAKE k \in Skus
  <2>1. {r \in Rows : Sku(r) = k /\ resv[r] \in {"held", "committed"}} = {}
    BY DEF Init
  <2>2. UnitsOf({}) = {}
    BY DEF UnitsOf
  <2> QED
    BY <2>1, <2>2, FS_EmptySet DEF Outstanding, Units
<1>4. NoOversellOnOneServer
  BY <1>2, <1>3 DEF NoOversellOnOneServer, NotOversold
<1> QED
  BY <1>1, <1>4 DEF SoldInv

\* Every step keeps it.
LEMMA StepSold ==
  ASSUME InventoryAssumption, IInv, TInv, TInv', SoldInv, [Next]_vars
  PROVE  SoldInv'
<1>1. CASE UNCHANGED vars
  BY <1>1 DEF vars, sideVars, SoldInv, NotTooHigh, StillHeld, NoOversellOnOneServer, NotOversold,
              Outstanding, SoldByOne
<1>2. ASSUME NEW c \in Checkouts, CheckoutStep(c) \/ Locking(c) \/ Crash(c)
      PROVE  SoldInv'
  BY <1>2, QuietSold, ReserveSold, ReleaseSold DEF CheckoutStep, Locking
<1> QED
  BY <1>1, <1>2, SweepSold, VictimSold DEF Next, Releasers, ReleaserStep

\* Of a SKU whose buyers are all on one server no more is promised than there is,
\* whatever carts, quantities and supplies, whoever crashes or is chosen as the victim
\* of a deadlock, whatever other servers do with the other SKUs of the same carts, and
\* wherever sweeps and callbacks give units back: until they give those of one row
\* back twice.
THEOREM SoldOnceOnOneServer == Spec => []NoOversellOnOneServer
<1>1. Init => SoldInv
  BY InventoryAssumption, InitSold
<1>2. IInv /\ TInv /\ TInv' /\ SoldInv /\ [Next]_vars => SoldInv'
  BY InventoryAssumption, StepSold
<1>3. SoldInv => NoOversellOnOneServer
  BY DEF SoldInv
<1> QED
  BY <1>1, <1>2, <1>3, AlwaysTyped, PTL DEF Spec
=============================================================================
