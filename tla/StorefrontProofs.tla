--------------------------- MODULE StorefrontProofs ---------------------------
(* Theorems of Storefront, for every set of products, every number of      *)
(* requests and every bound: a review of the listings counts the orders of *)
(* the present activation, the sales of a listing are its procured orders, *)
(* and, while hooks stay open for what is being composed, each change is   *)
(* told in one window and each notice is right.                            *)
(* ShopInv is inductive about the tables.  ToldInv is inductive about the  *)
(* observations: the windows served tile the ticks up to the cursor, all   *)
(* that is composed or cached has the window of the open hook, and the     *)
(* file has the latest window, which is all that a crash needs.            *)
(* LogInv says that the log of the statuses tells the past, and BoundInv   *)
(* that orders and listings are of ticks that have been: with them the     *)
(* answers about an earlier tick, the days and the pages are right.        *)
EXTENDS Storefront, FiniteSetTheorems, SequenceTheorems, TLAPS

-----------------------------------------------------------------------------
(* The inductive invariants.                                               *)

\* Types of the tables.
Statuses == {"stockout", "insufficient_balance", "ordered", "late", "shipped", "delivered",
             "cancelled", "settled_normal"}
Rows == [product : Products, t : Int, status : Statuses, activation : Nat]
Entries == [price : Prices \cup {0}, listed : Int, sales : Nat]

\* What the tables hold.
Typed ==
  /\ t \in 0 .. LastTick /\ phase \in {"quiet", "hook", "closed"}
  /\ orders \in Seq(Rows)
  /\ shelf \in [Products -> Entries]
  /\ activation \in [Products -> Nat]
  /\ past \in Seq(Seq(Statuses))

\* No order and no listing is from a tick to come, nor, before its transition,
\* from the present one; an order is of no activation to come.
Timed ==
  /\ \A i \in Numbers : /\ orders[i].t <= t
                        /\ phase = "quiet" => orders[i].t < t
                        /\ orders[i].activation <= activation[orders[i].product]
  /\ \A p \in Listed : /\ shelf[p].listed \in 0 .. t
                       /\ phase = "quiet" => shelf[p].listed < t

\* The orders of the present activation are those since the listing.
Divided ==
  \A p \in Listed : \A i \in Numbers :
    orders[i].product = p =>
      (orders[i].activation = activation[p] <=> orders[i].t > shelf[p].listed)

\* Types of what observations are made of.
Windows == [from : Int, to : Int]
Packets == [window : Windows, done : Int, notice : BOOLEAN]
Requests == [at : Int, window : Windows, done : Int, notice : BOOLEAN]
Replies == [at : Int, window : Windows, done : Int, right : BOOLEAN]

\* What the memory of the service holds; the past has an entry for every tick
\* that was committed.
Kept ==
  /\ cursor \in Int
  /\ windows \in [Ticks -> Windows]
  /\ cache \in [Ticks -> Packets]
  /\ poll \in [Polls -> Requests]
  /\ served \subseteq Replies
  /\ Len(past) = IF phase = "quiet" THEN t ELSE t + 1

\* The cursor is at the last tick that has a window.
Pointed ==
  /\ cursor \in Never .. t
  /\ windows[t] # NoWindow <=> cursor = t
  /\ \A u \in Ticks : u > t => windows[u] = NoWindow /\ cache[u] = NoPacket
  /\ cursor = t => phase # "quiet"
  /\ file = Saved(cursor, windows, report)

\* What waits to be served, or is in the cache, has the window of this hook.
Pending ==
  /\ \A x \in Polls : poll[x] # AtRest => phase = "hook"
  /\ \A x \in Polls : poll[x] \notin {AtRest, Woken} =>
       poll[x] = [at |-> t, window |-> CurrentWindow, done |-> t, notice |-> NoticeAvailable]
  /\ cache[t] # NoPacket =>
       /\ cursor = t /\ phase # "quiet"
       /\ cache[t] = [window |-> windows[t], done |-> t, notice |-> NoticeAvailable]

\* The windows served follow one another without a gap.
Tiled ==
  /\ \A a \in served :
       /\ a.at \in 0 .. cursor /\ a.window.from \in 0 .. a.at
       /\ a.window.to = a.at /\ a.done = a.at
       /\ a.at = t => a.window = windows[t]
       /\ a.right
  /\ \A a, b \in served : a.at = b.at => a.window = b.window
  /\ \A a, b \in served : a.at < b.at => a.at < b.window.from
  /\ \A u \in 0 .. cursor : \E a \in served : u \in a.window.from .. a.at

\* The tables, and what is told while hooks stay open for what is composed.
ShopInv == Typed /\ Timed /\ Divided /\ SalesMatchOrders
ToldInv == Typed /\ Kept /\ Pointed /\ Pending /\ Tiled

-----------------------------------------------------------------------------
(* The tables.                                                             *)

\* The sequence of a finite set has each of its elements once.
LEMMA SetSequence ==
  ASSUME NEW S, IsFiniteSet(S)
  PROVE  /\ Cardinality(S) \in Nat
         /\ SetToSeq(S) \in [1 .. Cardinality(S) -> S]
         /\ IsInjective(SetToSeq(S))
         /\ \A x \in S : \E i \in 1 .. Cardinality(S) : SetToSeq(S)[i] = x
<1>1. Cardinality(S) \in Nat /\ ExistsBijection(1 .. Cardinality(S), S)
  BY FS_CardinalityType
<1>2. \E f \in [1 .. Cardinality(S) -> S] : IsInjective(f)
  BY <1>1 DEF ExistsBijection, Bijection, Injection
<1>3. SetToSeq(S) \in [1 .. Cardinality(S) -> S] /\ IsInjective(SetToSeq(S))
  BY <1>2 DEF SetToSeq
<1>4. SetToSeq(S) \in Surjection(1 .. Cardinality(S), S)
  <2>1. SetToSeq(S) \in Injection(1 .. Cardinality(S), S)
    BY <1>3 DEF Injection
  <2>2. Cardinality(1 .. Cardinality(S)) = Cardinality(S)
    BY <1>1, FS_Interval
  <2>3. QED
    BY <2>1, <2>2, FS_Injection
<1>5. QED
  BY <1>1, <1>3, <1>4 DEF Surjection

\* An edit of the status of an order leaves the rest of its row.
LEMMA RowEdited ==
  ASSUME NEW r \in Rows, NEW s \in Statuses
  PROVE  /\ [r EXCEPT !.status = s] \in Rows
         /\ [r EXCEPT !.status = s].status = s
         /\ [r EXCEPT !.status = s].product = r.product
         /\ [r EXCEPT !.status = s].t = r.t
         /\ [r EXCEPT !.status = s].activation = r.activation
BY DEF Rows

\* An order never moves into a failure, and one that failed never moves.
LEMMA PathsEnd ==
  ASSUME NEW s \in Statuses, NEW q \in Paths(s), q # <<>>
  PROVE  Last(q) \in Statuses \ Failures /\ s \notin Failures
BY DEF Statuses, Failures, Paths, Last

\* What a transition does to the tables.
Arrivals(sold, outcome, fresh) ==
  /\ sold \subseteq Listed /\ outcome \in [sold -> Outcomes]
  /\ Cardinality(sold) \in Nat
  /\ fresh \in [1 .. Cardinality(sold) -> sold] /\ IsInjective(fresh)
  /\ \A p \in sold : \E i \in 1 .. Cardinality(sold) : fresh[i] = p
  /\ orders' \in Seq(Rows) /\ Len(orders') = Len(orders) + Cardinality(sold)
  /\ \A i \in Numbers : /\ orders'[i].product = orders[i].product
                        /\ orders'[i].t = orders[i].t
                        /\ orders'[i].activation = orders[i].activation
                        /\ orders'[i].status \in Failures <=> orders[i].status \in Failures
  /\ \A i \in 1 .. Cardinality(sold) :
       orders'[Len(orders) + i] =
         [product |-> fresh[i], t |-> t, status |-> outcome[fresh[i]],
          activation |-> activation[fresh[i]]]
  /\ shelf' = Booked(outcome)
  /\ past' \in Seq(Seq(Statuses)) /\ Len(past') = Len(past) + 1

\* A transition does nothing else.
LEMMA TransitionArrivals ==
  ASSUME Typed, Transition
  PROVE  \E sold, outcome, fresh : Arrivals(sold, outcome, fresh)
<1>1. PICK sold \in SUBSET Listed :
        \E outcome \in [sold -> Outcomes],
           path \in [Numbers -> UNION {Paths(orders[i].status) : i \in Numbers}] :
          LET fresh == SetToSeq(sold)
              Row(i) == Len(orders) + i
              moved == [i \in Numbers |->
                          IF path[i] = <<>> THEN orders[i]
                          ELSE [orders[i] EXCEPT !.status = Last(path[i])]]
              arrived == [i \in DOMAIN fresh |->
                            [product |-> fresh[i], t |-> t, status |-> outcome[fresh[i]],
                             activation |-> activation[fresh[i]]]]
          IN /\ Len(orders) + Cardinality(sold) <= OrderBound
             /\ \A i \in Numbers : path[i] \in Paths(orders[i].status)
             /\ orders' = moved \o arrived
             /\ log' = log \cup (UNION {{<<i, t, s>> : s \in ToSet(path[i])} : i \in Numbers})
                           \cup {<<Row(i), t, outcome[fresh[i]]>> : i \in DOMAIN fresh}
             /\ shelf' = Booked(outcome)
             /\ past' = Append(past, [i \in 1 .. Len(orders') |-> orders'[i].status])
  BY DEF Transition

<1>2. PICK outcome \in [sold -> Outcomes],
           path \in [Numbers -> UNION {Paths(orders[i].status) : i \in Numbers}] :
        LET fresh == SetToSeq(sold)
            Row(i) == Len(orders) + i
            moved == [i \in Numbers |->
                        IF path[i] = <<>> THEN orders[i]
                        ELSE [orders[i] EXCEPT !.status = Last(path[i])]]
            arrived == [i \in DOMAIN fresh |->
                          [product |-> fresh[i], t |-> t, status |-> outcome[fresh[i]],
                           activation |-> activation[fresh[i]]]]
        IN /\ \A i \in Numbers : path[i] \in Paths(orders[i].status)
           /\ orders' = moved \o arrived
           /\ shelf' = Booked(outcome)
           /\ past' = Append(past, [i \in 1 .. Len(orders') |-> orders'[i].status])
  BY <1>1
<1>3. PICK fresh : fresh = SetToSeq(sold)
  OBVIOUS
<1>4. PICK moved : moved = [i \in Numbers |->
                              IF path[i] = <<>> THEN orders[i]
                              ELSE [orders[i] EXCEPT !.status = Last(path[i])]]
  OBVIOUS
<1>5. PICK arrived : arrived = [i \in DOMAIN fresh |->
                                  [product |-> fresh[i], t |-> t, status |-> outcome[fresh[i]],
                                   activation |-> activation[fresh[i]]]]
  OBVIOUS
<1>6. /\ \A i \in Numbers : path[i] \in Paths(orders[i].status)
      /\ orders' = moved \o arrived
      /\ shelf' = Booked(outcome)
      /\ past' = Append(past, [i \in 1 .. Len(orders') |-> orders'[i].status])
  BY <1>2, <1>3, <1>4, <1>5, Zenon
<1> HIDE <1>1
<1>7. IsFiniteSet(sold) /\ sold \subseteq Products
  <2>1. sold \subseteq Products
    BY DEF Listed
  <2>2. QED
    BY <2>1, FS_Subset, StorefrontAssumption
<1>8. /\ Cardinality(sold) \in Nat /\ fresh \in [1 .. Cardinality(sold) -> sold]
      /\ IsInjective(fresh) /\ \A p \in sold : \E i \in 1 .. Cardinality(sold) : fresh[i] = p
  BY <1>3, <1>7, SetSequence
<1>9. Len(orders) \in Nat /\ \A i \in Numbers : orders[i] \in Rows
  BY DEF Typed, Numbers
<1>10. \A i \in Numbers : /\ moved[i] \in Rows
                          /\ moved[i].product = orders[i].product
                          /\ moved[i].t = orders[i].t
                          /\ moved[i].activation = orders[i].activation
                          /\ moved[i].status \in Failures <=> orders[i].status \in Failures
  <2> SUFFICES ASSUME NEW i \in Numbers
               PROVE  /\ moved[i] \in Rows
                      /\ moved[i].product = orders[i].product
                      /\ moved[i].t = orders[i].t
                      /\ moved[i].activation = orders[i].activation
                      /\ moved[i].status \in Failures <=> orders[i].status \in Failures
    OBVIOUS
  <2>1. CASE path[i] = <<>>
    BY <2>1, <1>4, <1>9
  <2>2. CASE path[i] # <<>>
    <3>1. moved[i] = [orders[i] EXCEPT !.status = Last(path[i])]
      BY <2>2, <1>4
    <3>2. orders[i] \in Rows /\ orders[i].status \in Statuses
      BY <1>9 DEF Rows
    <3>3. Last(path[i]) \in Statuses \ Failures /\ orders[i].status \notin Failures
      BY <2>2, <3>2, <1>6, PathsEnd
    <3>4. QED
      BY <3>1, <3>2, <3>3, RowEdited
  <2>3. QED
    BY <2>1, <2>2
<1>11. moved \in Seq(Rows) /\ Len(moved) = Len(orders)
  <2>1. moved = [i \in 1 .. Len(orders) |-> moved[i]]
    BY <1>4 DEF Numbers
  <2>2. \A i \in 1 .. Len(orders) : moved[i] \in Rows
    BY <1>10 DEF Numbers
  <2>3. QED
    BY <1>9, <2>1, <2>2
<1>12. \A i \in 1 .. Cardinality(sold) :
         /\ arrived[i] = [product |-> fresh[i], t |-> t, status |-> outcome[fresh[i]],
                          activation |-> activation[fresh[i]]]
         /\ arrived[i] \in Rows
  <2> SUFFICES ASSUME NEW i \in 1 .. Cardinality(sold)
               PROVE  /\ arrived[i] = [product |-> fresh[i], t |-> t, status |-> outcome[fresh[i]],
                                       activation |-> activation[fresh[i]]]
                      /\ arrived[i] \in Rows
    OBVIOUS
  <2>1. fresh[i] \in sold /\ fresh[i] \in Products
    BY <1>7, <1>8
  <2>2. outcome[fresh[i]] \in Statuses
    BY <2>1 DEF Outcomes, Failures, Statuses
  <2>3. activation[fresh[i]] \in Nat /\ t \in Int
    BY <2>1 DEF Typed
  <2>4. arrived[i] = [product |-> fresh[i], t |-> t, status |-> outcome[fresh[i]],
                      activation |-> activation[fresh[i]]]
    BY <1>5, <1>8
  <2>5. QED
    BY <2>1, <2>2, <2>3, <2>4 DEF Rows
<1>13. arrived \in Seq(Rows) /\ Len(arrived) = Cardinality(sold)
  <2>1. DOMAIN arrived = 1 .. Cardinality(sold)
    BY <1>5, <1>8
  <2>2. arrived = [i \in 1 .. Cardinality(sold) |-> arrived[i]]
    BY <1>5, <2>1
  <2>3. QED
    BY <1>8, <1>12, <2>1, <2>2
<1>14. orders' \in Seq(Rows) /\ Len(orders') = Len(orders) + Cardinality(sold)
  <2>1. moved \o arrived \in Seq(Rows)
    BY <1>11, <1>13
  <2>2. Len(moved \o arrived) = Len(moved) + Len(arrived)
    BY <1>11, <1>13, ConcatProperties
  <2>3. QED
    BY <1>6, <1>11, <1>13, <2>1, <2>2
<1>15. /\ \A i \in Numbers : orders'[i] = moved[i]
       /\ \A i \in 1 .. Cardinality(sold) : orders'[Len(orders) + i] = arrived[i]
  <2>1. \A i \in 1 .. Len(orders) + Cardinality(sold) :
          orders'[i] = IF i <= Len(orders) THEN moved[i] ELSE arrived[i - Len(orders)]
    BY <1>6, <1>11, <1>13
  <2>2. \A i \in Numbers : orders'[i] = moved[i]
    BY <1>8, <1>9, <2>1 DEF Numbers
  <2>3. \A i \in 1 .. Cardinality(sold) : orders'[Len(orders) + i] = arrived[i]
    <3> SUFFICES ASSUME NEW i \in 1 .. Cardinality(sold)
                 PROVE  orders'[Len(orders) + i] = arrived[i]
      OBVIOUS
    <3>1. Len(orders) + i \in 1 .. Len(orders) + Cardinality(sold) /\ ~(Len(orders) + i <= Len(orders))
      BY <1>8, <1>9
    <3>2. Len(orders) + i - Len(orders) = i
      BY <1>9
    <3>3. QED
      BY <2>1, <3>1, <3>2
  <2>4. QED
    BY <2>2, <2>3
<1>16. past' \in Seq(Seq(Statuses)) /\ Len(past') = Len(past) + 1
  <2>1. \A i \in 1 .. Len(orders') : orders'[i].status \in Statuses
    <3>1. \A i \in 1 .. Len(orders') : orders'[i] \in Rows
      BY <1>14
    <3>2. QED
      BY <3>1 DEF Rows
  <2>2. [i \in 1 .. Len(orders') |-> orders'[i].status] \in Seq(Statuses)
    BY <1>14, <2>1
  <2>3. past \in Seq(Seq(Statuses))
    BY DEF Typed
  <2>4. QED
    BY <1>6, <2>2, <2>3
<1>17. \A i \in Numbers : /\ orders'[i].product = orders[i].product
                          /\ orders'[i].t = orders[i].t
                          /\ orders'[i].activation = orders[i].activation
                          /\ orders'[i].status \in Failures <=> orders[i].status \in Failures
  BY <1>10, <1>15
<1>18. \A i \in 1 .. Cardinality(sold) :
         orders'[Len(orders) + i] =
           [product |-> fresh[i], t |-> t, status |-> outcome[fresh[i]],
            activation |-> activation[fresh[i]]]
  BY <1>12, <1>15
<1>19. Arrivals(sold, outcome, fresh)
  BY <1>6, <1>8, <1>14, <1>16, <1>17, <1>18 DEF Arrivals
<1>20. QED
  BY <1>19

\* An edit of an entry of the shelf leaves the tick of its listing.
LEMMA EntryEdited ==
  ASSUME NEW e \in Entries
  PROVE  /\ [e EXCEPT !.sales = @ + 1] \in Entries
         /\ [e EXCEPT !.sales = @ + 1].listed = e.listed
         /\ [e EXCEPT !.sales = @ + 1].sales = e.sales + 1
         /\ \A price \in Prices : /\ [e EXCEPT !.price = price] \in Entries
                                  /\ [e EXCEPT !.price = price].listed = e.listed
                                  /\ [e EXCEPT !.price = price].sales = e.sales
BY DEF Entries

\* The types of the orders, one by one.
LEMMA OrderTyped ==
  ASSUME Typed
  PROVE  /\ Len(orders) \in Nat /\ Numbers = 1 .. Len(orders) /\ IsFiniteSet(Numbers)
         /\ \A i \in Numbers : /\ orders[i] \in Rows /\ orders[i].product \in Products
                               /\ orders[i].t \in Int /\ orders[i].activation \in Nat
<1>1. Len(orders) \in Nat /\ Numbers = 1 .. Len(orders)
  BY DEF Typed, Numbers
<1>2. \A i \in Numbers : orders[i] \in Rows
  BY DEF Typed, Numbers
<1>3. \A i \in Numbers : /\ orders[i].product \in Products
                         /\ orders[i].t \in Int /\ orders[i].activation \in Nat
  BY <1>2 DEF Rows
<1>4. IsFiniteSet(Numbers)
  BY <1>1, FS_Interval
<1>5. QED
  BY <1>1, <1>2, <1>3, <1>4

\* The types of the entries of the shelf, one by one.
LEMMA ShelfTyped ==
  ASSUME Typed
  PROVE  /\ t \in Int /\ t >= 0
         /\ \A p \in Products : /\ shelf[p] \in Entries /\ shelf[p].listed \in Int
                                /\ shelf[p].sales \in Nat /\ activation[p] \in Nat
         /\ Unlisted.listed = Never /\ Unlisted \in Entries
<1>1. t \in Int /\ t >= 0
  BY StorefrontAssumption DEF Typed
<1>2. \A p \in Products : shelf[p] \in Entries /\ activation[p] \in Nat
  BY DEF Typed
<1>3. \A p \in Products : shelf[p].listed \in Int /\ shelf[p].sales \in Nat
  BY <1>2 DEF Entries
<1>4. Unlisted.listed = Never /\ Unlisted \in Entries
  BY DEF Unlisted, Entries, Never
<1>5. QED
  BY <1>1, <1>2, <1>3, <1>4

\* What a transition does to the shelf.
LEMMA ShelfBooked ==
  ASSUME Typed, Timed, NEW sold, NEW outcome, NEW fresh, Arrivals(sold, outcome, fresh)
  PROVE  /\ shelf' \in [Products -> Entries]
         /\ \A p \in Products :
              /\ shelf'[p].listed = shelf[p].listed
              /\ shelf'[p].sales = IF p \in sold /\ outcome[p] \notin Failures
                                   THEN shelf[p].sales + 1 ELSE shelf[p].sales
              /\ shelf'[p] # Unlisted <=> shelf[p] # Unlisted
<1>1. /\ sold \subseteq Listed /\ DOMAIN outcome = sold /\ shelf' = Booked(outcome)
      /\ sold \subseteq Products
  BY DEF Arrivals, Listed
<1>2. \A p \in Products :
        shelf'[p] = IF p \in sold /\ outcome[p] \notin Failures
                    THEN [shelf[p] EXCEPT !.sales = @ + 1] ELSE shelf[p]
  BY <1>1 DEF Booked
<1>3. \A p \in Products :
        /\ shelf'[p] \in Entries
        /\ shelf'[p].listed = shelf[p].listed
        /\ shelf'[p].sales = IF p \in sold /\ outcome[p] \notin Failures
                             THEN shelf[p].sales + 1 ELSE shelf[p].sales
  BY <1>2, EntryEdited, ShelfTyped
<1>4. \A p \in Products : shelf'[p] # Unlisted <=> shelf[p] # Unlisted
  <2> SUFFICES ASSUME NEW p \in Products
               PROVE  shelf'[p] # Unlisted <=> shelf[p] # Unlisted
    OBVIOUS
  <2>1. CASE p \in sold
    <3>1. p \in Listed /\ shelf[p].listed \in 0 .. t
      BY <1>1, <2>1 DEF Timed
    <3>2. shelf[p].listed # Never /\ shelf'[p].listed # Never
      BY <1>3, <3>1, ShelfTyped DEF Never
    <3>3. QED
      BY <3>2, ShelfTyped
  <2>2. CASE p \notin sold
    BY <1>2, <2>2
  <2>3. QED
    BY <2>1, <2>2
<1>5. shelf' \in [Products -> Entries]
  <2>1. shelf' = [p \in Products |-> shelf'[p]]
    BY <1>1 DEF Booked
  <2>2. QED
    BY <1>3, <2>1
<1>6. QED
  BY <1>3, <1>4, <1>5

\* An order of the new table is an old one, or one of the arrivals.
LEMMA OldOrNew ==
  ASSUME Typed, NEW sold, NEW outcome, NEW fresh, Arrivals(sold, outcome, fresh), NEW i \in Numbers'
  PROVE  \/ /\ i \in Numbers
            /\ orders'[i].product = orders[i].product /\ orders'[i].t = orders[i].t
            /\ orders'[i].activation = orders[i].activation
            /\ orders'[i].status \in Failures <=> orders[i].status \in Failures
         \/ /\ i \notin Numbers
            /\ \E k \in 1 .. Cardinality(sold) :
                 /\ i = Len(orders) + k /\ orders'[i].product = fresh[k] /\ fresh[k] \in sold
                 /\ orders'[i].t = t /\ orders'[i].activation = activation[fresh[k]]
                 /\ orders'[i].status = outcome[fresh[k]]
<1>1. /\ Cardinality(sold) \in Nat /\ Len(orders) \in Nat /\ Numbers = 1 .. Len(orders)
      /\ Numbers' = 1 .. Len(orders) + Cardinality(sold)
  BY OrderTyped DEF Arrivals, Numbers
<1>2. CASE i \in Numbers
  BY <1>2 DEF Arrivals
<1>3. CASE i \notin Numbers
  <2>1. PICK k \in 1 .. Cardinality(sold) : i = Len(orders) + k
    <3>1. i - Len(orders) \in 1 .. Cardinality(sold) /\ i = Len(orders) + (i - Len(orders))
      BY <1>1, <1>3
    <3>2. QED
      BY <3>1
  <2>2. orders'[Len(orders) + k] =
          [product |-> fresh[k], t |-> t, status |-> outcome[fresh[k]],
           activation |-> activation[fresh[k]]]
    BY DEF Arrivals
  <2>3. fresh[k] \in sold
    BY DEF Arrivals
  <2>4. QED
    BY <1>3, <2>1, <2>2, <2>3
<1>4. QED
  BY <1>2, <1>3

\* New orders belong to the present activation, listed before this tick.
LEMMA TransitionTimed ==
  ASSUME Typed, Timed, Divided, Transition
  PROVE  Typed' /\ Timed' /\ Divided'
<1>1. PICK sold, outcome, fresh : Arrivals(sold, outcome, fresh)
  BY TransitionArrivals
<1>2. /\ t' = t /\ activation' = activation /\ phase = "quiet" /\ phase' \in {"hook", "closed"}
      /\ phase' # "quiet"
  BY DEF Transition
<1>3. Typed'
  <2>1. orders' \in Seq(Rows) /\ past' \in Seq(Seq(Statuses))
    BY <1>1 DEF Arrivals
  <2>2. shelf' \in [Products -> Entries]
    BY <1>1, ShelfBooked
  <2>3. t' \in 0 .. LastTick /\ activation' \in [Products -> Nat]
    BY <1>2 DEF Typed
  <2>4. phase' \in {"quiet", "hook", "closed"}
    BY <1>2
  <2>5. QED
    BY <2>1, <2>2, <2>3, <2>4 DEF Typed
<1>4. \A p \in Listed' : p \in Products /\ p \in Listed /\ shelf'[p].listed = shelf[p].listed
  BY <1>1, ShelfBooked DEF Listed
<1>5. Timed'
  <2>1. ASSUME NEW i \in Numbers'
        PROVE  orders'[i].t <= t' /\ orders'[i].activation <= activation'[orders'[i].product]
    <3>1. CASE /\ i \in Numbers
               /\ orders'[i].product = orders[i].product /\ orders'[i].t = orders[i].t
               /\ orders'[i].activation = orders[i].activation
      BY <1>2, <3>1 DEF Timed
    <3>2. ASSUME NEW k \in 1 .. Cardinality(sold),
                 orders'[i].product = fresh[k], fresh[k] \in sold,
                 orders'[i].t = t, orders'[i].activation = activation[fresh[k]]
          PROVE  orders'[i].t <= t' /\ orders'[i].activation <= activation'[orders'[i].product]
      <4>1. fresh[k] \in Products
        BY <1>1, <3>2 DEF Arrivals, Listed
      <4>2. QED
        BY <1>2, <3>2, <4>1, ShelfTyped
    <3>3. QED
      BY <1>1, <3>1, <3>2, OldOrNew
  <2>2. ASSUME NEW p \in Listed' PROVE shelf'[p].listed \in 0 .. t'
    BY <1>2, <1>4 DEF Timed
  <2>3. QED
    BY <1>2, <2>1, <2>2 DEF Timed
<1>6. Divided'
  <2>1. ASSUME NEW p \in Listed', NEW i \in Numbers', orders'[i].product = p
        PROVE  orders'[i].activation = activation'[p] <=> orders'[i].t > shelf'[p].listed
    <3>1. CASE /\ i \in Numbers
               /\ orders'[i].product = orders[i].product /\ orders'[i].t = orders[i].t
               /\ orders'[i].activation = orders[i].activation
      BY <1>2, <1>4, <2>1, <3>1 DEF Divided
    <3>2. ASSUME NEW k \in 1 .. Cardinality(sold),
                 orders'[i].product = fresh[k], fresh[k] \in sold,
                 orders'[i].t = t, orders'[i].activation = activation[fresh[k]]
          PROVE  orders'[i].activation = activation'[p] <=> orders'[i].t > shelf'[p].listed
      <4>1. shelf'[p].listed < t
        BY <1>2, <1>4 DEF Timed
      <4>2. p \in Products /\ shelf[p].listed \in Int /\ shelf'[p].listed = shelf[p].listed
        BY <1>4, ShelfTyped
      <4>3. QED
        BY <1>2, <2>1, <3>2, <4>1, <4>2, ShelfTyped
    <3>3. QED
      BY <1>1, <3>1, <3>2, OldOrNew
  <2>2. QED
    BY <2>1 DEF Divided
<1>7. QED
  BY <1>3, <1>5, <1>6

\* The procured orders of a product can be counted.
LEMMA ProcuredFinite ==
  ASSUME Typed, NEW p
  PROVE  /\ Procured(p) \subseteq Numbers /\ IsFiniteSet(Procured(p))
         /\ Cardinality(Procured(p)) \in Nat
<1>1. Procured(p) \subseteq Numbers
  BY DEF Procured
<1>2. IsFiniteSet(Procured(p))
  BY <1>1, OrderTyped, FS_Subset
<1>3. QED
  BY <1>1, <1>2, FS_CardinalityType

\* The sales of a listing follow the orders that a transition brings.
LEMMA TransitionSells ==
  ASSUME Typed, Timed, SalesMatchOrders, Transition
  PROVE  SalesMatchOrders'
<1>1. PICK sold, outcome, fresh : Arrivals(sold, outcome, fresh)
  BY TransitionArrivals
<1>2. /\ Cardinality(sold) \in Nat /\ Len(orders) \in Nat /\ Numbers = 1 .. Len(orders)
      /\ Numbers' = 1 .. Len(orders) + Cardinality(sold)
  BY <1>1, OrderTyped DEF Arrivals, Numbers
<1>3. SUFFICES ASSUME NEW p \in Listed'
               PROVE  shelf'[p].sales = Cardinality(Procured(p)')
  BY DEF SalesMatchOrders
<1>4. /\ p \in Products /\ p \in Listed
      /\ shelf'[p].sales = IF p \in sold /\ outcome[p] \notin Failures
                           THEN shelf[p].sales + 1 ELSE shelf[p].sales
  BY <1>1, <1>3, ShelfBooked DEF Listed
<1>5. shelf[p].sales = Cardinality(Procured(p)) /\ shelf[p].sales \in Nat
  BY <1>4, ShelfTyped DEF SalesMatchOrders
<1>6. \A i \in Numbers : i \in Procured(p)' <=> i \in Procured(p)
  BY <1>1, <1>2 DEF Procured, Arrivals
<1>7. CASE p \in sold /\ outcome[p] \notin Failures
  <2>1. PICK k \in 1 .. Cardinality(sold) : fresh[k] = p
    BY <1>1, <1>7 DEF Arrivals
  <2>2. Len(orders) + k \in Numbers' /\ Len(orders) + k \notin Numbers
    BY <1>2
  <2>3. orders'[Len(orders) + k].product = p /\ orders'[Len(orders) + k].status = outcome[p]
    <3>1. orders'[Len(orders) + k] =
            [product |-> fresh[k], t |-> t, status |-> outcome[fresh[k]],
             activation |-> activation[fresh[k]]]
      BY <1>1 DEF Arrivals
    <3>2. QED
      BY <2>1, <3>1
  <2>4. Len(orders) + k \in Procured(p)'
    BY <1>7, <2>2, <2>3 DEF Procured
  <2>5. ASSUME NEW i \in Procured(p)', i \notin Numbers PROVE i = Len(orders) + k
    <3>1. i \in Numbers' /\ orders'[i].product = p
      BY <2>5 DEF Procured
    <3>2. PICK j \in 1 .. Cardinality(sold) : i = Len(orders) + j /\ orders'[i].product = fresh[j]
      BY <1>1, <2>5, <3>1, OldOrNew
    <3>3. j = k
      <4>1. fresh \in [1 .. Cardinality(sold) -> sold] /\ IsInjective(fresh)
        BY <1>1 DEF Arrivals
      <4>2. fresh[j] = fresh[k]
        BY <2>1, <3>1, <3>2
      <4>3. QED
        BY <4>1, <4>2 DEF IsInjective
    <3>4. QED
      BY <3>2, <3>3
  <2>6. Procured(p)' = Procured(p) \cup {Len(orders) + k}
    BY <1>6, <2>4, <2>5, ProcuredFinite
  <2>7. Len(orders) + k \notin Procured(p)
    BY <2>2, ProcuredFinite
  <2>8. Cardinality(Procured(p)') = Cardinality(Procured(p)) + 1
    BY <2>6, <2>7, ProcuredFinite, FS_AddElement
  <2>9. QED
    BY <1>4, <1>5, <1>7, <2>8
<1>8. CASE ~(p \in sold /\ outcome[p] \notin Failures)
  <2>1. ASSUME NEW i \in Procured(p)' PROVE i \in Numbers
    <3>1. i \in Numbers' /\ orders'[i].product = p /\ orders'[i].status \notin Failures
      BY <2>1 DEF Procured
    <3>2. SUFFICES ASSUME i \notin Numbers PROVE FALSE
      OBVIOUS
    <3>3. PICK j \in 1 .. Cardinality(sold) : /\ orders'[i].product = fresh[j] /\ fresh[j] \in sold
                                              /\ orders'[i].status = outcome[fresh[j]]
      BY <1>1, <3>1, <3>2, OldOrNew
    <3>4. QED
      BY <1>8, <3>1, <3>3
  <2>2. Procured(p)' = Procured(p)
    BY <1>6, <2>1, ProcuredFinite
  <2>3. QED
    BY <1>4, <1>5, <1>8, <2>2
<1>9. QED
  BY <1>7, <1>8

\* An action on the shelf changes one entry and leaves the orders alone.
LEMMA ShelfEdited ==
  ASSUME ShopInv, UNCHANGED <<t, phase, orders, past>>, phase = "hook",
         NEW p \in Products, NEW e \in Entries, shelf' = [shelf EXCEPT ![p] = e],
         activation' \in [Products -> Nat],
         \A q \in Products : activation'[q] >= activation[q],
         \A q \in Products \ {p} : activation'[q] = activation[q],
         e # Unlisted =>
           /\ e.listed \in 0 .. t /\ e.sales = Cardinality(Procured(p))
           /\ \A i \in Numbers : orders[i].product = p =>
                (orders[i].activation = activation'[p] <=> orders[i].t > e.listed)
  PROVE  ShopInv'
<1>1. /\ shelf' \in [Products -> Entries] /\ shelf'[p] = e
      /\ \A q \in Products \ {p} : shelf'[q] = shelf[q]
  BY DEF ShopInv, Typed
<1>2. Typed'
  BY <1>1 DEF ShopInv, Typed
<1>3. /\ Numbers' = Numbers /\ t' = t /\ phase' # "quiet" /\ orders' = orders
      /\ \A q : Procured(q)' = Procured(q)
  BY DEF Numbers, Procured
<1>4. \A q \in Listed' : q \in Products /\ (q # p => q \in Listed) /\ (q = p => e # Unlisted)
  BY <1>1 DEF Listed
<1>5. Timed'
  <2>1. ASSUME NEW i \in Numbers
        PROVE  orders[i].t <= t /\ orders[i].activation <= activation'[orders[i].product]
    <3>1. orders[i].product \in Products /\ orders[i].activation \in Int
      BY OrderTyped DEF ShopInv
    <3>2. orders[i].t <= t /\ orders[i].activation <= activation[orders[i].product]
      BY DEF ShopInv, Timed
    <3>3. /\ activation[orders[i].product] \in Int /\ activation'[orders[i].product] \in Int
          /\ activation'[orders[i].product] >= activation[orders[i].product]
      BY <3>1, ShelfTyped DEF ShopInv
    <3>4. QED
      BY <3>1, <3>2, <3>3
  <2>2. ASSUME NEW q \in Listed' PROVE shelf'[q].listed \in 0 .. t
    BY <1>1, <1>4 DEF ShopInv, Timed
  <2>3. QED
    BY <1>3, <2>1, <2>2 DEF Timed
<1>6. Divided'
  <2>1. ASSUME NEW q \in Listed', NEW i \in Numbers, orders[i].product = q
        PROVE  orders[i].activation = activation'[q] <=> orders[i].t > shelf'[q].listed
    <3>1. CASE q = p
      BY <1>1, <1>4, <2>1, <3>1
    <3>2. CASE q # p
      BY <1>1, <1>4, <2>1, <3>2 DEF ShopInv, Divided
    <3>3. QED
      BY <3>1, <3>2
  <2>2. QED
    BY <1>3, <2>1 DEF Divided
<1>7. SalesMatchOrders'
  <2>1. ASSUME NEW q \in Listed' PROVE shelf'[q].sales = Cardinality(Procured(q))
    BY <1>1, <1>4 DEF ShopInv, SalesMatchOrders
  <2>2. QED
    BY <1>3, <2>1 DEF SalesMatchOrders
<1>8. QED
  BY <1>2, <1>5, <1>6, <1>7 DEF ShopInv

\* A product that comes on the shelf starts an activation of its own.
LEMMA ListProductKeeps ==
  ASSUME ShopInv, NEW p \in Products, NEW price \in Prices, ListProduct(p, price)
  PROVE  ShopInv'
<1>1. /\ UNCHANGED <<t, phase, orders, past>> /\ phase = "hook"
      /\ shelf' = [shelf EXCEPT ![p] = Listing(p, price)]
      /\ activation' = IF p \in Listed THEN activation ELSE [activation EXCEPT ![p] = @ + 1]
  BY DEF ListProduct, Act
<1>2. /\ t \in Int /\ t >= 0 /\ activation \in [Products -> Nat]
      /\ shelf[p] \in Entries /\ shelf[p].listed \in Int /\ activation[p] \in Nat
  BY ShelfTyped DEF ShopInv, Typed
<1>3. CASE p \in Listed
  <2>1. /\ Listing(p, price) \in Entries /\ Listing(p, price).listed = shelf[p].listed
        /\ Listing(p, price).sales = shelf[p].sales
    BY <1>2, <1>3, EntryEdited DEF Listing
  <2>2. shelf[p].listed \in 0 .. t /\ shelf[p].sales = Cardinality(Procured(p))
    BY <1>3 DEF ShopInv, Timed, SalesMatchOrders
  <2>3. \A i \in Numbers : orders[i].product = p =>
          (orders[i].activation = activation[p] <=> orders[i].t > shelf[p].listed)
    BY <1>3 DEF ShopInv, Divided
  <2>4. /\ activation' \in [Products -> Nat] /\ activation' = activation
        /\ \A q \in Products : activation'[q] >= activation[q]
    <3>1. \A q \in Products : activation[q] >= activation[q]
      BY <1>2
    <3>2. QED
      BY <1>1, <1>2, <1>3, <3>1
  <2>5. QED
    BY <1>1, <2>1, <2>2, <2>3, <2>4, ShelfEdited
<1>4. CASE p \notin Listed
  <2>1. Listing(p, price) = [price |-> price, listed |-> t, sales |-> Cardinality(Procured(p))]
    BY <1>4 DEF Listing, Relisted
  <2>2. /\ Listing(p, price) \in Entries /\ Listing(p, price).listed \in 0 .. t
        /\ Listing(p, price).listed = t /\ Listing(p, price).sales = Cardinality(Procured(p))
    BY <1>2, <2>1, ProcuredFinite DEF Entries, ShopInv
  <2>3. /\ activation' \in [Products -> Nat] /\ activation'[p] = activation[p] + 1
        /\ \A q \in Products \ {p} : activation'[q] = activation[q]
    BY <1>1, <1>2, <1>4
  <2>4. \A q \in Products : activation'[q] >= activation[q]
    BY <1>2, <2>3
  <2>5. ASSUME NEW i \in Numbers, orders[i].product = p
        PROVE  orders[i].activation = activation'[p] <=> orders[i].t > Listing(p, price).listed
    <3>1. orders[i].t <= t /\ orders[i].activation <= activation[p]
      BY <2>5 DEF ShopInv, Timed
    <3>2. orders[i].t \in Int /\ orders[i].activation \in Nat
      BY OrderTyped DEF ShopInv
    <3>3. QED
      BY <1>2, <2>2, <2>3, <3>1, <3>2
  <2>6. QED
    BY <1>1, <2>2, <2>3, <2>4, <2>5, ShelfEdited
<1>5. QED
  BY <1>3, <1>4

\* A product that leaves the shelf leaves its orders behind.
LEMMA DelistProductKeeps ==
  ASSUME ShopInv, NEW p \in Products, DelistProduct(p)
  PROVE  ShopInv'
<1>1. /\ UNCHANGED <<t, phase, orders, past, activation>> /\ phase = "hook"
      /\ shelf' = [shelf EXCEPT ![p] = Unlisted]
  BY DEF DelistProduct, Act
<1>2. Unlisted \in Entries /\ activation' \in [Products -> Nat]
  BY <1>1, ShelfTyped DEF ShopInv, Typed
<1>3. /\ \A q \in Products : activation'[q] >= activation[q]
      /\ \A q \in Products \ {p} : activation'[q] = activation[q]
  BY <1>1, ShelfTyped DEF ShopInv
<1>4. QED
  BY <1>1, <1>2, <1>3, ShelfEdited

\* A new price changes nothing else.
LEMMA AdjustPriceKeeps ==
  ASSUME ShopInv, NEW p \in Products, NEW price \in Prices, AdjustPrice(p, price)
  PROVE  ShopInv'
<1>1. /\ UNCHANGED <<t, phase, orders, past, activation>> /\ phase = "hook" /\ p \in Listed
      /\ shelf' = [shelf EXCEPT ![p].price = price]
  BY DEF AdjustPrice, Act
<1>2. PICK e : e = [shelf[p] EXCEPT !.price = price]
  OBVIOUS
<1>3. shelf' = [shelf EXCEPT ![p] = e]
  BY <1>1, <1>2
<1>4. e \in Entries /\ e.listed = shelf[p].listed /\ e.sales = shelf[p].sales
  BY <1>2, ShelfTyped, EntryEdited DEF ShopInv
<1>5. shelf[p].listed \in 0 .. t /\ shelf[p].sales = Cardinality(Procured(p))
  BY <1>1 DEF ShopInv, Timed, SalesMatchOrders
<1>6. \A i \in Numbers : orders[i].product = p =>
        (orders[i].activation = activation'[p] <=> orders[i].t > e.listed)
  BY <1>1, <1>4 DEF ShopInv, Divided
<1>7. /\ \A q \in Products : activation'[q] >= activation[q]
      /\ \A q \in Products \ {p} : activation'[q] = activation[q]
      /\ activation' \in [Products -> Nat]
  BY <1>1, ShelfTyped DEF ShopInv, Typed
<1>8. QED
  BY <1>1, <1>3, <1>4, <1>5, <1>6, <1>7, ShelfEdited

\* Time, and steps that leave the tables alone.
LEMMA ClockKeeps ==
  ASSUME ShopInv, Clock
  PROVE  ShopInv'
<1>1. /\ UNCHANGED <<orders, shelf, activation, past>> /\ phase # "quiet" /\ t < LastTick
      /\ t' = t + 1 /\ phase' = "quiet"
  BY DEF Clock, shop
<1>2. Typed'
  BY <1>1, StorefrontAssumption DEF ShopInv, Typed
<1>3. /\ t \in Int /\ Numbers' = Numbers /\ Listed' = Listed /\ \A p : Procured(p)' = Procured(p)
      /\ \A i \in Numbers : orders[i].t \in Int
      /\ \A p \in Listed : shelf[p].listed \in Int
  BY <1>1, ShelfTyped, OrderTyped DEF ShopInv, Numbers, Listed, Procured
<1>4. Timed'
  <2>1. ASSUME NEW i \in Numbers
        PROVE  /\ orders[i].t <= t + 1 /\ orders[i].t < t + 1
               /\ orders[i].activation <= activation[orders[i].product]
    BY <1>3 DEF ShopInv, Timed
  <2>2. ASSUME NEW p \in Listed PROVE shelf[p].listed \in 0 .. t + 1 /\ shelf[p].listed < t + 1
    BY <1>3 DEF ShopInv, Timed
  <2>3. QED
    BY <1>1, <1>3, <2>1, <2>2 DEF Timed
<1>5. Divided' /\ SalesMatchOrders'
  BY <1>1, <1>3 DEF ShopInv, Divided, SalesMatchOrders
<1>6. QED
  BY <1>2, <1>4, <1>5 DEF ShopInv

\* A step that leaves the tables alone, and does not start a tick, keeps them so.
LEMMA SameShop ==
  ASSUME ShopInv, UNCHANGED <<t, orders, shelf, activation, past>>,
         phase' \in {"quiet", "hook", "closed"}, phase' = "quiet" => phase = "quiet"
  PROVE  ShopInv'
<1>1. /\ Numbers' = Numbers /\ Listed' = Listed /\ \A p : Procured(p)' = Procured(p)
  BY DEF Numbers, Listed, Procured
<1>2. QED
  BY <1>1 DEF ShopInv, Typed, Timed, Divided, SalesMatchOrders

\* The shop starts empty.
LEMMA ShopInit ==
  ASSUME Init
  PROVE  ShopInv
<1>1. /\ t = 0 /\ phase = "quiet" /\ orders = <<>> /\ past = <<>>
      /\ shelf = [p \in Products |-> Unlisted] /\ activation = [p \in Products |-> 0]
  BY DEF Init
<1>2. Unlisted \in Entries
  BY DEF Unlisted, Entries, Never
<1>3. Numbers = {} /\ Listed = {}
  BY <1>1 DEF Numbers, Listed
<1>4. Typed
  BY <1>1, <1>2, StorefrontAssumption DEF Typed
<1>5. QED
  BY <1>3, <1>4 DEF ShopInv, Timed, Divided, SalesMatchOrders

\* Every step keeps the invariant of the tables.
LEMMA ShopStep ==
  ASSUME ShopInv, [Next]_vars
  PROVE  ShopInv'
<1>1. CASE Transition
  BY <1>1, TransitionTimed, TransitionSells DEF ShopInv
<1>2. ASSUME NEW p \in Products, NEW price \in Prices,
             ListProduct(p, price) \/ AdjustPrice(p, price)
      PROVE  ShopInv'
  BY <1>2, ListProductKeeps, AdjustPriceKeeps
<1>3. ASSUME NEW p \in Products, DelistProduct(p) PROVE ShopInv'
  BY <1>3, DelistProductKeeps
<1>4. ASSUME NEW x \in Polls, Observe(x) \/ Look(x) \/ Serve(x) PROVE ShopInv'
  BY <1>4, SameShop DEF ShopInv, Typed, Observe, Look, Serve, shop, Act
<1>5. CASE ReadReport
  BY <1>5, SameShop DEF ShopInv, Typed, ReadReport, shop
<1>6. CASE CloseHook
  BY <1>6, SameShop DEF CloseHook, shop
<1>7. CASE Clock
  BY <1>7, ClockKeeps
<1>8. CASE Crash
  BY <1>8, SameShop DEF ShopInv, Typed, Crash, shop
<1>9. CASE UNCHANGED vars
  BY <1>9, SameShop DEF ShopInv, Typed, vars, shop
<1>10. QED
  BY <1>1, <1>2, <1>3, <1>4, <1>5, <1>6, <1>7, <1>8, <1>9 DEF Next

\* The invariant of the tables.
LEMMA ShopKept == Spec => []ShopInv
BY ShopInit, ShopStep, PTL DEF Spec

\* The division of the orders is what a review counts by.
LEMMA DividedCounts ==
  ASSUME ShopInv
  PROVE  ReviewCountsActivation
<1>1. SUFFICES ASSUME NEW p \in Listed
               PROVE  Reviewed(p) = {i \in Procured(p) : orders[i].activation = activation[p]}
  BY DEF ReviewCountsActivation
<1>2. \A i \in Procured(p) : i \in Numbers /\ orders[i].product = p
  BY DEF Procured
<1>3. \A i \in Procured(p) :
        orders[i].activation = activation[p] <=> orders[i].t > shelf[p].listed
  BY <1>2 DEF ShopInv, Divided
<1>4. QED
  BY <1>3 DEF Reviewed

\* A review of the listings (review_my_listings) counts for a listing
\* the orders since it was put on the shelf, and none of an earlier time there.
THEOREM ReviewsCountActivation == Spec => []ReviewCountsActivation
BY ShopKept, DividedCounts, PTL

\* The sales of a listing are its procured orders, of all its times on the shelf
\* (the second part of AnswersTrue).
THEOREM SalesAreCounted == Spec => []SalesMatchOrders
<1>1. ShopInv => SalesMatchOrders
  BY DEF ShopInv
<1>2. QED
  BY <1>1, ShopKept, PTL

-----------------------------------------------------------------------------
(* Observations.                                                           *)

\* A bounded set of natural numbers has a largest one.
LEMMA Largest ==
  ASSUME NEW N \in Nat, NEW S \in SUBSET (0 .. N), S # {}
  PROVE  \E u \in S : \A v \in S : v <= u
<1> DEFINE T == {n \in Nat : \A v \in S : v <= n}
<1>1. T \subseteq Nat /\ T # {}
  <2>1. N \in T
    OBVIOUS
  <2>2. QED
    BY <2>1
<1>2. PICK n \in T : \A m \in T : ~(<<m, n>> \in OpToRel(<, Nat))
  <2> HIDE DEF T
  <2>1. QED
    BY <1>1, NatLessThanWellFounded, WFMin, Zenon
<1>3. \A m \in T : ~(m < n)
  BY <1>2, Zenon DEF OpToRel
<1>4. n \in S
  <2>1. SUFFICES ASSUME n \notin S PROVE FALSE
    OBVIOUS
  <2>2. \A v \in S : v <= n - 1
    BY <2>1
  <2>3. n - 1 \in Nat
    <3>1. PICK v \in S : v <= n - 1
      BY <2>2
    <3>2. v \in Nat /\ n \in Nat
      OBVIOUS
    <3>3. QED
      BY <3>1, <3>2
  <2>4. n - 1 \in T
    BY <2>2, <2>3
  <2>5. QED
    BY <1>3, <2>4
<1>5. QED
  BY <1>4

\* Never is no tick.
LEMMA TicksTyped == /\ LastTick \in Nat /\ Ticks = 0 .. LastTick + 1 /\ Ticks \subseteq Nat
                    /\ Never \notin Ticks
BY StorefrontAssumption DEF Ticks, Never

\* The latest window is the one after which there is none.
LEMMA LatestUnique ==
  ASSUME NEW w, NEW u \in Ticks, w[u] # NoWindow,
         \A v \in Ticks : v > u => w[v] = NoWindow
  PROVE  Latest(w) = u
<1> DEFINE Seen == {v \in Ticks : w[v] # NoWindow}
<1>1. u \in Seen /\ \A v \in Seen : v <= u
  BY TicksTyped
<1>2. \A x \in Seen : (\A v \in Seen : v <= x) => x = u
  BY <1>1, TicksTyped
<1>3. Latest(w) = CHOOSE x \in Seen : \A v \in Seen : v <= x
  BY <1>1 DEF Latest
<1> HIDE DEF Seen
<1>4. QED
  BY <1>1, <1>2, <1>3

\* The latest window, if there is any, is one.
LEMMA LatestSeen ==
  ASSUME NEW w
  PROVE  \/ Latest(w) = Never /\ \A u \in Ticks : w[u] = NoWindow
         \/ /\ Latest(w) \in Ticks /\ w[Latest(w)] # NoWindow
            /\ \A v \in Ticks : v > Latest(w) => w[v] = NoWindow
<1> DEFINE Seen == {v \in Ticks : w[v] # NoWindow}
<1>1. CASE Seen = {}
  BY <1>1 DEF Latest
<1>2. CASE Seen # {}
  <2>1. Seen \in SUBSET (0 .. LastTick + 1) /\ LastTick + 1 \in Nat
    BY TicksTyped
  <2>2. Latest(w) = CHOOSE x \in Seen : \A v \in Seen : v <= x
    BY <1>2 DEF Latest
  <2>3. Latest(w) \in Seen /\ \A v \in Seen : v <= Latest(w)
    <3> HIDE DEF Seen
    <3>1. \E u \in Seen : \A v \in Seen : v <= u
      BY <1>2, <2>1, Largest
    <3>2. QED
      BY <2>2, <3>1
  <2>4. QED
    BY <2>3, TicksTyped
<1>3. QED
  BY <1>1, <1>2

\* The clock is at a tick.
LEMMA NowTyped ==
  ASSUME Typed
  PROVE  /\ t \in Nat /\ t \in Ticks /\ t \in 0 .. LastTick /\ t # Never
         /\ t # LastTick + 2
BY TicksTyped DEF Typed, Never

\* Requests at rest and woken can be told apart.
LEMMA AtRestTyped ==
  /\ AtRest \in Requests /\ Woken \in Requests /\ AtRest # Woken
  /\ NoWindow \in Windows /\ NoPacket \in Packets /\ NoWindow.to = Never
<1>1. NoWindow \in Windows /\ NoWindow.to = Never
  BY DEF NoWindow, Windows, Never
<1>2. NoPacket \in Packets
  BY <1>1 DEF NoPacket, Packets, Never
<1>3. AtRest \in Requests /\ AtRest.at = Never
  BY <1>1 DEF AtRest, Requests, Never
<1>4. Woken \in Requests /\ Woken.at = LastTick + 2
  BY <1>3, TicksTyped DEF Woken, Requests
<1>5. QED
  BY <1>1, <1>2, <1>3, <1>4, TicksTyped DEF Never

\* The window of a hook: typed, and that of the cursor or of the hook.
LEMMA WindowOfHook ==
  ASSUME Typed, Kept, Pointed
  PROVE  /\ CurrentWindow \in Windows /\ CurrentWindow # NoWindow
         /\ windows[t] # NoWindow => CurrentWindow = windows[t]
         /\ windows[t] = NoWindow =>
              CurrentWindow = [from |-> cursor + 1, to |-> t] /\ cursor \in Never .. t - 1
<1>1. t \in Nat /\ t \in Ticks /\ windows[t] \in Windows /\ cursor \in Int
  BY NowTyped DEF Kept
<1>2. CASE windows[t] # NoWindow
  BY <1>1, <1>2 DEF CurrentWindow
<1>3. CASE windows[t] = NoWindow
  <2>1. CurrentWindow = [from |-> cursor + 1, to |-> t]
    BY <1>3 DEF CurrentWindow, ChangeWindow
  <2>2. cursor \in Never .. t /\ cursor # t
    BY <1>3 DEF Pointed
  <2>3. CurrentWindow \in Windows /\ CurrentWindow.to # Never
    BY <1>1, <2>1, NowTyped DEF Windows
  <2>4. QED
    BY <1>1, <1>3, <2>1, <2>2, <2>3, AtRestTyped DEF Never
<1>4. QED
  BY <1>2, <1>3

\* A reply about this hook, after its window was saved, has been given before.
LEMMA ToldBefore ==
  ASSUME Typed, Kept, Pointed, Tiled, cursor = t, NEW r,
         r = [at |-> t, window |-> windows[t], done |-> t, right |-> TRUE]
  PROVE  r \in served
<1>1. t \in Nat /\ windows[t] \in Windows
  BY NowTyped DEF Kept
<1>2. PICK a \in served : t \in a.window.from .. a.at
  <2>1. t \in 0 .. cursor
    BY <1>1
  <2>2. QED
    BY <2>1 DEF Tiled
<1>3. a.at \in 0 .. cursor /\ a.window.from \in 0 .. a.at /\ a.done = a.at /\ a.right
  BY DEF Tiled
<1>4. a.at = t
  BY <1>1, <1>2, <1>3
<1>5. a.window = windows[t]
  BY <1>4 DEF Tiled
<1>6. a \in Replies
  BY DEF Kept
<1>7. a = r
  BY <1>3, <1>4, <1>5, <1>6 DEF Replies
<1>8. QED
  BY <1>7

\* A request that waits tells nothing yet.
LEMMA ObserveTells ==
  ASSUME ToldInv, NEW x \in Polls, Observe(x)
  PROVE  ToldInv'
<1>1. /\ phase = "hook" /\ poll' = [poll EXCEPT ![x] = Woken]
      /\ UNCHANGED <<t, phase, shop, told, served>>
  BY DEF Observe, Act
<1>2. poll \in [Polls -> Requests] /\ Woken \in Requests
  BY AtRestTyped DEF ToldInv, Kept
<1>3. poll' \in [Polls -> Requests] /\ \A y \in Polls : poll'[y] = poll[y] \/ poll'[y] = Woken
  BY <1>1, <1>2
<1>4. CurrentWindow' = CurrentWindow /\ NoticeAvailable' = NoticeAvailable
  BY <1>1 DEF told, CurrentWindow, ChangeWindow, NoticeAvailable
<1>5. Typed' /\ Kept' /\ Pointed' /\ Tiled'
  BY <1>1, <1>3 DEF ToldInv, Typed, Kept, Pointed, Tiled, told, shop, Numbers
<1>6. Pending'
  BY <1>1, <1>3, <1>4 DEF ToldInv, Pending, told
<1>7. QED
  BY <1>5, <1>6 DEF ToldInv

\* An answer from the cache was given before; a composed one has the window of
\* the hook.
LEMMA LookTells ==
  ASSUME ToldInv, NEW x \in Polls, Look(x)
  PROVE  ToldInv'
<1>1. /\ poll[x] = Woken /\ UNCHANGED <<t, phase, shop, told>>
  BY DEF Look
<1>2. /\ poll \in [Polls -> Requests] /\ AtRest \in Requests /\ t \in Nat
  BY AtRestTyped, NowTyped DEF ToldInv, Kept
<1>3. CurrentWindow' = CurrentWindow /\ NoticeAvailable' = NoticeAvailable
  BY <1>1 DEF told, CurrentWindow, ChangeWindow, NoticeAvailable
<1>4. phase = "hook"
  BY <1>1, AtRestTyped DEF ToldInv, Pending
<1>5. CASE cache[t] # NoPacket
  <2>1. poll' = [poll EXCEPT ![x] = AtRest] /\ served' = served \cup {Told(t, cache[t])}
    BY <1>5 DEF Look
  <2>2. /\ cursor = t
        /\ cache[t] = [window |-> windows[t], done |-> t, notice |-> NoticeAvailable]
    BY <1>5 DEF ToldInv, Pending
  <2>3. Told(t, cache[t]) = [at |-> t, window |-> windows[t], done |-> t, right |-> TRUE]
    <3>1. /\ cache[t].window = windows[t] /\ cache[t].done = t
          /\ cache[t].notice = NoticeAvailable
      BY <2>2
    <3>2. QED
      BY <3>1 DEF Told
  <2>4. Told(t, cache[t]) \in served
    BY <2>2, <2>3, ToldBefore DEF ToldInv
  <2>5. served' = served
    BY <2>1, <2>4
  <2>6. poll' \in [Polls -> Requests] /\ \A y \in Polls : poll'[y] = poll[y] \/ poll'[y] = AtRest
    BY <1>2, <2>1
  <2>7. Typed' /\ Kept' /\ Pointed' /\ Tiled'
    BY <1>1, <2>5, <2>6
       DEF ToldInv, Typed, Kept, Pointed, Tiled, told, shop, Numbers
  <2>8. Pending'
    BY <1>1, <1>3, <2>6 DEF ToldInv, Pending, told
  <2>9. QED
    BY <2>7, <2>8 DEF ToldInv
<1>6. CASE cache[t] = NoPacket
  <2>1. PICK q : q = [at |-> t, window |-> CurrentWindow, done |-> t, notice |-> NoticeAvailable]
    OBVIOUS
  <2>2. poll' = [poll EXCEPT ![x] = q] /\ served' = served
    <3>1. Committed = t
      BY <1>2, <1>4 DEF ToldInv, Kept, Committed
    <3>2. /\ poll' = [poll EXCEPT ![x] = [at |-> t, window |-> CurrentWindow,
                                          done |-> Committed, notice |-> NoticeAvailable]]
          /\ served' = served
      BY <1>6 DEF Look
    <3>3. QED
      BY <2>1, <3>1, <3>2
  <2>3. q \in Requests
    <3>1. CurrentWindow \in Windows /\ NoticeAvailable \in BOOLEAN
      BY WindowOfHook DEF ToldInv, NoticeAvailable
    <3>2. QED
      BY <1>2, <2>1, <3>1 DEF Requests
  <2>4. poll' \in [Polls -> Requests] /\ \A y \in Polls : poll'[y] = poll[y] \/ poll'[y] = q
    BY <1>2, <2>2, <2>3
  <2>5. Typed' /\ Kept' /\ Pointed' /\ Tiled'
    BY <1>1, <2>2, <2>4
       DEF ToldInv, Typed, Kept, Pointed, Tiled, told, shop, Numbers
  <2>6. Pending'
    <3>1. \A y \in Polls : poll'[y] # AtRest => phase' = "hook"
      BY <1>1, <1>4
    <3>2. \A y \in Polls : poll'[y] \notin {AtRest, Woken} =>
            poll'[y] = [at |-> t', window |-> CurrentWindow', done |-> t', notice |-> NoticeAvailable']
      BY <1>1, <1>3, <2>1, <2>4 DEF ToldInv, Pending
    <3>3. QED
      BY <1>1, <1>3, <3>1, <3>2 DEF ToldInv, Pending, told
  <2>7. QED
    BY <2>5, <2>6 DEF ToldInv
<1>7. QED
  BY <1>5, <1>6

\* The first answer of a hook continues the windows, each further one repeats it.
LEMMA ServeTells ==
  ASSUME ToldInv, NEW x \in Polls, Serve(x)
  PROVE  ToldInv'
<1>1. PICK w : w = CurrentWindow
  OBVIOUS
<1>2. /\ poll[x] \notin {AtRest, Woken} /\ UNCHANGED <<t, phase, shop, report>>
      /\ cache' = [cache EXCEPT ![poll[x].at] =
                     [window |-> poll[x].window, done |-> poll[x].done, notice |-> poll[x].notice]]
      /\ windows' = [windows EXCEPT ![poll[x].at] = poll[x].window]
      /\ cursor' = t /\ file' = Saved(t, windows', report)
      /\ served' = served \cup {Told(poll[x].at, [window |-> poll[x].window, done |-> poll[x].done,
                                                  notice |-> poll[x].notice])}
      /\ poll' = [poll EXCEPT ![x] = AtRest]
  BY DEF Serve
<1>3. poll[x] = [at |-> t, window |-> w, done |-> t, notice |-> NoticeAvailable] /\ phase = "hook"
  BY <1>1, <1>2 DEF ToldInv, Pending
<1>4. PICK p : p = [window |-> w, done |-> t, notice |-> NoticeAvailable]
  OBVIOUS
<1>5. PICK r : r = [at |-> t, window |-> w, done |-> t, right |-> TRUE]
  OBVIOUS
<1>6. /\ cache' = [cache EXCEPT ![t] = p] /\ windows' = [windows EXCEPT ![t] = w]
      /\ served' = served \cup {r}
  <2>1. [window |-> poll[x].window, done |-> poll[x].done, notice |-> poll[x].notice] = p
    BY <1>3, <1>4
  <2>2. Told(t, p) = r
    BY <1>4, <1>5 DEF Told
  <2>3. poll[x].at = t /\ poll[x].window = w
    BY <1>3
  <2>4. QED
    BY <1>2, <2>1, <2>2, <2>3
<1>7. /\ t \in Nat /\ t \in Ticks /\ cursor \in Int /\ windows \in [Ticks -> Windows]
      /\ cache \in [Ticks -> Packets] /\ poll \in [Polls -> Requests] /\ served \subseteq Replies
  BY NowTyped DEF ToldInv, Kept
<1>8. w \in Windows /\ w # NoWindow
  BY <1>1, WindowOfHook DEF ToldInv
<1>9. p \in Packets /\ r \in Replies
  BY <1>4, <1>5, <1>7, <1>8 DEF Packets, Replies, NoticeAvailable
<1>10. /\ windows' \in [Ticks -> Windows] /\ windows'[t] = w
       /\ \A u \in Ticks : u # t => windows'[u] = windows[u]
       /\ cache' \in [Ticks -> Packets] /\ cache'[t] = p
       /\ \A u \in Ticks : u # t => cache'[u] = cache[u]
       /\ poll' \in [Polls -> Requests] /\ \A y \in Polls : poll'[y] = poll[y] \/ poll'[y] = AtRest
  <2>1. /\ windows' \in [Ticks -> Windows] /\ windows'[t] = w
        /\ \A u \in Ticks : u # t => windows'[u] = windows[u]
    BY <1>6, <1>7, <1>8
  <2>2. /\ cache' \in [Ticks -> Packets] /\ cache'[t] = p
        /\ \A u \in Ticks : u # t => cache'[u] = cache[u]
    BY <1>6, <1>7, <1>9
  <2>3. /\ poll' \in [Polls -> Requests]
        /\ \A y \in Polls : poll'[y] = poll[y] \/ poll'[y] = AtRest
    BY <1>2, <1>7, AtRestTyped
  <2>4. QED
    BY <2>1, <2>2, <2>3
<1>11. CurrentWindow' = w /\ NoticeAvailable' = NoticeAvailable
  BY <1>2, <1>8, <1>10 DEF CurrentWindow, NoticeAvailable
<1>12. Typed' /\ Kept'
  <2>1. Typed'
    BY <1>2 DEF ToldInv, Typed, shop
  <2>2. served' \subseteq Replies /\ cursor' \in Int
    BY <1>2, <1>6, <1>7, <1>9
  <2>3. Len(past') = IF phase' = "quiet" THEN t' ELSE t' + 1
    BY <1>2 DEF ToldInv, Kept, shop
  <2>4. QED
    BY <1>10, <2>1, <2>2, <2>3 DEF Kept
<1>13. Pointed'
  <2>1. \A u \in Ticks : u > t' => windows'[u] = NoWindow /\ cache'[u] = NoPacket
    BY <1>2, <1>7, <1>10 DEF ToldInv, Pointed
  <2>2. cursor' \in Never .. t' /\ windows'[t'] # NoWindow /\ cursor' = t' /\ phase' # "quiet"
    BY <1>2, <1>3, <1>7, <1>8, <1>10 DEF Never
  <2>3. file' = Saved(cursor', windows', report')
    BY <1>2
  <2>4. QED
    BY <2>1, <2>2, <2>3 DEF Pointed
<1>14. Pending'
  <2>1. \A y \in Polls : poll'[y] # AtRest => phase' = "hook"
    BY <1>2, <1>3
  <2>2. \A y \in Polls : poll'[y] \notin {AtRest, Woken} =>
          poll'[y] = [at |-> t', window |-> CurrentWindow', done |-> t', notice |-> NoticeAvailable']
    BY <1>1, <1>2, <1>10, <1>11 DEF ToldInv, Pending
  <2>3. /\ cursor' = t' /\ phase' # "quiet"
        /\ cache'[t'] = [window |-> windows'[t'], done |-> t', notice |-> NoticeAvailable']
    BY <1>2, <1>3, <1>4, <1>10, <1>11
  <2>4. QED
    BY <2>1, <2>2, <2>3 DEF Pending
<1>15. Tiled'
  <2>1. CASE windows[t] # NoWindow
    <3>1. cursor = t /\ w = windows[t]
      BY <1>1, <2>1, WindowOfHook DEF ToldInv, Pointed
    <3>2. r \in served
      BY <1>5, <3>1, ToldBefore DEF ToldInv
    <3>3. served' = served /\ windows'[t] = windows[t] /\ cursor' = cursor /\ t' = t
      BY <1>2, <1>6, <1>10, <3>1, <3>2
    <3>4. QED
      BY <3>3 DEF ToldInv, Tiled
  <2>2. CASE windows[t] = NoWindow
    <3>1. w = [from |-> cursor + 1, to |-> t] /\ cursor \in Never .. t - 1
      BY <1>1, <2>2, WindowOfHook DEF ToldInv
    <3>2. /\ r.at = t /\ r.window = w /\ w.from = cursor + 1 /\ w.to = t /\ r.done = t /\ r.right
          /\ w.from \in 0 .. t
      BY <1>5, <1>7, <3>1 DEF Never
    <3>3. \A a \in served : a.at \in 0 .. cursor /\ a.at < t /\ a.at < w.from
      BY <1>7, <3>1, <3>2 DEF ToldInv, Tiled
    <3>4. \A a \in served' : a \in served \/ a = r
      BY <1>6
    <3>5. \A a \in served' :
            /\ a.at \in 0 .. cursor' /\ a.window.from \in 0 .. a.at
            /\ a.window.to = a.at /\ a.done = a.at
            /\ a.at = t' => a.window = windows'[t']
            /\ a.right
      <4>1. ASSUME NEW a \in served
            PROVE  /\ a.at \in 0 .. t /\ a.window.from \in 0 .. a.at
                   /\ a.window.to = a.at /\ a.done = a.at /\ a.right
        <5>1. a.at \in 0 .. t
          BY <1>7, <3>1, <3>3
        <5>2. QED
          BY <5>1 DEF ToldInv, Tiled
      <4>2. QED
        BY <1>2, <1>7, <1>10, <3>2, <3>3, <3>4, <4>1
    <3>6. \A a, b \in served' : a.at = b.at => a.window = b.window
      <4>1. \A a, b \in served : a.at = b.at => a.window = b.window
        BY DEF ToldInv, Tiled
      <4>2. \A a \in served : a.at # r.at
        BY <1>7, <3>2, <3>3
      <4>3. QED
        BY <3>4, <4>1, <4>2
    <3>7. \A a, b \in served' : a.at < b.at => a.at < b.window.from
      <4>1. \A a, b \in served : a.at < b.at => a.at < b.window.from
        BY DEF ToldInv, Tiled
      <4>2. \A a \in served : a.at < r.window.from /\ ~(r.at < a.at)
        BY <1>7, <3>2, <3>3
      <4>3. ~(r.at < r.at)
        BY <1>7, <3>2
      <4>4. QED
        BY <3>4, <4>1, <4>2, <4>3
    <3>8. \A u \in 0 .. cursor' : \E a \in served' : u \in a.window.from .. a.at
      <4>1. SUFFICES ASSUME NEW u \in 0 .. t
                     PROVE  \E a \in served' : u \in a.window.from .. a.at
        BY <1>2
      <4>2. CASE u <= cursor
        <5>1. u \in 0 .. cursor
          BY <1>7, <4>2
        <5>2. PICK a \in served : u \in a.window.from .. a.at
          BY <5>1 DEF ToldInv, Tiled
        <5>3. QED
          BY <1>6, <5>2
      <4>3. CASE ~(u <= cursor)
        <5>1. u \in r.window.from .. r.at
          BY <1>7, <3>2, <4>3
        <5>2. QED
          BY <1>6, <5>1
      <4>4. QED
        BY <4>2, <4>3
    <3>9. QED
      BY <3>5, <3>6, <3>7, <3>8 DEF Tiled
  <2>3. QED
    BY <2>1, <2>2
<1>16. QED
  BY <1>12, <1>13, <1>14, <1>15 DEF ToldInv

\* The report is read while nothing is being composed.
LEMMA ReportTells ==
  ASSUME ToldInv, Prompt, ReadReport
  PROVE  ToldInv'
<1>1. /\ phase = "hook" /\ UNCHANGED <<t, phase, shop, cursor, windows, poll, served>>
      /\ cache' = [cache EXCEPT ![t] = NoPacket] /\ file' = Saved(cursor, windows, report')
      /\ \A x \in Polls : poll[x] = AtRest
  BY DEF ReadReport, Act, Composing
<1>2. cache \in [Ticks -> Packets] /\ t \in Ticks /\ NoPacket \in Packets
  BY NowTyped, AtRestTyped DEF ToldInv, Kept
<1>3. /\ cache' \in [Ticks -> Packets] /\ cache'[t] = NoPacket
      /\ \A u \in Ticks : u # t => cache'[u] = cache[u]
  BY <1>1, <1>2
<1>4. Typed' /\ Kept' /\ Tiled'
  BY <1>1, <1>3 DEF ToldInv, Typed, Kept, Tiled, shop
<1>5. Pointed'
  BY <1>1, <1>3 DEF ToldInv, Pointed
<1>6. Pending'
  BY <1>1, <1>3 DEF Pending
<1>7. QED
  BY <1>4, <1>5, <1>6 DEF ToldInv

\* Nothing is being composed when a hook closes.
LEMMA CloseTells ==
  ASSUME ToldInv, Prompt, CloseHook
  PROVE  ToldInv'
<1>1. /\ phase = "hook" /\ phase' = "closed" /\ UNCHANGED <<t, shop, told, poll, served>>
      /\ \A x \in Polls : poll[x] = AtRest
  BY DEF CloseHook, Composing
<1>2. NoticeAvailable' = NoticeAvailable
  BY <1>1 DEF told, NoticeAvailable
<1>3. Typed' /\ Kept' /\ Tiled' /\ Pointed'
  BY <1>1 DEF ToldInv, Typed, Kept, Tiled, Pointed, shop, told
<1>4. Pending'
  BY <1>1, <1>2 DEF ToldInv, Pending, told
<1>5. QED
  BY <1>3, <1>4 DEF ToldInv

\* A new tick has no window and nothing in the cache.
LEMMA ClockTells ==
  ASSUME ToldInv, Clock
  PROVE  ToldInv'
<1>1. /\ phase = "closed" /\ t < LastTick /\ t' = t + 1 /\ phase' = "quiet"
      /\ UNCHANGED <<shop, told, poll, served>>
  BY DEF Clock
<1>2. t \in Nat /\ t + 1 \in Ticks /\ Ticks \subseteq Nat /\ cursor \in Never .. t
  BY <1>1, NowTyped, TicksTyped DEF ToldInv, Pointed
<1>3. \A x \in Polls : poll[x] = AtRest
  BY <1>1 DEF ToldInv, Pending
<1>4. windows[t + 1] = NoWindow /\ cache[t + 1] = NoPacket
  BY <1>2 DEF ToldInv, Pointed
<1>5. Typed' /\ Kept'
  BY <1>1, <1>2, TicksTyped DEF ToldInv, Typed, Kept, shop, told
<1>6. Pointed'
  <2>1. cursor \in Never .. t + 1 /\ cursor # t + 1
    BY <1>2 DEF Never
  <2>2. \A u \in Ticks : u > t + 1 => windows[u] = NoWindow /\ cache[u] = NoPacket
    BY <1>2 DEF ToldInv, Pointed
  <2>3. file = Saved(cursor, windows, report)
    BY DEF ToldInv, Pointed
  <2>4. QED
    BY <1>1, <1>4, <2>1, <2>2, <2>3 DEF Pointed, told
<1>7. Pending'
  BY <1>1, <1>3, <1>4 DEF Pending, told
<1>8. Tiled'
  <2>1. \A a \in served : a.at # t + 1
    BY <1>2 DEF ToldInv, Tiled, Never
  <2>2. QED
    BY <1>1, <2>1 DEF ToldInv, Tiled, told
<1>9. QED
  BY <1>5, <1>6, <1>7, <1>8 DEF ToldInv

\* A transition tells nothing.
LEMMA TransitionTells ==
  ASSUME ToldInv, ShopInv, Transition
  PROVE  ToldInv'
<1>1. PICK sold, outcome, fresh : Arrivals(sold, outcome, fresh)
  BY TransitionArrivals DEF ShopInv
<1>2. /\ phase = "quiet" /\ phase' # "quiet" /\ UNCHANGED <<t, told, poll, served>>
  BY DEF Transition
<1>3. Typed'
  BY TransitionTimed DEF ShopInv
<1>4. Len(past') = t' + 1
  BY <1>1, <1>2 DEF Arrivals, ToldInv, Kept
<1>5. \A x \in Polls : poll[x] = AtRest
  BY <1>2 DEF ToldInv, Pending
<1>6. cache[t] = NoPacket
  BY <1>2 DEF ToldInv, Pending
<1>7. Kept' /\ Tiled'
  BY <1>2, <1>4 DEF ToldInv, Kept, Tiled, told
<1>8. Pointed'
  BY <1>2 DEF ToldInv, Pointed, told
<1>9. Pending'
  BY <1>2, <1>5, <1>6 DEF Pending, told
<1>10. QED
  BY <1>3, <1>7, <1>8, <1>9 DEF ToldInv

\* After a crash the file has what a hook needs: the cursor, the report and the
\* latest window.
LEMMA CrashTells ==
  ASSUME ToldInv, Crash
  PROVE  ToldInv'
<1>1. /\ cursor' = file.cursor /\ report' = file.report
      /\ windows' = [u \in Ticks |-> IF u = file.at THEN file.window ELSE NoWindow]
      /\ cache' = [u \in Ticks |-> NoPacket] /\ poll' = [x \in Polls |-> AtRest]
      /\ UNCHANGED <<t, phase, shop, file, served>>
  BY DEF Crash
<1>2. PICK l : l = Latest(windows)
  OBVIOUS
<1>3. file = Saved(cursor, windows, report)
  BY DEF ToldInv, Pointed
<1>4. /\ file.cursor = cursor /\ file.report = report /\ file.at = l
      /\ file.window = IF l = Never THEN NoWindow ELSE windows[l]
  BY <1>2, <1>3 DEF Saved
<1>5. \A u \in Ticks : windows'[u] = IF u = l THEN windows[l] ELSE NoWindow
  BY <1>1, <1>4, TicksTyped
<1>6. cursor' = cursor /\ report' = report
  BY <1>1, <1>4
<1>7. /\ t \in Nat /\ t \in Ticks /\ windows \in [Ticks -> Windows] /\ cursor \in Int
  BY NowTyped DEF ToldInv, Kept
<1>8. \/ l = Never /\ \A u \in Ticks : windows[u] = NoWindow
      \/ /\ l \in Ticks /\ windows[l] # NoWindow
         /\ \A v \in Ticks : v > l => windows[v] = NoWindow
  BY <1>2, LatestSeen
<1>9. Latest(windows') = l
  <2>1. CASE l = Never /\ \A u \in Ticks : windows[u] = NoWindow
    <3>1. \A u \in Ticks : windows'[u] = NoWindow
      BY <1>5, <2>1, TicksTyped
    <3>2. QED
      BY <2>1, <3>1, LatestSeen
  <2>2. CASE l \in Ticks /\ windows[l] # NoWindow
    <3>1. windows'[l] # NoWindow /\ \A v \in Ticks : v > l => windows'[v] = NoWindow
      BY <1>5, <2>2, TicksTyped
    <3>2. QED
      BY <2>2, <3>1, LatestUnique
  <2>3. QED
    BY <1>8, <2>1, <2>2
<1>10. \A u \in Ticks : u >= t => windows'[u] = windows[u]
  <2>1. ASSUME NEW u \in Ticks, u >= t, u # l PROVE windows[u] = NoWindow
    <3>1. CASE l \in Ticks /\ windows[l] # NoWindow
      <4>1. ~(l > t)
        BY <3>1 DEF ToldInv, Pointed
      <4>2. u > l
        BY <1>7, <2>1, <3>1, <4>1, TicksTyped
      <4>3. QED
        BY <1>8, <3>1, <4>2, TicksTyped
    <3>2. QED
      BY <1>8, <3>1
  <2>2. QED
    BY <1>5, <2>1
<1>11. windows' \in [Ticks -> Windows]
  <2>1. \A u \in Ticks : windows'[u] \in Windows
    BY <1>5, <1>7, AtRestTyped
  <2>2. windows' = [u \in Ticks |-> windows'[u]]
    BY <1>1
  <2>3. QED
    BY <2>1, <2>2
<1>12. Typed' /\ Kept'
  <2>1. Typed'
    BY <1>1 DEF ToldInv, Typed, shop
  <2>2. cache' \in [Ticks -> Packets] /\ poll' \in [Polls -> Requests]
    BY <1>1, AtRestTyped
  <2>3. /\ Len(past') = IF phase' = "quiet" THEN t' ELSE t' + 1
        /\ served' \subseteq Replies /\ cursor' \in Int
    BY <1>1, <1>6 DEF ToldInv, Kept, shop
  <2>4. QED
    BY <1>11, <2>1, <2>2, <2>3 DEF Kept
<1>13. Pointed'
  <2>1. file' = Saved(cursor', windows', report')
    <3>1. l # Never => windows'[l] = windows[l]
      BY <1>5, <1>8
    <3>2. Saved(cursor', windows', report')
            = [cursor |-> cursor, at |-> l, report |-> report,
               window |-> IF l = Never THEN NoWindow ELSE windows[l]]
      BY <1>6, <1>9, <3>1 DEF Saved
    <3>3. Saved(cursor, windows, report)
            = [cursor |-> cursor, at |-> l, report |-> report,
               window |-> IF l = Never THEN NoWindow ELSE windows[l]]
      BY <1>2 DEF Saved
    <3>4. QED
      BY <1>1, <1>3, <3>2, <3>3
  <2>2. \A u \in Ticks : u > t => windows'[u] = NoWindow /\ cache'[u] = NoPacket
    BY <1>1, <1>7, <1>10, TicksTyped DEF ToldInv, Pointed
  <2>3. windows'[t] = windows[t]
    BY <1>7, <1>10
  <2>4. QED
    BY <1>1, <1>6, <2>1, <2>2, <2>3 DEF ToldInv, Pointed
<1>14. Pending'
  <2>1. \A x \in Polls : poll'[x] = AtRest
    BY <1>1
  <2>2. cache'[t'] = NoPacket
    BY <1>1, <1>7
  <2>3. QED
    BY <2>1, <2>2 DEF Pending
<1>15. Tiled'
  <2>1. windows'[t] = windows[t]
    BY <1>7, <1>10
  <2>2. QED
    BY <1>1, <1>6, <2>1 DEF ToldInv, Tiled
<1>16. QED
  BY <1>12, <1>13, <1>14, <1>15 DEF ToldInv

\* Actions on the shelf tell nothing.
LEMMA SameTold ==
  ASSUME ToldInv, Typed', UNCHANGED <<t, phase, past, told, poll, served>>
  PROVE  ToldInv'
<1>1. CurrentWindow' = CurrentWindow /\ NoticeAvailable' = NoticeAvailable
  BY DEF told, CurrentWindow, ChangeWindow, NoticeAvailable
<1>2. Kept' /\ Pointed' /\ Tiled'
  BY DEF ToldInv, Kept, Pointed, Tiled, told
<1>3. Pending'
  BY <1>1 DEF ToldInv, Pending, told
<1>4. QED
  BY <1>2, <1>3 DEF ToldInv

\* Nothing is told at first.
LEMMA ToldInit ==
  ASSUME Init
  PROVE  ToldInv
<1>1. Typed
  BY ShopInit DEF ShopInv
<1>2. /\ t = 0 /\ phase = "quiet" /\ past = <<>> /\ cursor = Never /\ report = Never
      /\ windows = [u \in Ticks |-> NoWindow] /\ cache = [u \in Ticks |-> NoPacket]
      /\ file = [cursor |-> Never, at |-> Never, window |-> NoWindow, report |-> Never]
      /\ poll = [x \in Polls |-> AtRest] /\ served = {}
  BY DEF Init
<1>3. t \in Ticks
  BY <1>1, NowTyped
<1>4. Kept
  BY <1>2, AtRestTyped DEF Kept, Never
<1>5. Pointed
  <2>1. Latest(windows) = Never
    BY <1>2, LatestSeen
  <2>2. Saved(cursor, windows, report) = file
    BY <1>2, <2>1 DEF Saved
  <2>3. QED
    BY <1>2, <1>3, <2>2 DEF Pointed, Never
<1>6. Pending
  BY <1>2, <1>3 DEF Pending
<1>7. Tiled
  BY <1>2 DEF Tiled, Never
<1>8. QED
  BY <1>1, <1>4, <1>5, <1>6, <1>7 DEF ToldInv

\* Every step keeps the invariant of the observations.
LEMMA ToldStep ==
  ASSUME ToldInv, ShopInv, Prompt, [Next]_vars
  PROVE  ToldInv'
<1>1. Typed'
  BY ShopStep DEF ShopInv
<1>2. CASE Transition
  BY <1>2, TransitionTells
<1>3. ASSUME NEW p \in Products, NEW price \in Prices,
             ListProduct(p, price) \/ AdjustPrice(p, price)
      PROVE  ToldInv'
  BY <1>1, <1>3, SameTold DEF ListProduct, AdjustPrice, Act
<1>4. ASSUME NEW p \in Products, DelistProduct(p) PROVE ToldInv'
  BY <1>1, <1>4, SameTold DEF DelistProduct, Act
<1>5. ASSUME NEW x \in Polls, Observe(x) \/ Look(x) \/ Serve(x) PROVE ToldInv'
  BY <1>5, ObserveTells, LookTells, ServeTells
<1>6. CASE ReadReport
  BY <1>6, ReportTells
<1>7. CASE CloseHook
  BY <1>7, CloseTells
<1>8. CASE Clock
  BY <1>8, ClockTells
<1>9. CASE Crash
  BY <1>9, CrashTells
<1>10. CASE UNCHANGED vars
  BY <1>1, <1>10, SameTold DEF vars, shop
<1>11. QED
  BY <1>2, <1>3, <1>4, <1>5, <1>6, <1>7, <1>8, <1>9, <1>10 DEF Next

\* The invariant of the observations.
LEMMA ToldKept == Prompt => (Spec => []ToldInv)
<1> SUFFICES ASSUME Prompt PROVE Spec => []ToldInv
  OBVIOUS
<1>1. Init => ToldInv
  BY ToldInit
<1>2. ToldInv /\ ShopInv /\ [Next]_vars => ToldInv'
  BY ToldStep
<1>3. QED
  BY <1>1, <1>2, ShopKept, PTL DEF Spec

\* Windows that tile the ticks tell each of them once.
LEMMA TiledOnce ==
  ASSUME ToldInv
  PROVE  ChangesReportedOnce
<1>1. \A a, b \in served : a.at = b.at => a.window = b.window
  BY DEF ToldInv, Tiled
<1>2. ASSUME NEW u \in 0 .. cursor PROVE Cardinality(Answers(u)) = 1
  <2>1. PICK a \in served : u \in a.window.from .. a.at
    BY DEF ToldInv, Tiled
  <2>2. a.at \in 0 .. cursor /\ a.window.to = a.at /\ a.done = a.at /\ cursor \in Int
    BY DEF ToldInv, Tiled, Kept
  <2>3. u \in a.window.from .. a.window.to /\ u <= a.done
    BY <2>1, <2>2
  <2>4. ASSUME NEW b \in served, u \in b.window.from .. b.window.to, u <= b.done
        PROVE  b.window = a.window
    <3>1. b.at \in 0 .. cursor /\ b.window.to = b.at /\ u <= b.at /\ b.window.from <= u
      BY <2>4 DEF ToldInv, Tiled
    <3>2. a.window.from <= u /\ u <= a.at
      BY <2>1
    <3>3. ~(a.at < b.window.from) /\ ~(b.at < a.window.from)
      <4>1. a.window.from \in Int /\ b.window.from \in Int
        BY DEF ToldInv, Tiled
      <4>2. QED
        BY <2>2, <3>1, <3>2, <4>1
    <3>4. ~(a.at < b.at) /\ ~(b.at < a.at)
      BY <3>3 DEF ToldInv, Tiled
    <3>5. a.at = b.at
      BY <2>2, <3>1, <3>4
    <3>6. QED
      BY <1>1, <3>5
  <2>5. Answers(u) = {a.window}
    BY <2>3, <2>4 DEF Answers
  <2>6. QED
    BY <2>5, FS_Singleton
<1>3. QED
  BY <1>1, <1>2 DEF ChangesReportedOnce

\* The agent is told of what happened at each tick in exactly one window, with
\* the cache, restarts and concurrent requests (observation.py, ObservationState),
\* as long as a hook stays open for what is being composed.
THEOREM ChangesAreReportedOnce == Prompt => (Spec => []ChangesReportedOnce)
<1> SUFFICES ASSUME Prompt PROVE Spec => []ChangesReportedOnce
  OBVIOUS
<1>1. ToldInv => ChangesReportedOnce
  BY TiledOnce
<1>2. Spec => []ToldInv
  BY ToldKept
<1>3. QED
  BY <1>1, <1>2, PTL

\* Under the same condition an observation offers the daily report exactly when
\* it has not been read (the first part of AnswersTrue).
THEOREM NoticesAreTrue == Prompt => (Spec => []NoticeTrue)
<1> SUFFICES ASSUME Prompt PROVE Spec => []NoticeTrue
  OBVIOUS
<1>1. ToldInv => NoticeTrue
  BY DEF ToldInv, Tiled, NoticeTrue
<1>2. Spec => []ToldInv
  BY ToldKept
<1>3. QED
  BY <1>1, <1>2, PTL

-----------------------------------------------------------------------------
(* The log and the past.                                                   *)

\* The row of an order that tells its status at a tick: the last one up to then.
Tells(m, i, u) ==
  /\ m \in log /\ m[1] = i /\ m[2] <= u
  /\ \A r \in log : r[1] = i /\ r[2] <= u => r = m \/ Before(r, m)

\* The log is of orders and ticks there are.  At each tick that was committed the
\* orders with a status then are those whose log had begun, and the status is
\* what the log tells; the last entry of the past is the table.
LogInv ==
  /\ Len(past) = IF phase = "quiet" THEN t ELSE t + 1
  /\ \A r \in log : r[1] \in Numbers /\ r[2] \in 0 .. Committed /\ r[3] \in Statuses
  /\ \A u \in 0 .. Committed : \A i \in Numbers :
       IF i \in DOMAIN past[u + 1] THEN \E m \in log : Tells(m, i, u) /\ m[3] = past[u + 1][i]
       ELSE \A r \in log : r[1] = i => r[2] > u
  /\ \A i \in Numbers : past # <<>> /\ i \in DOMAIN past[Len(past)] /\ past[Len(past)][i] = orders[i].status
  /\ \A u \in 0 .. Committed : DOMAIN past[u + 1] \subseteq Numbers

\* Prices, shelf and report are as the tools leave them, and no order is from
\* before the start.
BoundInv ==
  /\ \A i \in Numbers : orders[i].t >= 0
  /\ \A p \in Listed : shelf[p].price \in Prices
  /\ Cardinality(Listed) <= MaxActive
  /\ {report, file.report} \subseteq ReportDays \cup {Never}

\* A status has a rank.
LEMMA RankTyped == \A s \in Statuses : Rank(s) \in Int
BY DEF Rank

\* The order of the rows is strict.
LEMMA BeforeStrict ==
  ASSUME NEW q, NEW r, q[2] \in Int, r[2] \in Int, q[3] \in Statuses, r[3] \in Statuses, Before(q, r)
  PROVE  /\ ~Before(r, q) /\ q # r
         /\ ~(r[2] < q[2] \/ (r[2] = q[2] /\ Rank(r[3]) <= Rank(q[3])))
BY RankTyped DEF Before

\* What an order goes through in one tick ends with the highest rank.
LEMMA PathRanks ==
  ASSUME NEW s \in Statuses, NEW q \in Paths(s), q # <<>>
  PROVE  /\ Last(q) \in ToSet(q)
         /\ \A x \in ToSet(q) : x \in Statuses /\ (x = Last(q) \/ Rank(x) < Rank(Last(q)))
<1>1. q \in {<<"late">>, <<"shipped">>, <<"late", "shipped">>, <<"delivered">>, <<"cancelled">>, <<"settled_normal">>}
  BY DEF Paths
<1>2. ASSUME NEW x \in Statuses, q = <<x>>
      PROVE  /\ Last(q) \in ToSet(q)
             /\ \A y \in ToSet(q) : y \in Statuses /\ (y = Last(q) \/ Rank(y) < Rank(Last(q)))
  <2>1. Len(q) = 1 /\ q[1] = x /\ DOMAIN q = {1}
    BY <1>2
  <2>2. Last(q) = x /\ ToSet(q) = {x}
    BY <2>1 DEF Last, ToSet
  <2>3. QED
    BY <2>2
<1>3. ASSUME q = <<"late", "shipped">>
      PROVE  /\ Last(q) \in ToSet(q)
             /\ \A y \in ToSet(q) : y \in Statuses /\ (y = Last(q) \/ Rank(y) < Rank(Last(q)))
  <2>1. Len(q) = 2 /\ q[1] = "late" /\ q[2] = "shipped" /\ DOMAIN q = {1, 2}
    BY <1>3
  <2>2. Last(q) = "shipped" /\ ToSet(q) = {"late", "shipped"}
    BY <2>1 DEF Last, ToSet
  <2>3. Rank("late") < Rank("shipped")
    BY DEF Rank
  <2>4. QED
    BY <2>2, <2>3 DEF Statuses
<1>4. {"late", "shipped", "delivered", "cancelled", "settled_normal"} \subseteq Statuses
  BY DEF Statuses
<1>5. QED
  BY <1>1, <1>2, <1>3, <1>4

\* What a transition does to the log: new rows are of this tick, and the last of an
\* order, if it has any, tells its new status.
LogGrows ==
  /\ log \subseteq log'
  /\ \A r \in log' \ log : r[1] \in Numbers' /\ r[2] = t /\ r[3] \in Statuses
  /\ \A i \in Numbers' :
       \/ /\ i \in Numbers /\ orders'[i].status = orders[i].status
          /\ \A r \in log' \ log : r[1] # i
       \/ \E m \in log' : /\ m[1] = i /\ m[2] = t /\ m[3] = orders'[i].status
                          /\ \A r \in log' \ log : r[1] = i => r = m \/ Before(r, m)
  /\ Numbers \subseteq Numbers'
  /\ past' = Append(past, [i \in Numbers' |-> orders'[i].status])

\* A function on 1 .. n with values in S is a list of elements of S.
LEMMA ListByIndex ==
  ASSUME NEW n \in Nat, NEW S, NEW f, f = [i \in 1 .. n |-> f[i]], \A i \in 1 .. n : f[i] \in S
  PROVE  f \in Seq(S)
<1>1. [i \in 1 .. n |-> f[i]] \in Seq(S)
  OBVIOUS
<1>2. QED
  BY <1>1

\* It does nothing else.
LEMMA TransitionLogs ==
  ASSUME Typed, Timed, \A r \in log : r[2] < t, Transition
  PROVE  LogGrows
<1>1. PICK sold \in SUBSET Listed :
        \E outcome \in [sold -> Outcomes],
           path \in [Numbers -> UNION {Paths(orders[i].status) : i \in Numbers}] :
          LET fresh == SetToSeq(sold)
              Row(i) == Len(orders) + i
              moved == [i \in Numbers |->
                          IF path[i] = <<>> THEN orders[i]
                          ELSE [orders[i] EXCEPT !.status = Last(path[i])]]
              arrived == [i \in DOMAIN fresh |->
                            [product |-> fresh[i], t |-> t, status |-> outcome[fresh[i]],
                             activation |-> activation[fresh[i]]]]
          IN /\ Len(orders) + Cardinality(sold) <= OrderBound
             /\ \A i \in Numbers : path[i] \in Paths(orders[i].status)
             /\ orders' = moved \o arrived
             /\ log' = log \cup (UNION {{<<i, t, s>> : s \in ToSet(path[i])} : i \in Numbers})
                           \cup {<<Row(i), t, outcome[fresh[i]]>> : i \in DOMAIN fresh}
             /\ shelf' = Booked(outcome)
             /\ past' = Append(past, [i \in 1 .. Len(orders') |-> orders'[i].status])
  BY DEF Transition
<1>2. PICK outcome \in [sold -> Outcomes],
           path \in [Numbers -> UNION {Paths(orders[i].status) : i \in Numbers}] :
        LET fresh == SetToSeq(sold)
            Row(i) == Len(orders) + i
            moved == [i \in Numbers |->
                        IF path[i] = <<>> THEN orders[i]
                        ELSE [orders[i] EXCEPT !.status = Last(path[i])]]
            arrived == [i \in DOMAIN fresh |->
                          [product |-> fresh[i], t |-> t, status |-> outcome[fresh[i]],
                           activation |-> activation[fresh[i]]]]
        IN /\ \A i \in Numbers : path[i] \in Paths(orders[i].status)
           /\ orders' = moved \o arrived
           /\ log' = log \cup (UNION {{<<i, t, s>> : s \in ToSet(path[i])} : i \in Numbers})
                         \cup {<<Row(i), t, outcome[fresh[i]]>> : i \in DOMAIN fresh}
           /\ past' = Append(past, [i \in 1 .. Len(orders') |-> orders'[i].status])
  BY <1>1
<1>3. PICK fresh : fresh = SetToSeq(sold)
  OBVIOUS
<1>4. PICK moved : moved = [i \in Numbers |->
                              IF path[i] = <<>> THEN orders[i]
                              ELSE [orders[i] EXCEPT !.status = Last(path[i])]]
  OBVIOUS
<1>5. PICK arrived : arrived = [i \in DOMAIN fresh |->
                                  [product |-> fresh[i], t |-> t, status |-> outcome[fresh[i]],
                                   activation |-> activation[fresh[i]]]]
  OBVIOUS
<1>6. /\ \A i \in Numbers : path[i] \in Paths(orders[i].status)
      /\ orders' = moved \o arrived
      /\ log' = log \cup (UNION {{<<i, t, s>> : s \in ToSet(path[i])} : i \in Numbers})
                    \cup {<<Len(orders) + i, t, outcome[fresh[i]]>> : i \in DOMAIN fresh}
      /\ past' = Append(past, [i \in 1 .. Len(orders') |-> orders'[i].status])
  BY <1>2, <1>3, <1>4, <1>5, Zenon
<1> HIDE <1>1
<1>7. IsFiniteSet(sold) /\ sold \subseteq Products
  <2>1. sold \subseteq Products
    BY DEF Listed
  <2>2. QED
    BY <2>1, FS_Subset, StorefrontAssumption
<1>8. /\ Cardinality(sold) \in Nat /\ fresh \in [1 .. Cardinality(sold) -> sold]
  BY <1>3, <1>7, SetSequence
<1>9. Len(orders) \in Nat /\ \A i \in Numbers : orders[i] \in Rows /\ orders[i].status \in Statuses
  <2>1. Len(orders) \in Nat /\ \A i \in Numbers : orders[i] \in Rows
    BY DEF Typed, Numbers
  <2>2. \A r \in Rows : r.status \in Statuses
    BY DEF Rows
  <2>3. QED
    BY <2>1, <2>2
<1>10. \A i \in Numbers : moved[i].status = IF path[i] = <<>> THEN orders[i].status ELSE Last(path[i])
  <2> SUFFICES ASSUME NEW i \in Numbers
               PROVE  moved[i].status = IF path[i] = <<>> THEN orders[i].status ELSE Last(path[i])
    OBVIOUS
  <2>1. CASE path[i] = <<>>
    BY <2>1, <1>4
  <2>2. CASE path[i] # <<>>
    <3>1. moved[i] = [orders[i] EXCEPT !.status = Last(path[i])]
      BY <2>2, <1>4
    <3>2. QED
      BY <2>2, <3>1, <1>9 DEF Rows
  <2>3. QED
    BY <2>1, <2>2
<1>11. /\ Len(moved) = Len(orders) /\ Len(arrived) = Cardinality(sold)
       /\ DOMAIN moved = 1 .. Len(orders) /\ DOMAIN arrived = 1 .. Cardinality(sold)
  BY <1>4, <1>5, <1>8, <1>9 DEF Numbers
<1>12. \A i \in 1 .. Cardinality(sold) : arrived[i].status = outcome[fresh[i]] /\ outcome[fresh[i]] \in Statuses
  <2> SUFFICES ASSUME NEW i \in 1 .. Cardinality(sold)
               PROVE  arrived[i].status = outcome[fresh[i]] /\ outcome[fresh[i]] \in Statuses
    OBVIOUS
  <2>1. fresh[i] \in sold
    BY <1>8
  <2>2. outcome[fresh[i]] \in Statuses
    BY <2>1 DEF Outcomes, Failures, Statuses
  <2>3. QED
    BY <2>2, <1>5, <1>11
<1>13. Len(orders') = Len(orders) + Cardinality(sold) /\ Numbers' = 1 .. Len(orders) + Cardinality(sold)
  <2> DEFINE U == {moved[i] : i \in 1 .. Len(orders)} \cup {arrived[i] : i \in 1 .. Cardinality(sold)}
  <2>1. moved = [i \in 1 .. Len(orders) |-> moved[i]] /\ \A i \in 1 .. Len(orders) : moved[i] \in U
    <3>1. moved = [i \in DOMAIN moved |-> moved[i]]
      BY <1>4
    <3>2. QED
      BY <1>11, <3>1
  <2>2. arrived = [i \in 1 .. Cardinality(sold) |-> arrived[i]]
    <3>1. arrived = [i \in DOMAIN arrived |-> arrived[i]]
      BY <1>5
    <3>2. QED
      BY <1>11, <3>1
  <2>3. \A i \in 1 .. Cardinality(sold) : arrived[i] \in U
    OBVIOUS
  <2> HIDE DEF U
  <2>4. moved \in Seq(U) /\ arrived \in Seq(U)
    <3>1. Len(orders) \in Nat /\ Cardinality(sold) \in Nat
      BY <1>8, <1>9
    <3>2. moved \in Seq(U)
      BY <2>1, <3>1, ListByIndex
    <3>3. arrived \in Seq(U)
      BY <2>2, <2>3, <3>1, ListByIndex
    <3>4. QED
      BY <3>2, <3>3
  <2>5. Len(moved \o arrived) = Len(moved) + Len(arrived)
    BY <2>4, ConcatProperties
  <2>6. QED
    BY <1>6, <1>11, <2>5 DEF Numbers
<1>14. /\ \A i \in Numbers : i \in Numbers' /\ orders'[i].status = moved[i].status
       /\ \A i \in 1 .. Cardinality(sold) : /\ Len(orders) + i \in Numbers'
                                            /\ orders'[Len(orders) + i].status = outcome[fresh[i]]
  <2>1. \A i \in 1 .. Len(orders) + Cardinality(sold) :
          orders'[i] = IF i <= Len(orders) THEN moved[i] ELSE arrived[i - Len(orders)]
    BY <1>6, <1>8, <1>9, <1>11
  <2>2. ASSUME NEW i \in Numbers PROVE i \in Numbers' /\ orders'[i].status = moved[i].status
    <3>1. i \in 1 .. Len(orders) + Cardinality(sold) /\ i <= Len(orders)
      BY <1>8, <1>9 DEF Numbers
    <3>2. QED
      BY <1>13, <2>1, <3>1
  <2>3. ASSUME NEW i \in 1 .. Cardinality(sold)
        PROVE  Len(orders) + i \in Numbers' /\ orders'[Len(orders) + i].status = outcome[fresh[i]]
    <3>1. Len(orders) + i \in 1 .. Len(orders) + Cardinality(sold) /\ ~(Len(orders) + i <= Len(orders))
      BY <1>8, <1>9
    <3>2. Len(orders) + i - Len(orders) = i
      BY <1>9
    <3>3. orders'[Len(orders) + i] = arrived[i]
      BY <2>1, <3>1, <3>2
    <3>4. QED
      BY <1>12, <1>13, <3>1, <3>3
  <2>4. QED
    BY <2>2, <2>3
<1> DEFINE Steps == UNION {{<<i, t, s>> : s \in ToSet(path[i])} : i \in Numbers}
           Starts == {<<Len(orders) + i, t, outcome[fresh[i]]>> : i \in 1 .. Cardinality(sold)}
<1>15. log' = (log \cup Steps) \cup Starts
  <2>1. DOMAIN fresh = 1 .. Cardinality(sold)
    BY <1>8
  <2>2. QED
    BY <1>6, <2>1
<1>16. /\ \A r \in Steps : \E i \in Numbers : \E s \in ToSet(path[i]) : r = <<i, t, s>>
       /\ \A i \in Numbers : \A s \in ToSet(path[i]) : <<i, t, s>> \in Steps
       /\ \A r \in Starts : \E i \in 1 .. Cardinality(sold) : r = <<Len(orders) + i, t, outcome[fresh[i]]>>
       /\ \A i \in 1 .. Cardinality(sold) : <<Len(orders) + i, t, outcome[fresh[i]]>> \in Starts
  <2>1. \A r \in Steps : \E i \in Numbers : r \in {<<i, t, s>> : s \in ToSet(path[i])}
    OBVIOUS
  <2>2. \A i \in Numbers : {<<i, t, s>> : s \in ToSet(path[i])} \subseteq Steps
    OBVIOUS
  <2> HIDE DEF Steps
  <2>3. QED
    BY <2>1, <2>2
<1> HIDE DEF Steps, Starts
<1>17. \A r \in log' \ log :
         \/ \E i \in Numbers : \E s \in ToSet(path[i]) : r = <<i, t, s>>
         \/ \E i \in 1 .. Cardinality(sold) : r = <<Len(orders) + i, t, outcome[fresh[i]]>>
  BY <1>15, <1>16
<1>18. /\ \A i \in Numbers : \A s \in ToSet(path[i]) : <<i, t, s>> \in log'
       /\ \A i \in 1 .. Cardinality(sold) : <<Len(orders) + i, t, outcome[fresh[i]]>> \in log'
  BY <1>15, <1>16
<1>19. \A i \in Numbers : path[i] # <<>> =>
         /\ Last(path[i]) \in ToSet(path[i])
         /\ \A x \in ToSet(path[i]) : x \in Statuses /\ (x = Last(path[i]) \/ Rank(x) < Rank(Last(path[i])))
  BY <1>6, <1>9, PathRanks
<1>20. \A i \in Numbers : path[i] = <<>> => ToSet(path[i]) = {}
  <2>1. ToSet(<<>>) = {}
    BY DEF ToSet
  <2>2. QED
    BY <2>1
<1>21. log \subseteq log' /\ Numbers \subseteq Numbers'
  BY <1>6, <1>14
<1>22. ASSUME NEW r \in log' \ log PROVE r[1] \in Numbers' /\ r[2] = t /\ r[3] \in Statuses
  <2>1. ASSUME NEW i \in Numbers, NEW s \in ToSet(path[i]), r = <<i, t, s>>
        PROVE  r[1] \in Numbers' /\ r[2] = t /\ r[3] \in Statuses
    <3>1. path[i] # <<>>
      BY <1>20, <2>1
    <3>2. s \in Statuses /\ r[1] = i /\ r[2] = t /\ r[3] = s
      BY <1>19, <2>1, <3>1
    <3>3. QED
      BY <1>14, <3>2
  <2>2. ASSUME NEW i \in 1 .. Cardinality(sold), r = <<Len(orders) + i, t, outcome[fresh[i]]>>
        PROVE  r[1] \in Numbers' /\ r[2] = t /\ r[3] \in Statuses
    <3>1. r[1] = Len(orders) + i /\ r[2] = t /\ r[3] = outcome[fresh[i]]
      BY <2>2
    <3>2. QED
      BY <1>12, <1>14, <3>1
  <2>3. QED
    BY <1>17, <2>1, <2>2
<1>23. ASSUME NEW i \in Numbers'
       PROVE  \/ /\ i \in Numbers /\ orders'[i].status = orders[i].status
                 /\ \A r \in log' \ log : r[1] # i
              \/ \E m \in log' : /\ m[1] = i /\ m[2] = t /\ m[3] = orders'[i].status
                                 /\ \A r \in log' \ log : r[1] = i => r = m \/ Before(r, m)
  <2>1. CASE i \in Numbers /\ path[i] = <<>>
    <3>1. ASSUME NEW r \in log' \ log PROVE r[1] # i
      <4>1. ASSUME NEW j \in Numbers, NEW s \in ToSet(path[j]), r = <<j, t, s>> PROVE r[1] # i
        <5>1. r[1] = j /\ j # i
          BY <1>20, <2>1, <4>1
        <5>2. QED
          BY <5>1
      <4>2. ASSUME NEW j \in 1 .. Cardinality(sold), r = <<Len(orders) + j, t, outcome[fresh[j]]>> PROVE r[1] # i
        <5>1. r[1] = Len(orders) + j
          BY <4>2
        <5>2. i <= Len(orders)
          BY <1>9, <2>1 DEF Numbers
        <5>3. QED
          BY <1>8, <1>9, <5>1, <5>2
      <4>3. QED
        BY <1>17, <4>1, <4>2
    <3>2. QED
      BY <2>1, <3>1, <1>10, <1>14
  <2>2. CASE i \in Numbers /\ path[i] # <<>>
    <3> DEFINE m == <<i, t, Last(path[i])>>
    <3>1. m \in log' /\ m[1] = i /\ m[2] = t /\ m[3] = orders'[i].status
      BY <1>10, <1>14, <1>18, <1>19, <2>2
    <3>2. ASSUME NEW r \in log' \ log, r[1] = i PROVE r = m \/ Before(r, m)
      <4>1. ASSUME NEW j \in Numbers, NEW s \in ToSet(path[j]), r = <<j, t, s>> PROVE r = m \/ Before(r, m)
        <5>1. j = i /\ r[2] = t /\ r[3] = s
          BY <3>2, <4>1
        <5>2. s = Last(path[i]) \/ Rank(s) < Rank(Last(path[i]))
          BY <1>19, <2>2, <4>1, <5>1
        <5>3. QED
          BY <4>1, <5>1, <5>2 DEF Before
      <4>2. ASSUME NEW j \in 1 .. Cardinality(sold), r = <<Len(orders) + j, t, outcome[fresh[j]]>> PROVE FALSE
        <5>1. r[1] = Len(orders) + j
          BY <4>2
        <5>2. i <= Len(orders)
          BY <1>9, <2>2 DEF Numbers
        <5>3. QED
          BY <1>8, <1>9, <3>2, <5>1, <5>2
      <4>3. QED
        BY <1>17, <4>1, <4>2
    <3> HIDE DEF m
    <3>3. QED
      BY <3>1, <3>2
  <2>3. CASE i \notin Numbers
    <3>1. PICK k \in 1 .. Cardinality(sold) : i = Len(orders) + k
      <4>1. i - Len(orders) \in 1 .. Cardinality(sold) /\ i = Len(orders) + (i - Len(orders))
        BY <1>8, <1>9, <1>13, <2>3 DEF Numbers
      <4>2. QED
        BY <4>1
    <3> DEFINE m == <<Len(orders) + k, t, outcome[fresh[k]]>>
    <3>2. m \in log' /\ m[1] = i /\ m[2] = t /\ m[3] = orders'[i].status
      BY <1>14, <1>18, <3>1
    <3>3. ASSUME NEW r \in log' \ log, r[1] = i PROVE r = m
      <4>1. ASSUME NEW j \in Numbers, NEW s \in ToSet(path[j]), r = <<j, t, s>> PROVE FALSE
        BY <2>3, <3>3, <4>1
      <4>2. ASSUME NEW j \in 1 .. Cardinality(sold), r = <<Len(orders) + j, t, outcome[fresh[j]]>> PROVE r = m
        <5>1. Len(orders) + j = Len(orders) + k
          BY <3>1, <3>3, <4>2
        <5>2. j = k
          BY <1>8, <1>9, <5>1
        <5>3. QED
          BY <4>2, <5>2
      <4>3. QED
        BY <1>17, <4>1, <4>2
    <3> HIDE DEF m
    <3>4. QED
      BY <3>2, <3>3
  <2>4. QED
    BY <2>1, <2>2, <2>3
<1>24. past' = Append(past, [i \in Numbers' |-> orders'[i].status])
  BY <1>6 DEF Numbers
<1>25. QED
  BY <1>21, <1>22, <1>23, <1>24 DEF LogGrows

\* A transition records its tick.
LEMMA TransitionRecords ==
  ASSUME Typed, Timed, Divided, LogInv, Transition
  PROVE  LogInv'
<1>1. phase = "quiet" /\ phase' # "quiet" /\ t' = t /\ t \in Nat /\ Len(past) = t /\ Committed = t - 1
  BY NowTyped DEF Transition, LogInv, Committed
<1>2. \A r \in log : r[1] \in Numbers /\ r[2] \in 0 .. t - 1 /\ r[3] \in Statuses
  BY <1>1 DEF LogInv
<1>3. LogGrows
  BY <1>1, <1>2, TransitionLogs
<1> DEFINE entry == [i \in Numbers' |-> orders'[i].status]
<1>4. entry \in Seq(Statuses) /\ DOMAIN entry = Numbers' /\ \A i \in Numbers' : entry[i] = orders'[i].status
  <2>1. orders' \in Seq(Rows)
    BY TransitionTimed DEF Typed
  <2>2. Len(orders') \in Nat /\ Numbers' = 1 .. Len(orders') /\ \A i \in Numbers' : orders'[i] \in Rows
    BY <2>1 DEF Numbers
  <2>3. \A i \in Numbers' : orders'[i].status \in Statuses
    BY <2>2 DEF Rows
  <2>4. QED
    BY <2>2, <2>3
<1>5. past' = Append(past, entry)
  BY <1>3 DEF LogGrows
<1> HIDE DEF entry
<1>6. /\ past' \in Seq(Seq(Statuses)) /\ Len(past') = t + 1 /\ past'[t + 1] = entry
      /\ \A u \in 0 .. t - 1 : past'[u + 1] = past[u + 1]
  <2>1. past \in Seq(Seq(Statuses))
    BY DEF Typed
  <2>2. Len(past') = t + 1 /\ past'[t + 1] = entry /\ past' \in Seq(Seq(Statuses))
    BY <1>1, <1>4, <1>5, <2>1, AppendProperties
  <2>3. \A k \in 1 .. Len(past) : past'[k] = past[k]
    BY <1>4, <1>5, <2>1, AppendProperties
  <2>4. QED
    BY <1>1, <2>2, <2>3
<1>7. Committed' = t
  BY <1>1, <1>6 DEF Committed
<1>8. \A r \in log' : r[1] \in Numbers' /\ r[2] \in 0 .. t /\ r[3] \in Statuses
  <2>1. ASSUME NEW r \in log PROVE r[1] \in Numbers' /\ r[2] \in 0 .. t /\ r[3] \in Statuses
    BY <1>1, <1>2, <1>3 DEF LogGrows
  <2>2. ASSUME NEW r \in log' \ log PROVE r[1] \in Numbers' /\ r[2] \in 0 .. t /\ r[3] \in Statuses
    BY <1>1, <1>3 DEF LogGrows
  <2>3. QED
    BY <2>1, <2>2
<1>9. ASSUME NEW u \in 0 .. t - 1, NEW i \in Numbers'
      PROVE  IF i \in DOMAIN past'[u + 1] THEN \E m \in log' : Tells(m, i, u)' /\ m[3] = past'[u + 1][i]
             ELSE \A r \in log' : r[1] = i => r[2] > u
  <2>1. past'[u + 1] = past[u + 1] /\ u \in 0 .. Committed
    BY <1>1, <1>6
  <2>2. \A r \in log' : r \in log \/ (r[2] = t /\ r[2] > u)
    BY <1>1, <1>3 DEF LogGrows
  <2>3. CASE i \in DOMAIN past[u + 1]
    <3>1. i \in Numbers
      BY <2>1, <2>3 DEF LogInv
    <3>2. PICK m \in log : Tells(m, i, u) /\ m[3] = past[u + 1][i]
      BY <2>1, <2>3, <3>1 DEF LogInv
    <3>3. m \in log' /\ \A r \in log' : r[2] <= u => r \in log
      BY <1>1, <1>3, <2>2 DEF LogGrows
    <3>4. Tells(m, i, u)'
      BY <3>2, <3>3 DEF Tells
    <3>5. QED
      BY <2>1, <2>3, <3>2, <3>3, <3>4
  <2>4. CASE i \notin DOMAIN past[u + 1]
    <3>1. ASSUME NEW r \in log, r[1] = i PROVE r[2] > u
      <4>1. i \in Numbers
        BY <1>2, <3>1
      <4>2. QED
        BY <2>1, <2>4, <3>1, <4>1 DEF LogInv
    <3>2. QED
      BY <2>1, <2>2, <2>4, <3>1
  <2>5. QED
    BY <2>3, <2>4
<1>10. ASSUME NEW i \in Numbers'
       PROVE  \E m \in log' : Tells(m, i, t)' /\ m[3] = orders'[i].status
  <2>1. CASE /\ i \in Numbers /\ orders'[i].status = orders[i].status
             /\ \A r \in log' \ log : r[1] # i
    <3>1. past # <<>> /\ i \in DOMAIN past[t] /\ past[t][i] = orders[i].status
      BY <1>1, <2>1 DEF LogInv
    <3>2. Len(past) # 0
      <4>1. past \in Seq(Seq(Statuses))
        BY DEF Typed
      <4>2. QED
        BY <3>1, <4>1
    <3>3. t - 1 \in 0 .. Committed /\ t - 1 + 1 = t
      BY <1>1, <3>2
    <3>4. PICK m \in log : Tells(m, i, t - 1) /\ m[3] = past[t][i]
      BY <2>1, <3>1, <3>3 DEF LogInv
    <3>5. \A r \in log' : r[1] = i => r \in log /\ r[2] <= t - 1
      BY <1>2, <2>1
    <3>6. m \in log' /\ m[1] = i /\ m[2] <= t
      BY <1>1, <1>2, <1>3, <3>4 DEF LogGrows, Tells
    <3>7. Tells(m, i, t)'
      BY <1>1, <3>4, <3>5, <3>6 DEF Tells
    <3>8. QED
      BY <2>1, <3>1, <3>4, <3>6, <3>7
  <2>2. CASE \E m \in log' : /\ m[1] = i /\ m[2] = t /\ m[3] = orders'[i].status
                             /\ \A r \in log' \ log : r[1] = i => r = m \/ Before(r, m)
    <3>1. PICK m \in log' : /\ m[1] = i /\ m[2] = t /\ m[3] = orders'[i].status
                            /\ \A r \in log' \ log : r[1] = i => r = m \/ Before(r, m)
      BY <2>2
    <3>2. \A r \in log : Before(r, m)
      BY <1>1, <1>2, <3>1 DEF Before
    <3>3. Tells(m, i, t)'
      BY <1>1, <3>1, <3>2 DEF Tells
    <3>4. QED
      BY <3>1, <3>3
  <2>3. QED
    BY <1>3, <2>1, <2>2 DEF LogGrows
<1>11. \A u \in 0 .. t : \A i \in Numbers' :
         IF i \in DOMAIN past'[u + 1] THEN \E m \in log' : Tells(m, i, u)' /\ m[3] = past'[u + 1][i]
         ELSE \A r \in log' : r[1] = i => r[2] > u
  <2>1. ASSUME NEW u \in 0 .. t, NEW i \in Numbers'
        PROVE  IF i \in DOMAIN past'[u + 1] THEN \E m \in log' : Tells(m, i, u)' /\ m[3] = past'[u + 1][i]
               ELSE \A r \in log' : r[1] = i => r[2] > u
    <3>1. CASE u \in 0 .. t - 1
      BY <1>9, <3>1
    <3>2. CASE u = t
      <4>1. i \in DOMAIN past'[t + 1] /\ past'[t + 1][i] = orders'[i].status
        BY <1>4, <1>6
      <4>2. QED
        BY <1>1, <1>10, <3>2, <4>1 DEF Tells
    <3>3. QED
      BY <1>1, <3>1, <3>2
  <2>2. QED
    BY <2>1
<1>12. \A i \in Numbers' : /\ past' # <<>> /\ i \in DOMAIN past'[Len(past')]
                           /\ past'[Len(past')][i] = orders'[i].status
  <2>1. past' # <<>>
    BY <1>1, <1>6
  <2>2. QED
    BY <1>4, <1>6, <2>1
<1>13. \A u \in 0 .. t : DOMAIN past'[u + 1] \subseteq Numbers'
  <2>1. ASSUME NEW u \in 0 .. t - 1 PROVE DOMAIN past'[u + 1] \subseteq Numbers'
    <3>1. DOMAIN past[u + 1] \subseteq Numbers
      BY <1>1 DEF LogInv
    <3>2. QED
      BY <1>3, <1>6, <3>1 DEF LogGrows
  <2>2. DOMAIN past'[t + 1] \subseteq Numbers'
    BY <1>4, <1>6
  <2>3. QED
    BY <1>1, <2>1, <2>2
<1>14. QED
  BY <1>1, <1>6, <1>7, <1>8, <1>11, <1>12, <1>13 DEF LogInv

\* Steps that leave the tables of the orders alone.
LEMMA SameLog ==
  ASSUME LogInv, UNCHANGED <<orders, log, past>>, Len(past) = IF phase' = "quiet" THEN t' ELSE t' + 1
  PROVE  LogInv'
<1>1. Numbers' = Numbers /\ Committed' = Committed /\ \A m, i, u : Tells(m, i, u)' <=> Tells(m, i, u)
  BY DEF Numbers, Committed, Tells
<1>2. QED
  BY <1>1 DEF LogInv

\* Every step keeps log and past in accordance.
LEMMA LogStep ==
  ASSUME ShopInv, LogInv, [Next]_vars
  PROVE  LogInv'
<1>1. CASE Transition
  BY <1>1, TransitionRecords DEF ShopInv
<1>2. ASSUME NEW p \in Products, NEW price \in Prices,
             ListProduct(p, price) \/ AdjustPrice(p, price)
      PROVE  LogInv'
  BY <1>2, SameLog DEF ListProduct, AdjustPrice, LogInv
<1>3. ASSUME NEW p \in Products, DelistProduct(p) PROVE LogInv'
  BY <1>3, SameLog DEF DelistProduct, LogInv
<1>4. ASSUME NEW x \in Polls, Observe(x) \/ Look(x) \/ Serve(x) PROVE LogInv'
  BY <1>4, SameLog DEF Observe, Look, Serve, shop, LogInv
<1>5. CASE ReadReport
  BY <1>5, SameLog DEF ReadReport, shop, LogInv
<1>6. CASE CloseHook
  BY <1>6, SameLog DEF CloseHook, shop, LogInv
<1>7. CASE Clock
  BY <1>7, SameLog DEF Clock, shop, LogInv
<1>8. CASE Crash
  BY <1>8, SameLog DEF Crash, shop, LogInv
<1>9. CASE UNCHANGED vars
  BY <1>9, SameLog DEF vars, shop, LogInv
<1>10. QED
  BY <1>1, <1>2, <1>3, <1>4, <1>5, <1>6, <1>7, <1>8, <1>9 DEF Next

\* Nothing is logged at first.
LEMMA LogInit ==
  ASSUME Init
  PROVE  LogInv
<1>1. t = 0 /\ phase = "quiet" /\ orders = <<>> /\ log = {} /\ past = <<>>
  BY DEF Init
<1>2. Numbers = {} /\ Committed = -1 /\ Len(past) = 0
  BY <1>1 DEF Numbers, Committed
<1>3. QED
  BY <1>1, <1>2 DEF LogInv

\* The log tells the past in every state that can be reached.
LEMMA LogKept == Spec => []LogInv
<1>1. ShopInv /\ LogInv /\ [Next]_vars => LogInv'
  BY LogStep
<1>2. Init => LogInv
  BY LogInit
<1>3. QED
  BY <1>1, <1>2, ShopKept, PTL DEF Spec

\* The log answers what an order was at an earlier tick.
LEMMA AsOfTells ==
  ASSUME LogInv, NEW u \in 0 .. Committed, NEW i \in DOMAIN past[u + 1]
  PROVE  AsOf(i, u) = past[u + 1][i]
<1>1. i \in Numbers
  BY DEF LogInv
<1>2. PICK m \in log : Tells(m, i, u) /\ m[3] = past[u + 1][i]
  BY <1>1 DEF LogInv
<1> DEFINE Known == {r \in log : r[1] = i /\ r[2] <= u}
           Top(r) == \A q \in Known : q[2] < r[2] \/ (q[2] = r[2] /\ Rank(q[3]) <= Rank(r[3]))
<1>3. \A r \in Known : r[2] \in Int /\ r[3] \in Statuses /\ Rank(r[3]) \in Int
  BY RankTyped DEF LogInv
<1>4. m \in Known /\ \A r \in Known : r = m \/ Before(r, m)
  BY <1>2 DEF Tells
<1>5. Top(m)
  BY <1>3, <1>4 DEF Before
<1>6. \A r \in Known : Top(r) => r = m
  <2>1. ASSUME NEW r \in Known, Top(r), Before(r, m) PROVE FALSE
    <3>1. ~(m[2] < r[2] \/ (m[2] = r[2] /\ Rank(m[3]) <= Rank(r[3])))
      BY <1>3, <1>4, <2>1, BeforeStrict
    <3>2. QED
      BY <1>4, <2>1, <3>1
  <2>2. QED
    BY <1>4, <2>1
<1>7. AsOf(i, u) = (CHOOSE r \in Known : Top(r))[3]
  BY DEF AsOf
<1> HIDE DEF Known, Top
<1>8. (CHOOSE r \in Known : Top(r)) = m
  BY <1>4, <1>5, <1>6
<1>9. QED
  BY <1>2, <1>7, <1>8

\* A set of rows has a first one.
LEMMA FirstRow ==
  ASSUME NEW W, W # {}, \A r \in W : r[2] \in Nat /\ r[3] \in Statuses
  PROVE  \E r \in W : \A q \in W : ~Before(q, r)
<1> DEFINE Key(r) == 100 * r[2] + Rank(r[3])
           Keys == {Key(r) : r \in W}
<1>1. \A s \in Statuses : Rank(s) \in 0 .. 60
  BY DEF Rank
<1>2. \A r \in W : Key(r) \in Nat
  BY <1>1
<1>3. ASSUME NEW q \in W, NEW r \in W, Before(q, r) PROVE Key(q) < Key(r)
  <2>1. Rank(q[3]) \in 0 .. 60 /\ Rank(r[3]) \in 0 .. 60 /\ q[2] \in Nat /\ r[2] \in Nat
    BY <1>1
  <2>2. \A a, b \in Nat, x, y \in 0 .. 60 : a < b \/ (a = b /\ x < y) => 100 * a + x < 100 * b + y
    OBVIOUS
  <2> HIDE DEF Key
  <2>3. 100 * q[2] + Rank(q[3]) < 100 * r[2] + Rank(r[3])
    BY <1>3, <2>1, <2>2 DEF Before
  <2>4. QED
    BY <2>3 DEF Key
<1>4. Keys \subseteq Nat /\ Keys # {}
  BY <1>2
<1> HIDE DEF Key
<1>5. PICK n \in Keys : \A k \in Keys : ~(<<k, n>> \in OpToRel(<, Nat))
  <2> HIDE DEF Keys
  <2>1. QED
    BY <1>4, NatLessThanWellFounded, WFMin, Zenon
<1>6. \A k \in Keys : ~(k < n)
  BY <1>4, <1>5, Zenon DEF OpToRel
<1>7. PICK r \in W : n = Key(r)
  OBVIOUS
<1>8. QED
  BY <1>3, <1>6, <1>7

\* The status before a window is the one the window before ended with.
LEMMA PreviousTells ==
  ASSUME LogInv, NEW w \in Windows, w.from \in Nat, w.from - 1 <= Committed, Committed \in Int, NEW i \in Updated(w)
  PROVE  Previous(i, w) = IF w.from > 0 /\ i \in DOMAIN past[w.from] THEN past[w.from][i] ELSE "none"
<1> DEFINE L == StatusLog(i)
           InW == {r \in L : r[2] \in w.from .. w.to}
           Leads(r) == r[2] \in w.from .. w.to /\ \A q \in L : Before(q, r) => q[2] < w.from
           first == CHOOSE r \in L : Leads(r)
           earlier == {q \in L : Before(q, first)}
<1>1. i \in Numbers /\ \A r \in L : r \in log /\ r[1] = i /\ r[2] \in Nat /\ r[3] \in Statuses
  BY DEF Updated, StatusLog, LogInv
<1>2. w.to \in Int
  BY DEF Windows
<1>3. \E r \in L : Leads(r)
  <2>1. InW # {} /\ \A r \in InW : r[2] \in Nat /\ r[3] \in Statuses
    BY <1>1 DEF Updated, StatusLog
  <2>2. PICK r \in InW : \A q \in InW : ~Before(q, r)
    <3> HIDE DEF InW
    <3>1. QED
      BY <2>1, FirstRow
  <2>3. ASSUME NEW q \in L, Before(q, r) PROVE q[2] < w.from
    <3>1. q[2] <= r[2] /\ q[2] \in Nat /\ r[2] \in Nat /\ r[2] <= w.to
      BY <1>1, <2>3 DEF Before
    <3>2. q \notin InW
      BY <2>2, <2>3
    <3>3. QED
      BY <1>2, <3>1, <3>2
  <2>4. QED
    BY <2>2, <2>3
<1>4. first \in L /\ Leads(first)
  <2> HIDE DEF L, Leads
  <2>1. QED
    BY <1>3
<1>5. earlier = {q \in L : q[2] < w.from}
  <2>1. first[2] \in Nat /\ first[2] >= w.from
    BY <1>1, <1>4
  <2>2. \A q \in L : q[2] < w.from => Before(q, first)
    BY <1>1, <2>1 DEF Before
  <2>3. \A q \in L : Before(q, first) => q[2] < w.from
    BY <1>4
  <2> HIDE DEF L, first
  <2>4. QED
    BY <2>2, <2>3
<1>6. Previous(i, w) = IF earlier = {} THEN "none"
                       ELSE (CHOOSE q \in earlier : \A r \in earlier : r = q \/ Before(r, q))[3]
  BY DEF Previous
<1> HIDE DEF first, Leads, InW
<1>7. CASE w.from = 0
  <2>1. earlier = {}
    BY <1>1, <1>5, <1>7
  <2>2. QED
    BY <1>6, <1>7, <2>1
<1>8. CASE w.from > 0
  <2> DEFINE u == w.from - 1
  <2>1. u \in 0 .. Committed /\ u + 1 = w.from
    BY <1>8
  <2> HIDE DEF u
  <2>2. earlier = {q \in L : q[2] <= u}
    <3>1. \A q \in L : q[2] < w.from <=> q[2] <= u
      BY <1>1, <2>1
    <3> HIDE DEF L
    <3>2. QED
      BY <1>5, <3>1
  <2>3. CASE i \notin DOMAIN past[w.from]
    <3>1. \A r \in log : r[1] = i => r[2] > u
      BY <1>1, <2>1, <2>3 DEF LogInv
    <3>2. earlier = {}
      BY <1>1, <2>1, <2>2, <3>1
    <3>3. QED
      BY <1>6, <2>3, <3>2
  <2>4. CASE i \in DOMAIN past[w.from]
    <3>1. PICK m \in log : Tells(m, i, u) /\ m[3] = past[w.from][i]
      BY <1>1, <2>1, <2>4 DEF LogInv
    <3>2. m \in earlier /\ \A r \in earlier : r = m \/ Before(r, m)
      BY <2>2, <3>1 DEF Tells, StatusLog
    <3>3. \A q \in earlier : q[2] \in Int /\ q[3] \in Statuses
      BY <1>1
    <3> HIDE DEF earlier
    <3>4. ASSUME NEW q \in earlier, \A r \in earlier : r = q \/ Before(r, q) PROVE q = m
      <4>1. SUFFICES ASSUME q # m PROVE FALSE
        OBVIOUS
      <4>2. Before(q, m) /\ Before(m, q)
        BY <3>2, <3>4, <4>1
      <4>3. QED
        BY <3>2, <3>3, <4>2, BeforeStrict
    <3>5. (CHOOSE q \in earlier : \A r \in earlier : r = q \/ Before(r, q)) = m
      BY <3>2, <3>4
    <3>6. QED
      BY <1>6, <1>8, <2>4, <3>1, <3>2, <3>5
  <2>5. QED
    BY <2>3, <2>4
<1>9. QED
  BY <1>7, <1>8

\* Both parts of AsOfFaithful.
LEMMA PastIsTold ==
  ASSUME LogInv, ToldInv
  PROVE  AsOfFaithful
<1>1. Committed \in Int /\ t \in Nat /\ cursor \in Int
  BY NowTyped DEF LogInv, ToldInv, Kept, Committed
<1>2. ASSUME NEW a \in served
      PROVE  a.window \in Windows /\ a.window.from \in Nat /\ a.window.from - 1 <= Committed
  <2>1. a.at \in 0 .. cursor /\ a.window.from \in 0 .. a.at
    BY <1>2 DEF ToldInv, Tiled
  <2>2. cursor <= t
    BY DEF ToldInv, Pointed, Never
  <2>3. Committed >= t - 1
    BY <1>1 DEF LogInv, Committed
  <2>4. a.window \in Windows
    BY DEF ToldInv, Kept, Replies
  <2>5. QED
    BY <1>1, <2>1, <2>2, <2>3, <2>4
<1>3. ASSUME NEW a \in served, NEW i \in Updated(a.window)
      PROVE  Previous(i, a.window) =
               IF a.window.from > 0 /\ i \in DOMAIN past[a.window.from]
               THEN past[a.window.from][i] ELSE "none"
  BY <1>1, <1>2, PreviousTells
<1>4. QED
  BY <1>3, AsOfTells DEF AsOfFaithful

\* A day has its number between those of two days exactly when its ticks are between theirs.
LEMMA DayOfTick ==
  ASSUME NEW D \in Nat \ {0}, NEW x \in Nat, NEW a \in Int, NEW b \in Int
  PROVE  /\ x \div D \in Nat
         /\ x \in (a - 1) * D .. b * D - 1 <=> x \div D + 1 \in a .. b
<1>1. PICK q : q = x \div D
  OBVIOUS
<1>2. PICK r : r = x % D
  OBVIOUS
<1>3. q \in Nat /\ r \in 0 .. D - 1 /\ x = D * q + r
  BY <1>1, <1>2
<1>4. ASSUME NEW m \in Int, m <= q PROVE m * D <= x
  <2>1. (q - m) * D >= 0
    BY <1>3, <1>4
  <2>2. m * D <= q * D
    BY <1>3, <2>1
  <2>3. QED
    BY <1>3, <2>2
<1>5. ASSUME NEW m \in Int, m > q PROVE m * D > x
  <2>1. (m - (q + 1)) * D >= 0
    BY <1>3, <1>5
  <2>2. m * D >= (q + 1) * D
    BY <1>3, <2>1
  <2>3. (q + 1) * D > x
    BY <1>3
  <2>4. QED
    BY <1>3, <2>2, <2>3
<1>6. (a - 1) * D <= x <=> a - 1 <= q
  BY <1>3, <1>4, <1>5
<1>7. x <= b * D - 1 <=> q < b
  <2>1. b * D \in Int
    OBVIOUS
  <2>2. b * D > x <=> b > q
    BY <1>3, <1>4, <1>5, <2>1
  <2>3. QED
    BY <1>3, <2>1, <2>2
<1>8. QED
  BY <1>1, <1>3, <1>6, <1>7

\* Days and weeks count each order once.
LEMMA DaysCount ==
  ASSUME Typed, Timed, \A i \in Numbers : orders[i].t >= 0
  PROVE  DaysAddUp
<1> DEFINE today == Day(t) + 1
<1>1. TicksPerDay \in Nat \ {0} /\ t \in Nat
  BY StorefrontAssumption, NowTyped
<1>2. today \in Nat
  BY <1>1, DayOfTick DEF Day
<1>3. ASSUME NEW i \in Numbers
      PROVE  /\ Cardinality({d \in 1 .. today : i \in OrdersOf(d, d)}) = 1
             /\ Cardinality({w \in Weeks(1, today) : i \in OrdersOf(w[1], w[2])}) = 1
  <2> DEFINE day == Day(orders[i].t) + 1
  <2>1. orders[i].t \in Nat /\ orders[i].t <= t
    BY OrderTyped DEF Timed
  <2>2. \A a, b \in Int : i \in OrdersOf(a, b) <=> day \in a .. b
    BY <1>1, <2>1, DayOfTick DEF OrdersOf, DayRange, Day
  <2>3. day \in 1 .. today
    <3>1. Day(orders[i].t) \in Nat
      BY <1>1, <2>1, DayOfTick DEF Day
    <3>2. t \in (day - 1) * TicksPerDay .. (Day(t) + 1) * TicksPerDay - 1
      <4>1. orders[i].t \in (day - 1) * TicksPerDay .. day * TicksPerDay - 1
        BY <1>1, <2>1, <3>1, DayOfTick DEF Day
      <4>2. t \in (Day(t) + 1 - 1) * TicksPerDay .. (Day(t) + 1) * TicksPerDay - 1
        BY <1>1, <1>2, DayOfTick DEF Day
      <4>3. (day - 1) * TicksPerDay \in Int /\ (Day(t) + 1) * TicksPerDay \in Int
        BY <1>1, <1>2, <3>1
      <4> HIDE DEF day
      <4>4. QED
        BY <1>1, <2>1, <4>1, <4>2, <4>3
    <3>3. Day(t) + 1 \in day .. Day(t) + 1
      BY <1>1, <1>2, <3>1, <3>2, DayOfTick DEF Day
    <3>4. QED
      BY <1>2, <3>1, <3>3
  <2> HIDE DEF day, today
  <2>4. {d \in 1 .. today : i \in OrdersOf(d, d)} = {day}
    BY <1>2, <2>2, <2>3
  <2> DEFINE monday == day - ((day - 1) % 7)
             End(d) == IF d + 6 < today THEN d + 6 ELSE today
  <2>5. /\ monday \in 1 .. today /\ (monday - 1) % 7 = 0 /\ day \in monday .. End(monday)
        /\ \A d \in 1 .. today : (d - 1) % 7 = 0 /\ day \in d .. End(d) => d = monday
    BY <1>2, <2>3
  <2>6. Weeks(1, today) = {<<d, End(d)>> : d \in {e \in 1 .. today : (e - 1) % 7 = 0}}
    BY DEF Weeks
  <2>7. \A d \in 1 .. today : i \in OrdersOf(d, End(d)) <=> day \in d .. End(d)
    BY <1>2, <2>2
  <2> HIDE DEF monday, End
  <2>8. <<monday, End(monday)>> \in Weeks(1, today)
    BY <2>5, <2>6
  <2>9. \A w \in Weeks(1, today) : i \in OrdersOf(w[1], w[2]) <=> w = <<monday, End(monday)>>
    <3>1. ASSUME NEW w \in Weeks(1, today)
          PROVE  i \in OrdersOf(w[1], w[2]) <=> w = <<monday, End(monday)>>
      <4>1. PICK d \in 1 .. today : (d - 1) % 7 = 0 /\ w = <<d, End(d)>>
        BY <2>6
      <4>2. w[1] = d /\ w[2] = End(d)
        BY <4>1
      <4>3. d = monday <=> w = <<monday, End(monday)>>
        BY <4>1
      <4>4. QED
        BY <2>5, <2>7, <4>1, <4>2, <4>3
    <3>2. QED
      BY <3>1
  <2>10. {w \in Weeks(1, today) : i \in OrdersOf(w[1], w[2])} = {<<monday, End(monday)>>}
    BY <2>8, <2>9
  <2>11. QED
    BY <2>4, <2>10, FS_Singleton
<1>4. QED
  BY <1>3 DEF DaysAddUp

\* The order of a list is strict and total.
LEMMA LaterOrders ==
  ASSUME Typed
  PROVE  /\ \A i \in Numbers : ~Later(i, i)
         /\ \A i, j \in Numbers : i # j => Later(i, j) \/ Later(j, i)
         /\ \A i, j, k \in Numbers : Later(i, j) /\ Later(j, k) => Later(i, k)
<1>1. \A i \in Numbers : i \in Int /\ orders[i].t \in Int
  BY OrderTyped DEF Numbers
<1>2. QED
  BY <1>1 DEF Later

\* How many numbers there are from a to the one before b.
LEMMA SpanOfNumbers ==
  ASSUME NEW a \in Int, NEW b \in Int
  PROVE  IsFiniteSet(a .. b - 1) /\ (a <= b => Cardinality(a .. b - 1) = b - a)
<1>1. PICK c \in Int : c = b - 1
  OBVIOUS
<1>2. IsFiniteSet(a .. c) /\ Cardinality(a .. c) = IF a > c THEN 0 ELSE c - a + 1
  BY FS_Interval
<1>3. QED
  BY <1>1, <1>2

\* The place of an order is the number of those before it: no two have the same, and
\* each place up to the number of orders is taken.
LEMMA PlacesAreOrder ==
  ASSUME Typed
  PROVE  /\ \A i \in Numbers : Place(i, Numbers) \in 0 .. Len(orders) - 1
         /\ \A i, j \in Numbers : Later(i, j) <=> Place(i, Numbers) < Place(j, Numbers)
         /\ \A i, j \in Numbers : Place(i, Numbers) = Place(j, Numbers) => i = j
         /\ \A n \in 0 .. Len(orders) - 1 : \E i \in Numbers : Place(i, Numbers) = n
<1> DEFINE N == Len(orders)
           Above(i) == {j \in Numbers : Later(j, i)}
<1>1. N \in Nat /\ Numbers = 1 .. N /\ IsFiniteSet(Numbers) /\ Cardinality(Numbers) = N
  <2>1. N \in Nat /\ Numbers = 1 .. N
    BY OrderTyped DEF Numbers
  <2>2. QED
    BY <2>1, FS_Interval
<1>2. \A i \in Numbers : Place(i, Numbers) = Cardinality(Above(i))
  BY DEF Place
<1>3. \A i \in Numbers : /\ Above(i) \subseteq Numbers \ {i} /\ Above(i) \subseteq Numbers
                         /\ IsFiniteSet(Above(i)) /\ Cardinality(Above(i)) \in 0 .. N - 1
  <2>1. ASSUME NEW i \in Numbers
        PROVE  /\ Above(i) \subseteq Numbers \ {i} /\ Above(i) \subseteq Numbers
               /\ IsFiniteSet(Above(i)) /\ Cardinality(Above(i)) \in 0 .. N - 1
    <3>1. Above(i) \subseteq Numbers \ {i}
      BY LaterOrders
    <3>2. IsFiniteSet(Numbers \ {i}) /\ Cardinality(Numbers \ {i}) = N - 1
      BY <1>1, FS_RemoveElement
    <3> HIDE DEF Above
    <3>3. IsFiniteSet(Above(i)) /\ Cardinality(Above(i)) <= N - 1
      BY <3>1, <3>2, FS_Subset
    <3>4. Cardinality(Above(i)) \in Nat
      BY <3>3, FS_CardinalityType
    <3>5. QED
      BY <1>1, <3>1, <3>3, <3>4
  <2>2. QED
    BY <2>1
<1>4. \A i, j \in Numbers : Later(i, j) => Cardinality(Above(i)) < Cardinality(Above(j))
  <2>1. ASSUME NEW i \in Numbers, NEW j \in Numbers, Later(i, j)
        PROVE  Cardinality(Above(i)) < Cardinality(Above(j))
    <3>1. Above(i) \subseteq Above(j) /\ i \in Above(j) /\ i \notin Above(i)
      BY <2>1, LaterOrders
    <3>2. IsFiniteSet(Above(j)) /\ Cardinality(Above(i)) \in 0 .. N - 1 /\ Cardinality(Above(j)) \in 0 .. N - 1
      BY <1>3
    <3> HIDE DEF Above
    <3>3. Cardinality(Above(i)) <= Cardinality(Above(j)) /\ Cardinality(Above(i)) # Cardinality(Above(j))
      BY <3>1, <3>2, FS_Subset
    <3>4. QED
      BY <1>1, <3>2, <3>3
  <2>2. QED
    BY <2>1
<1> HIDE DEF Above
<1>5. \A i \in Numbers : Place(i, Numbers) \in 0 .. N - 1
  BY <1>2, <1>3
<1>6. \A i, j \in Numbers : Later(i, j) <=> Place(i, Numbers) < Place(j, Numbers)
  <2>1. ASSUME NEW i \in Numbers, NEW j \in Numbers
        PROVE  Later(i, j) <=> Place(i, Numbers) < Place(j, Numbers)
    <3>1. Place(i, Numbers) \in Int /\ Place(j, Numbers) \in Int
      BY <1>1, <1>5
    <3>2. Later(i, j) => Place(i, Numbers) < Place(j, Numbers)
      BY <1>2, <1>4
    <3>3. Later(j, i) => Place(j, Numbers) < Place(i, Numbers)
      BY <1>2, <1>4
    <3>4. i = j \/ Later(i, j) \/ Later(j, i)
      BY LaterOrders
    <3>5. QED
      BY <3>1, <3>2, <3>3, <3>4
  <2>2. QED
    BY <2>1
<1>7. \A i, j \in Numbers : Place(i, Numbers) = Place(j, Numbers) => i = j
  <2>1. ASSUME NEW i \in Numbers, NEW j \in Numbers, Place(i, Numbers) = Place(j, Numbers) PROVE i = j
    <3>1. Place(i, Numbers) \in Int /\ ~Later(i, j) /\ ~Later(j, i)
      BY <1>1, <1>5, <1>6, <2>1
    <3>2. QED
      BY <3>1, LaterOrders
  <2>2. QED
    BY <2>1
<1>8. \A n \in 0 .. N - 1 : \E i \in Numbers : Place(i, Numbers) = n
  <2> DEFINE place == [i \in Numbers |-> Place(i, Numbers)]
  <2>1. place \in Injection(Numbers, 0 .. N - 1)
    <3>1. place \in [Numbers -> 0 .. N - 1] /\ \A i \in Numbers : place[i] = Place(i, Numbers)
      BY <1>5
    <3>2. \A i, j \in Numbers : place[i] = place[j] => i = j
      BY <1>7, <3>1
    <3> HIDE DEF place
    <3>3. DOMAIN place = Numbers
      BY <3>1
    <3>4. QED
      BY <3>1, <3>2, <3>3 DEF Injection, IsInjective
  <2>2. IsFiniteSet(0 .. N - 1) /\ Cardinality(0 .. N - 1) = N
    BY <1>1, SpanOfNumbers
  <2>3. place \in Surjection(Numbers, 0 .. N - 1)
    <3> HIDE DEF place
    <3>1. QED
      BY <1>1, <2>1, <2>2, FS_Injection
  <2>4. QED
    BY <2>3 DEF Surjection
<1>9. QED
  BY <1>5, <1>6, <1>7, <1>8

\* The orders with n places from a on, and the one at a place.
Span(a, n) == {i \in Numbers : Place(i, Numbers) \in a .. a + n - 1}
At(n) == CHOOSE i \in Numbers : Place(i, Numbers) = n

\* How many orders have their places in a span.
LEMMA SpanCounted ==
  ASSUME Typed, NEW a \in Nat, NEW n \in Nat
  PROVE  Cardinality(Span(a, n)) =
           IF a >= Len(orders) THEN 0 ELSE IF a + n <= Len(orders) THEN n ELSE Len(orders) - a
<1> DEFINE S == Span(a, n)
           N == Len(orders)
           end == IF a + n <= N THEN a + n ELSE N
<1>1. N \in Nat
  BY OrderTyped
<1>2. CASE a >= N
  <2>1. S = {}
    BY <1>1, <1>2, PlacesAreOrder DEF Span
  <2>2. QED
    BY <1>2, <2>1, FS_EmptySet
<1>3. CASE a < N
  <2> DEFINE place == [i \in S |-> Place(i, Numbers)]
  <2>1. \A i \in Numbers : Place(i, Numbers) \in 0 .. N - 1
    BY PlacesAreOrder
  <2>2. place \in [S -> a .. end - 1]
    BY <1>1, <1>3, <2>1 DEF Span
  <2>3. \A i, j \in S : place[i] = place[j] => i = j
    BY PlacesAreOrder DEF Span
  <2>4. \A m \in a .. end - 1 : \E i \in S : place[i] = m
    <3>1. ASSUME NEW m \in a .. end - 1 PROVE \E i \in S : place[i] = m
      <4>1. m \in 0 .. N - 1 /\ m \in a .. a + n - 1
        BY <1>1, <1>3
      <4>2. PICK i \in Numbers : Place(i, Numbers) = m
        BY <4>1, PlacesAreOrder
      <4>3. i \in S /\ place[i] = m
        BY <4>1, <4>2 DEF Span
      <4>4. QED
        BY <4>3
    <3>2. QED
      BY <3>1
  <2> HIDE DEF place, S, end
  <2>5. place \in Bijection(S, a .. end - 1)
    <3>1. DOMAIN place = S
      BY <2>2
    <3>2. QED
      BY <2>2, <2>3, <2>4, <3>1 DEF Bijection, Injection, IsInjective, Surjection
  <2>6. IsFiniteSet(S)
    <3>1. S \subseteq Numbers /\ IsFiniteSet(Numbers)
      BY <1>1, FS_Interval DEF S, Span, Numbers
    <3>2. QED
      BY <3>1, FS_Subset
  <2>7. Cardinality(a .. end - 1) = Cardinality(S)
    <3>1. ExistsBijection(S, a .. end - 1)
      BY <2>5 DEF ExistsBijection
    <3>2. QED
      BY <2>6, <3>1, FS_Bijection
  <2>8. Cardinality(a .. end - 1) = end - a
    <3>1. a \in Int /\ end \in Int /\ a <= end
      BY <1>1, <1>3 DEF end
    <3>2. QED
      BY <3>1, SpanOfNumbers
  <2>9. QED
    BY <1>1, <1>3, <2>7, <2>8 DEF end, S
<1>4. QED
  BY <1>1, <1>2, <1>3

\* A page has the orders of a span, and one more is looked for behind it.
LEMMA PageSpans ==
  ASSUME NEW k, NEW size
  PROVE  /\ Page(Numbers, k, size).rows =
              [n \in 1 .. Cardinality(Span((k - 1) * size, size)) |-> At((k - 1) * size + n - 1)]
         /\ Page(Numbers, k, size).next <=> Cardinality(Span((k - 1) * size, size + 1)) > size
<1> DEFINE rows == [n \in 1 .. Cardinality(Span((k - 1) * size, size)) |-> At((k - 1) * size + n - 1)]
           next == Cardinality(Span((k - 1) * size, size + 1)) > size
<1>1. Page(Numbers, k, size) = [rows |-> rows, next |-> next]
  BY DEF Page, Span, At
<1> HIDE DEF rows, next
<1>2. Page(Numbers, k, size).rows = rows /\ Page(Numbers, k, size).next = next
  BY <1>1
<1>3. QED
  BY <1>2 DEF rows, next

\* The pages of any size are the list.
LEMMA PagesAreList ==
  ASSUME Typed, NEW size \in Nat \ {0}
  PROVE  PagesInOrder(size)
<1> DEFINE N == Len(orders)
           Row(j) == Page(Numbers, (j - 1) \div size + 1, size).rows[((j - 1) % size) + 1]
<1>1. N \in Nat /\ Numbers = 1 .. N
  BY OrderTyped DEF Numbers
<1>2. ASSUME NEW j \in Numbers
      PROVE  Row(j) \in Numbers /\ Place(Row(j), Numbers) = j - 1
  <2>1. PICK q, r, k : q = (j - 1) \div size /\ r = (j - 1) % size /\ k = q + 1
    OBVIOUS
  <2>2. q \in Nat /\ r \in 0 .. size - 1 /\ j - 1 = size * q + r
    BY <1>1, <2>1
  <2> DEFINE from == (k - 1) * size
  <2>3. Page(Numbers, k, size).rows = [n \in 1 .. Cardinality(Span(from, size)) |-> At(from + n - 1)]
    BY PageSpans
  <2> HIDE DEF from
  <2>4. from \in Nat /\ from + (r + 1) - 1 = j - 1 /\ from < N
    <3>1. from = size * q
      BY <2>1, <2>2 DEF from
    <3>2. size * q \in Nat
      BY <2>2
    <3>3. QED
      BY <1>1, <2>2, <3>1, <3>2
  <2> DEFINE S == Span(from, size)
  <2>5. Cardinality(S) = IF from + size <= N THEN size ELSE N - from
    <3>1. Cardinality(Span(from, size)) =
            IF from >= N THEN 0 ELSE IF from + size <= N THEN size ELSE N - from
      BY <2>4, SpanCounted
    <3>2. QED
      BY <1>1, <2>4, <3>1
  <2> HIDE DEF S
  <2>6. r + 1 \in 1 .. Cardinality(S)
    BY <1>1, <2>2, <2>4, <2>5
  <2>7. Page(Numbers, k, size).rows = [n \in 1 .. Cardinality(S) |-> At(from + n - 1)]
    BY <2>3 DEF S
  <2>8. Row(j) = At(j - 1)
    <3>1. Row(j) = Page(Numbers, k, size).rows[r + 1]
      BY <2>1
    <3> HIDE DEF Row
    <3>2. Row(j) = At(from + (r + 1) - 1)
      BY <2>6, <2>7, <3>1
    <3>3. QED
      BY <2>4, <3>2
  <2>9. j - 1 \in 0 .. N - 1
    BY <1>1
  <2>10. QED
    BY <2>8, <2>9, PlacesAreOrder DEF At
<1> HIDE DEF Row
<1>3. \A j, h \in Numbers : j < h => Later(Row(j), Row(h))
  <2>1. ASSUME NEW j \in Numbers, NEW h \in Numbers, j < h PROVE Later(Row(j), Row(h))
    <3>1. Place(Row(j), Numbers) < Place(Row(h), Numbers)
      BY <1>1, <1>2, <2>1
    <3>2. QED
      BY <1>2, <3>1, PlacesAreOrder
  <2>2. QED
    BY <2>1
<1>4. \A i \in Numbers : \E j \in Numbers : Row(j) = i
  <2>1. ASSUME NEW i \in Numbers PROVE \E j \in Numbers : Row(j) = i
    <3>1. Place(i, Numbers) \in 0 .. N - 1
      BY PlacesAreOrder
    <3>2. PICK j \in Numbers : j - 1 = Place(i, Numbers)
      <4>1. PICK j : j = Place(i, Numbers) + 1
        OBVIOUS
      <4>2. j \in Numbers /\ j - 1 = Place(i, Numbers)
        BY <1>1, <3>1, <4>1
      <4>3. QED
        BY <4>2
    <3>3. QED
      BY <1>2, <3>2, PlacesAreOrder
  <2>2. QED
    BY <2>1
<1>5. ASSUME NEW k \in 1 .. N
      PROVE  /\ Len(Page(Numbers, k, size).rows) <= size
             /\ Page(Numbers, k, size).next <=> k * size < N
  <2>1. PICK from : from = (k - 1) * size
    OBVIOUS
  <2>2. from \in Nat /\ k * size = from + size
    <3>1. (k - 1) * size \in Nat
      BY <1>1
    <3>2. k * size = (k - 1) * size + size
      BY <1>1
    <3>3. QED
      BY <2>1, <3>1, <3>2
  <2> DEFINE S(n) == Span(from, n)
  <2>3. \A n \in Nat : Cardinality(S(n)) = IF from >= N THEN 0 ELSE IF from + n <= N THEN n ELSE N - from
    BY <2>2, SpanCounted
  <2>4. /\ Page(Numbers, k, size).rows =
             [n \in 1 .. Cardinality(S(size)) |-> At(from + n - 1)]
        /\ Page(Numbers, k, size).next <=> Cardinality(S(size + 1)) > size
    BY <2>1, PageSpans
  <2> HIDE DEF S
  <2>5. Cardinality(S(size)) \in Nat /\ Cardinality(S(size)) <= size
    <3>1. Cardinality(S(size)) = IF from >= N THEN 0 ELSE IF from + size <= N THEN size ELSE N - from
      BY <2>3
    <3>2. QED
      BY <1>1, <2>2, <3>1
  <2>6. Len(Page(Numbers, k, size).rows) = Cardinality(S(size))
    BY <2>4, <2>5
  <2>7. Cardinality(S(size + 1)) > size <=> from + size < N
    BY <1>1, <2>2, <2>3
  <2>8. QED
    BY <2>2, <2>4, <2>5, <2>6, <2>7
<1>6. QED
  BY <1>1, <1>3, <1>4, <1>5 DEF PagesInOrder, Row

\* The report in the file is the one that was read.
LEMMA SavedReport == \A c, w, r : Saved(c, w, r).report = r /\ Saved(c, w, r).cursor = c /\ Saved(c, w, r).at = Latest(w)
BY DEF Saved

\* The shelf has finitely many products.
LEMMA ListedFinite == IsFiniteSet(Listed) /\ Cardinality(Listed) \in Nat
<1>1. Listed \subseteq Products
  BY DEF Listed
<1>2. IsFiniteSet(Listed)
  BY <1>1, FS_Subset, StorefrontAssumption
<1>3. QED
  BY <1>2, FS_CardinalityType

\* Orders come at the present tick, and leave the prices and the shelf alone.
LEMMA TransitionBounds ==
  ASSUME Typed, Timed, BoundInv, Transition
  PROVE  BoundInv'
<1>1. PICK sold, outcome, fresh : Arrivals(sold, outcome, fresh)
  BY TransitionArrivals
<1>2. UNCHANGED <<t, report, file>> /\ t \in Int /\ t >= 0
  BY ShelfTyped DEF Transition, told
<1>3. \A i \in Numbers' : orders'[i].t >= 0
  BY <1>1, <1>2, OldOrNew DEF BoundInv
<1>4. Listed' = Listed
  BY <1>1, ShelfBooked DEF Listed
<1>5. \A p \in Listed : shelf'[p].price = shelf[p].price
  <2>1. ASSUME NEW p \in Listed PROVE shelf'[p].price = shelf[p].price
    <3>1. p \in Products /\ shelf[p] \in Entries
      BY ShelfTyped DEF Listed
    <3>2. shelf'[p] = [shelf[p] EXCEPT !.sales = @ + 1] \/ shelf'[p] = shelf[p]
      BY <1>1, <3>1 DEF Arrivals, Booked
    <3>3. QED
      BY <3>1, <3>2 DEF Entries
  <2>2. QED
    BY <2>1
<1>6. QED
  BY <1>2, <1>3, <1>4, <1>5 DEF BoundInv

\* What a tool changes on the shelf.
LEMMA EditBounds ==
  ASSUME Typed, BoundInv, UNCHANGED <<orders, report, file>>, NEW p \in Products, NEW e,
         shelf' = [shelf EXCEPT ![p] = e], e # Unlisted => e.price \in Prices /\ (p \in Listed \/ Room)
  PROVE  BoundInv'
<1>1. shelf'[p] = e /\ \A q \in Products \ {p} : shelf'[q] = shelf[q]
  BY DEF Typed
<1>2. Numbers' = Numbers
  BY DEF Numbers
<1>3. \A q \in Listed' : q \in Products /\ (q # p => q \in Listed) /\ (q = p => e # Unlisted)
  BY <1>1 DEF Listed
<1>4. \A q \in Listed' : shelf'[q].price \in Prices
  BY <1>1, <1>3 DEF BoundInv
<1>5. MaxActive \in Nat
  BY StorefrontAssumption
<1>6. Cardinality(Listed') <= MaxActive
  <2>1. CASE Listed' \subseteq Listed
    <3>1. Cardinality(Listed') <= Cardinality(Listed) /\ Cardinality(Listed') \in Nat
      BY <2>1, ListedFinite, FS_Subset, FS_CardinalityType
    <3>2. QED
      BY <1>5, <3>1, ListedFinite DEF BoundInv
  <2>2. CASE ~(Listed' \subseteq Listed)
    <3>1. p \notin Listed /\ Room
      BY <1>3, <2>2
    <3>2. Listed' \subseteq Listed \cup {p}
      BY <1>3
    <3>3. IsFiniteSet(Listed \cup {p}) /\ Cardinality(Listed \cup {p}) = Cardinality(Listed) + 1
      BY <3>1, ListedFinite, FS_AddElement
    <3>4. Cardinality(Listed') <= Cardinality(Listed) + 1 /\ Cardinality(Listed') \in Nat
      BY <3>2, <3>3, FS_Subset, FS_CardinalityType
    <3>5. QED
      BY <1>5, <3>1, <3>4, ListedFinite DEF Room
  <2>3. QED
    BY <2>1, <2>2
<1>7. QED
  BY <1>2, <1>4, <1>6 DEF BoundInv

\* Steps that leave orders and shelf alone.
LEMMA SameBounds ==
  ASSUME BoundInv, UNCHANGED <<orders, shelf>>, {report', file'.report} \subseteq ReportDays \cup {Never}
  PROVE  BoundInv'
<1>1. Numbers' = Numbers /\ Listed' = Listed
  BY DEF Numbers, Listed
<1>2. QED
  BY <1>1 DEF BoundInv

\* Every step keeps the bounds.
LEMMA BoundStep ==
  ASSUME ShopInv, BoundInv, [Next]_vars
  PROVE  BoundInv'
<1>1. CASE Transition
  BY <1>1, TransitionBounds DEF ShopInv
<1>2. ASSUME NEW p \in Products, NEW price \in Prices, ListProduct(p, price) PROVE BoundInv'
  <2>1. /\ UNCHANGED <<orders, report, file>> /\ shelf' = [shelf EXCEPT ![p] = Listing(p, price)]
        /\ p \in Listed \/ Room
    BY <1>2 DEF ListProduct, told
  <2>2. Listing(p, price).price = price
    <3>1. shelf[p] \in Entries
      BY ShelfTyped DEF ShopInv
    <3>2. QED
      BY <3>1 DEF Listing, Relisted, Entries
  <2>3. QED
    BY <2>1, <2>2, EditBounds DEF ShopInv
<1>3. ASSUME NEW p \in Products, NEW price \in Prices, AdjustPrice(p, price) PROVE BoundInv'
  <2>1. PICK e : e = [shelf[p] EXCEPT !.price = price]
    OBVIOUS
  <2>2. /\ UNCHANGED <<orders, report, file>> /\ shelf' = [shelf EXCEPT ![p] = e] /\ p \in Listed
    BY <1>3, <2>1 DEF AdjustPrice, told
  <2>3. e.price = price
    <3>1. shelf[p] \in Entries
      BY ShelfTyped DEF ShopInv
    <3>2. QED
      BY <2>1, <3>1 DEF Entries
  <2>4. QED
    BY <2>2, <2>3, EditBounds DEF ShopInv
<1>4. ASSUME NEW p \in Products, DelistProduct(p) PROVE BoundInv'
  <2>1. UNCHANGED <<orders, report, file>> /\ shelf' = [shelf EXCEPT ![p] = Unlisted]
    BY <1>4 DEF DelistProduct, told
  <2>2. QED
    BY <2>1, EditBounds DEF ShopInv
<1>5. {report, file.report} \subseteq ReportDays \cup {Never}
  BY DEF BoundInv
<1>6. ASSUME NEW x \in Polls, Observe(x) \/ Look(x) PROVE BoundInv'
  BY <1>5, <1>6, SameBounds DEF Observe, Look, shop, told
<1>7. ASSUME NEW x \in Polls, Serve(x) PROVE BoundInv'
  <2>1. UNCHANGED <<orders, shelf, report>> /\ file'.report = report
    BY <1>7, SavedReport DEF Serve, shop
  <2>2. QED
    BY <1>5, <2>1, SameBounds
<1>8. CASE ReadReport
  <2>1. UNCHANGED <<orders, shelf>> /\ report' = Day(t) /\ Day(t) \in ReportDays /\ file'.report = report'
    BY <1>8, SavedReport DEF ReadReport, shop
  <2>2. QED
    BY <2>1, SameBounds
<1>9. CASE CloseHook \/ Clock \/ UNCHANGED vars
  BY <1>5, <1>9, SameBounds DEF CloseHook, Clock, vars, shop, told
<1>10. CASE Crash
  BY <1>5, <1>10, SameBounds DEF Crash, shop
<1>11. QED
  BY <1>1, <1>2, <1>3, <1>4, <1>6, <1>7, <1>8, <1>9, <1>10 DEF Next

\* The bounds hold at first, and for ever.
LEMMA BoundKept == Spec => []BoundInv
<1>1. ASSUME Init PROVE BoundInv
  <2>1. /\ orders = <<>> /\ report = Never /\ file.report = Never
        /\ shelf = [p \in Products |-> Unlisted]
    BY <1>1 DEF Init
  <2>2. Numbers = {} /\ Listed = {}
    BY <2>1 DEF Numbers, Listed
  <2>3. Cardinality({}) = 0
    BY FS_EmptySet
  <2>4. QED
    BY <2>1, <2>2, <2>3, StorefrontAssumption DEF BoundInv
<1>2. ShopInv /\ BoundInv /\ [Next]_vars => BoundInv'
  BY BoundStep
<1>3. QED
  BY <1>1, <1>2, ShopKept, PTL DEF Spec

\* The types and bounds of the tables, the state of the observations and its file.
LEMMA ShopTyped ==
  ASSUME ShopInv, ToldInv, LogInv, BoundInv
  PROVE  TypeOK
<1>1. t \in Ticks /\ t \in Nat /\ phase \in {"quiet", "hook", "closed"}
  BY NowTyped DEF ShopInv, Typed
<1>2. \A i \in Numbers : orders[i].product \in Products /\ orders[i].t \in 0 .. t
  <2>1. ASSUME NEW i \in Numbers PROVE orders[i].product \in Products /\ orders[i].t \in 0 .. t
    <3>1. orders[i].product \in Products /\ orders[i].t \in Int
      BY OrderTyped DEF ShopInv
    <3>2. orders[i].t <= t /\ orders[i].t >= 0
      BY DEF ShopInv, Timed, BoundInv
    <3>3. QED
      BY <1>1, <3>1, <3>2
  <2>2. QED
    BY <2>1
<1>3. \A r \in log : r[1] \in Numbers /\ r[2] \in 0 .. t
  <2>1. Committed \in Int /\ Committed <= t
    BY <1>1 DEF LogInv, Committed
  <2>2. QED
    BY <1>1, <2>1 DEF LogInv
<1>4. \A p \in Listed : shelf[p].price \in Prices /\ shelf[p].listed \in 0 .. t
  BY DEF ShopInv, Timed, BoundInv
<1>5. Cardinality(Listed) <= MaxActive /\ {report, file.report} \subseteq ReportDays \cup {Never}
  BY DEF BoundInv
<1>6. {cursor, file.cursor, file.at} \subseteq Never .. t
  <2>1. cursor \in Never .. t /\ file.cursor = cursor /\ file.at = Latest(windows)
    BY SavedReport DEF ToldInv, Pointed
  <2>2. Latest(windows) \in Never .. t
    <3>1. CASE Latest(windows) = Never
      BY <1>1, <3>1 DEF Never
    <3>2. CASE Latest(windows) \in Ticks /\ windows[Latest(windows)] # NoWindow
      <4>1. ~(Latest(windows) > t)
        BY <3>2 DEF ToldInv, Pointed
      <4>2. Latest(windows) \in Nat
        BY <3>2, TicksTyped
      <4>3. QED
        BY <1>1, <4>1, <4>2 DEF Never
    <3>3. QED
      BY <3>1, <3>2, LatestSeen
  <2>3. QED
    BY <2>1, <2>2
<1>7. QED
  BY <1>1, <1>2, <1>3, <1>4, <1>5, <1>6 DEF TypeOK

\* Days, weeks and pages, for every size of a page (query_product_sales_stats,
\* query_store_performance, query_my_orders).
THEOREM QueriesCountOnce == Spec => [](DaysAddUp /\ \A size \in Nat \ {0} : PagesInOrder(size))
<1>1. ShopInv /\ BoundInv => DaysAddUp
  BY DaysCount DEF ShopInv, BoundInv
<1>2. ShopInv => \A size \in Nat \ {0} : PagesInOrder(size)
  BY PagesAreList DEF ShopInv
<1>3. QED
  BY <1>1, <1>2, ShopKept, BoundKept, PTL

\* What an agent is told is what was: the notices, the sales, the status of each order
\* as of each earlier tick (load_order_status_counts_as_of), the updates of each window
\* (query_order_updates), and the days and pages of the queries.
THEOREM TheAnswersAreTrue == Prompt => (Spec => []AnswersTrue)
<1> SUFFICES ASSUME Prompt PROVE Spec => []AnswersTrue
  OBVIOUS
<1>1. ASSUME ShopInv, ToldInv, LogInv, BoundInv PROVE AnswersTrue
  <2>1. TypeOK
    BY <1>1, ShopTyped
  <2>2. NoticeTrue /\ SalesMatchOrders
    BY <1>1 DEF ToldInv, Tiled, NoticeTrue, ShopInv
  <2>3. AsOfFaithful
    BY <1>1, PastIsTold
  <2>4. DaysAddUp
    BY <1>1, DaysCount DEF ShopInv, BoundInv
  <2>5. \A size \in 1 .. 2 : PagesInOrder(size)
    BY <1>1, PagesAreList DEF ShopInv
  <2>6. QED
    BY <2>1, <2>2, <2>3, <2>4, <2>5 DEF AnswersTrue, QueriesAddUp
<1>2. Spec => []ToldInv
  BY ToldKept
<1>3. QED
  BY <1>1, <1>2, ShopKept, LogKept, BoundKept, PTL
=============================================================================
