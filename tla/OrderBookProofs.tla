--------------------------- MODULE OrderBookProofs ---------------------------
(* What holds of OrderBook for every catalogue, fine table, number of      *)
(* agents and orders, and every horizon.                                   *)
EXTENDS OrderBook, FiniteSetTheorems, TLAPS

------------------------------------------------------------------------------
(* Sums.  SumFunctionOnSet of the community modules over a finite set takes *)
(* its elements in any order, is an integer, depends only on the values in  *)
(* the set, and grows by the value of an element that is added.  The        *)
(* induction over the finite subsets is the one that every nonempty set of  *)
(* subsets has a minimal element.                                           *)

\* The element that the fold of the library takes next.
First(S) == CHOOSE x \in S : TRUE

\* g gives the partial sums of f over the subsets of A.
PartialSums(f, A, g) ==
  g = [s \in SUBSET A |->
         IF s = {} THEN 0 ELSE f[First(s)] + g[s \ {First(s)}]]

\* The element taken is an element.
LEMMA FirstIn == \A S : S # {} => First(S) \in S
BY DEF First

\* The fold of the library, in the terms of this module.
LEMMA SumUnfold ==
  \A f, S : SumFunctionOnSet(f, S) = (CHOOSE g : PartialSums(f, S, g))[S]
BY DEF SumFunctionOnSet, FoldFunctionOnSet, MapThenFoldSet, PartialSums, First

\* Every nonempty set of subsets of a finite set has a minimal element.
LEMMA MinimalSubset ==
  ASSUME NEW S, IsFiniteSet(S), NEW C, C \subseteq SUBSET S, C # {}
  PROVE  \E T \in C : \A U \in C : ~(U \subseteq T /\ U # T)
<1>1. IsWellFoundedOn(StrictSubsetOrdering(S), FiniteSubsetsOf(S))
  BY FS_StrictSubsetOrderingWellFounded
<1>2. C \subseteq FiniteSubsetsOf(S)
  BY FS_Subset DEF FiniteSubsetsOf
<1>3. PICK T \in C : \A U \in C : ~(<<U, T>> \in StrictSubsetOrdering(S))
  BY <1>1, <1>2, WFMin
<1>4. \A U \in C : U \subseteq T /\ U # T => <<U, T>> \in StrictSubsetOrdering(S)
  <2>1. C \subseteq SUBSET S
    OBVIOUS
  <2>2. QED
    BY <2>1 DEF StrictSubsetOrdering
<1>5. \A U \in C : ~(U \subseteq T /\ U # T)
  BY <1>3, <1>4
<1>6. QED
  BY <1>5

\* The partial sums over a set depend only on the values in that set.
LEMMA PartialSumsAgree ==
  ASSUME NEW f, NEW g, NEW A, NEW B, NEW h, NEW k,
         PartialSums(f, A, h), PartialSums(g, B, k),
         NEW S, IsFiniteSet(S), S \subseteq A, S \subseteq B,
         \A x \in S : f[x] = g[x]
  PROVE  h[S] = k[S]
<1> DEFINE C == {T \in SUBSET S : h[T] # k[T]}
<1> SUFFICES ASSUME C # {} PROVE FALSE
  OBVIOUS
<1>1. PICK T \in C : \A U \in C : ~(U \subseteq T /\ U # T)
  <2>1. C \subseteq SUBSET S
    OBVIOUS
  <2> HIDE DEF C
  <2>2. QED
    BY <2>1, MinimalSubset
<1>2. \A s \in SUBSET S :
        /\ h[s] = IF s = {} THEN 0 ELSE f[First(s)] + h[s \ {First(s)}]
        /\ k[s] = IF s = {} THEN 0 ELSE g[First(s)] + k[s \ {First(s)}]
  BY DEF PartialSums
<1>3. T # {}
  BY <1>2
<1>4. First(T) \in T
  BY <1>3, FirstIn
<1>5. h[T \ {First(T)}] = k[T \ {First(T)}]
  BY <1>1, <1>4
<1>6. f[First(T)] = g[First(T)]
  BY <1>4
<1>7. QED
  BY <1>1, <1>2, <1>3, <1>5, <1>6

\* A finite set has partial sums.
LEMMA PartialSumsExist ==
  ASSUME NEW f, NEW S, IsFiniteSet(S)
  PROVE  \E g : PartialSums(f, S, g)
<1> DEFINE C == {T \in SUBSET S : ~\E g : PartialSums(f, T, g)}
<1> SUFFICES ASSUME C # {} PROVE FALSE
  OBVIOUS
<1>1. PICK T \in C : \A U \in C : ~(U \subseteq T /\ U # T)
  <2>1. C \subseteq SUBSET S
    OBVIOUS
  <2> HIDE DEF C
  <2>2. QED
    BY <2>1, MinimalSubset
<1> DEFINE P(U) == CHOOSE g : PartialSums(f, U, g)
           Rest(s) == s \ {First(s)}
           h == [s \in SUBSET T |->
                   IF s = {} THEN 0 ELSE f[First(s)] + P(Rest(s))[Rest(s)]]
<1>2. \A s \in SUBSET T : s # {} => Rest(s) \in SUBSET T /\ Rest(s) # T
  BY FirstIn
<1>3. \A U \in SUBSET T : U # T => PartialSums(f, U, P(U))
  <2>1. ASSUME NEW U \in SUBSET T, U # T PROVE \E g : PartialSums(f, U, g)
    BY <1>1, <2>1
  <2>2. QED
    BY <2>1
<1>4. ASSUME NEW s \in SUBSET T, s # T PROVE h[s] = P(s)[s]
  <2>1. PartialSums(f, s, P(s)) /\ s \in SUBSET s
    BY <1>3, <1>4
  <2> HIDE DEF P
  <2>2. P(s)[s] = IF s = {} THEN 0 ELSE f[First(s)] + P(s)[Rest(s)]
    BY <2>1 DEF PartialSums
  <2>3. h[s] = IF s = {} THEN 0 ELSE f[First(s)] + P(Rest(s))[Rest(s)]
    OBVIOUS
  <2>4. ASSUME s # {} PROVE P(s)[Rest(s)] = P(Rest(s))[Rest(s)]
    <3>1. PartialSums(f, Rest(s), P(Rest(s)))
      BY <1>2, <1>3, <2>4
    <3>2. IsFiniteSet(Rest(s))
      BY FS_Subset
    <3>3. QED
      BY <2>1, <3>1, <3>2, PartialSumsAgree
  <2>5. QED
    BY <2>2, <2>3, <2>4
<1>5. PartialSums(f, T, h)
  <2> HIDE DEF P
  <2>1. h = [s \in SUBSET T |-> IF s = {} THEN 0 ELSE f[First(s)] + h[Rest(s)]]
    BY <1>2, <1>4
  <2>2. QED
    BY <2>1 DEF PartialSums
<1>6. QED
  BY <1>1, <1>5

\* The sum over a finite set is the value of the element taken first, plus the
\* sum over the others.
LEMMA SumFirst ==
  ASSUME NEW f, NEW S, IsFiniteSet(S)
  PROVE  SumFunctionOnSet(f, S) =
           IF S = {} THEN 0
           ELSE f[First(S)] + SumFunctionOnSet(f, S \ {First(S)})
<1> DEFINE R == S \ {First(S)}
           P(U) == CHOOSE g : PartialSums(f, U, g)
<1>1. IsFiniteSet(R)
  BY FS_RemoveElement
<1>2. PartialSums(f, S, P(S)) /\ PartialSums(f, R, P(R))
  BY <1>1, PartialSumsExist
<1>3. SumFunctionOnSet(f, S) = P(S)[S] /\ SumFunctionOnSet(f, R) = P(R)[R]
  BY SumUnfold
<1> HIDE DEF P
<1>4. P(S)[S] = IF S = {} THEN 0 ELSE f[First(S)] + P(S)[R]
  BY <1>2 DEF PartialSums
<1>5. P(S)[R] = P(R)[R]
  BY <1>1, <1>2, PartialSumsAgree
<1>6. QED
  BY <1>3, <1>4, <1>5

\* The sum over no element.
LEMMA SumEmpty == \A f : SumFunctionOnSet(f, {}) = 0
BY SumFirst, FS_EmptySet

\* A sum of integers is an integer.
LEMMA SumInt ==
  ASSUME NEW S, IsFiniteSet(S), NEW f, \A x \in S : f[x] \in Int
  PROVE  SumFunctionOnSet(f, S) \in Int
<1> DEFINE C == {T \in SUBSET S : SumFunctionOnSet(f, T) \notin Int}
<1> SUFFICES ASSUME C # {} PROVE FALSE
  OBVIOUS
<1>1. PICK T \in C : \A U \in C : ~(U \subseteq T /\ U # T)
  <2>1. C \subseteq SUBSET S
    OBVIOUS
  <2> HIDE DEF C
  <2>2. QED
    BY <2>1, MinimalSubset
<1>2. IsFiniteSet(T)
  BY FS_Subset
<1>3. T # {}
  <2>1. SumFunctionOnSet(f, T) # 0
    OBVIOUS
  <2>2. QED
    BY <2>1, SumEmpty, Zenon
<1>4. First(T) \in T
  BY <1>3, FirstIn
<1>5. SumFunctionOnSet(f, T \ {First(T)}) \in Int /\ f[First(T)] \in Int
  BY <1>1, <1>4
<1>6. QED
  BY <1>1, <1>2, <1>3, <1>5, SumFirst

\* A sum depends only on the values in the set.
LEMMA SumAgree ==
  ASSUME NEW S, IsFiniteSet(S), NEW f, NEW g, \A x \in S : f[x] = g[x]
  PROVE  SumFunctionOnSet(f, S) = SumFunctionOnSet(g, S)
<1> DEFINE P(h) == CHOOSE k : PartialSums(h, S, k)
<1>1. PartialSums(f, S, P(f)) /\ PartialSums(g, S, P(g))
  BY PartialSumsExist
<1>2. SumFunctionOnSet(f, S) = P(f)[S] /\ SumFunctionOnSet(g, S) = P(g)[S]
  BY SumUnfold
<1> HIDE DEF P
<1>3. QED
  BY <1>1, <1>2, PartialSumsAgree

\* A sum is the value of any one of its elements, plus the sum over the others.
LEMMA SumRemove ==
  ASSUME NEW S, IsFiniteSet(S), NEW f, \A y \in S : f[y] \in Int, NEW x \in S
  PROVE  SumFunctionOnSet(f, S) = f[x] + SumFunctionOnSet(f, S \ {x})
<1> DEFINE Sum(T) == SumFunctionOnSet(f, T)
           Splits(T, y) == Sum(T) = f[y] + Sum(T \ {y})
           C == {T \in SUBSET S : \E y \in T : ~Splits(T, y)}
<1>1. \A T \in SUBSET S : /\ IsFiniteSet(T) /\ Sum(T) \in Int
                          /\ T # {} => Splits(T, First(T))
  <2> SUFFICES ASSUME NEW T \in SUBSET S
               PROVE  /\ IsFiniteSet(T) /\ Sum(T) \in Int
                      /\ T # {} => Splits(T, First(T))
    OBVIOUS
  <2>1. IsFiniteSet(T)
    BY FS_Subset
  <2>2. Sum(T) \in Int
    BY <2>1, SumInt
  <2>3. QED
    BY <2>1, <2>2, SumFirst
<1>2. SUFFICES ASSUME C # {} PROVE FALSE
  OBVIOUS
<1>3. PICK T \in C : \A U \in C : ~(U \subseteq T /\ U # T)
  <2>1. C \subseteq SUBSET S
    OBVIOUS
  <2> HIDE DEF C
  <2>2. QED
    BY <1>2, <2>1, MinimalSubset
<1>4. PICK y \in T : ~Splits(T, y)
  OBVIOUS
<1>5. \A U \in SUBSET T : U # T => \A z \in U : Splits(U, z)
  BY <1>3
<1>6. PICK p \in T : p = First(T)
  BY <1>4, FirstIn
<1>7. p # y /\ Splits(T, p)
  BY <1>1, <1>3, <1>4, <1>6
<1>8. Splits(T \ {p}, y) /\ Splits(T \ {y}, p)
  BY <1>4, <1>5, <1>7
<1>9. (T \ {p}) \ {y} = (T \ {y}) \ {p}
  OBVIOUS
<1>10. /\ f[p] \in Int /\ f[y] \in Int
       /\ Sum((T \ {y}) \ {p}) \in Int
  <2>1. (T \ {y}) \ {p} \in SUBSET S
    BY <1>3
  <2>2. QED
    BY <1>1, <2>1
<1>11. PICK n \in Int : n = Sum((T \ {y}) \ {p}) /\ n = Sum((T \ {p}) \ {y})
  BY <1>9, <1>10
<1>12. /\ Sum(T) # f[y] + Sum(T \ {y})
       /\ Sum(T) = f[p] + Sum(T \ {p})
       /\ Sum(T \ {p}) = f[y] + n
       /\ Sum(T \ {y}) = f[p] + n
  BY <1>4, <1>7, <1>8, <1>11
<1> HIDE DEF Sum
<1>13. QED
  BY <1>10, <1>12

\* Changing one element of a set, or its value, changes the sum by that much.
LEMMA SumReplace ==
  ASSUME NEW S, IsFiniteSet(S), NEW f, \A y \in S : f[y] \in Int,
         NEW T, IsFiniteSet(T), NEW g, \A y \in T : g[y] \in Int,
         NEW x, S \ {x} = T \ {x}, \A y \in S \ {x} : f[y] = g[y]
  PROVE  SumFunctionOnSet(g, T) =
           SumFunctionOnSet(f, S) + (IF x \in T THEN g[x] ELSE 0)
                                  - (IF x \in S THEN f[x] ELSE 0)
<1> DEFINE R == S \ {x}
<1>1. /\ R = T \ {x} /\ IsFiniteSet(R)
      /\ x \in S => SumFunctionOnSet(f, S) = f[x] + SumFunctionOnSet(f, R)
      /\ x \in T => SumFunctionOnSet(g, T) = g[x] + SumFunctionOnSet(g, T \ {x})
  BY FS_RemoveElement, SumRemove
<1>2. \A y \in R : f[y] \in Int /\ f[y] = g[y]
  OBVIOUS
<1>3. /\ x \notin S => S = R
      /\ x \notin T => T = R
  OBVIOUS
<1> HIDE DEF R
<1>4. SumFunctionOnSet(f, R) \in Int /\ SumFunctionOnSet(g, R) = SumFunctionOnSet(f, R)
  BY <1>1, <1>2, SumInt, SumAgree
<1>5. /\ x \notin S => SumFunctionOnSet(f, S) = SumFunctionOnSet(f, R)
      /\ x \notin T => SumFunctionOnSet(g, T) = SumFunctionOnSet(g, R)
  BY <1>3
<1>6. /\ x \in S => f[x] \in Int
      /\ x \in T => g[x] \in Int /\ SumFunctionOnSet(g, T \ {x}) = SumFunctionOnSet(g, R)
  BY <1>1
<1>7. QED
  BY <1>1, <1>4, <1>5, <1>6

------------------------------------------------------------------------------
(* The cash operators                                                      *)

\* A cash record whose amounts are in range.
Funds(c) == c \in CashType /\ c.balance >= 0 /\ c.deposit \in 0 .. InitialDeposit

\* A credit keeps the cash in range, adds exactly its amount and leaves the
\* marker alone.
LEMMA CreditFunds ==
  ASSUME NEW c, NEW amount \in Nat, Funds(c)
  PROVE  /\ Funds(CreditCash(c, amount))
         /\ CreditCash(c, amount).balance + CreditCash(c, amount).deposit
              = c.balance + c.deposit + amount
         /\ CreditCash(c, amount).exhausted = c.exhausted
         /\ CreditCash(c, amount).deposit >= c.deposit
<1> DEFINE u == c.balance + (amount - Refill(c, amount))
           v == c.deposit + Refill(c, amount)
<1>1. /\ Refill(c, amount) \in Nat /\ Refill(c, amount) <= amount
      /\ Refill(c, amount) <= InitialDeposit - c.deposit
  BY RulesAssumption DEF Funds, CashType, Refill, Least, Most
<1>2. /\ u \in Int /\ v \in Int /\ u >= 0 /\ v \in 0 .. InitialDeposit
      /\ u + v = c.balance + c.deposit + amount /\ v >= c.deposit
  BY <1>1, RulesAssumption DEF Funds, CashType
<1>3. CreditCash(c, amount) = [c EXCEPT !.deposit = v, !.balance = u]
  BY DEF CreditCash
<1>4. c \in CashType
  BY DEF Funds
<1> HIDE DEF u, v
<1>5. LET d == CreditCash(c, amount)
      IN /\ d \in CashType /\ d.balance = u /\ d.deposit = v
         /\ d.exhausted = c.exhausted
  BY <1>2, <1>3, <1>4 DEF CashType
<1>6. QED
  BY <1>2, <1>5 DEF Funds

\* A debit keeps the cash in range, takes at most its amount, takes less only
\* when it sets the marker, and never clears the marker.
LEMMA DebitFunds ==
  ASSUME NEW c, NEW amount \in Nat, Funds(c)
  PROVE  /\ Funds(DebitCash(c, amount))
         /\ DebitCash(c, amount).balance + DebitCash(c, amount).deposit
              >= c.balance + c.deposit - amount
         /\ ~DebitCash(c, amount).exhausted =>
              DebitCash(c, amount).balance + DebitCash(c, amount).deposit
                = c.balance + c.deposit - amount
         /\ c.exhausted => DebitCash(c, amount).exhausted
         /\ DebitCash(c, amount).deposit = 0 /\ c.deposit > 0 =>
              DebitCash(c, amount).exhausted
<1> DEFINE u == c.balance - FromBalance(c, amount)
           v == c.deposit - FromDeposit(c, amount)
           e == c.exhausted \/ Exhausts(c, amount)
<1>1. /\ FromBalance(c, amount) \in Nat /\ FromDeposit(c, amount) \in Nat
      /\ FromBalance(c, amount) <= c.balance /\ FromDeposit(c, amount) <= c.deposit
      /\ FromBalance(c, amount) + FromDeposit(c, amount) <= amount
  BY RulesAssumption DEF Funds, CashType, FromBalance, FromDeposit, Least
<1>2. ~Exhausts(c, amount) =>
        FromBalance(c, amount) + FromDeposit(c, amount) = amount
  BY RulesAssumption
     DEF Funds, CashType, FromBalance, FromDeposit, Exhausts, Least
<1>3. /\ u \in Int /\ v \in Int /\ u >= 0 /\ v \in 0 .. InitialDeposit
      /\ u + v >= c.balance + c.deposit - amount
      /\ ~Exhausts(c, amount) => u + v = c.balance + c.deposit - amount
  BY <1>1, <1>2, RulesAssumption DEF Funds, CashType
<1>4. v = 0 /\ c.deposit > 0 => Exhausts(c, amount)
  BY <1>1, RulesAssumption DEF Funds, CashType, Exhausts
<1>5. e \in BOOLEAN /\ (~e => ~Exhausts(c, amount))
                    /\ (c.exhausted => e) /\ (Exhausts(c, amount) => e)
  BY DEF Funds, CashType, Exhausts
<1>6. DebitCash(c, amount) =
        [c EXCEPT !.balance = u, !.deposit = v, !.exhausted = e]
  BY DEF DebitCash
<1>7. c \in CashType
  BY DEF Funds
<1> HIDE DEF u, v, e
<1>8. LET d == DebitCash(c, amount)
      IN d \in CashType /\ d.balance = u /\ d.deposit = v /\ d.exhausted = e
  BY <1>3, <1>5, <1>6, <1>7 DEF CashType
<1>9. QED
  BY <1>3, <1>4, <1>5, <1>8 DEF Funds

\* A penalty keeps the cash in range.
LEMMA PenaltyFunds ==
  ASSUME NEW c, NEW p \in Nat, Funds(c)
  PROVE  Funds(ApplyPenalty(c, p))
<1>1. Funds([c EXCEPT !.fine = @ + p])
  BY DEF Funds, CashType
<1>2. QED
  BY <1>1, DebitFunds DEF ApplyPenalty

\* Moving goods or sales in flight keeps the cash in range.
LEMMA FlightFunds ==
  ASSUME NEW c, NEW x \in Int, NEW y \in Int, Funds(c)
  PROVE  /\ Funds([c EXCEPT !.in_transit = x])
         /\ Funds([c EXCEPT !.receivable = y])
         /\ Funds([c EXCEPT !.in_transit = x, !.receivable = y])
BY DEF Funds, CashType

------------------------------------------------------------------------------
(* Types and solvency                                                      *)

\* Every fine is a natural number.
LEMMA FineIsNat == \A k \in FineKinds : Fine[k] \in Nat
BY RulesAssumption

\* The fields of an offer are natural numbers, within the bounds of OffersAssumption.
LEMMA OfferFacts ==
  \A f \in Offers \cup {NoOffer} :
    /\ f \in OfferType /\ f.cost - f.recovered \in Nat
    /\ f.sale - f.commission \in Nat
BY OffersAssumption DEF OfferType, NoOffer

\* The record of an identifier that no order uses yet is a record of the table.
LEMMA BlankOrderType == BlankOrder \in OrderType
BY AgentsAssumption
   DEF BlankOrder, OrderType, NoTime, Time, Status, Kinds, NoOffer

\* Types, with the ranges that make the agents solvent.
Ranges == TypeOK /\ Solvent

\* What the range of every agent's cash says of one agent.
LEMMA RangesFunds ==
  ASSUME Ranges, NEW a \in Agents
  PROVE  Funds(cash[a])
BY DEF Ranges, TypeOK, Solvent, Funds

\* The run starts with everything in range.
LEMMA RangesInit == Init => Ranges
<1> SUFFICES ASSUME Init PROVE Ranges
  OBVIOUS
<1>1. ord \in [Orders -> OrderType]
  BY BlankOrderType DEF Init
<1>2. cash \in [Agents -> CashType]
  BY RulesAssumption DEF Init, CashType
<1>3. Solvent
  BY RulesAssumption DEF Init, Solvent
<1>4. QED
  BY <1>1, <1>2, <1>3 DEF Init, Ranges, TypeOK, Time, NoTime

\* A step of the order loop keeps the ranges if its record and its cash do.
LEMMA TransitionRanges ==
  ASSUME Ranges, NEW o \in Orders, NEW r \in OrderType, NEW c, Funds(c),
         Transition(o, r, c)
  PROVE  Ranges'
<1>1. ord[o].agent \in Agents
  BY DEF Ranges, TypeOK, OrderType
<1>2. ord' \in [Orders -> OrderType]
  BY DEF Transition, Ranges, TypeOK
<1>3. cash' \in [Agents -> CashType]
  BY <1>1 DEF Transition, Ranges, TypeOK, Funds
<1>4. Solvent'
  BY <1>1 DEF Transition, Ranges, TypeOK, Solvent, Funds
<1>5. QED
  BY <1>1, <1>2, <1>3, <1>4 DEF Transition, Ranges, TypeOK

\* The order records that the order loop writes.
LEMMA OrderUpdates ==
  ASSUME NEW r \in OrderType, NEW s \in Status, NEW x \in Nat,
         NEW p \in Nat, NEW q \in Nat, NEW n \in Nat
  PROVE  /\ [r EXCEPT !.status = s, !.late_t = x, !.penalty = p] \in OrderType
         /\ [r EXCEPT !.status = s, !.shipped_t = x] \in OrderType
         /\ [r EXCEPT !.status = s, !.cost = n, !.settled_t = x,
                      !.penalty = p] \in OrderType
         /\ [r EXCEPT !.status = s, !.delivered_t = x] \in OrderType
         /\ [r EXCEPT !.status = s, !.settled_t = x, !.revenue = n,
                      !.fees = q] \in OrderType
         /\ [r EXCEPT !.penalty = p] \in OrderType
         /\ [r EXCEPT !.status = s, !.settled_t = x, !.cost = n, !.fees = q,
                      !.penalty = p] \in OrderType
         /\ [r EXCEPT !.status = s, !.settled_t = x, !.penalty = p] \in OrderType
<1> USE DEF OrderType
<1>1. x \in Time
  BY DEF Time
<1>2. [r EXCEPT !.status = s, !.late_t = x, !.penalty = p] \in OrderType
  BY <1>1
<1>3. [r EXCEPT !.status = s, !.shipped_t = x] \in OrderType
  BY <1>1
<1>4. [r EXCEPT !.status = s, !.cost = n, !.settled_t = x, !.penalty = p]
        \in OrderType
  BY <1>1
<1>5. [r EXCEPT !.status = s, !.delivered_t = x] \in OrderType
  BY <1>1
<1>6. [r EXCEPT !.status = s, !.settled_t = x, !.revenue = n, !.fees = q]
        \in OrderType
  BY <1>1
<1>7. [r EXCEPT !.penalty = p] \in OrderType
  OBVIOUS
<1>8. [r EXCEPT !.status = s, !.settled_t = x, !.cost = n, !.fees = q,
                !.penalty = p] \in OrderType
  BY <1>1
<1>9. [r EXCEPT !.status = s, !.settled_t = x, !.penalty = p] \in OrderType
  BY <1>1
<1>10. QED
  BY <1>2, <1>3, <1>4, <1>5, <1>6, <1>7, <1>8, <1>9

\* The timeout fine keeps an order and its agent's cash in range.
LEMMA LatenessTypes ==
  ASSUME t \in Nat, NEW r \in OrderType, NEW c, Funds(c)
  PROVE  Lateness(r) \in OrderType /\ Funds(LatenessCash(r, c))
<1>1. Fine["timeout"] \in Nat
  BY FineIsNat DEF FineKinds
<1>2. r.penalty \in Nat
  BY DEF OrderType
<1>3. r.penalty + Fine["timeout"] \in Nat
  BY <1>1, <1>2
<1>4. "late" \in Status
  BY DEF Status, Active
<1>5. Lateness(r) \in OrderType
  BY <1>3, <1>4, OrderUpdates DEF Lateness
<1>6. Funds(LatenessCash(r, c))
  BY <1>1, PenaltyFunds DEF LatenessCash
<1>7. QED
  BY <1>5, <1>6

\* The sale that a settlement records is a record of the table.
LEMMA SoldType ==
  ASSUME t \in Nat, NEW r \in OrderType, NEW s \in Status
  PROVE  Sold(r, s) \in OrderType
<1>1. r.offer \in OfferType /\ r.fees \in Nat
  BY OfferFacts DEF OrderType
<1>2. r.offer.sale \in Nat /\ r.fees + r.offer.commission \in Nat
  BY <1>1 DEF OfferType
<1>3. QED
  BY <1>2, OrderUpdates DEF Sold

\* Paying a sale keeps the cash in range.
LEMMA CreditSaleFunds ==
  ASSUME NEW c, Funds(c), NEW f \in Offers \cup {NoOffer}
  PROVE  Funds(CreditSale(c, f))
<1>1. f.sale \in Nat /\ f.sale - f.commission \in Nat
  BY OfferFacts DEF OfferType
<1>2. c.receivable - f.sale \in Int
  BY <1>1 DEF Funds, CashType
<1>3. Funds([c EXCEPT !.receivable = @ - f.sale])
  BY <1>2, FlightFunds
<1>4. QED
  BY <1>1, <1>3, CreditFunds DEF CreditSale

\* Every branch of the order loop keeps the ranges.
LEMMA StepOrderRanges ==
  ASSUME Ranges, NEW o \in Orders, StepOrder(o)
  PROVE  Ranges'
<1>1. PICK r : r = ord[o]
  OBVIOUS
<1>2. PICK f : f = r.offer
  OBVIOUS
<1>3. PICK c : c = cash[r.agent]
  OBVIOUS
<1>4. /\ r \in OrderType /\ f \in Offers \cup {NoOffer} /\ r.agent \in Agents
      /\ t \in Nat /\ r.penalty \in Nat /\ r.fees \in Nat
  BY <1>1, <1>2 DEF Ranges, TypeOK, OrderType
<1>5. Funds(c)
  BY <1>3, <1>4, RangesFunds
<1>6. /\ f.sale \in Nat /\ f.cost \in Nat /\ f.recovered \in Nat
      /\ f.cost - f.recovered \in Nat
  BY <1>4, OfferFacts DEF OfferType
<1>7. /\ c.in_transit - f.cost \in Int /\ c.receivable - f.sale \in Int
      /\ c.receivable + f.sale \in Int
  BY <1>5, <1>6 DEF Funds, CashType
<1>8. /\ {"late", "shipped", "delivered"} \subseteq Status
      /\ {"cancelled", "settled_normal", "settled_bad_review",
          "settled_refund", "settled_only_refund"} \subseteq Status
  BY DEF Status, Active, Terminal
<1>9. /\ \A k \in {"cancel", "bad_review", "refund", "only_refund"} :
           Fine[k] \in Nat /\ r.penalty + Fine[k] \in Nat
      /\ ReverseFee \in Nat /\ r.fees + ReverseFee \in Nat
  BY <1>4, FineIsNat, RulesAssumption DEF FineKinds
<1>10. CASE GoLate(o)
  BY <1>1, <1>3, <1>4, <1>5, <1>10, LatenessTypes, TransitionRanges DEF GoLate
<1>11. CASE Ship(o)
  <2>1. Lateness(r) \in OrderType /\ Funds(LatenessCash(r, c))
    BY <1>4, <1>5, LatenessTypes
  <2>2. [Lateness(r) EXCEPT !.status = "shipped", !.shipped_t = t] \in OrderType
    BY <2>1, <1>4, <1>8, OrderUpdates
  <2>3. QED
    BY <1>1, <1>3, <1>11, <2>1, <2>2, TransitionRanges DEF Ship
<1>12. CASE CancelShipped(o)
  <2>1. [r EXCEPT !.status = "cancelled", !.cost = 0, !.settled_t = t,
                  !.penalty = @ + Fine["cancel"]] \in OrderType
    BY <1>4, <1>8, <1>9, OrderUpdates
  <2>2. Funds([c EXCEPT !.in_transit = @ - f.cost])
    BY <1>5, <1>7, FlightFunds
  <2>3. Funds(CreditCash([c EXCEPT !.in_transit = @ - f.cost], f.cost))
    BY <1>6, <2>2, CreditFunds
  <2>4. Funds(ApplyPenalty(CreditCash([c EXCEPT !.in_transit = @ - f.cost],
                                      f.cost), Fine["cancel"]))
    BY <1>9, <2>3, PenaltyFunds
  <2>5. QED
    BY <1>1, <1>2, <1>3, <1>12, <2>1, <2>4, TransitionRanges DEF CancelShipped
<1>13. CASE Deliver(o)
  <2>1. [r EXCEPT !.status = "delivered", !.delivered_t = t] \in OrderType
    BY <1>4, <1>8, OrderUpdates
  <2>2. Funds([c EXCEPT !.in_transit = @ - f.cost, !.receivable = @ + f.sale])
    BY <1>5, <1>7, FlightFunds
  <2>3. QED
    BY <1>1, <1>2, <1>3, <1>13, <2>1, <2>2, TransitionRanges DEF Deliver
<1>14. CASE SettleNormal(o)
  BY <1>1, <1>2, <1>3, <1>4, <1>5, <1>8, <1>14, SoldType, CreditSaleFunds,
     TransitionRanges DEF SettleNormal
<1>15. CASE SettleBadReview(o)
  <2>1. Sold(r, "settled_bad_review") \in OrderType
    BY <1>4, <1>8, SoldType
  <2>2. Sold(r, "settled_bad_review").penalty + Fine["bad_review"] \in Nat
    BY <1>9, <2>1 DEF OrderType
  <2>3. [Sold(r, "settled_bad_review") EXCEPT !.penalty = @ + Fine["bad_review"]]
          \in OrderType
    BY <2>1, <2>2, OrderUpdates, <1>8, <1>4
  <2>4. Funds(ApplyPenalty(CreditSale(c, f), Fine["bad_review"]))
    BY <1>4, <1>5, <1>9, CreditSaleFunds, PenaltyFunds
  <2>5. QED
    BY <1>1, <1>2, <1>3, <1>15, <2>3, <2>4, TransitionRanges
       DEF SettleBadReview
<1>16. CASE SettleRefund(o)
  <2> DEFINE unpaid == [c EXCEPT !.receivable = @ - f.sale]
  <2>1. [r EXCEPT !.status = "settled_refund", !.settled_t = t,
                  !.cost = f.cost - f.recovered, !.fees = @ + ReverseFee,
                  !.penalty = @ + Fine["refund"]] \in OrderType
    BY <1>4, <1>6, <1>8, <1>9, OrderUpdates
  <2>2. Funds(unpaid)
    BY <1>5, <1>7, FlightFunds
  <2>3. Funds(CreditCash(unpaid, f.recovered))
    BY <1>6, <2>2, CreditFunds
  <2>4. Funds(DebitCash(CreditCash(unpaid, f.recovered), ReverseFee))
    BY <1>9, <2>3, DebitFunds
  <2>5. Funds(ApplyPenalty(DebitCash(CreditCash(unpaid, f.recovered), ReverseFee),
                           Fine["refund"]))
    BY <1>9, <2>4, PenaltyFunds
  <2>6. QED
    BY <1>1, <1>2, <1>3, <1>16, <2>1, <2>5, TransitionRanges DEF SettleRefund
<1>17. CASE SettleOnlyRefund(o)
  <2>1. [r EXCEPT !.status = "settled_only_refund", !.settled_t = t,
                  !.penalty = @ + Fine["only_refund"]] \in OrderType
    BY <1>4, <1>8, <1>9, OrderUpdates
  <2>2. Funds([c EXCEPT !.receivable = @ - f.sale])
    BY <1>5, <1>7, FlightFunds
  <2>3. Funds(ApplyPenalty([c EXCEPT !.receivable = @ - f.sale],
                           Fine["only_refund"]))
    BY <1>9, <2>2, PenaltyFunds
  <2>4. QED
    BY <1>1, <1>2, <1>3, <1>17, <2>1, <2>3, TransitionRanges
       DEF SettleOnlyRefund
<1>18. QED
  BY <1>10, <1>11, <1>12, <1>13, <1>14, <1>15, <1>16, <1>17 DEF StepOrder

\* The record of a fined candidate and of a bought one.
LEMMA NewOrderTypes ==
  ASSUME t \in Nat, NEW a \in Agents, NEW f \in Offers
  PROVE  /\ \A k \in Violations :
              [BlankOrder EXCEPT !.status = k, !.agent = a, !.offer = f,
                 !.purchase_t = t, !.settled_t = t, !.penalty = Fine[k]]
                \in OrderType
         /\ \A k \in Kinds, at \in Time, d \in Time :
              [BlankOrder EXCEPT !.status = "ordered", !.agent = a,
                 !.offer = f, !.kind = k, !.purchase_t = t, !.anomaly_t = at,
                 !.delay = d, !.cost = f.cost, !.fees = FulfillmentFee]
                \in OrderType
<1>1. PICK b : b = BlankOrder /\ b \in OrderType
  BY BlankOrderType
<1>2. t \in Time /\ f \in Offers \cup {NoOffer}
  BY DEF Time
<1>3. ASSUME NEW k \in Violations
      PROVE  [b EXCEPT !.status = k, !.agent = a, !.offer = f,
                !.purchase_t = t, !.settled_t = t, !.penalty = Fine[k]]
               \in OrderType
  <2>1. k \in Status /\ Fine[k] \in Nat
    BY FineIsNat DEF Violations, FineKinds, Status, Terminal
  <2>2. QED
    BY <1>1, <1>2, <2>1 DEF OrderType
<1>4. ASSUME NEW k \in Kinds, NEW at \in Time, NEW d \in Time
      PROVE  [b EXCEPT !.status = "ordered", !.agent = a, !.offer = f,
                !.kind = k, !.purchase_t = t, !.anomaly_t = at, !.delay = d,
                !.cost = f.cost, !.fees = FulfillmentFee] \in OrderType
  <2>1. "ordered" \in Status /\ f.cost \in Nat /\ FulfillmentFee \in Nat
    BY OfferFacts, RulesAssumption DEF OfferType, Status, Active
  <2>2. QED
    BY <1>1, <1>2, <2>1 DEF OrderType
<1>5. QED
  BY <1>1, <1>3, <1>4

\* The preset times of a new order are times.
LEMMA PresetTimes ==
  ASSUME t \in Nat, NEW f \in Offers, NEW k \in Kinds
  PROVE  AnomalyTimes(k, f) \subseteq Time /\ SettleDelays(k) \subseteq Time
<1>1. f.ship \in Nat /\ f.logistics \in Nat
  BY OffersAssumption DEF OfferType
<1>2. QED
  BY <1>1, TimesAssumption
     DEF AnomalyTimes, SettleDelays, Time, NoTime, Most, Kinds

\* A bought or fined candidate keeps the ranges.
LEMMA PurchaseRanges ==
  ASSUME Ranges, NEW o \in Orders, NEW a \in Agents, NEW f \in Offers,
         Purchase(o, a, f)
  PROVE  Ranges'
<1>1. t \in Nat /\ Funds(cash[a])
  BY RangesFunds DEF Ranges, TypeOK
<1>2. ASSUME NEW k \in Violations, Violate(o, a, f, k) PROVE Ranges'
  <2>1. Fine[k] \in Nat
    BY FineIsNat DEF Violations, FineKinds
  <2>2. Funds(ApplyPenalty(cash[a], Fine[k]))
    BY <1>1, <2>1, PenaltyFunds
  <2>3. ord' \in [Orders -> OrderType]
    BY <1>1, <1>2, NewOrderTypes DEF Violate, Ranges, TypeOK
  <2>4. cash' \in [Agents -> CashType] /\ Solvent'
    BY <1>2, <2>2 DEF Violate, Ranges, TypeOK, Solvent, Funds
  <2>5. alive' \in [Agents -> BOOLEAN]
    BY <1>2 DEF Violate, AliveAfter, Ranges, TypeOK
  <2>6. viol' \in [Agents -> Nat]
    BY <1>2 DEF Violate, Ranges, TypeOK
  <2>7. QED
    BY <1>2, <2>3, <2>4, <2>5, <2>6 DEF Violate, Ranges, TypeOK
<1>3. ASSUME Procure(o, a, f) PROVE Ranges'
  <2>1. RequiredCash(f) \in Nat /\ f.cost \in Nat /\ f.cost \in Int
    BY OfferFacts, RulesAssumption DEF RequiredCash, OfferType
  <2>2. PICK k \in Kinds : \E at \in AnomalyTimes(k, f), d \in SettleDelays(k) :
          ord' = [ord EXCEPT ![o] =
                    [BlankOrder EXCEPT !.status = "ordered", !.agent = a,
                       !.offer = f, !.kind = k, !.purchase_t = t,
                       !.anomaly_t = at, !.delay = d, !.cost = f.cost,
                       !.fees = FulfillmentFee]]
    BY <1>3 DEF Procure
  <2>3. PICK at \in AnomalyTimes(k, f), d \in SettleDelays(k) :
          ord' = [ord EXCEPT ![o] =
                    [BlankOrder EXCEPT !.status = "ordered", !.agent = a,
                       !.offer = f, !.kind = k, !.purchase_t = t,
                       !.anomaly_t = at, !.delay = d, !.cost = f.cost,
                       !.fees = FulfillmentFee]]
    BY <2>2
  <2>4. at \in Time /\ d \in Time
    BY <1>1, PresetTimes
  <2>5. [BlankOrder EXCEPT !.status = "ordered", !.agent = a,
           !.offer = f, !.kind = k, !.purchase_t = t, !.anomaly_t = at,
           !.delay = d, !.cost = f.cost, !.fees = FulfillmentFee] \in OrderType
    BY <1>1, <2>4, NewOrderTypes
  <2>6. ord' \in [Orders -> OrderType]
    BY <2>3, <2>5 DEF Ranges, TypeOK
  <2>7. /\ cash[a].balance - RequiredCash(f) \in Int
        /\ cash[a].balance - RequiredCash(f) >= 0
        /\ cash[a].in_transit + f.cost \in Int
    BY <1>1, <1>3, <2>1 DEF Procure, Funds, CashType
  <2>8. Funds(Pay(cash[a], f))
    BY <1>1, <2>7 DEF Funds, CashType, Pay
  <2>9. cash' \in [Agents -> CashType] /\ Solvent'
    BY <1>3, <2>8 DEF Procure, Ranges, TypeOK, Solvent, Funds
  <2>10. QED
    BY <1>3, <2>6, <2>9 DEF Procure, Ranges, TypeOK
<1>4. QED
  BY <1>2, <1>3 DEF Purchase, Stockout, InsufficientBalance, Violations

\* Every step of the run keeps the ranges.
LEMMA RangesNext == Ranges /\ [Next]_vars => Ranges'
<1> SUFFICES ASSUME Ranges, [Next]_vars PROVE Ranges'
  OBVIOUS
<1> USE DEF Ranges, TypeOK
<1>1. CASE BeginStep
  BY <1>1, TimesAssumption DEF BeginStep, PhaseFor, DrainStart, DueOrders,
     Solvent, Time, NoTime
<1>2. ASSUME NEW o \in Orders, NEW a \in Agents, NEW f \in Offers,
             Purchase(o, a, f)
      PROVE  Ranges'
  BY <1>2, PurchaseRanges
<1>3. CASE EndDemand
  BY <1>3 DEF EndDemand, AliveAfter, DueOrders, Solvent
<1>4. ASSUME NEW o \in Orders, StepOrder(o) PROVE Ranges'
  BY <1>4, StepOrderRanges
<1>5. ASSUME NEW o \in Orders, PassOver(o) PROVE Ranges'
  BY <1>5 DEF PassOver, Solvent
<1>6. CASE EndOrders
  BY <1>6 DEF EndOrders, AliveAfter, Solvent
<1>7. CASE CloseStep
  BY <1>7 DEF CloseStep, PhaseFor, DrainStart, Solvent, Time, NoTime
<1>8. CASE Halted \/ UNCHANGED vars
  BY <1>8 DEF Halted, vars, Solvent
<1>9. QED
  BY <1>1, <1>2, <1>3, <1>4, <1>5, <1>6, <1>7, <1>8 DEF Next, Work

\* Every reachable state is well typed and no agent ever owes: usable cash and
\* guarantee never go below zero, and the guarantee never exceeds what was
\* deposited, whatever the fines, fees and prices are.
THEOREM AgentsStaySolvent == Spec => [](TypeOK /\ Solvent)
<1>1. Spec => []Ranges
  BY RangesInit, RangesNext, PTL DEF Spec
<1>2. QED
  BY <1>1, PTL DEF Ranges

------------------------------------------------------------------------------
(* Death                                                                   *)

\* One step of the order loop changes one agent's cash, and puts that agent on
\* the list of the next death check.
LEMMA StepOrderTouches ==
  ASSUME TypeOK, NEW o \in Orders, StepOrder(o)
  PROVE  /\ phase = "orders" /\ UNCHANGED <<phase, alive>>
         /\ touched' = touched \cup {ord[o].agent}
         /\ \A a \in Agents : a # ord[o].agent => cash'[a] = cash[a]
<1>1. ASSUME NEW s, NEW c, Transition(o, s, c), phase = "orders"
      PROVE  /\ phase = "orders" /\ UNCHANGED <<phase, alive>>
             /\ touched' = touched \cup {ord[o].agent}
             /\ \A a \in Agents : a # ord[o].agent => cash'[a] = cash[a]
  BY <1>1 DEF Transition, TypeOK
<1>2. phase = "orders" /\ \E s, c : Transition(o, s, c)
  <2>1. CASE GoLate(o)
    BY <2>1 DEF GoLate, Reached
  <2>2. CASE Ship(o)
    BY <2>2 DEF Ship, Reached
  <2>3. CASE CancelShipped(o)
    BY <2>3 DEF CancelShipped, Reached
  <2>4. CASE Deliver(o)
    BY <2>4 DEF Deliver, Reached
  <2>5. CASE SettleNormal(o)
    BY <2>5 DEF SettleNormal, Reached
  <2>6. CASE SettleBadReview(o)
    BY <2>6 DEF SettleBadReview, Reached
  <2>7. CASE SettleRefund(o)
    BY <2>7 DEF SettleRefund, Reached
  <2>8. CASE SettleOnlyRefund(o)
    BY <2>8 DEF SettleOnlyRefund, Reached
  <2>9. QED
    BY <2>1, <2>2, <2>3, <2>4, <2>5, <2>6, <2>7, <2>8 DEF StepOrder
<1>3. QED
  BY <1>1, <1>2

\* An agent that must close but lives is on the list of a death check that is
\* still to come in this tick.
Doomed == \A a \in Agents :
  alive[a] /\ MustClose(cash[a]) => phase \in {"demand", "orders"} /\ a \in touched

\* A procurement is paid from usable cash alone and sets no marker.
LEMMA PayKeepsDeposit ==
  ASSUME NEW c \in CashType, NEW f
  PROVE  MustClose(Pay(c, f)) <=> MustClose(c)
BY DEF MustClose, Pay, CashType

\* Between the steps of a tick, an agent that must close is on its way to a death check.
LEMMA DoomedNext == TypeOK /\ Doomed /\ [Next]_vars => Doomed'
<1> SUFFICES ASSUME TypeOK, Doomed, [Next]_vars PROVE Doomed'
  OBVIOUS
<1>1. CASE BeginStep
  BY <1>1 DEF BeginStep, Doomed
<1>2. ASSUME NEW o \in Orders, NEW a \in Agents, NEW f \in Offers,
             Purchase(o, a, f)
      PROVE  Doomed'
  <2>1. ASSUME NEW kind, Violate(o, a, f, kind) PROVE Doomed'
    BY <2>1 DEF Violate, Candidate, AliveAfter, Doomed, TypeOK
  <2>2. CASE Procure(o, a, f)
    <3>1. \A b \in Agents : MustClose(cash'[b]) <=> MustClose(cash[b])
      BY <2>2, PayKeepsDeposit DEF Procure, TypeOK
    <3>2. phase = "demand" /\ phase' = phase /\ alive' = alive
          /\ touched \subseteq touched'
      BY <2>2 DEF Procure, Candidate
    <3>3. QED
      BY <3>1, <3>2 DEF Doomed
  <2>3. QED
    BY <1>2, <2>1, <2>2 DEF Purchase, Stockout, InsufficientBalance
<1>3. CASE EndDemand
  BY <1>3 DEF EndDemand, AliveAfter, Doomed
<1>4. ASSUME NEW o \in Orders, StepOrder(o) PROVE Doomed'
  BY <1>4, StepOrderTouches DEF Doomed, TypeOK
<1>5. ASSUME NEW o \in Orders, PassOver(o) PROVE Doomed'
  BY <1>5 DEF PassOver, Doomed
<1>6. CASE EndOrders
  BY <1>6 DEF EndOrders, AliveAfter, Doomed
<1>7. CASE CloseStep
  BY <1>7 DEF CloseStep, Doomed
<1>8. CASE Halted \/ UNCHANGED vars
  BY <1>8 DEF Halted, vars, Doomed
<1>9. QED
  BY <1>1, <1>2, <1>3, <1>4, <1>5, <1>6, <1>7, <1>8 DEF Next, Work

\* No agent survives the exhaustion of its guarantee: whatever mixture of
\* fines, fees and refunds emptied it, by the time the hook opens, and when the
\* tick is over, every living agent has a guarantee that was never used up.
THEOREM NoZombieAgent == Spec => []NoZombie
<1>1. Init => Doomed
  BY RulesAssumption DEF Init, Doomed, MustClose
<1>2. Spec => []Doomed
  BY <1>1, AgentsStaySolvent, DoomedNext, PTL DEF Spec
<1>3. TypeOK /\ Solvent /\ Doomed => NoZombie
  <2> SUFFICES ASSUME TypeOK, Solvent, Doomed, phase \in {"hook", "idle"},
                      NEW a \in Agents, alive[a]
               PROVE  cash[a].deposit > 0 /\ ~cash[a].exhausted
    BY DEF NoZombie
  <2>1. ~MustClose(cash[a])
    BY DEF Doomed
  <2>2. cash[a].deposit \in 0 .. InitialDeposit
    BY DEF Solvent
  <2>3. QED
    BY <2>1, <2>2, RulesAssumption DEF MustClose
<1>4. QED
  BY <1>2, <1>3, AgentsStaySolvent, PTL

------------------------------------------------------------------------------
(* What one step of the order loop does to the record of the order         *)

SameDeal(r, s) ==
  /\ s.agent = r.agent /\ s.offer = r.offer /\ s.kind = r.kind
  /\ s.purchase_t = r.purchase_t /\ s.anomaly_t = r.anomaly_t
  /\ s.delay = r.delay

GoesLate(r, s) ==
  /\ IsLateNow(r) /\ ~ShipsNow(r)
  /\ s.status = "late" /\ s.late_t = t
  /\ s.penalty = r.penalty + Fine["timeout"]

Ships(r, s) ==
  /\ r.status \in Unshipped /\ ShipsNow(r)
  /\ s.status = "shipped" /\ s.shipped_t = t
  /\ IsLateNow(r) => s.late_t = t /\ s.penalty = r.penalty + Fine["timeout"]
  /\ ~IsLateNow(r) => s.late_t = r.late_t /\ s.penalty = r.penalty

Arrives(r, s) ==
  /\ r.status = "shipped" /\ ~CancelDue(r) /\ ArrivalDue(r)
  /\ s.status = "delivered" /\ s.delivered_t = t
  /\ s.late_t = r.late_t /\ s.penalty = r.penalty

\* The order ends in the given status, and the fine of that end is recorded.
Ends(r, s, status, fine) ==
  /\ s.status = status
  /\ s.late_t = r.late_t /\ s.penalty = r.penalty + fine

EndsSomehow(r, s) ==
  \/ r.status = "shipped" /\ Ends(r, s, "cancelled", Fine["cancel"])
  \/ /\ r.status = "delivered"
     /\ \/ r.kind = "normal" /\ Ends(r, s, "settled_normal", 0)
        \/ r.kind = "bad_review"
           /\ Ends(r, s, "settled_bad_review", Fine["bad_review"])
        \/ r.kind = "refund" /\ Ends(r, s, "settled_refund", Fine["refund"])
        \/ r.kind = "only_refund"
           /\ Ends(r, s, "settled_only_refund", Fine["only_refund"])

Effect(r, s) ==
  /\ SameDeal(r, s)
  /\ GoesLate(r, s) \/ Ships(r, s) \/ Arrives(r, s) \/ EndsSomehow(r, s)

\* What every branch of the order loop does to the record of its order: one
\* status change, with the fine that belongs to it.
LEMMA StepOrderEffect ==
  ASSUME TypeOK, NEW o \in Orders, StepOrder(o)
  PROVE  \E s, c : Transition(o, s, c) /\ Effect(ord[o], s) /\ o \in todo
<1>1. PICK r \in OrderType : r = ord[o]
  BY DEF TypeOK
<1>2. CASE GoLate(o)
  <2> DEFINE s == [r EXCEPT !.status = "late", !.late_t = t, !.penalty = @ + Fine["timeout"]]
             c == LatenessCash(r, cash[r.agent])
  <2>1. Transition(o, s, c) /\ IsLateNow(r) /\ ~ShipsNow(r) /\ o \in todo
    BY <1>1, <1>2 DEF GoLate, Lateness, Reached
  <2>2. SameDeal(r, s)
    BY DEF SameDeal, OrderType
  <2>3. s.status = "late" /\ s.late_t = t /\ s.penalty = r.penalty + Fine["timeout"]
    BY DEF OrderType
  <2> HIDE DEF s, c
  <2>4. Effect(r, s)
    BY <2>1, <2>2, <2>3 DEF Effect, GoesLate
  <2>5. QED
    BY <1>1, <2>1, <2>4
<1>3. CASE Ship(o)
  <2> DEFINE s == [Lateness(r) EXCEPT !.status = "shipped", !.shipped_t = t]
             c == LatenessCash(r, cash[r.agent])
  <2>1. Transition(o, s, c) /\ r.status \in Unshipped /\ ShipsNow(r) /\ o \in todo
    BY <1>1, <1>3 DEF Ship, Reached
  <2>2. CASE IsLateNow(r)
    <3>1. s = [[r EXCEPT !.status = "late", !.late_t = t, !.penalty = @ + Fine["timeout"]]
                EXCEPT !.status = "shipped", !.shipped_t = t]
      BY <2>2 DEF Lateness
    <3>2. SameDeal(r, s)
      BY <3>1 DEF SameDeal, OrderType
    <3>3. s.status = "shipped" /\ s.shipped_t = t /\ s.late_t = t
          /\ s.penalty = r.penalty + Fine["timeout"]
      BY <3>1 DEF OrderType
    <3> HIDE DEF s, c
    <3>4. QED
      BY <1>1, <2>1, <2>2, <3>2, <3>3 DEF Effect, Ships
  <2>3. CASE ~IsLateNow(r)
    <3>1. s = [r EXCEPT !.status = "shipped", !.shipped_t = t]
      BY <2>3 DEF Lateness
    <3>2. SameDeal(r, s)
      BY <3>1 DEF SameDeal, OrderType
    <3>3. s.status = "shipped" /\ s.shipped_t = t /\ s.late_t = r.late_t
          /\ s.penalty = r.penalty
      BY <3>1 DEF OrderType
    <3> HIDE DEF s, c
    <3>4. QED
      BY <1>1, <2>1, <2>3, <3>2, <3>3 DEF Effect, Ships
  <2>4. QED
    BY <2>2, <2>3
<1>4. CASE CancelShipped(o)
  <2> DEFINE s == [r EXCEPT !.status = "cancelled", !.cost = 0,
                     !.settled_t = t, !.penalty = @ + Fine["cancel"]]
             c == ApplyPenalty(CreditCash([cash[r.agent] EXCEPT
                                !.in_transit = @ - r.offer.cost], r.offer.cost),
                               Fine["cancel"])
  <2>1. Transition(o, s, c) /\ r.status = "shipped" /\ o \in todo
    BY <1>1, <1>4 DEF CancelShipped, Reached
  <2>2. SameDeal(r, s)
    BY DEF SameDeal, OrderType
  <2>3. Ends(r, s, "cancelled", Fine["cancel"])
    BY DEF Ends, OrderType
  <2> HIDE DEF s, c
  <2>4. QED
    BY <1>1, <2>1, <2>2, <2>3 DEF Effect, EndsSomehow
<1>5. CASE Deliver(o)
  <2> DEFINE s == [r EXCEPT !.status = "delivered", !.delivered_t = t]
             c == [cash[r.agent] EXCEPT !.in_transit = @ - r.offer.cost,
                                        !.receivable = @ + r.offer.sale]
  <2>1. Transition(o, s, c) /\ r.status = "shipped" /\ ~CancelDue(r)
        /\ ArrivalDue(r) /\ o \in todo
    BY <1>1, <1>5 DEF Deliver, Reached
  <2>2. SameDeal(r, s)
    BY DEF SameDeal, OrderType
  <2>3. s.status = "delivered" /\ s.delivered_t = t /\ s.late_t = r.late_t
        /\ s.penalty = r.penalty
    BY DEF OrderType
  <2> HIDE DEF s, c
  <2>4. QED
    BY <1>1, <2>1, <2>2, <2>3 DEF Effect, Arrives
<1>6. CASE SettleNormal(o)
  <2> DEFINE s == [r EXCEPT !.status = "settled_normal", !.settled_t = t,
                     !.revenue = r.offer.sale, !.fees = @ + r.offer.commission]
             c == CreditSale(cash[r.agent], r.offer)
  <2>1. Transition(o, s, c) /\ r.status = "delivered" /\ r.kind = "normal"
        /\ o \in todo
    BY <1>1, <1>6 DEF SettleNormal, Sold, Reached
  <2>2. SameDeal(r, s)
    BY DEF SameDeal, OrderType
  <2>3. s.status = "settled_normal" /\ s.late_t = r.late_t /\ s.penalty = r.penalty
    BY DEF OrderType
  <2>4. r.penalty = r.penalty + 0
    BY DEF OrderType
  <2> HIDE DEF s, c
  <2>5. QED
    BY <1>1, <2>1, <2>2, <2>3, <2>4 DEF Effect, EndsSomehow, Ends
<1>7. CASE SettleBadReview(o)
  <2> DEFINE s == [[r EXCEPT !.status = "settled_bad_review", !.settled_t = t,
                      !.revenue = r.offer.sale, !.fees = @ + r.offer.commission]
                   EXCEPT !.penalty = @ + Fine["bad_review"]]
             c == ApplyPenalty(CreditSale(cash[r.agent], r.offer), Fine["bad_review"])
  <2>1. Transition(o, s, c) /\ r.status = "delivered" /\ r.kind = "bad_review"
        /\ o \in todo
    BY <1>1, <1>7 DEF SettleBadReview, Sold, Reached
  <2>2. SameDeal(r, s)
    BY DEF SameDeal, OrderType
  <2>3. Ends(r, s, "settled_bad_review", Fine["bad_review"])
    BY DEF Ends, OrderType
  <2> HIDE DEF s, c
  <2>4. QED
    BY <1>1, <2>1, <2>2, <2>3 DEF Effect, EndsSomehow
<1>8. CASE SettleRefund(o)
  <2> DEFINE s == [r EXCEPT !.status = "settled_refund", !.settled_t = t,
                     !.cost = r.offer.cost - r.offer.recovered,
                     !.fees = @ + ReverseFee, !.penalty = @ + Fine["refund"]]
             c == ApplyPenalty(DebitCash(CreditCash([cash[r.agent] EXCEPT
                      !.receivable = @ - r.offer.sale], r.offer.recovered),
                      ReverseFee), Fine["refund"])
  <2>1. Transition(o, s, c) /\ r.status = "delivered" /\ r.kind = "refund"
        /\ o \in todo
    BY <1>1, <1>8 DEF SettleRefund, Reached
  <2>2. SameDeal(r, s)
    BY DEF SameDeal, OrderType
  <2>3. Ends(r, s, "settled_refund", Fine["refund"])
    BY DEF Ends, OrderType
  <2> HIDE DEF s, c
  <2>4. QED
    BY <1>1, <2>1, <2>2, <2>3 DEF Effect, EndsSomehow
<1>9. CASE SettleOnlyRefund(o)
  <2> DEFINE s == [r EXCEPT !.status = "settled_only_refund", !.settled_t = t,
                            !.penalty = @ + Fine["only_refund"]]
             c == ApplyPenalty([cash[r.agent] EXCEPT !.receivable = @ - r.offer.sale],
                               Fine["only_refund"])
  <2>1. Transition(o, s, c) /\ r.status = "delivered" /\ r.kind = "only_refund"
        /\ o \in todo
    BY <1>1, <1>9 DEF SettleOnlyRefund, Reached
  <2>2. SameDeal(r, s)
    BY DEF SameDeal, OrderType
  <2>3. Ends(r, s, "settled_only_refund", Fine["only_refund"])
    BY DEF Ends, OrderType
  <2> HIDE DEF s, c
  <2>4. QED
    BY <1>1, <2>1, <2>2, <2>3 DEF Effect, EndsSomehow
<1>10. QED
  BY <1>2, <1>3, <1>4, <1>5, <1>6, <1>7, <1>8, <1>9 DEF StepOrder

\* What a purchase writes: an order that was procured, or the row of a fine.
Bought(s, a, f) ==
  /\ s.status = "ordered" /\ s.agent = a /\ s.offer = f /\ s.kind \in Kinds
  /\ s.purchase_t = t /\ s.anomaly_t \in AnomalyTimes(s.kind, f)
  /\ s.delay \in SettleDelays(s.kind) /\ s.late_t = NoTime /\ s.penalty = 0

Fined(s, a) ==
  /\ s.status \in Violations /\ s.agent = a /\ s.kind = "normal"
  /\ s.purchase_t = t /\ s.late_t = NoTime /\ s.penalty = Fine[s.status]

\* What buying or fining a candidate does to its record.
LEMMA PurchaseEffect ==
  ASSUME TypeOK, NEW o \in Orders, NEW a \in Agents, NEW f \in Offers,
         Purchase(o, a, f)
  PROVE  /\ Candidate(o, a) /\ \A b \in Agents : ~alive[b] => ~alive'[b]
         /\ UNCHANGED <<t, phase, run, drain_t, todo>>
         /\ \E s : ord' = [ord EXCEPT ![o] = s] /\ (Bought(s, a, f) \/ Fined(s, a))
<1>1. PICK b : b = BlankOrder /\ b \in OrderType /\ b.kind = "normal"
               /\ b.late_t = NoTime /\ b.penalty = 0
  BY BlankOrderType DEF BlankOrder
<1>2. ASSUME NEW k \in Violations, Violate(o, a, f, k)
      PROVE  /\ Candidate(o, a) /\ \A c \in Agents : ~alive[c] => ~alive'[c]
             /\ UNCHANGED <<t, phase, run, drain_t, todo>>
             /\ \E s : ord' = [ord EXCEPT ![o] = s] /\ Fined(s, a)
  <2> DEFINE s == [b EXCEPT !.status = k, !.agent = a, !.offer = f,
                     !.purchase_t = t, !.settled_t = t, !.penalty = Fine[k]]
  <2>1. ord' = [ord EXCEPT ![o] = s]
    BY <1>1, <1>2 DEF Violate
  <2>2. Fined(s, a)
    BY <1>1 DEF Fined, OrderType
  <2>3. /\ Candidate(o, a) /\ \A c \in Agents : ~alive[c] => ~alive'[c]
        /\ UNCHANGED <<t, phase, run, drain_t, todo>>
    BY <1>2 DEF Violate, AliveAfter
  <2> HIDE DEF s
  <2>4. QED
    BY <2>1, <2>2, <2>3
<1>3. ASSUME Procure(o, a, f)
      PROVE  /\ Candidate(o, a) /\ alive' = alive
             /\ UNCHANGED <<t, phase, run, drain_t, todo>>
             /\ \E s : ord' = [ord EXCEPT ![o] = s] /\ Bought(s, a, f)
  <2>1. PICK k \in Kinds : \E at \in AnomalyTimes(k, f), d \in SettleDelays(k) :
          ord' = [ord EXCEPT ![o] =
                    [BlankOrder EXCEPT !.status = "ordered", !.agent = a,
                       !.offer = f, !.kind = k, !.purchase_t = t,
                       !.anomaly_t = at, !.delay = d, !.cost = f.cost,
                       !.fees = FulfillmentFee]]
    BY <1>3 DEF Procure
  <2>2. PICK at \in AnomalyTimes(k, f), d \in SettleDelays(k) :
          ord' = [ord EXCEPT ![o] =
                    [BlankOrder EXCEPT !.status = "ordered", !.agent = a,
                       !.offer = f, !.kind = k, !.purchase_t = t,
                       !.anomaly_t = at, !.delay = d, !.cost = f.cost,
                       !.fees = FulfillmentFee]]
    BY <2>1
  <2> DEFINE s == [b EXCEPT !.status = "ordered", !.agent = a, !.offer = f,
                     !.kind = k, !.purchase_t = t, !.anomaly_t = at,
                     !.delay = d, !.cost = f.cost, !.fees = FulfillmentFee]
  <2>3. ord' = [ord EXCEPT ![o] = s]
    BY <1>1, <2>2
  <2>4. Bought(s, a, f)
    BY <1>1 DEF Bought, OrderType
  <2>5. /\ Candidate(o, a) /\ alive' = alive
        /\ UNCHANGED <<t, phase, run, drain_t, todo>>
    BY <1>3 DEF Procure
  <2> HIDE DEF s
  <2>6. QED
    BY <2>3, <2>4, <2>5
<1>4. CASE Procure(o, a, f)
  BY <1>3, <1>4
<1>5. CASE ~Procure(o, a, f)
  BY <1>2, <1>5 DEF Purchase, Stockout, InsufficientBalance, Violations
<1>6. QED
  BY <1>4, <1>5

\* The steps that leave the orders table alone.
LEMMA QuietSteps ==
  ASSUME \/ BeginStep \/ EndDemand \/ (\E o \in Orders : PassOver(o))
         \/ EndOrders \/ CloseStep \/ Halted \/ UNCHANGED vars
  PROVE  ord' = ord
BY DEF BeginStep, EndDemand, PassOver, EndOrders, CloseStep, Halted, vars

------------------------------------------------------------------------------
(* Fines                                                                   *)

\* The audit of one order, with what makes it inductive: an order that was
\* never unshipped beyond the promise has no lateness on record.
Audited(r) ==
  /\ r.penalty = FineOnEnd(r.status)
                 + (IF r.late_t # NoTime THEN Fine["timeout"] ELSE 0)
  /\ r.status \in {"none", "ordered"} => r.late_t = NoTime

\* A step that changes one order, and accounts for its fines, keeps all of them
\* accounted for.
LEMMA AuditedAfterOrder ==
  ASSUME t \in Nat, NEW r \in OrderType, NEW s, Audited(r), Effect(r, s)
  PROVE  Audited(s)
<1>1. Fine \in [FineKinds -> Nat] /\ t # NoTime /\ r.penalty \in Nat
  BY RulesAssumption DEF NoTime, OrderType
<1>2. FineOnEnd(r.status) = 0
  BY DEF Effect, GoesLate, IsLateNow, Ships, Arrives, EndsSomehow, FineOnEnd,
     Unshipped, Violations
<1>3. CASE GoesLate(r, s)
  BY <1>1, <1>2, <1>3
     DEF GoesLate, IsLateNow, Audited, FineOnEnd, FineKinds, Violations
<1>4. CASE Ships(r, s)
  <2>1. FineOnEnd(s.status) = 0
    BY <1>4 DEF Ships, FineOnEnd, Violations
  <2>2. CASE IsLateNow(r)
    BY <1>1, <1>2, <1>4, <2>1, <2>2 DEF Ships, IsLateNow, Audited, FineKinds
  <2>3. CASE ~IsLateNow(r)
    BY <1>1, <1>2, <1>4, <2>1, <2>3 DEF Ships, Audited, FineKinds
  <2>4. QED
    BY <2>2, <2>3
<1>5. CASE Arrives(r, s)
  BY <1>1, <1>2, <1>5 DEF Arrives, Audited, FineOnEnd, Violations
<1>6. CASE EndsSomehow(r, s)
  <2>1. PICK fine \in Nat : /\ FineOnEnd(s.status) = fine
                            /\ s.penalty = r.penalty + fine /\ s.late_t = r.late_t
                            /\ s.status \notin {"none", "ordered"}
    BY <1>1, <1>6 DEF EndsSomehow, Ends, FineOnEnd, FineKinds, Violations
  <2>2. QED
    BY <1>1, <1>2, <2>1 DEF Audited, FineKinds
<1>7. QED
  BY <1>3, <1>4, <1>5, <1>6 DEF Effect

AllAudited == \A o \in Orders : Audited(ord[o])

\* Every step of the run keeps the fines accounted for.
LEMMA AuditNext == TypeOK /\ AllAudited /\ [Next]_vars => AllAudited'
<1> SUFFICES ASSUME TypeOK, AllAudited, [Next]_vars PROVE AllAudited'
  OBVIOUS
<1>1. ASSUME NEW o \in Orders, NEW s, ord' = [ord EXCEPT ![o] = s], Audited(s)
      PROVE  AllAudited'
  BY <1>1 DEF AllAudited, TypeOK, Audited
<1>2. ASSUME NEW o \in Orders, NEW a \in Agents, NEW f \in Offers,
             Purchase(o, a, f)
      PROVE  AllAudited'
  <2>1. PICK s : ord' = [ord EXCEPT ![o] = s] /\ (Bought(s, a, f) \/ Fined(s, a))
    BY <1>2, PurchaseEffect
  <2>2. Audited(s)
    BY <2>1, FineIsNat
       DEF Bought, Fined, Audited, FineOnEnd, Violations, FineKinds
  <2>3. QED
    BY <1>1, <2>1, <2>2
<1>3. ASSUME NEW o \in Orders, StepOrder(o) PROVE AllAudited'
  <2>1. PICK s, c : Transition(o, s, c) /\ Effect(ord[o], s)
    BY <1>3, StepOrderEffect
  <2>2. Audited(s)
    BY <2>1, AuditedAfterOrder DEF AllAudited, TypeOK
  <2>3. QED
    BY <1>1, <2>1, <2>2 DEF Transition
<1>4. CASE ord' = ord
  BY <1>4 DEF AllAudited, Audited
<1>5. QED
  BY <1>2, <1>3, <1>4, QuietSteps DEF Next, Work

\* Every fine is charged exactly once and for a reason: the penalty on record
\* is the timeout fine if and only if the order became late, plus the fine of
\* the way it ended, for every fine table and every catalogue.
THEOREM FinesAreAccounted == Spec => []PenaltyAudit
<1>1. Init => AllAudited
  <2>1. BlankOrder.status = "none" /\ BlankOrder.late_t = NoTime
        /\ BlankOrder.penalty = 0
    BY DEF BlankOrder
  <2>2. Audited(BlankOrder)
    BY <2>1 DEF Audited, FineOnEnd, Violations
  <2>3. QED
    BY <2>2 DEF Init, AllAudited
<1>2. Spec => []AllAudited
  BY <1>1, AgentsStaySolvent, AuditNext, PTL DEF Spec
<1>3. AllAudited => PenaltyAudit
  BY DEF AllAudited, Audited, PenaltyAudit
<1>4. QED
  BY <1>2, <1>3, PTL

------------------------------------------------------------------------------
(* The life of an order and of an agent                                    *)

\* Every branch of the order loop moves its order to a successor status and
\* takes it off the list.
LEMMA StepOrderMoves ==
  ASSUME TypeOK, NEW o \in Orders, StepOrder(o)
  PROVE  /\ ord'[o].status \in Successors(ord[o].status)
         /\ ord[o].status \in Active /\ ord'[o].agent = ord[o].agent
         /\ \A p \in Orders : p # o => ord'[p] = ord[p]
         /\ o \notin todo'
         /\ alive' = alive
<1>1. PICK s, c : Transition(o, s, c) /\ Effect(ord[o], s)
  BY StepOrderEffect
<1>2. ord'[o] = s /\ (\A p \in Orders : p # o => ord'[p] = ord[p])
      /\ o \notin todo' /\ alive' = alive
  BY <1>1 DEF Transition, TypeOK
<1>3. s.agent = ord[o].agent /\ ord[o].status \in Active
      /\ s.status \in Successors(ord[o].status)
  BY <1>1
     DEF Effect, SameDeal, GoesLate, IsLateNow, Ships, Arrives, EndsSomehow,
     Ends, Successors, Active, Unshipped
<1>4. QED
  BY <1>2, <1>3

\* A candidate becomes a new order or a platform violation.
LEMMA PurchaseMoves ==
  ASSUME TypeOK, NEW o \in Orders, NEW a \in Agents, NEW f \in Offers,
         Purchase(o, a, f)
  PROVE  /\ ord'[o].status \in Successors(ord[o].status)
         /\ ord[o].status = "none" /\ ord'[o].agent = a /\ alive[a]
         /\ \A p \in Orders : p # o => ord'[p] = ord[p]
         /\ todo' = todo
         /\ \A b \in Agents : ~alive[b] => ~alive'[b]
<1>1. PICK s : ord' = [ord EXCEPT ![o] = s] /\ (Bought(s, a, f) \/ Fined(s, a))
  BY PurchaseEffect
<1>2. ord'[o] = s /\ (\A p \in Orders : p # o => ord'[p] = ord[p])
  BY <1>1 DEF TypeOK
<1>3. s.agent = a /\ s.status \in {"ordered"} \cup Violations
  BY <1>1 DEF Bought, Fined
<1>4. Candidate(o, a) /\ todo' = todo /\ \A b \in Agents : ~alive[b] => ~alive'[b]
  BY PurchaseEffect
<1>5. QED
  BY <1>2, <1>3, <1>4 DEF Candidate, Successors

\* An order only moves along the state machine that order_manager.py documents,
\* an order that ended never moves again, and one tick moves an order at most
\* once.
THEOREM OrdersMoveLegally == Spec => LegalTransitions
<1>1. TypeOK /\ [Next]_vars =>
        [\A o \in Orders : ord'[o] # ord[o] =>
           /\ ord'[o].status \in Successors(ord[o].status)
           /\ phase = "orders" => o \notin todo']_vars
  <2> SUFFICES ASSUME TypeOK, [Next]_vars, NEW o \in Orders, ord'[o] # ord[o]
               PROVE  /\ ord'[o].status \in Successors(ord[o].status)
                      /\ phase = "orders" => o \notin todo'
    OBVIOUS
  <2>1. CASE \E p \in Orders, a \in Agents, f \in Offers : Purchase(p, a, f)
    <3>1. phase = "demand"
      BY <2>1
         DEF Purchase, Stockout, InsufficientBalance, Violate, Procure,
             Candidate
    <3>2. QED
      BY <2>1, <3>1, PurchaseMoves
  <2>2. CASE \E p \in Orders : StepOrder(p)
    BY <2>2, StepOrderMoves
  <2>3. QED
    BY <2>1, <2>2, QuietSteps DEF Next, Work
<1>2. QED
  BY <1>1, AgentsStaySolvent, PTL DEF Spec, LegalTransitions

\* Death is final: an agent that is not alive stays so, and no later purchase
\* or platform violation adds an order to its book or takes one from it.
THEOREM DeathHoldsForever == Spec => DeathIsFinal
<1>1. TypeOK /\ [Next]_vars =>
        [\A a \in Agents : ~alive[a] =>
           /\ ~alive'[a]
           /\ OrdersOf(a, Active \cup Terminal)' = OrdersOf(a, Active \cup Terminal)]_vars
  <2> SUFFICES ASSUME TypeOK, [Next]_vars, NEW a \in Agents, ~alive[a]
               PROVE  /\ ~alive'[a]
                      /\ OrdersOf(a, Active \cup Terminal)'
                           = OrdersOf(a, Active \cup Terminal)
    OBVIOUS
  <2>1. CASE \E o \in Orders, b \in Agents, f \in Offers : Purchase(o, b, f)
    <3>1. PICK o \in Orders, b \in Agents, f \in Offers : Purchase(o, b, f)
      BY <2>1
    <3>2. b # a /\ ord[o].status = "none" /\ ord'[o].agent = b /\ ~alive'[a]
          /\ \A p \in Orders : p # o => ord'[p] = ord[p]
      BY <3>1, PurchaseMoves
    <3>3. QED
      BY <3>2 DEF OrdersOf, Active, Terminal, Violations
  <2>2. CASE \E o \in Orders : StepOrder(o)
    <3>1. PICK o \in Orders : StepOrder(o)
      BY <2>2
    <3>2. /\ ord'[o].status \in Successors(ord[o].status)
          /\ ord[o].status \in Active /\ ord'[o].agent = ord[o].agent
          /\ (\A p \in Orders : p # o => ord'[p] = ord[p]) /\ alive' = alive
      BY <3>1, StepOrderMoves
    <3>3. ord'[o].status \in Active \cup Terminal
      BY <3>2 DEF Successors, Active, Terminal, Violations
    <3>4. QED
      BY <3>2, <3>3 DEF OrdersOf
  <2>3. CASE EndDemand \/ EndOrders
    BY <2>3, QuietSteps DEF EndDemand, EndOrders, AliveAfter, OrdersOf
  <2>4. CASE BeginStep \/ (\E o \in Orders : PassOver(o)) \/ CloseStep
             \/ Halted \/ UNCHANGED vars
    <3>1. ord' = ord /\ alive' = alive
      BY <2>4 DEF BeginStep, PassOver, CloseStep, Halted, vars
    <3>2. QED
      BY <3>1 DEF OrdersOf
  <2>5. QED
    BY <2>1, <2>2, <2>3, <2>4 DEF Next, Work
<1>2. QED
  BY <1>1, AgentsStaySolvent, PTL DEF Spec, DeathIsFinal

------------------------------------------------------------------------------
(* The schedule                                                            *)

\* What a preset cancellation promises: it strikes no later than the shipping,
\* so that it overtakes every delivery.
Dated(r, now) ==
  r.kind = "cancel" =>
    /\ r.status \in {"ordered", "late", "shipped", "cancelled"}
    /\ r.status \in Unshipped => r.anomaly_t <= r.purchase_t + Most(1, r.offer.ship)
    /\ r.status = "shipped" => r.anomaly_t <= r.shipped_t /\ r.shipped_t <= now

\* The last tick an order has been through.
Processed(o) == IF phase = "hook" \/ (phase = "orders" /\ o \notin todo)
                THEN t ELSE t - 1

Timely == \A o \in Orders :
  Dated(ord[o], t) /\ (Paced(ord[o]) => InTime(ord[o], Processed(o)))

\* The fields of an order record.
LEMMA OrderFields ==
  ASSUME NEW r \in OrderType
  PROVE  /\ r.offer.ship \in Nat /\ r.offer.logistics \in Nat
         /\ r.purchase_t \in Int /\ r.anomaly_t \in Int /\ r.delay \in Int
         /\ r.late_t \in Int /\ r.shipped_t \in Int /\ r.delivered_t \in Int
         /\ r.kind \in Kinds
BY OffersAssumption DEF OrderType, OfferType, NoOffer, Time, NoTime

\* An order that the due query leaves out is on schedule for one tick more.
LEMMA TimelyUnselected ==
  ASSUME t \in Nat, NEW r \in OrderType, Dated(r, t), Paced(r), InTime(r, t - 1),
         ~DueUnshipped(r), ~DueShipped(r), ~DueDelivered(r)
  PROVE  InTime(r, t)
<1>1. CASE r.status \in Unshipped
  BY <1>1, OrderFields, TimesAssumption DEF InTime, DueUnshipped, Unshipped
<1>2. CASE r.status = "shipped"
  BY <1>2, OrderFields DEF InTime, DueShipped, Dated, Paced
<1>3. CASE r.status = "delivered"
  BY <1>3, OrderFields DEF InTime, DueDelivered, Most, Kinds
<1>4. CASE r.status \notin {"ordered", "late", "shipped", "delivered"}
  BY <1>4 DEF InTime
<1>5. QED
  BY <1>1, <1>2, <1>3, <1>4 DEF Unshipped

\* The same for an order the query selects but no branch moves.
LEMMA TimelyPassedOver ==
  ASSUME t \in Nat, NEW r \in OrderType, Dated(r, t), Paced(r), InTime(r, t - 1),
         ~Moves(r)
  PROVE  InTime(r, t)
<1>1. CASE r.status \in Unshipped
  BY <1>1, OrderFields, TimesAssumption
     DEF InTime, Moves, IsLateNow, ShipsNow, Unshipped, Paced
<1>2. CASE r.status = "shipped"
  BY <1>2, OrderFields
     DEF InTime, Moves, CancelDue, ArrivalDue, Dated, Paced, Unshipped
<1>3. CASE r.status = "delivered"
  BY <1>3, OrderFields
     DEF InTime, Moves, SettlementDue, Most, Kinds, Unshipped
<1>4. CASE r.status \notin {"ordered", "late", "shipped", "delivered"}
  BY <1>4 DEF InTime
<1>5. QED
  BY <1>1, <1>2, <1>3, <1>4 DEF Unshipped

\* An order that a branch moves is on schedule again.
LEMMA TimelyMoved ==
  ASSUME t \in Nat, NEW r \in OrderType, NEW s \in OrderType, Effect(r, s),
         Dated(r, t), Paced(r) => InTime(r, t - 1)
  PROVE  Dated(s, t) /\ (Paced(s) => InTime(s, t))
<1>1. SameDeal(r, s) /\ (Paced(s) <=> Paced(r))
  BY DEF Effect, SameDeal, Paced
<1>2. CASE GoesLate(r, s)
  BY <1>1, <1>2, OrderFields, TimesAssumption
     DEF GoesLate, IsLateNow, ShipsNow,
     SameDeal, Dated, InTime, Paced, Unshipped
<1>3. CASE Ships(r, s)
  <2>1. Dated(s, t)
    BY <1>1, <1>3, OrderFields
       DEF Ships, ShipsNow, SameDeal, Dated, Unshipped, Most
  <2>2. ASSUME Paced(s) PROVE InTime(s, t)
    BY <1>1, <1>3, <2>2, OrderFields DEF Ships, ShipsNow, SameDeal, InTime,
       Paced, Unshipped
  <2>3. QED
    BY <2>1, <2>2
<1>4. CASE Arrives(r, s)
  <2>1. r.kind # "cancel"
    BY <1>4, OrderFields DEF Arrives, CancelDue, Dated, Unshipped
  <2>2. ASSUME Paced(s) PROVE InTime(s, t)
    BY <1>1, <1>4, <2>1, <2>2, OrderFields DEF Arrives, ArrivalDue, SameDeal,
       InTime, Paced, Most
  <2>3. QED
    BY <1>1, <2>1, <2>2 DEF SameDeal, Dated
<1>5. CASE EndsSomehow(r, s)
  BY <1>1, <1>5 DEF EndsSomehow, Ends, SameDeal, Dated, InTime, Unshipped
<1>6. QED
  BY <1>2, <1>3, <1>4, <1>5 DEF Effect

\* A new order is on schedule.
LEMMA TimelyBought ==
  ASSUME t \in Nat, NEW s \in OrderType, NEW a, NEW f \in Offers,
         Bought(s, a, f) \/ Fined(s, a)
  PROVE  Dated(s, t) /\ InTime(s, t - 1)
<1>1. CASE Bought(s, a, f)
  <2>1. s.kind = "cancel" => s.anomaly_t <= s.purchase_t + Most(1, s.offer.ship)
    BY <1>1, OrderFields DEF Bought, AnomalyTimes, Most
  <2>2. QED
    BY <1>1, <2>1, OrderFields, TimesAssumption DEF Bought, Dated, InTime
<1>2. CASE Fined(s, a)
  BY <1>2 DEF Fined, Dated, InTime, Violations
<1>3. QED
  BY <1>1, <1>2

\* Every step of the run keeps every paced order on schedule.
LEMMA TimelyNext ==
  TypeOK /\ TypeOK' /\ Timely /\ [Next]_vars => Timely'
<1> SUFFICES ASSUME TypeOK, TypeOK', Timely, [Next]_vars PROVE Timely'
  OBVIOUS
<1>1. t \in Nat /\ \A o \in Orders : ord[o] \in OrderType /\ ord'[o] \in OrderType
  BY DEF TypeOK
<1>2. CASE \E o \in Orders, a \in Agents, f \in Offers : Purchase(o, a, f)
  <2>1. PICK o \in Orders, a \in Agents, f \in Offers : Purchase(o, a, f)
    BY <1>2
  <2>2. PICK s : ord' = [ord EXCEPT ![o] = s] /\ (Bought(s, a, f) \/ Fined(s, a))
    BY <2>1, PurchaseEffect
  <2>3. phase = "demand" /\ UNCHANGED <<t, phase, todo>>
    BY <2>1, PurchaseEffect DEF Candidate
  <2>4. ord'[o] = s /\ \A p \in Orders : p # o => ord'[p] = ord[p]
    BY <2>2 DEF TypeOK
  <2>5. Dated(s, t) /\ InTime(s, t - 1)
    BY <1>1, <2>2, <2>4, TimelyBought
  <2>6. \A p \in Orders : Processed(p) = t - 1 /\ Processed(p)' = t - 1
    BY <2>3 DEF Processed
  <2>7. QED
    BY <2>3, <2>4, <2>5, <2>6 DEF Timely, Dated, InTime, Paced
<1>3. ASSUME NEW o \in Orders, StepOrder(o) PROVE Timely'
  <2>1. PICK s, c : Transition(o, s, c) /\ Effect(ord[o], s) /\ o \in todo
    BY <1>3, StepOrderEffect
  <2>2. ord'[o] = s /\ \A p \in Orders : p # o => ord'[p] = ord[p]
    BY <2>1 DEF Transition, TypeOK
  <2>3. phase = "orders" /\ t' = t /\ phase' = phase /\ todo' = todo \ {o}
    BY <1>3, <2>1, StepOrderTouches DEF Transition
  <2>4. Processed(o) = t - 1 /\ Processed(o)' = t
        /\ \A p \in Orders : p # o => Processed(p)' = Processed(p)
    BY <2>1, <2>3 DEF Processed
  <2>5. Dated(s, t) /\ (Paced(s) => InTime(s, t))
    BY <1>1, <2>1, <2>2, <2>4, TimelyMoved DEF Timely
  <2>6. QED
    BY <2>2, <2>3, <2>4, <2>5 DEF Timely, Dated, InTime, Paced
<1>4. ASSUME NEW o \in Orders, PassOver(o) PROVE Timely'
  <2>1. phase = "orders" /\ o \in todo /\ ~Moves(ord[o])
        /\ UNCHANGED <<t, phase, ord>> /\ todo' = todo \ {o}
    BY <1>4 DEF PassOver
  <2>2. Processed(o) = t - 1 /\ Processed(o)' = t
        /\ \A p \in Orders : p # o => Processed(p)' = Processed(p)
    BY <2>1 DEF Processed
  <2>3. Paced(ord[o]) => InTime(ord[o], t)
    BY <1>1, <2>1, <2>2, TimelyPassedOver DEF Timely
  <2>4. QED
    BY <2>1, <2>2, <2>3 DEF Timely, Dated, InTime, Paced
<1>5. ASSUME UNCHANGED <<t, ord>>, phase \in {"idle", "demand"},
             phase' = "orders", todo' = DueOrders(ord)
      PROVE  Timely'
  <2>1. ASSUME NEW o \in Orders
        PROVE  Paced(ord[o]) => InTime(ord[o], Processed(o)')
    <3>1. Processed(o) = t - 1
      BY <1>5 DEF Processed
    <3>2. CASE o \in DueOrders(ord)
      BY <1>5, <3>1, <3>2 DEF Processed, Timely
    <3>3. CASE o \notin DueOrders(ord)
      <4>1. Processed(o)' = t
        BY <1>5, <3>3 DEF Processed
      <4>2. ~DueUnshipped(ord[o]) /\ ~DueShipped(ord[o]) /\ ~DueDelivered(ord[o])
        BY <3>3 DEF DueOrders
      <4>3. Paced(ord[o]) => InTime(ord[o], t)
        BY <1>1, <3>1, <4>2, TimelyUnselected DEF Timely
      <4>4. QED
        BY <4>1, <4>3
    <3>4. QED
      BY <3>2, <3>3
  <2>2. QED
    BY <1>5, <2>1 DEF Timely, Dated, InTime, Paced
<1>6. CASE BeginStep
  <2>1. UNCHANGED <<t, ord>> /\ phase = "idle"
    BY <1>6 DEF BeginStep
  <2>2. CASE run' = "draining"
    BY <1>5, <1>6, <2>1, <2>2 DEF BeginStep
  <2>3. CASE run' # "draining"
    <3>1. phase' \in {"idle", "demand"}
      BY <1>6, <2>3 DEF BeginStep
    <3>2. \A o \in Orders : Processed(o) = t - 1 /\ Processed(o)' = t - 1
      BY <2>1, <3>1 DEF Processed
    <3>3. QED
      BY <2>1, <3>2 DEF Timely, Dated, InTime, Paced
  <2>4. QED
    BY <2>2, <2>3
<1>7. CASE EndDemand
  BY <1>5, <1>7 DEF EndDemand
<1>8. CASE EndOrders
  <2>1. UNCHANGED <<t, ord>>
        /\ \A o \in Orders : Processed(o) = t /\ Processed(o)' = t
    BY <1>8 DEF EndOrders, Processed
  <2>2. QED
    BY <2>1 DEF Timely, Dated, InTime, Paced
<1>9. CASE CloseStep
  <2>1. /\ ord' = ord /\ t' = t + 1
        /\ \A o \in Orders : Processed(o) = t /\ Processed(o)' = t' - 1
    BY <1>9 DEF CloseStep, Processed
  <2>2. t' - 1 = t
    BY <1>1, <2>1
  <2>3. ASSUME NEW o \in Orders PROVE Dated(ord[o], t')
    BY <1>1, <2>1, OrderFields DEF Timely, Dated
  <2>4. QED
    BY <2>1, <2>2, <2>3 DEF Timely, Dated, InTime, Paced
<1>10. CASE Halted \/ UNCHANGED vars
  <2>1. UNCHANGED <<t, phase, ord, todo>>
    BY <1>10 DEF Halted, vars
  <2>2. \A o \in Orders : Processed(o)' = Processed(o)
    BY <2>1 DEF Processed
  <2>3. QED
    BY <2>1, <2>2 DEF Timely, Dated, InTime, Paced
<1>11. QED
  BY <1>2, <1>3, <1>4, <1>6, <1>7, <1>8, <1>9, <1>10 DEF Next, Work

\* Every order is on schedule, or was in the tick before, at every step.
LEMMA OrdersStayOnTime == Spec => []Timely
<1>1. Init => Timely
  <2>1. BlankOrder.status = "none" /\ BlankOrder.kind = "normal"
    BY DEF BlankOrder
  <2>2. Dated(BlankOrder, 0) /\ \A n : InTime(BlankOrder, n)
    BY <2>1 DEF Dated, InTime
  <2>3. QED
    BY <2>2 DEF Init, Timely
<1>2. QED
  BY <1>1, AgentsStaySolvent, TimelyNext, PTL DEF Spec

\* Whenever the agents look, every order of a product with positive durations
\* is exactly where the schedule of order_manager.py puts it: the due query of
\* the database never forgets an order the loop would have moved.
THEOREM OrdersStayOnSchedule == Spec => [](OnSchedule /\ CancelBeatsDelivery)
<1>1. Timely => OnSchedule /\ CancelBeatsDelivery
  BY DEF Timely, OnSchedule, CancelBeatsDelivery, Dated, Processed
<1>2. QED
  BY <1>1, OrdersStayOnTime, PTL

------------------------------------------------------------------------------
(* The end of the run                                                      *)

\* How late the preset times of an order can be.
Preset(r) == r.status \in Active =>
  /\ r.delay <= NormalDelay
  /\ r.kind \in {"refund", "only_refund"} =>
       r.anomaly_t <= r.purchase_t + r.offer.ship + r.offer.logistics + NormalDelay

\* Purchases end with the running phase, and the drain is timed from a tick
\* after the last of them.
Closing ==
  /\ run \in {"finished", "stopped"} => phase = "idle"
  /\ phase = "demand" => run = "running" /\ t < Horizon
  /\ run = "finished" => ActiveOrders = {}
  /\ \A o \in Orders : /\ ord[o].purchase_t < Horizon /\ ord[o].purchase_t <= t
                       /\ phase = "idle" => ord[o].purchase_t < t
                       /\ Preset(ord[o])
  /\ drain_t # NoTime =>
       /\ run # "running" /\ drain_t <= t
       /\ \A o \in Orders : ord[o].purchase_t < drain_t

\* A paced order that is on schedule ends within DrainSafety ticks after any
\* tick later than its purchase.
LEMMA PacedEndsInTime ==
  ASSUME DrainBoundSuffices, NEW r \in OrderType, NEW now \in Nat, NEW d \in Nat,
         r.status \in Active, Paced(r), Preset(r), Dated(r, now),
         InTime(r, now - 1), r.purchase_t < d
  PROVE  now - d <= DrainSafety
<1>1. /\ r.offer.ship \in Nat /\ r.offer.logistics \in Nat
      /\ r.offer.ship + r.offer.logistics + NormalDelay <= DrainSafety + 1
  <2>1. r.offer \in Offers
    BY DEF OrderType, Paced, NoOffer
  <2>2. QED
    BY <2>1, OrderFields DEF DrainBoundSuffices
<1>2. NormalDelay \in Nat \ {0} /\ DrainSafety \in Nat
  BY TimesAssumption
<1>3. now - 1 < r.purchase_t + r.offer.ship + r.offer.logistics + NormalDelay
  <2>1. CASE r.status \in {"ordered", "late"}
    BY <1>1, <1>2, <2>1, OrderFields DEF InTime
  <2>2. CASE r.status = "shipped"
    BY <1>1, <1>2, <2>2, OrderFields DEF InTime
  <2>3. CASE r.status = "delivered"
    <3>1. CASE r.kind \in {"normal", "bad_review"}
      BY <1>1, <1>2, <2>3, <3>1, OrderFields DEF InTime, Preset, Most
    <3>2. CASE r.kind \in {"refund", "only_refund"}
      BY <1>1, <1>2, <2>3, <3>2, OrderFields DEF InTime, Preset, Most
    <3>3. QED
      BY <2>3, <3>1, <3>2, OrderFields DEF InTime, Kinds
  <2>4. QED
    BY <2>1, <2>2, <2>3 DEF Active
<1>4. QED
  BY <1>1, <1>2, <1>3, OrderFields

\* A step on one order keeps the preset times of all of them within bounds.
LEMMA PresetAfter ==
  ASSUME NEW r \in OrderType, NEW s, Effect(r, s), Preset(r)
  PROVE  Preset(s)
<1>1. SameDeal(r, s) /\ r.status \in Active
  BY DEF Effect, GoesLate, IsLateNow, Ships, Arrives, EndsSomehow, Active,
         Unshipped
<1>2. QED
  BY <1>1 DEF Preset, SameDeal

\* The preset times of a new order are within bounds.
LEMMA PresetBought ==
  ASSUME t \in Nat, NEW s \in OrderType, NEW a, NEW f \in Offers,
         Bought(s, a, f) \/ Fined(s, a)
  PROVE  Preset(s)
<1>1. CASE Bought(s, a, f)
  <2>1. s.delay <= NormalDelay
    BY <1>1, TimesAssumption DEF Bought, SettleDelays, NoTime
  <2>2. s.kind \in {"refund", "only_refund"} =>
          s.anomaly_t <= s.purchase_t + s.offer.ship + s.offer.logistics + NormalDelay
    BY <1>1, OrderFields, TimesAssumption DEF Bought, AnomalyTimes
  <2>3. QED
    BY <2>1, <2>2 DEF Preset
<1>2. CASE Fined(s, a)
  BY <1>2 DEF Fined, Preset, Violations, Active
<1>3. QED
  BY <1>1, <1>2

\* Every step keeps the purchases before the drain.
LEMMA ClosingNext ==
  TypeOK /\ TypeOK' /\ Closing /\ [Next]_vars => Closing'
<1> SUFFICES ASSUME TypeOK, TypeOK', Closing, [Next]_vars PROVE Closing'
  OBVIOUS
<1>1. /\ t \in Nat /\ drain_t \in Int /\ Horizon \in Nat
      /\ \A o \in Orders : ord[o] \in OrderType /\ ord'[o] \in OrderType
      /\ \A o \in Orders : ord[o].purchase_t \in Int
  BY OrderFields, TimesAssumption DEF TypeOK, Time, NoTime
<1>2. CASE \E o \in Orders, a \in Agents, f \in Offers : Purchase(o, a, f)
  <2>1. PICK o \in Orders, a \in Agents, f \in Offers : Purchase(o, a, f)
    BY <1>2
  <2>2. PICK s : ord' = [ord EXCEPT ![o] = s] /\ (Bought(s, a, f) \/ Fined(s, a))
    BY <2>1, PurchaseEffect
  <2>3. phase = "demand" /\ UNCHANGED <<t, phase, run, drain_t>>
    BY <2>1, PurchaseEffect DEF Candidate
  <2>4. ord'[o] = s /\ \A p \in Orders : p # o => ord'[p] = ord[p]
    BY <2>2 DEF TypeOK
  <2>5. Preset(s) /\ s.purchase_t = t
    BY <1>1, <2>2, <2>4, PresetBought DEF Bought, Fined
  <2>6. run = "running" /\ t < Horizon /\ drain_t = NoTime
    BY <2>3 DEF Closing
  <2>7. QED
    BY <1>1, <2>3, <2>4, <2>5, <2>6 DEF Closing, Preset
<1>3. ASSUME NEW o \in Orders, StepOrder(o) PROVE Closing'
  <2>1. PICK s, c : Transition(o, s, c) /\ Effect(ord[o], s)
    BY <1>3, StepOrderEffect
  <2>2. ord'[o] = s /\ \A p \in Orders : p # o => ord'[p] = ord[p]
    BY <2>1 DEF Transition, TypeOK
  <2>3. phase = "orders" /\ UNCHANGED <<t, phase, run, drain_t>>
    BY <1>3, <2>1, StepOrderTouches DEF Transition
  <2>4. Preset(s) /\ s.purchase_t = ord[o].purchase_t
    BY <1>1, <2>1, PresetAfter DEF Closing, Effect, SameDeal
  <2>5. run \notin {"finished", "stopped"}
    BY <2>3 DEF Closing
  <2>6. QED
    BY <2>2, <2>3, <2>4, <2>5 DEF Closing, Preset
<1>4. CASE BeginStep
  <2>1. phase = "idle" /\ UNCHANGED <<t, ord>> /\ run \in {"running", "draining"}
    BY <1>4 DEF BeginStep
  <2>2. \A o \in Orders : /\ ord[o].purchase_t < Horizon /\ ord[o].purchase_t < t
                          /\ Preset(ord[o])
    BY <2>1 DEF Closing
  <2>3. /\ drain_t' = drain_t \/ drain_t' = t
        /\ drain_t' # NoTime /\ drain_t = NoTime => run' # "running"
        /\ run # "running" => run' # "running"
    BY <1>4 DEF BeginStep, DrainStart, PhaseFor
  <2>4. /\ run' \in {"finished", "stopped"} => phase' = "idle"
        /\ phase' = "demand" => run' = "running" /\ t < Horizon
        /\ run' = "finished" => ActiveOrders = {}
    BY <1>4 DEF BeginStep, PhaseFor, ActiveOrders
  <2>5. ActiveOrders' = ActiveOrders
    BY <2>1 DEF ActiveOrders
  <2>6. drain_t' # NoTime => /\ run' # "running" /\ drain_t' <= t
                             /\ \A o \in Orders : ord[o].purchase_t < drain_t'
    BY <1>1, <2>2, <2>3 DEF Closing
  <2>7. QED
    BY <1>1, <2>1, <2>2, <2>4, <2>5, <2>6 DEF Closing, Preset
<1>5. CASE CloseStep
  <2>1. phase = "hook" /\ t' = t + 1 /\ UNCHANGED ord /\ phase' = "idle"
        /\ run \in {"running", "draining"}
    BY <1>5 DEF CloseStep, Closing, TypeOK
  <2>2. \A o \in Orders : /\ ord[o].purchase_t < Horizon /\ ord[o].purchase_t < t'
                          /\ Preset(ord[o])
    BY <1>1, <2>1 DEF Closing
  <2>3. /\ drain_t' = drain_t \/ drain_t' = t'
        /\ drain_t' # NoTime /\ drain_t = NoTime => run' # "running"
        /\ run # "running" => run' # "running"
        /\ run' = "finished" => ActiveOrders = {}
    BY <1>5 DEF CloseStep, DrainStart, PhaseFor, ActiveOrders
  <2>4. ActiveOrders' = ActiveOrders
    BY <2>1 DEF ActiveOrders
  <2>5. drain_t' # NoTime => /\ run' # "running" /\ drain_t' <= t'
                             /\ \A o \in Orders : ord[o].purchase_t < drain_t'
    BY <1>1, <2>1, <2>2, <2>3 DEF Closing
  <2>6. QED
    BY <1>1, <2>1, <2>2, <2>3, <2>4, <2>5 DEF Closing, Preset
<1>6. CASE EndDemand \/ (\E o \in Orders : PassOver(o)) \/ EndOrders
  <2>1. /\ UNCHANGED <<t, run, drain_t, ord>> /\ phase \in {"demand", "orders"}
        /\ phase' \in {"orders", "hook"}
    BY <1>6 DEF EndDemand, PassOver, EndOrders
  <2>2. ActiveOrders' = ActiveOrders
    BY <2>1 DEF ActiveOrders
  <2>3. QED
    BY <2>1, <2>2 DEF Closing, Preset
<1>7. CASE Halted \/ UNCHANGED vars
  <2>1. UNCHANGED <<t, phase, run, drain_t, ord>>
    BY <1>7 DEF Halted, vars
  <2>2. ActiveOrders' = ActiveOrders
    BY <2>1 DEF ActiveOrders
  <2>3. QED
    BY <2>1, <2>2 DEF Closing, Preset
<1>8. QED
  BY <1>2, <1>3, <1>4, <1>5, <1>6, <1>7 DEF Next, Work

\* The safety stop of the drain trips only for orders that cannot end.
LEMMA StopNext ==
  TypeOK /\ Closing /\ Timely /\ StopMeansStuck /\ [Next]_vars => StopMeansStuck'
<1> SUFFICES ASSUME TypeOK, Closing, Timely, StopMeansStuck, [Next]_vars,
                    DrainBoundSuffices, run' = "stopped"
             PROVE  (\E o \in ActiveOrders : ~Paced(ord[o]))'
  BY DEF StopMeansStuck, DrainBoundSuffices
<1>1. CASE run = "stopped"
  <2>1. phase = "idle"
    BY <1>1 DEF Closing
  <2>2. ord' = ord
    <3>1. ~(\E o \in Orders, a \in Agents, f \in Offers : Purchase(o, a, f))
      BY <2>1, PurchaseEffect DEF Candidate
    <3>2. ~(\E o \in Orders : StepOrder(o))
      BY <2>1, StepOrderTouches
    <3>3. QED
      BY <3>1, <3>2, QuietSteps DEF Next, Work
  <2>3. QED
    BY <1>1, <2>2 DEF StopMeansStuck, ActiveOrders, Paced
<1>2. CASE run # "stopped"
  <2>1. BeginStep
    <3>1. ~(\E o \in Orders, a \in Agents, f \in Offers : Purchase(o, a, f))
      BY <1>2, PurchaseEffect
    <3>2. ~(\E o \in Orders : StepOrder(o))
      BY <1>2, StepOrderEffect DEF Transition
    <3>3. ~EndDemand /\ ~(\E o \in Orders : PassOver(o)) /\ ~EndOrders /\ ~Halted
          /\ ~UNCHANGED vars
      BY <1>2 DEF EndDemand, PassOver, EndOrders, Halted, vars
    <3>4. ~CloseStep
      BY DEF CloseStep, PhaseFor
    <3>5. QED
      BY <3>1, <3>2, <3>3, <3>4 DEF Next, Work
  <2>2. PICK d : d = DrainStart("draining", t)
    OBVIOUS
  <2>3. /\ phase = "idle" /\ ord' = ord
        /\ PhaseFor(t, alive, ord) = "draining"
        /\ t - d > DrainSafety
    BY <2>1, <2>2 DEF BeginStep, PhaseFor
  <2>4. PICK o \in Orders : ord[o].status \in Active
    BY <2>3 DEF PhaseFor
  <2>5. d \in Nat /\ \A p \in Orders : ord[p].purchase_t < d
    BY <2>2, <2>3 DEF DrainStart, Closing, TypeOK, Time
  <2>6. Processed(o) = t - 1
    BY <2>3 DEF Processed
  <2>7. ~Paced(ord[o])
    BY <2>3, <2>4, <2>5, <2>6, PacedEndsInTime, TimesAssumption
       DEF Timely, Closing, TypeOK
  <2>8. QED
    BY <2>3, <2>4, <2>7 DEF ActiveOrders, Paced
<1>3. QED
  BY <1>1, <1>2

\* Orders end as they should: none is bought in the drain or left behind by a
\* finished run, a cancelled purchase never reaches the customer, and the
\* safety stop of the drain only ever trips for orders that could not end,
\* whatever the horizon, the durations and the order the loop takes.
THEOREM RunsEndRight == Spec => []EndingsRight
<1>1. Init => Closing /\ StopMeansStuck
  <2> SUFFICES ASSUME Init PROVE Closing /\ StopMeansStuck
    OBVIOUS
  <2>1. BlankOrder.status = "none" /\ BlankOrder.purchase_t = NoTime
    BY DEF BlankOrder
  <2>2. \A o \in Orders : ord[o] = BlankOrder
    BY DEF Init
  <2>3. QED
    BY <2>1, <2>2, TimesAssumption
       DEF Init, Closing, StopMeansStuck, Preset, Active, NoTime
<1>2. Spec => []Closing
  BY <1>1, AgentsStaySolvent, ClosingNext, PTL DEF Spec
<1>3. Spec => []StopMeansStuck
  BY <1>1, <1>2, AgentsStaySolvent, OrdersStayOnTime, StopNext, PTL DEF Spec
<1>4. Closing => ClosedBook
  BY DEF Closing, ClosedBook
<1>5. QED
  BY <1>2, <1>3, <1>4, OrdersStayOnSchedule, PTL DEF EndingsRight
------------------------------------------------------------------------------
(* The books                                                               *)

Held(c) == c.balance + c.deposit

\* From the cash c to the cash d, goods and sales in flight and the fines move
\* by the given amounts, and so does what the agent holds, except that a
\* truncated debit, which leaves the marker, takes less.
Shift(c, d, goods, sales, fine, profit) ==
  /\ Funds(d)
  /\ d.in_transit = c.in_transit + goods
  /\ d.receivable = c.receivable + sales
  /\ d.fine = c.fine + fine
  /\ Held(d) >= Held(c) + profit
  /\ ~d.exhausted => ~c.exhausted /\ Held(d) = Held(c) + profit

\* The amounts of a cash record are integers.
LEMMA FundsFields ==
  ASSUME NEW c, Funds(c)
  PROVE  /\ c.balance \in Int /\ c.deposit \in Int /\ c.in_transit \in Int
         /\ c.receivable \in Int /\ c.fine \in Int /\ c.exhausted \in BOOLEAN
BY DEF Funds, CashType

\* Two shifts add up.
LEMMA ShiftTwice ==
  ASSUME NEW c, NEW d, NEW e, Funds(c),
         NEW g1 \in Int, NEW s1 \in Int, NEW f1 \in Int, NEW p1 \in Int,
         NEW g2 \in Int, NEW s2 \in Int, NEW f2 \in Int, NEW p2 \in Int,
         Shift(c, d, g1, s1, f1, p1), Shift(d, e, g2, s2, f2, p2)
  PROVE  Shift(c, e, g1 + g2, s1 + s2, f1 + f2, p1 + p2)
<1>1. Funds(d) /\ Funds(e)
  BY DEF Shift
<1>2. QED
  BY <1>1, FundsFields DEF Shift, Held

\* A credit shifts what the agent holds, and nothing else.
LEMMA CreditShift ==
  ASSUME NEW c, NEW amount \in Nat, Funds(c)
  PROVE  Shift(c, CreditCash(c, amount), 0, 0, 0, amount)
<1>1. LET d == CreditCash(c, amount)
      IN d.in_transit = c.in_transit /\ d.receivable = c.receivable /\ d.fine = c.fine
  BY DEF CreditCash, Funds, CashType
<1>2. QED
  BY <1>1, CreditFunds, FundsFields DEF Shift, Held

\* So does a debit, down to what is there.
LEMMA DebitShift ==
  ASSUME NEW c, NEW amount \in Nat, Funds(c)
  PROVE  Shift(c, DebitCash(c, amount), 0, 0, 0, -amount)
<1>1. LET d == DebitCash(c, amount)
      IN d.in_transit = c.in_transit /\ d.receivable = c.receivable /\ d.fine = c.fine
  BY DEF DebitCash, Funds, CashType
<1>2. QED
  BY <1>1, DebitFunds, FundsFields DEF Shift, Held

\* Moving goods and sales in flight leaves what the agent holds alone.
LEMMA FlightShift ==
  ASSUME NEW c, NEW x \in Int, NEW y \in Int, Funds(c)
  PROVE  /\ Shift(c, [c EXCEPT !.in_transit = @ + x], x, 0, 0, 0)
         /\ Shift(c, [c EXCEPT !.in_transit = @ - x], -x, 0, 0, 0)
         /\ Shift(c, [c EXCEPT !.receivable = @ - y], 0, -y, 0, 0)
         /\ Shift(c, [c EXCEPT !.in_transit = @ - x, !.receivable = @ + y],
                  -x, y, 0, 0)
<1>1. ASSUME NEW u \in Int, NEW v \in Int
      PROVE  LET d == [c EXCEPT !.in_transit = u, !.receivable = v]
             IN  /\ Funds(d) /\ d.in_transit = u /\ d.receivable = v
                 /\ d.fine = c.fine /\ d.balance = c.balance
                 /\ d.deposit = c.deposit /\ d.exhausted = c.exhausted
  BY DEF Funds, CashType
<1>2. c \in CashType /\ c.in_transit \in Int /\ c.receivable \in Int
  BY DEF Funds, CashType
<1>3. ASSUME NEW u \in Int, NEW v \in Int
      PROVE  Shift(c, [c EXCEPT !.in_transit = u, !.receivable = v],
                   u - c.in_transit, v - c.receivable, 0, 0)
  <2> PICK d : d = [c EXCEPT !.in_transit = u, !.receivable = v]
    OBVIOUS
  <2>1. /\ Funds(d) /\ d.in_transit = u /\ d.receivable = v
        /\ d.fine = c.fine /\ d.balance = c.balance
        /\ d.deposit = c.deposit /\ d.exhausted = c.exhausted
    BY <1>1
  <2>2. QED
    BY <2>1, FundsFields DEF Shift, Held
<1>4. /\ [c EXCEPT !.in_transit = @ + x]
           = [c EXCEPT !.in_transit = c.in_transit + x, !.receivable = c.receivable]
      /\ [c EXCEPT !.in_transit = @ - x]
           = [c EXCEPT !.in_transit = c.in_transit - x, !.receivable = c.receivable]
      /\ [c EXCEPT !.receivable = @ - y]
           = [c EXCEPT !.in_transit = c.in_transit, !.receivable = c.receivable - y]
      /\ [c EXCEPT !.in_transit = @ - x, !.receivable = @ + y]
           = [c EXCEPT !.in_transit = c.in_transit - x,
                       !.receivable = c.receivable + y]
  BY <1>2 DEF CashType
<1>5. /\ (c.in_transit + x) - c.in_transit = x /\ c.in_transit + x \in Int
      /\ (c.in_transit - x) - c.in_transit = -x /\ c.in_transit - x \in Int
      /\ (c.receivable - y) - c.receivable = -y /\ c.receivable - y \in Int
      /\ (c.receivable + y) - c.receivable = y /\ c.receivable + y \in Int
      /\ c.in_transit - c.in_transit = 0 /\ c.receivable - c.receivable = 0
  BY <1>2
<1>6. /\ Shift(c, [c EXCEPT !.in_transit = c.in_transit + x,
                            !.receivable = c.receivable], x, 0, 0, 0)
      /\ Shift(c, [c EXCEPT !.in_transit = c.in_transit - x,
                            !.receivable = c.receivable], -x, 0, 0, 0)
      /\ Shift(c, [c EXCEPT !.in_transit = c.in_transit,
                            !.receivable = c.receivable - y], 0, -y, 0, 0)
      /\ Shift(c, [c EXCEPT !.in_transit = c.in_transit - x,
                            !.receivable = c.receivable + y], -x, y, 0, 0)
  <2>1. Shift(c, [c EXCEPT !.in_transit = c.in_transit + x,
                           !.receivable = c.receivable],
              (c.in_transit + x) - c.in_transit, c.receivable - c.receivable, 0, 0)
    BY <1>2, <1>3, <1>5, Zenon
  <2>2. Shift(c, [c EXCEPT !.in_transit = c.in_transit - x,
                           !.receivable = c.receivable],
              (c.in_transit - x) - c.in_transit, c.receivable - c.receivable, 0, 0)
    BY <1>2, <1>3, <1>5, Zenon
  <2>3. Shift(c, [c EXCEPT !.in_transit = c.in_transit,
                           !.receivable = c.receivable - y],
              c.in_transit - c.in_transit, (c.receivable - y) - c.receivable, 0, 0)
    BY <1>2, <1>3, <1>5, Zenon
  <2>4. Shift(c, [c EXCEPT !.in_transit = c.in_transit - x,
                           !.receivable = c.receivable + y],
              (c.in_transit - x) - c.in_transit,
              (c.receivable + y) - c.receivable, 0, 0)
    BY <1>2, <1>3, <1>5, Zenon
  <2>5. QED
    BY <2>1, <2>2, <2>3, <2>4, <1>5, Zenon
<1>7. QED
  BY <1>4, <1>6, Zenon

\* A penalty is taken, and counted whether or not it was truncated.
LEMMA PenaltyShift ==
  ASSUME NEW c, NEW p \in Nat, Funds(c)
  PROVE  Shift(c, ApplyPenalty(c, p), 0, 0, p, -p)
<1> DEFINE d == [c EXCEPT !.fine = @ + p]
<1>1. Shift(c, d, 0, 0, p, 0)
  <2>1. /\ Funds(d) /\ d.in_transit = c.in_transit /\ d.receivable = c.receivable
        /\ d.fine = c.fine + p /\ d.balance = c.balance
        /\ d.deposit = c.deposit /\ d.exhausted = c.exhausted
    BY DEF Funds, CashType
  <2> HIDE DEF d
  <2>2. QED
    BY <2>1, FundsFields DEF Shift, Held
<1>2. ApplyPenalty(c, p) = DebitCash(d, p)
  BY DEF ApplyPenalty
<1> HIDE DEF d
<1>3. Shift(d, DebitCash(d, p), 0, 0, 0, -p)
  BY <1>1, DebitShift DEF Shift
<1>4. Shift(c, DebitCash(d, p), 0 + 0, 0 + 0, p + 0, 0 + (-p))
  BY <1>1, <1>3, ShiftTwice
<1>5. QED
  BY <1>2, <1>4

\* What one order adds to the accounts of its agent.
GoodsOf(r) == IF r.status \in Procured THEN r.offer.cost ELSE 0
SalesOf(r) == IF r.status \in {"delivered"} THEN r.offer.sale ELSE 0
FinesOf(r) == IF r.status \in Active \cup Terminal THEN r.penalty ELSE 0
ProfitOf(r) == IF r.status \in Active \cup Terminal
               THEN r.revenue - r.cost - r.penalty - r.fees ELSE 0

\* An order that has not ended has earned nothing and cost its purchase price.
Unsold(r) == r.status \in Active => r.revenue = 0 /\ r.cost = r.offer.cost

\* The cash moves from c to d by what the order adds when its record moves from
\* r to s.
Booked(r, s, c, d) ==
  /\ s.agent = r.agent /\ Unsold(s)
  /\ Shift(c, d, GoodsOf(s) - GoodsOf(r), SalesOf(s) - SalesOf(r),
                 FinesOf(s) - FinesOf(r), ProfitOf(s) - ProfitOf(r))

\* What an order adds is an integer.
LEMMA RowValues ==
  ASSUME NEW r \in OrderType
  PROVE  /\ r.offer.sale \in Nat /\ r.offer.cost \in Nat
         /\ r.offer.commission \in Nat /\ r.offer.recovered \in Nat
         /\ r.offer.cost - r.offer.recovered \in Nat
         /\ r.offer.sale - r.offer.commission \in Nat
         /\ r.revenue \in Nat /\ r.cost \in Nat /\ r.penalty \in Nat /\ r.fees \in Nat
         /\ GoodsOf(r) \in Int /\ SalesOf(r) \in Int
         /\ FinesOf(r) \in Int /\ ProfitOf(r) \in Int
<1>1. r.offer \in OfferType /\ r.offer.cost - r.offer.recovered \in Nat
      /\ r.offer.sale - r.offer.commission \in Nat
  BY OfferFacts DEF OrderType
<1>2. /\ r.offer.sale \in Nat /\ r.offer.cost \in Nat
      /\ r.offer.commission \in Nat /\ r.offer.recovered \in Nat
  BY <1>1 DEF OfferType
<1>3. r.revenue \in Nat /\ r.cost \in Nat /\ r.penalty \in Nat /\ r.fees \in Nat
  BY DEF OrderType
<1>4. QED
  BY <1>1, <1>2, <1>3 DEF GoodsOf, SalesOf, FinesOf, ProfitOf

\* The lateness fine of an order is on its record and out of the cash.
LEMMA LatenessBooked ==
  ASSUME t \in Nat, NEW r \in OrderType, r.status \in Unshipped, Unsold(r),
         NEW c, Funds(c), NEW x \in Time,
         NEW s, \/ s = Lateness(r)
                \/ s = [Lateness(r) EXCEPT !.status = "shipped", !.shipped_t = x]
  PROVE  Booked(r, s, c, LatenessCash(r, c))
<1> PICK p \in Nat : p = Fine["timeout"]
  BY FineIsNat DEF FineKinds
<1>1. CASE IsLateNow(r)
  <2>1. PICK l : l = [r EXCEPT !.status = "late", !.late_t = t, !.penalty = @ + p]
    OBVIOUS
  <2>2. l = Lateness(r)
    BY <1>1, <2>1 DEF Lateness
  <2>3. /\ s.status \in Procured /\ s.agent = r.agent /\ s.offer = r.offer
        /\ s.revenue = r.revenue /\ s.cost = r.cost /\ s.fees = r.fees
        /\ s.penalty = r.penalty + p
    <3>1. CASE s = l
      BY <2>1, <3>1 DEF OrderType, Procured
    <3>2. CASE s = [l EXCEPT !.status = "shipped", !.shipped_t = x]
      BY <2>1, <3>2 DEF OrderType, Procured
    <3>3. QED
      BY <2>2, <3>1, <3>2
  <2>4. /\ GoodsOf(s) - GoodsOf(r) = 0 /\ SalesOf(s) - SalesOf(r) = 0
        /\ FinesOf(s) - FinesOf(r) = p /\ ProfitOf(s) - ProfitOf(r) = -p
        /\ Unsold(s)
    BY <2>3, RowValues DEF GoodsOf, SalesOf, FinesOf, ProfitOf, Unsold,
       Procured, Active, Terminal, Violations, Unshipped
  <2>5. Shift(c, LatenessCash(r, c), 0, 0, p, -p)
    BY <1>1, PenaltyShift DEF LatenessCash
  <2>6. QED
    BY <2>3, <2>4, <2>5 DEF Booked
<1>2. CASE ~IsLateNow(r)
  <2>1. /\ s.status \in Procured /\ s.agent = r.agent /\ s.offer = r.offer
        /\ s.revenue = r.revenue /\ s.cost = r.cost /\ s.fees = r.fees
        /\ s.penalty = r.penalty
    BY <1>2 DEF Lateness, OrderType, Procured, Unshipped
  <2>2. /\ GoodsOf(s) - GoodsOf(r) = 0 /\ SalesOf(s) - SalesOf(r) = 0
        /\ FinesOf(s) - FinesOf(r) = 0 /\ ProfitOf(s) - ProfitOf(r) = 0
        /\ Unsold(s)
    BY <2>1, RowValues DEF GoodsOf, SalesOf, FinesOf, ProfitOf, Unsold,
       Procured, Active, Terminal, Violations, Unshipped
  <2>3. Shift(c, LatenessCash(r, c), 0, 0, 0, 0)
    BY <1>2, FundsFields DEF LatenessCash, Shift, Held
  <2>4. QED
    BY <2>1, <2>2, <2>3 DEF Booked
<1>3. QED
  BY <1>1, <1>2

\* Every branch of the order loop moves the cash of the agent by exactly what
\* it changes on the record of the order.
LEMMA StepOrderBooked ==
  ASSUME Ranges, NEW o \in Orders, StepOrder(o), Unsold(ord[o])
  PROVE  \E s, d : /\ Transition(o, s, d)
                   /\ Booked(ord[o], s, cash[ord[o].agent], d)
<1>1. PICK r \in OrderType : r = ord[o]
  BY DEF Ranges, TypeOK
<1>2. PICK f : f = r.offer
  OBVIOUS
<1>3. PICK c : c = cash[r.agent] /\ Funds(c)
  BY <1>1, RangesFunds DEF OrderType
<1>4. /\ f.sale \in Nat /\ f.cost \in Nat /\ f.commission \in Nat
      /\ f.recovered \in Nat /\ f.cost - f.recovered \in Nat
      /\ f.sale - f.commission \in Nat /\ f.cost \in Int /\ f.sale \in Int
      /\ r.revenue \in Nat /\ r.cost \in Nat /\ r.penalty \in Nat /\ r.fees \in Nat
      /\ t \in Nat /\ t \in Time
  BY <1>2, RowValues DEF Ranges, TypeOK, Time
<1>5. /\ \A k \in {"cancel", "bad_review", "refund", "only_refund"} : Fine[k] \in Nat
      /\ ReverseFee \in Nat
  BY FineIsNat, RulesAssumption DEF FineKinds
<1> USE DEF Unsold
<1>6. ASSUME NEW s, NEW d, Transition(o, s, d), r.status \in Active,
             s.agent = r.agent, s.offer = f, s.status \in Active \cup Terminal,
             s.status \in Active => s.revenue = 0 /\ s.cost = f.cost,
             s.revenue \in Int, s.cost \in Int, s.penalty \in Int, s.fees \in Int,
             NEW gd \in Int, NEW sl \in Int, NEW fn \in Int, NEW pr \in Int,
             Shift(c, d, gd, sl, fn, pr),
             gd = (IF s.status \in Procured THEN f.cost ELSE 0)
                  - (IF r.status \in Procured THEN f.cost ELSE 0),
             sl = (IF s.status = "delivered" THEN f.sale ELSE 0)
                  - (IF r.status = "delivered" THEN f.sale ELSE 0),
             fn = s.penalty - r.penalty,
             pr = (s.revenue - s.cost - s.penalty - s.fees)
                  - (0 - f.cost - r.penalty - r.fees)
      PROVE  \E s1, d1 : Transition(o, s1, d1) /\ Booked(r, s1, c, d1)
  <2>1. r.revenue = 0 /\ r.cost = f.cost
    BY <1>1, <1>2, <1>6
  <2>2. /\ GoodsOf(s) - GoodsOf(r) = gd /\ SalesOf(s) - SalesOf(r) = sl
    BY <1>2, <1>6 DEF GoodsOf, SalesOf
  <2>3. /\ FinesOf(s) - FinesOf(r) = fn /\ ProfitOf(s) - ProfitOf(r) = pr
    BY <1>6, <2>1 DEF FinesOf, ProfitOf
  <2>4. Booked(r, s, c, d)
    BY <1>2, <1>6, <2>2, <2>3 DEF Booked
  <2>5. QED
    BY <1>6, <2>4
<1>7. CASE GoLate(o) \/ Ship(o)
  <2>1. PICK s : /\ \/ s = Lateness(r)
                    \/ s = [Lateness(r) EXCEPT !.status = "shipped", !.shipped_t = t]
                 /\ Transition(o, s, LatenessCash(r, c))
                 /\ r.status \in Unshipped
    BY <1>1, <1>3, <1>7 DEF GoLate, Ship, Reached
  <2>2. Booked(r, s, c, LatenessCash(r, c))
    BY <1>1, <1>3, <1>4, <2>1, LatenessBooked
  <2>3. QED
    BY <1>1, <1>3, <2>1, <2>2
<1>8. CASE CancelShipped(o)
  <2> PICK p \in Nat : p = Fine["cancel"]
    BY <1>5
  <2>1. PICK u : u = [c EXCEPT !.in_transit = @ - f.cost]
    OBVIOUS
  <2>2. PICK v : v = CreditCash(u, f.cost)
    OBVIOUS
  <2>3. PICK d : d = ApplyPenalty(v, p)
    OBVIOUS
  <2>4. PICK s : s = [r EXCEPT !.status = "cancelled", !.cost = 0, !.settled_t = t,
                               !.penalty = @ + p]
    OBVIOUS
  <2>5. Shift(c, u, -f.cost, 0, 0, 0)
    BY <1>3, <1>4, <1>5, <2>1, FlightShift
  <2>6. Shift(u, v, 0, 0, 0, f.cost)
    BY <1>3, <1>4, <1>5, <2>2, <2>5, CreditShift DEF Shift
  <2>7. Shift(v, d, 0, 0, p, -p)
    BY <1>3, <1>4, <1>5, <2>3, <2>6, PenaltyShift DEF Shift
  <2>8. Shift(c, d, -f.cost, 0, p, f.cost - p)
    BY <1>3, <1>4, <1>5, <2>5, <2>6, <2>7, FundsFields DEF Shift, Held
  <2>9. /\ s.agent = r.agent  /\ s.offer = f
        /\ s.status = "cancelled" /\ s.cost = 0 /\ s.revenue = r.revenue
        /\ s.fees = r.fees /\ s.penalty = r.penalty + p
    BY <1>2, <2>4 DEF OrderType
  <2>10. Transition(o, s, d) /\ r.status = "shipped"
    BY <1>1, <1>2, <1>3, <1>8, <2>1, <2>2, <2>3, <2>4
       DEF CancelShipped, Reached
  <2>11. r.revenue = 0 /\ r.cost = f.cost
    BY <1>1, <1>2, <2>10 DEF Active
  <2>12. QED
    BY <1>1, <1>3, <1>4, <1>6, <1>5, <2>8, <2>9, <2>10, <2>11
       DEF Active, Terminal, Procured
<1>9. CASE Deliver(o)
  <2>1. PICK d : d = [c EXCEPT !.in_transit = @ - f.cost, !.receivable = @ + f.sale]
    OBVIOUS
  <2>2. PICK s : s = [r EXCEPT !.status = "delivered", !.delivered_t = t]
    OBVIOUS
  <2>3. Shift(c, d, -f.cost, f.sale, 0, 0)
    BY <1>3, <1>4, <1>5, <2>1, FlightShift
  <2>4. /\ s.agent = r.agent  /\ s.offer = f
        /\ s.status = "delivered" /\ s.cost = r.cost /\ s.revenue = r.revenue
        /\ s.fees = r.fees /\ s.penalty = r.penalty
    BY <1>2, <2>2 DEF OrderType
  <2>5. Transition(o, s, d) /\ r.status = "shipped"
    BY <1>1, <1>2, <1>3, <1>9, <2>1, <2>2 DEF Deliver, Reached
  <2>6. r.revenue = 0 /\ r.cost = f.cost
    BY <1>1, <1>2, <2>5 DEF Active
  <2>7. QED
    BY <1>1, <1>3, <1>4, <1>6, <1>5, <2>3, <2>4, <2>5, <2>6
       DEF Active, Terminal, Procured
<1>10. CASE SettleNormal(o)
  <2>1. PICK u : u = [c EXCEPT !.receivable = @ - f.sale]
    OBVIOUS
  <2>2. PICK d : d = CreditCash(u, f.sale - f.commission)
    OBVIOUS
  <2>3. PICK s : s = Sold(r, "settled_normal")
    OBVIOUS
  <2>4. Shift(c, u, 0, -f.sale, 0, 0)
    BY <1>3, <1>4, <1>5, <2>1, FlightShift
  <2>5. Shift(u, d, 0, 0, 0, f.sale - f.commission)
    BY <1>3, <1>4, <1>5, <2>2, <2>4, CreditShift DEF Shift
  <2>6. Shift(c, d, 0, -f.sale, 0, f.sale - f.commission)
    BY <1>3, <1>4, <1>5, <2>4, <2>5, FundsFields DEF Shift, Held
  <2>7. /\ s.agent = r.agent  /\ s.offer = f
        /\ s.status = "settled_normal" /\ s.cost = r.cost /\ s.revenue = f.sale
        /\ s.fees = r.fees + f.commission /\ s.penalty = r.penalty
    BY <1>2, <2>3 DEF OrderType, Sold
  <2>8. Transition(o, s, d) /\ r.status = "delivered"
    BY <1>1, <1>2, <1>3, <1>10, <2>1, <2>2, <2>3
       DEF SettleNormal, Reached, CreditSale
  <2>9. r.revenue = 0 /\ r.cost = f.cost
    BY <1>1, <1>2, <2>8 DEF Active
  <2>10. QED
    BY <1>1, <1>3, <1>4, <1>6, <1>5, <2>6, <2>7, <2>8, <2>9
       DEF Active, Terminal, Procured
<1>11. CASE SettleBadReview(o)
  <2> PICK n \in Nat : n = f.sale - f.commission
    BY <1>4
  <2> PICK p \in Nat : p = Fine["bad_review"]
    BY <1>5
  <2>1. PICK u : u = [c EXCEPT !.receivable = @ - f.sale]
    OBVIOUS
  <2>2. PICK v : v = CreditCash(u, n)
    OBVIOUS
  <2>3. PICK d : d = ApplyPenalty(v, p)
    OBVIOUS
  <2>4. PICK s : s = [Sold(r, "settled_bad_review") EXCEPT !.penalty = @ + p]
    OBVIOUS
  <2>5. Shift(c, u, 0, -f.sale, 0, 0)
    BY <1>3, <1>4, <1>5, <2>1, FlightShift
  <2>6. Shift(u, v, 0, 0, 0, n)
    BY <1>3, <1>4, <1>5, <2>2, <2>5, CreditShift DEF Shift
  <2>7. Shift(v, d, 0, 0, p, -p)
    BY <1>3, <1>4, <1>5, <2>3, <2>6, PenaltyShift DEF Shift
  <2>8. Shift(c, d, 0, -f.sale, p, n - p)
    BY <1>3, <1>4, <1>5, <2>5, <2>6, <2>7, FundsFields DEF Shift, Held
  <2>9. /\ s.agent = r.agent  /\ s.offer = f
        /\ s.status = "settled_bad_review" /\ s.cost = r.cost
        /\ s.revenue = f.sale /\ s.fees = r.fees + f.commission
        /\ s.penalty = r.penalty + p
    BY <1>2, <2>4 DEF OrderType, Sold
  <2>10. Transition(o, s, d) /\ r.status = "delivered"
    BY <1>1, <1>2, <1>3, <1>11, <2>1, <2>2, <2>3, <2>4
       DEF SettleBadReview, Reached, CreditSale
  <2>11. r.revenue = 0 /\ r.cost = f.cost
    BY <1>1, <1>2, <2>10 DEF Active
  <2>12. n - p = (s.revenue - s.cost - s.penalty - s.fees)
                 - (0 - f.cost - r.penalty - r.fees)
    BY <1>4, <2>9, <2>11
  <2>13. QED
    BY <1>1, <1>3, <1>4, <1>6, <1>5, <2>8, <2>9, <2>10, <2>11, <2>12
       DEF Active, Terminal, Procured
<1>12. CASE SettleRefund(o)
  <2> PICK p \in Nat : p = Fine["refund"]
    BY <1>5
  <2>1. PICK u : u = [c EXCEPT !.receivable = @ - f.sale]
    OBVIOUS
  <2>2. PICK v : v = CreditCash(u, f.recovered)
    OBVIOUS
  <2>3. PICK w : w = DebitCash(v, ReverseFee)
    OBVIOUS
  <2>4. PICK d : d = ApplyPenalty(w, p)
    OBVIOUS
  <2>5. PICK s : s = [r EXCEPT !.status = "settled_refund", !.settled_t = t,
                               !.cost = f.cost - f.recovered,
                               !.fees = @ + ReverseFee, !.penalty = @ + p]
    OBVIOUS
  <2>6. Shift(c, u, 0, -f.sale, 0, 0)
    BY <1>3, <1>4, <1>5, <2>1, FlightShift
  <2>7. Shift(u, v, 0, 0, 0, f.recovered)
    BY <1>3, <1>4, <1>5, <2>2, <2>6, CreditShift DEF Shift
  <2>8. Shift(v, w, 0, 0, 0, -ReverseFee)
    BY <1>3, <1>4, <1>5, <2>3, <2>7, DebitShift DEF Shift
  <2>9. Shift(w, d, 0, 0, p, -p)
    BY <1>3, <1>4, <1>5, <2>4, <2>8, PenaltyShift DEF Shift
  <2>10. Shift(c, d, 0, -f.sale, p, f.recovered - ReverseFee - p)
    BY <1>3, <1>4, <1>5, <2>6, <2>7, <2>8, <2>9, FundsFields DEF Shift, Held
  <2>11. /\ s.agent = r.agent  /\ s.offer = f
        /\ s.status = "settled_refund" /\ s.cost = f.cost - f.recovered
        /\ s.revenue = r.revenue /\ s.fees = r.fees + ReverseFee
        /\ s.penalty = r.penalty + p
    BY <1>2, <2>5 DEF OrderType
  <2>12. Transition(o, s, d) /\ r.status = "delivered"
    BY <1>1, <1>2, <1>3, <1>12, <2>1, <2>2, <2>3, <2>4, <2>5
       DEF SettleRefund, Reached
  <2>13. r.revenue = 0 /\ r.cost = f.cost
    BY <1>1, <1>2, <2>12 DEF Active
  <2>14. QED
    BY <1>1, <1>3, <1>4, <1>6, <1>5, <2>10, <2>11, <2>12, <2>13
       DEF Active, Terminal, Procured
<1>13. CASE SettleOnlyRefund(o)
  <2> PICK p \in Nat : p = Fine["only_refund"]
    BY <1>5
  <2>1. PICK u : u = [c EXCEPT !.receivable = @ - f.sale]
    OBVIOUS
  <2>2. PICK d : d = ApplyPenalty(u, p)
    OBVIOUS
  <2>3. PICK s : s = [r EXCEPT !.status = "settled_only_refund", !.settled_t = t,
                               !.penalty = @ + p]
    OBVIOUS
  <2>4. Shift(c, u, 0, -f.sale, 0, 0)
    BY <1>3, <1>4, <1>5, <2>1, FlightShift
  <2>5. Shift(u, d, 0, 0, p, -p)
    BY <1>3, <1>4, <1>5, <2>2, <2>4, PenaltyShift DEF Shift
  <2>6. Shift(c, d, 0, -f.sale, p, -p)
    BY <1>3, <1>4, <1>5, <2>4, <2>5, FundsFields DEF Shift, Held
  <2>7. /\ s.agent = r.agent  /\ s.offer = f
        /\ s.status = "settled_only_refund" /\ s.cost = r.cost
        /\ s.revenue = r.revenue /\ s.fees = r.fees
        /\ s.penalty = r.penalty + p
    BY <1>2, <2>3 DEF OrderType
  <2>8. Transition(o, s, d) /\ r.status = "delivered"
    BY <1>1, <1>2, <1>3, <1>13, <2>1, <2>2, <2>3 DEF SettleOnlyRefund, Reached
  <2>9. r.revenue = 0 /\ r.cost = f.cost
    BY <1>1, <1>2, <2>8 DEF Active
  <2>10. QED
    BY <1>1, <1>3, <1>4, <1>6, <1>5, <2>6, <2>7, <2>8, <2>9
       DEF Active, Terminal, Procured
<1>14. QED
  BY <1>7, <1>8, <1>9, <1>10, <1>11, <1>12, <1>13 DEF StepOrder

\* Buying or fining a candidate moves the cash of the agent by exactly what the
\* new record says.
LEMMA PurchaseBooked ==
  ASSUME Ranges, Ranges', NEW o \in Orders, NEW a \in Agents, NEW f \in Offers,
         Purchase(o, a, f)
  PROVE  \E s, d : /\ ord' = [ord EXCEPT ![o] = s] /\ cash' = [cash EXCEPT ![a] = d]
                   /\ s.agent = a /\ Unsold(s)
                   /\ Shift(cash[a], d, GoodsOf(s), SalesOf(s), FinesOf(s), ProfitOf(s))
<1>1. PICK b \in OrderType : /\ b = BlankOrder /\ b.revenue = 0 /\ b.cost = 0
                             /\ b.penalty = 0 /\ b.fees = 0
  BY BlankOrderType DEF BlankOrder
<1>2. PICK c : c = cash[a] /\ Funds(c)
  BY RangesFunds
<1>3. f.cost \in Nat /\ f.sale \in Nat /\ FulfillmentFee \in Nat
  BY OfferFacts, RulesAssumption DEF OfferType
<1>4. ASSUME NEW k \in Violations, Violate(o, a, f, k)
      PROVE  \E s, d : /\ ord' = [ord EXCEPT ![o] = s]
                       /\ cash' = [cash EXCEPT ![a] = d]
                       /\ s.agent = a /\ Unsold(s)
                       /\ Shift(c, d, GoodsOf(s), SalesOf(s), FinesOf(s), ProfitOf(s))
  <2>1. PICK p \in Nat : p = Fine[k]
    BY FineIsNat DEF Violations, FineKinds
  <2>2. PICK s : s = [b EXCEPT !.status = k, !.agent = a, !.offer = f,
                        !.purchase_t = t, !.settled_t = t, !.penalty = p]
    OBVIOUS
  <2>3. s.status = k /\ s.agent = a /\ s.revenue = 0 /\ s.cost = 0 /\ s.fees = 0
        /\ s.penalty = p
    BY <1>1, <2>2 DEF OrderType
  <2>4. /\ GoodsOf(s) = 0 /\ SalesOf(s) = 0 /\ FinesOf(s) = p /\ ProfitOf(s) = -p
        /\ Unsold(s)
    BY <2>3 DEF GoodsOf, SalesOf, FinesOf, ProfitOf, Unsold, Violations,
       Procured, Active, Terminal
  <2>5. Shift(c, ApplyPenalty(c, p), 0, 0, p, -p)
    BY <1>2, PenaltyShift
  <2>6. ord' = [ord EXCEPT ![o] = s] /\ cash' = [cash EXCEPT ![a] = ApplyPenalty(c, p)]
    BY <1>1, <1>2, <1>4, <2>1, <2>2 DEF Violate
  <2>7. QED
    BY <2>3, <2>4, <2>5, <2>6
<1>5. ASSUME Procure(o, a, f)
      PROVE  \E s, d : /\ ord' = [ord EXCEPT ![o] = s]
                       /\ cash' = [cash EXCEPT ![a] = d]
                       /\ s.agent = a /\ Unsold(s)
                       /\ Shift(c, d, GoodsOf(s), SalesOf(s), FinesOf(s), ProfitOf(s))
  <2>0. PICK k \in Kinds : \E at \in AnomalyTimes(k, f), dl \in SettleDelays(k) :
          ord' = [ord EXCEPT ![o] =
                    [BlankOrder EXCEPT !.status = "ordered", !.agent = a,
                       !.offer = f, !.kind = k, !.purchase_t = t,
                       !.anomaly_t = at, !.delay = dl, !.cost = f.cost,
                       !.fees = FulfillmentFee]]
    BY <1>5 DEF Procure
  <2>1. PICK at \in AnomalyTimes(k, f), dl \in SettleDelays(k) :
          ord' = [ord EXCEPT ![o] =
                    [BlankOrder EXCEPT !.status = "ordered", !.agent = a,
                       !.offer = f, !.kind = k, !.purchase_t = t,
                       !.anomaly_t = at, !.delay = dl, !.cost = f.cost,
                       !.fees = FulfillmentFee]]
    BY <2>0
  <2>2. PICK s : s = [b EXCEPT !.status = "ordered", !.agent = a,
                        !.offer = f, !.kind = k, !.purchase_t = t,
                        !.anomaly_t = at, !.delay = dl, !.cost = f.cost,
                        !.fees = FulfillmentFee]
    OBVIOUS
  <2>3. s.status = "ordered" /\ s.agent = a /\ s.offer = f /\ s.revenue = 0
        /\ s.cost = f.cost /\ s.fees = FulfillmentFee /\ s.penalty = 0
    BY <1>1, <2>2 DEF OrderType
  <2>4. PICK n \in Int : n = f.cost + FulfillmentFee
    BY <1>3
  <2>5. /\ GoodsOf(s) = f.cost /\ SalesOf(s) = 0 /\ FinesOf(s) = 0
        /\ ProfitOf(s) = -n /\ Unsold(s)
    BY <1>3, <2>3, <2>4 DEF GoodsOf, SalesOf, FinesOf, ProfitOf, Unsold,
       Procured, Active, Terminal, Violations
  <2>6. PICK d : d = Pay(c, f)
    OBVIOUS
  <2>7. cash' = [cash EXCEPT ![a] = d]
    BY <1>2, <1>5, <2>6 DEF Procure
  <2>8. Funds(d)
    BY <2>7 DEF Ranges, TypeOK, Solvent, Funds
  <2>9. /\ d.balance = c.balance - n /\ d.in_transit = c.in_transit + f.cost
        /\ d.deposit = c.deposit /\ d.receivable = c.receivable
        /\ d.fine = c.fine /\ d.exhausted = c.exhausted
    BY <1>2, <2>4, <2>6 DEF Pay, RequiredCash, Funds, CashType
  <2>10. Shift(c, d, f.cost, 0, 0, -n)
    BY <1>2, <2>8, <2>9, FundsFields DEF Shift, Held
  <2>11. QED
    BY <1>1, <2>1, <2>2, <2>3, <2>5, <2>7, <2>10
<1>6. QED
  BY <1>2, <1>4, <1>5 DEF Purchase, Stockout, InsufficientBalance, Violations

\* When one order of the agent a changes, a sum over the orders of a changes by
\* what that order adds, and a sum over the orders of another agent does not.
LEMMA OneOrderSum ==
  ASSUME NEW o \in Orders, \A p \in Orders : p # o => ord'[p] = ord[p],
         NEW a \in Agents, ord'[o].agent = a,
         ord[o].agent = a \/ ord[o].status = "none",
         NEW st, "none" \notin st, NEW b \in Agents,
         NEW f \in [Orders -> Int], NEW g \in [Orders -> Int],
         \A p \in Orders : p # o => f[p] = g[p]
  PROVE  /\ SumFunctionOnSet(f, OrdersOf(b, st)) \in Int
         /\ SumFunctionOnSet(g, OrdersOf(b, st)') =
              SumFunctionOnSet(f, OrdersOf(b, st))
              + (IF b = a /\ ord'[o].status \in st THEN g[o] ELSE 0)
              - (IF b = a /\ ord[o].status \in st THEN f[o] ELSE 0)
<1> DEFINE S == OrdersOf(b, st)
           T == OrdersOf(b, st)'
<1>1. S \subseteq Orders /\ T \subseteq Orders /\ S \ {o} = T \ {o}
  BY DEF OrdersOf
<1>2. /\ o \in S <=> b = a /\ ord[o].status \in st
      /\ o \in T <=> b = a /\ ord'[o].status \in st
  BY DEF OrdersOf
<1> HIDE DEF S, T
<1>3. IsFiniteSet(S) /\ IsFiniteSet(T)
  BY <1>1, OrdersAssumption, FS_Subset
<1>4. (\A p \in S : f[p] \in Int) /\ (\A p \in T : g[p] \in Int)
  BY <1>1
<1>5. \A p \in S \ {o} : f[p] = g[p]
  BY <1>1
<1>6. SumFunctionOnSet(f, S) \in Int
  BY <1>3, <1>4, SumInt
<1>7. SumFunctionOnSet(g, T) = SumFunctionOnSet(f, S)
        + (IF o \in T THEN g[o] ELSE 0) - (IF o \in S THEN f[o] ELSE 0)
  BY <1>1, <1>3, <1>4, <1>5, SumReplace
<1>8. QED
  BY <1>2, <1>6, <1>7 DEF S, T

\* The accounts stay backed and balanced when one order of an agent changes and
\* its cash moves by what the order adds.
LEMMA AccountsAfterOrder ==
  ASSUME Ranges, Ranges', FlightBacked, BooksBalance, NEW o \in Orders,
         NEW a \in Agents, NEW r, NEW s, NEW c, NEW d,
         ord' = [ord EXCEPT ![o] = s], cash' = [cash EXCEPT ![a] = d],
         r = ord[o], c = cash[a], s.agent = a, r.agent = a \/ r.status = "none",
         Shift(c, d, GoodsOf(s) - GoodsOf(r), SalesOf(s) - SalesOf(r),
                     FinesOf(s) - FinesOf(r), ProfitOf(s) - ProfitOf(r))
  PROVE  FlightBacked' /\ BooksBalance'
<1>1. /\ ord'[o] = s /\ \A p \in Orders : p # o => ord'[p] = ord[p]
      /\ cash'[a] = d /\ \A b \in Agents : b # a => cash'[b] = cash[b]
  BY DEF Ranges, TypeOK
<1>2. \A p \in Orders : ord[p] \in OrderType /\ ord'[p] \in OrderType
  BY DEF Ranges, TypeOK
<1>3. "none" \notin Procured /\ "none" \notin {"delivered"}
      /\ "none" \notin Active \cup Terminal
  BY DEF Procured, Active, Terminal, Violations
<1> DEFINE All == Active \cup Terminal
           Sent == {"delivered"}
           cost == [p \in Orders |-> ord[p].offer.cost]
           sale == [p \in Orders |-> ord[p].offer.sale]
           profit == [p \in Orders |-> NetProfit(p)]
           fine == [p \in Orders |-> ord[p].penalty]
<1>4. \A p \in Orders : /\ cost[p] \in Int /\ cost'[p] \in Int
                        /\ sale[p] \in Int /\ sale'[p] \in Int
                        /\ profit[p] \in Int /\ profit'[p] \in Int
                        /\ fine[p] \in Int /\ fine'[p] \in Int
  BY <1>2, RowValues DEF NetProfit
<1>5. \A p \in Orders : p # o =>
        /\ cost[p] = cost'[p] /\ sale[p] = sale'[p]
        /\ profit[p] = profit'[p] /\ fine[p] = fine'[p]
  BY <1>1 DEF NetProfit
<1>6. /\ GoodsOf(s) = (IF ord'[o].status \in Procured THEN cost'[o] ELSE 0)
      /\ SalesOf(s) = (IF ord'[o].status \in Sent THEN sale'[o] ELSE 0)
      /\ ProfitOf(s) = (IF ord'[o].status \in All THEN profit'[o] ELSE 0)
      /\ FinesOf(s) = (IF ord'[o].status \in All THEN fine'[o] ELSE 0)
  BY <1>1 DEF GoodsOf, SalesOf, ProfitOf, FinesOf, NetProfit
<1>7. /\ GoodsOf(r) = (IF ord[o].status \in Procured THEN cost[o] ELSE 0)
      /\ SalesOf(r) = (IF ord[o].status \in Sent THEN sale[o] ELSE 0)
      /\ ProfitOf(r) = (IF ord[o].status \in All THEN profit[o] ELSE 0)
      /\ FinesOf(r) = (IF ord[o].status \in All THEN fine[o] ELSE 0)
  BY DEF GoodsOf, SalesOf, ProfitOf, FinesOf, NetProfit
<1>8. /\ cost \in [Orders -> Int] /\ cost' \in [Orders -> Int]
      /\ sale \in [Orders -> Int] /\ sale' \in [Orders -> Int]
      /\ profit \in [Orders -> Int] /\ profit' \in [Orders -> Int]
      /\ fine \in [Orders -> Int] /\ fine' \in [Orders -> Int]
  BY <1>4
<1>9. \A b \in Agents :
        /\ cash[b].in_transit = SumFunctionOnSet(cost, OrdersOf(b, Procured))
        /\ cash[b].receivable = SumFunctionOnSet(sale, OrdersOf(b, Sent))
        /\ Held(cash[b]) >= InitialBalance + InitialDeposit
                            + SumFunctionOnSet(profit, OrdersOf(b, All))
        /\ ~cash[b].exhausted =>
             Held(cash[b]) = InitialBalance + InitialDeposit
                             + SumFunctionOnSet(profit, OrdersOf(b, All))
        /\ cash[b].fine = SumFunctionOnSet(fine, OrdersOf(b, All))
  BY DEF FlightBacked, BooksBalance, Held
<1>10. /\ GoodsOf(s) \in Int /\ SalesOf(s) \in Int /\ ProfitOf(s) \in Int
       /\ FinesOf(s) \in Int /\ GoodsOf(r) \in Int /\ SalesOf(r) \in Int
       /\ ProfitOf(r) \in Int /\ FinesOf(r) \in Int
  BY <1>1, <1>2, RowValues
<1> HIDE DEF All, Sent, cost, sale, profit, fine
<1>11. ASSUME NEW b \in Agents
       PROVE  /\ cash'[b].in_transit = SumFunctionOnSet(cost', OrdersOf(b, Procured)')
              /\ cash'[b].receivable =
                   SumFunctionOnSet(sale', OrdersOf(b, Sent)')
              /\ Held(cash'[b]) >= InitialBalance + InitialDeposit
                                   + SumFunctionOnSet(profit', OrdersOf(b, All)')
              /\ ~cash'[b].exhausted =>
                   Held(cash'[b]) = InitialBalance + InitialDeposit
                                    + SumFunctionOnSet(profit', OrdersOf(b, All)')
              /\ cash'[b].fine = SumFunctionOnSet(fine', OrdersOf(b, All)')
  <2>1. PICK goods \in Int, sales \in Int, profits \in Int, fines \in Int :
          /\ goods = SumFunctionOnSet(cost, OrdersOf(b, Procured))
          /\ sales = SumFunctionOnSet(sale, OrdersOf(b, Sent))
          /\ profits = SumFunctionOnSet(profit, OrdersOf(b, All))
          /\ fines = SumFunctionOnSet(fine, OrdersOf(b, All))
    BY <1>1, <1>3, <1>5, <1>8, OneOrderSum DEF All, Sent
  <2>2. SumFunctionOnSet(cost', OrdersOf(b, Procured)') =
          goods + (IF b = a THEN GoodsOf(s) ELSE 0) - (IF b = a THEN GoodsOf(r) ELSE 0)
    <3>1. SumFunctionOnSet(cost', OrdersOf(b, Procured)') =
            SumFunctionOnSet(cost, OrdersOf(b, Procured))
            + (IF b = a /\ ord'[o].status \in Procured THEN cost'[o] ELSE 0)
            - (IF b = a /\ ord[o].status \in Procured THEN cost[o] ELSE 0)
      <4>1. \A p \in Orders : p # o => cost[p] = cost'[p]
        BY <1>5
      <4>2. cost \in [Orders -> Int] /\ cost' \in [Orders -> Int]
        BY <1>8
      <4>3. "none" \notin Procured
        BY <1>3
      <4>4. /\ ord'[o].agent = a /\ \A p \in Orders : p # o => ord'[p] = ord[p]
            /\ ord[o].agent = a \/ ord[o].status = "none"
        BY <1>1
      <4>5. QED
        BY <4>1, <4>2, <4>3, <4>4, OneOrderSum
    <3>2. QED
      BY <1>6, <1>7, <2>1, <3>1
  <2>3. SumFunctionOnSet(sale', OrdersOf(b, Sent)') =
          sales + (IF b = a THEN SalesOf(s) ELSE 0) - (IF b = a THEN SalesOf(r) ELSE 0)
    <3>1. SumFunctionOnSet(sale', OrdersOf(b, Sent)') =
            SumFunctionOnSet(sale, OrdersOf(b, Sent))
            + (IF b = a /\ ord'[o].status \in Sent THEN sale'[o] ELSE 0)
            - (IF b = a /\ ord[o].status \in Sent THEN sale[o] ELSE 0)
      <4>1. \A p \in Orders : p # o => sale[p] = sale'[p]
        BY <1>5
      <4>2. sale \in [Orders -> Int] /\ sale' \in [Orders -> Int]
        BY <1>8
      <4>3. "none" \notin Sent
        BY <1>3 DEF Sent
      <4>4. /\ ord'[o].agent = a /\ \A p \in Orders : p # o => ord'[p] = ord[p]
            /\ ord[o].agent = a \/ ord[o].status = "none"
        BY <1>1
      <4>5. QED
        BY <4>1, <4>2, <4>3, <4>4, OneOrderSum
    <3>2. QED
      BY <1>6, <1>7, <2>1, <3>1
  <2>4. SumFunctionOnSet(profit', OrdersOf(b, All)') =
          profits + (IF b = a THEN ProfitOf(s) ELSE 0) - (IF b = a THEN ProfitOf(r) ELSE 0)
    <3>1. SumFunctionOnSet(profit', OrdersOf(b, All)') =
            SumFunctionOnSet(profit, OrdersOf(b, All))
            + (IF b = a /\ ord'[o].status \in All THEN profit'[o] ELSE 0)
            - (IF b = a /\ ord[o].status \in All THEN profit[o] ELSE 0)
      <4>1. \A p \in Orders : p # o => profit[p] = profit'[p]
        BY <1>5
      <4>2. profit \in [Orders -> Int] /\ profit' \in [Orders -> Int]
        BY <1>8
      <4>3. "none" \notin All
        BY <1>3 DEF All
      <4>4. /\ ord'[o].agent = a /\ \A p \in Orders : p # o => ord'[p] = ord[p]
            /\ ord[o].agent = a \/ ord[o].status = "none"
        BY <1>1
      <4>5. QED
        BY <4>1, <4>2, <4>3, <4>4, OneOrderSum
    <3>2. QED
      BY <1>6, <1>7, <2>1, <3>1
  <2>5. SumFunctionOnSet(fine', OrdersOf(b, All)') =
          fines + (IF b = a THEN FinesOf(s) ELSE 0) - (IF b = a THEN FinesOf(r) ELSE 0)
    <3>1. SumFunctionOnSet(fine', OrdersOf(b, All)') =
            SumFunctionOnSet(fine, OrdersOf(b, All))
            + (IF b = a /\ ord'[o].status \in All THEN fine'[o] ELSE 0)
            - (IF b = a /\ ord[o].status \in All THEN fine[o] ELSE 0)
      <4>1. \A p \in Orders : p # o => fine[p] = fine'[p]
        BY <1>5
      <4>2. fine \in [Orders -> Int] /\ fine' \in [Orders -> Int]
        BY <1>8
      <4>3. "none" \notin All
        BY <1>3 DEF All
      <4>4. /\ ord'[o].agent = a /\ \A p \in Orders : p # o => ord'[p] = ord[p]
            /\ ord[o].agent = a \/ ord[o].status = "none"
        BY <1>1
      <4>5. QED
        BY <4>1, <4>2, <4>3, <4>4, OneOrderSum
    <3>2. QED
      BY <1>6, <1>7, <2>1, <3>1
  <2>6. CASE b = a
    <3>1. Funds(c) /\ Funds(d)
      BY RangesFunds DEF Shift
    <3>2. Held(c) \in Int /\ Held(d) \in Int /\ InitialBalance + InitialDeposit \in Int
      BY <3>1, FundsFields, RulesAssumption DEF Held
    <3>3. /\ c.in_transit = goods /\ c.receivable = sales /\ c.fine = fines
          /\ Held(c) >= InitialBalance + InitialDeposit + profits
          /\ ~c.exhausted => Held(c) = InitialBalance + InitialDeposit + profits
      BY <1>9, <2>1, <2>6
    <3>4. /\ d.in_transit = c.in_transit + (GoodsOf(s) - GoodsOf(r))
          /\ d.receivable = c.receivable + (SalesOf(s) - SalesOf(r))
          /\ d.fine = c.fine + (FinesOf(s) - FinesOf(r))
          /\ Held(d) >= Held(c) + (ProfitOf(s) - ProfitOf(r))
          /\ ~d.exhausted => ~c.exhausted
                             /\ Held(d) = Held(c) + (ProfitOf(s) - ProfitOf(r))
      BY DEF Shift
    <3>5. cash'[b] = d
      BY <1>1, <2>6
    <3>6. QED
      BY <1>10, <2>1, <2>2, <2>3, <2>4, <2>5, <2>6, <3>2, <3>3, <3>4, <3>5
  <2>7. CASE b # a
    <3>1. cash'[b] = cash[b]
      BY <1>1, <2>7
    <3>2. QED
      BY <1>9, <2>1, <2>2, <2>3, <2>4, <2>5, <2>7, <3>1
  <2>8. QED
    BY <2>6, <2>7
<1>12. QED
  BY <1>11
     DEF FlightBacked, BooksBalance, Held, All, Sent, cost, sale, profit, fine

AllUnsold == \A o \in Orders : Unsold(ord[o])

\* The steps that touch neither the orders nor the cash.
LEMMA IdleSteps ==
  ASSUME \/ BeginStep \/ EndDemand \/ (\E o \in Orders : PassOver(o))
         \/ EndOrders \/ CloseStep \/ Halted \/ UNCHANGED vars
  PROVE  ord' = ord /\ cash' = cash
BY DEF BeginStep, EndDemand, PassOver, EndOrders, CloseStep, Halted, vars

\* Every step keeps the accounts backed and balanced.
LEMMA AccountsNext ==
  Ranges /\ Ranges' /\ AllUnsold /\ FlightBacked /\ BooksBalance /\ [Next]_vars
    => AllUnsold' /\ FlightBacked' /\ BooksBalance'
<1> SUFFICES ASSUME Ranges, Ranges', AllUnsold, FlightBacked, BooksBalance, [Next]_vars
             PROVE  AllUnsold' /\ FlightBacked' /\ BooksBalance'
  OBVIOUS
<1>1. CASE \E o \in Orders, a \in Agents, f \in Offers : Purchase(o, a, f)
  <2>1. PICK o \in Orders, a \in Agents, f \in Offers : Purchase(o, a, f)
    BY <1>1
  <2>2. PICK s, d : /\ ord' = [ord EXCEPT ![o] = s] /\ cash' = [cash EXCEPT ![a] = d]
                    /\ s.agent = a /\ Unsold(s)
                    /\ Shift(cash[a], d, GoodsOf(s), SalesOf(s), FinesOf(s), ProfitOf(s))
    BY <2>1, PurchaseBooked
  <2>3. ord[o].status = "none" /\ ord[o] \in OrderType
    BY <2>1, PurchaseEffect DEF Candidate, Ranges, TypeOK
  <2>4. s \in OrderType
    BY <2>2 DEF Ranges, TypeOK
  <2>5. /\ GoodsOf(ord[o]) = 0 /\ SalesOf(ord[o]) = 0
        /\ FinesOf(ord[o]) = 0 /\ ProfitOf(ord[o]) = 0
    BY <2>3
       DEF GoodsOf, SalesOf, FinesOf, ProfitOf, Procured, Active, Terminal,
           Violations
  <2>6. /\ GoodsOf(s) = GoodsOf(s) - 0 /\ SalesOf(s) = SalesOf(s) - 0
        /\ FinesOf(s) = FinesOf(s) - 0 /\ ProfitOf(s) = ProfitOf(s) - 0
    BY <2>4, RowValues
  <2>7. Shift(cash[a], d, GoodsOf(s) - GoodsOf(ord[o]), SalesOf(s) - SalesOf(ord[o]),
              FinesOf(s) - FinesOf(ord[o]), ProfitOf(s) - ProfitOf(ord[o]))
    BY <2>2, <2>5, <2>6
  <2>8. FlightBacked' /\ BooksBalance'
    BY <2>2, <2>3, <2>7, AccountsAfterOrder
  <2>9. AllUnsold'
    BY <2>2 DEF AllUnsold, Unsold, Ranges, TypeOK
  <2>10. QED
    BY <2>8, <2>9
<1>2. CASE \E o \in Orders : StepOrder(o)
  <2>1. PICK o \in Orders : StepOrder(o)
    BY <1>2
  <2>2. PICK s, d : Transition(o, s, d) /\ Booked(ord[o], s, cash[ord[o].agent], d)
    BY <2>1, StepOrderBooked DEF AllUnsold
  <2>3. PICK a \in Agents : a = ord[o].agent
    BY DEF Ranges, TypeOK, OrderType
  <2>4. ord' = [ord EXCEPT ![o] = s] /\ cash' = [cash EXCEPT ![a] = d]
    BY <2>2, <2>3 DEF Transition
  <2>5. FlightBacked' /\ BooksBalance'
    BY <2>2, <2>3, <2>4, AccountsAfterOrder DEF Booked
  <2>6. AllUnsold'
    BY <2>2, <2>4 DEF AllUnsold, Booked, Unsold, Ranges, TypeOK
  <2>7. QED
    BY <2>5, <2>6
<1>3. CASE ord' = ord /\ cash' = cash
  <2>1. \A a, st : OrdersOf(a, st)' = OrdersOf(a, st)
    BY <1>3 DEF OrdersOf
  <2>2. /\ [o \in Orders |-> ord[o].offer.cost]' = [o \in Orders |-> ord[o].offer.cost]
        /\ [o \in Orders |-> ord[o].offer.sale]' = [o \in Orders |-> ord[o].offer.sale]
        /\ [o \in Orders |-> NetProfit(o)]' = [o \in Orders |-> NetProfit(o)]
        /\ [o \in Orders |-> ord[o].penalty]' = [o \in Orders |-> ord[o].penalty]
    BY <1>3 DEF NetProfit
  <2>3. FlightBacked' /\ BooksBalance'
    BY <1>3, <2>1, <2>2 DEF FlightBacked, BooksBalance
  <2>4. AllUnsold'
    BY <1>3 DEF AllUnsold, Unsold
  <2>5. QED
    BY <2>3, <2>4
<1>4. QED
  BY <1>1, <1>2, <1>3, IdleSteps DEF Next, Work

\* The four accounts of every agent are right at every step, whatever the
\* catalogue, the fees and the fines: goods and sales in flight are backed by
\* exactly the agent's orders that are under way, and usable cash, guarantee
\* and cumulative fines balance with the net profits and the penalties on the
\* orders, unless a debit was truncated, which leaves the agent richer.
THEOREM TheBooksBalance == Spec => []AccountsRight
<1>1. Init => AllUnsold /\ FlightBacked /\ BooksBalance
  <2> SUFFICES ASSUME Init PROVE AllUnsold /\ FlightBacked /\ BooksBalance
    OBVIOUS
  <2>1. \A o \in Orders : ord[o].status = "none"
    BY DEF Init, BlankOrder
  <2>2. "none" \notin Active /\ "none" \notin Procured /\ "none" \notin {"delivered"}
        /\ "none" \notin Active \cup Terminal
    BY DEF Procured, Active, Terminal, Violations
  <2>3. \A a \in Agents : /\ OrdersOf(a, Procured) = {}
                          /\ OrdersOf(a, {"delivered"}) = {}
                          /\ OrdersOf(a, Active \cup Terminal) = {}
    BY <2>1, <2>2 DEF OrdersOf
  <2>4. AllUnsold
    BY <2>1, <2>2 DEF AllUnsold, Unsold
  <2>5. \A a \in Agents :
          /\ cash[a].in_transit = 0 /\ cash[a].receivable = 0 /\ cash[a].fine = 0
          /\ cash[a].balance + cash[a].deposit = InitialBalance + InitialDeposit + 0
    BY RulesAssumption DEF Init
  <2>6. InitialBalance + InitialDeposit \in Int
    BY RulesAssumption
  <2>7. FlightBacked
    BY <2>3, <2>5, SumEmpty DEF FlightBacked
  <2>8. BooksBalance
    <3> SUFFICES ASSUME NEW a \in Agents
                 PROVE  LET held == cash[a].balance + cash[a].deposit
                            booked == InitialBalance + InitialDeposit
                              + SumFunctionOnSet([o \in Orders |-> NetProfit(o)],
                                                 OrdersOf(a, Active \cup Terminal))
                        IN /\ held >= booked
                           /\ ~cash[a].exhausted => held = booked
                           /\ cash[a].fine =
                                SumFunctionOnSet([o \in Orders |-> ord[o].penalty],
                                                 OrdersOf(a, Active \cup Terminal))
      BY DEF BooksBalance
    <3>1. /\ SumFunctionOnSet([o \in Orders |-> NetProfit(o)],
                              OrdersOf(a, Active \cup Terminal)) = 0
          /\ SumFunctionOnSet([o \in Orders |-> ord[o].penalty],
                              OrdersOf(a, Active \cup Terminal)) = 0
      BY <2>3, SumEmpty
    <3>2. QED
      BY <2>5, <2>6, <3>1
  <2>9. QED
    BY <2>4, <2>7, <2>8
<1>2. Spec => []Ranges
  BY RangesInit, RangesNext, PTL DEF Spec
<1>3. Spec => [](AllUnsold /\ FlightBacked /\ BooksBalance)
  BY <1>1, <1>2, AccountsNext, PTL DEF Spec
<1>4. Ranges /\ AllUnsold /\ FlightBacked /\ BooksBalance => AccountsRight
  BY DEF Ranges, AccountsRight
<1>5. QED
  BY <1>2, <1>3, <1>4, PTL
=============================================================================
