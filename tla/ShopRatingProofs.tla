--------------------------- MODULE ShopRatingProofs ---------------------------
(***************************************************************************)
(* Proofs about ShopRating: ratings follow the table of orders through     *)
(* ticks, days and restarts.                                               *)
(*                                                                         *)
(* The properties compare the ratings with the orders as they are; the     *)
(* inductive invariant RatingInv compares them with the evidence of a      *)
(* number of days, and says which number it is in each phase of a tick and *)
(* of the end of the run: a day more than the clock has while the run is   *)
(* being finished, and that day taken back when a restart interrupts it.   *)
(* A tick only adds to the table what is dated by that tick, so that the   *)
(* evidence of the days before is the same after it (Grows).               *)
(***************************************************************************)
EXTENDS ShopRating, SequenceTheorems, TLAPS

-----------------------------------------------------------------------------
(* The inductive invariant.                                                *)

\* Types of the tables.
Endings == Outcomes \cup {"open", "stockout", "insufficient_balance"}
OrderRows == [product : Products, late : Int, settled : Int, outcome : Endings]

\* The days that have been rated, and those there are when the run is finished.
Days(u) == u \div DayTicks
AllDays == (t + DayTicks - 1) \div DayTicks
RatedDays == IF phase \in {"closing", "finished"} THEN AllDays ELSE Days(NextRun(t))

\* The orders rated in the first k days, and their evidence.
Ended(os, k) == {i \in DOMAIN os : os[i].settled # Never /\ Days(os[i].settled) < k /\ Rated(os[i])}
Daily(os, k) == {<<i, k - 1 - Days(os[i].settled)>> : i \in Ended(os, k)}
Left(os, k) == IF model = Reviewed THEN PublicReviews(os, k * DayTicks) ELSE {}

Typed ==
  /\ t \in 0 .. LastTick /\ phase \in {"quiet", "hook", "closed", "closing", "finished"}
  /\ model \in Models
  /\ orders \in Seq(OrderRows)
  /\ phase = "hook" => t % Period = 0

\* Nothing is dated before the first tick or after the last committed one.
Dated == \A i \in Numbers : orders[i].settled \in Never .. NextRun(t) - 1
                            /\ orders[i].late \in Never .. NextRun(t) - 1

\* Beta has counted each event once, the others have rated each day.
BetaRight ==
  model = Beta => shop = Rebuilt(orders, NextRun(t)) /\ reviews = {} /\ published = 0

DailyRight ==
  model # Beta =>
    /\ shop = Daily(orders, RatedDays) /\ reviews = Left(orders, RatedDays)
    /\ published = RatedDays * DayTicks

\* A final point is of all days; a run that is finished without one ended with
\* a day.
PointRight ==
  IF point.final
  THEN /\ model # Beta /\ phase \in {"quiet", "closing", "finished"}
       /\ point.basis = DemandBasis(Daily(orders, AllDays), Left(orders, AllDays))
  ELSE /\ point.basis = DemandBasis(shop, reviews)
       /\ model # Beta /\ phase \in {"closing", "finished"} => t % DayTicks = 0

RatingInv ==
  /\ Typed /\ Dated /\ aged = Daily(orders, RatedDays)
  /\ BetaRight /\ DailyRight /\ PointRight

\* A listing has counted what it should; only a run stopped on its first day
\* while it was being finished is ahead.
ShelfRight(p) ==
  IF model = Beta
  THEN shelf[p] = Counted(orders, p)
  ELSE \/ shelf[p] = Of(orders, p, Daily(orders, RatedDays))
       \/ /\ point.final /\ phase = "quiet" /\ RatedDays = 0
          /\ shelf[p] = Of(orders, p, Daily(orders, AllDays))

ShelfInv == shelf = [p \in Products |-> shelf[p]] /\ \A p \in Listed : ShelfRight(p)

-----------------------------------------------------------------------------
(* Days and ticks.                                                         *)

\* Division and remainder, by the quotient and the rest.
LEMMA DivMod ==
  ASSUME NEW u \in Nat, NEW D \in Nat \ {0}
  PROVE  \E q \in Nat, r \in 0 .. D - 1 : u = q * D + r /\ u \div D = q /\ u % D = r
<1>1. u \div D \in Nat /\ u % D \in 0 .. D - 1
  OBVIOUS
<1>2. PICK q \in Nat : q = u \div D
  BY <1>1
<1>3. PICK r \in 0 .. D - 1 : r = u % D
  BY <1>1
<1>4. u % D = u - D * (u \div D)
  BY D > 0
<1>5. r = u - D * q
  BY <1>2, <1>3, <1>4
<1>6. PICK x \in Int : x = D * q
  OBVIOUS
<1>7. r = u - x
  BY <1>5, <1>6
<1>8. u = x + r /\ x = q * D
  BY <1>6, <1>7
<1>9. u = q * D + r
  BY <1>8
<1>10. QED
  BY <1>2, <1>3, <1>9

\* Multiples are ordered as the numbers are.
LEMMA MulMono == \A a, b \in Int, D \in Nat \ {0} : a <= b => a * D <= b * D
OBVIOUS

\* The quotient and the rest are the only ones.
LEMMA DivIs ==
  ASSUME NEW u \in Nat, NEW D \in Nat \ {0}, NEW q \in Int, NEW r \in 0 .. D - 1,
         u = q * D + r
  PROVE  u \div D = q /\ u % D = r
<1>1. PICK p \in Nat, s \in 0 .. D - 1 : u = p * D + s /\ u \div D = p /\ u % D = s
  BY DivMod
<1>2. ~(p < q)
  <2>1. ASSUME p + 1 <= q PROVE FALSE
    <3>1. (p + 1) * D <= q * D
      BY <2>1, MulMono
    <3>2. (p + 1) * D = p * D + D
      OBVIOUS
    <3>3. QED
      BY <1>1, <3>1, <3>2
  <2>2. QED
    BY <2>1
<1>3. ~(q < p)
  <2>1. ASSUME q + 1 <= p PROVE FALSE
    <3>1. (q + 1) * D <= p * D
      BY <2>1, MulMono
    <3>2. (q + 1) * D = q * D + D
      OBVIOUS
    <3>3. QED
      BY <1>1, <3>1, <3>2
  <2>2. QED
    BY <2>1
<1>4. p = q
  BY <1>2, <1>3
<1>5. QED
  BY <1>1, <1>4

\* A number is below a multiple if its quotient is below the factor.
LEMMA Below ==
  ASSUME NEW s \in Nat, NEW D \in Nat \ {0}, NEW k \in Int
  PROVE  s < k * D <=> s \div D < k
OBVIOUS

\* A day ends with the tick before a multiple of its length.
LEMMA DayEnd ==
  ASSUME NEW u \in Nat, NEW D \in Nat \ {0}
  PROVE  /\ (u + 1) % D = 0 => /\ (u + 1) \div D = u \div D + 1
                               /\ u + 1 - D = (u \div D) * D
                               /\ u + 1 = (u \div D + 1) * D
         /\ (u + 1) % D # 0 => (u + 1) \div D = u \div D
<1>1. PICK q \in Nat, r \in 0 .. D - 1 : u = q * D + r /\ u \div D = q /\ u % D = r
  BY DivMod
<1>9. u + 1 \in Nat /\ 0 \in 0 .. D - 1
  OBVIOUS
<1>2. CASE r = D - 1
  <2>1. u + 1 = (q + 1) * D + 0 /\ q + 1 \in Int
    BY <1>1, <1>2
  <2>2. (u + 1) \div D = q + 1 /\ (u + 1) % D = 0
    BY <1>9, <2>1, DivIs
  <2>3. u + 1 - D = q * D /\ u + 1 = (q + 1) * D
    BY <1>1, <1>2, <2>1
  <2>4. QED
    BY <1>1, <2>2, <2>3
<1>3. CASE r # D - 1
  <2>1. u + 1 = q * D + (r + 1) /\ r + 1 \in 0 .. D - 1
    BY <1>1, <1>3
  <2>2. (u + 1) \div D = q /\ (u + 1) % D = r + 1
    BY <1>9, <2>1, DivIs
  <2>3. QED
    BY <1>1, <2>1, <2>2
<1>4. QED
  BY <1>2, <1>3

\* Rounding up counts a day that has begun.
LEMMA CeilDay ==
  ASSUME NEW u \in Nat, NEW D \in Nat \ {0}
  PROVE  /\ u % D = 0 => (u + D - 1) \div D = u \div D /\ u = (u \div D) * D
         /\ u % D # 0 => /\ (u + D - 1) \div D = u \div D + 1
                         /\ (u \div D) * D < u /\ u < (u \div D + 1) * D
<1>1. PICK q \in Nat, r \in 0 .. D - 1 : u = q * D + r /\ u \div D = q /\ u % D = r
  BY DivMod
<1>9. u + D - 1 \in Nat
  OBVIOUS
<1>2. CASE r = 0
  <2>1. u + D - 1 = q * D + (D - 1) /\ D - 1 \in 0 .. D - 1
    BY <1>1, <1>2
  <2>2. (u + D - 1) \div D = q
    BY <1>9, <2>1, DivIs
  <2>3. u = q * D
    BY <1>1, <1>2
  <2>4. QED
    BY <1>1, <1>2, <2>2, <2>3
<1>3. CASE r # 0
  <2>1. r - 1 \in 0 .. D - 1 /\ q + 1 \in Int
    BY <1>3
  <2>2. u + D - 1 = (q + 1) * D + (r - 1)
    BY <1>1
  <2>3. (u + D - 1) \div D = q + 1
    BY <1>9, <2>1, <2>2, DivIs
  <2>4. q * D < u /\ u < (q + 1) * D
    BY <1>1, <1>3
  <2>5. QED
    BY <1>1, <1>3, <2>3, <2>4
<1>4. QED
  BY <1>2, <1>3

-----------------------------------------------------------------------------
(* The evidence of a number of days.                                       *)

\* The rows of a table are dated.
Dates(os) == \A i \in DOMAIN os : os[i].settled \in Int /\ os[i].settled >= Never

\* The lengths are positive, and Never is before every tick.
LEMMA DayTicksTyped == DayTicks \in Nat \ {0} /\ Period \in Nat \ {0} /\ Never = -1
BY ShopRatingAssumption DEF Never

\* A tick lies before the end of a day if its day does.
LEMMA DaysTyped ==
  ASSUME NEW s \in Nat
  PROVE  /\ Days(s) \in Nat
         /\ \A k \in Int : s < k * DayTicks <=> Days(s) < k
<1>1. Days(s) \in Nat
  BY DayTicksTyped, DivMod DEF Days
<1>2. \A k \in Int : s < k * DayTicks <=> Days(s) < k
  BY DayTicksTyped, Below DEF Days
<1>3. QED
  BY <1>1, <1>2

\* The cutoff of k days is k days.
LEMMA WholeDays ==
  ASSUME NEW k \in Nat
  PROVE  (k * DayTicks) \div DayTicks = k /\ k * DayTicks \in Nat
<1>1. k * DayTicks \in Nat /\ 0 \in 0 .. DayTicks - 1 /\ k * DayTicks = k * DayTicks + 0
  BY DayTicksTyped
<1>2. QED
  BY <1>1, DayTicksTyped, DivIs

\* Before a cutoff of whole days: those settled on one of the days.
LEMMA BeforeDays ==
  ASSUME NEW os, Dates(os), NEW k \in Nat
  PROVE  Before(os, k * DayTicks) =
           {i \in DOMAIN os : os[i].settled # Never /\ Days(os[i].settled) < k}
<1>1. ASSUME NEW i \in DOMAIN os, os[i].settled # Never
      PROVE  os[i].settled < k * DayTicks <=> Days(os[i].settled) < k
  <2>1. os[i].settled \in Nat
    BY <1>1, DayTicksTyped DEF Dates
  <2>2. QED
    BY <2>1, DaysTyped
<1>2. QED
  BY <1>1 DEF Before

\* rebuild_evidence through whole days is the evidence of those days.
LEMMA EvidenceDaily ==
  ASSUME NEW os, Dates(os), NEW k \in Nat
  PROVE  Evidence(os, k * DayTicks) = Daily(os, k)
<1>1. (k * DayTicks) \div DayTicks = k
  BY WholeDays
<1>2. {j \in Before(os, k * DayTicks) : Rated(os[j])} = Ended(os, k)
  BY BeforeDays DEF Ended
<1>3. Evidence(os, k * DayTicks) =
        {<<i, k - 1 - os[i].settled \div DayTicks>> :
           i \in {j \in Before(os, k * DayTicks) : Rated(os[j])}}
  BY <1>1 DEF Evidence
<1>4. QED
  BY <1>2, <1>3 DEF Daily, Days

\* Ended orders are dated, on one of the days.
LEMMA EndedTyped ==
  ASSUME NEW os, Dates(os), NEW k \in Int, NEW i \in Ended(os, k)
  PROVE  i \in DOMAIN os /\ os[i].settled \in Nat /\ Days(os[i].settled) \in 0 .. k - 1
<1>1. i \in DOMAIN os /\ os[i].settled \in Nat /\ Days(os[i].settled) < k
  BY DayTicksTyped DEF Ended, Dates
<1>2. QED
  BY <1>1, DaysTyped

\* One more day ends the orders of that day.
LEMMA EndedNext ==
  ASSUME NEW os, Dates(os), NEW k \in Nat, NEW i \in DOMAIN os
  PROVE  i \in Ended(os, k + 1) <=>
           \/ i \in Ended(os, k)
           \/ os[i].settled \in k * DayTicks .. (k + 1) * DayTicks - 1 /\ Rated(os[i])
<1>1. CASE os[i].settled = Never
  <2>1. k * DayTicks \in Nat
    BY WholeDays
  <2>2. os[i].settled \notin k * DayTicks .. (k + 1) * DayTicks - 1
    BY <1>1, <2>1, DayTicksTyped
  <2>3. QED
    BY <1>1, <2>2 DEF Ended
<1>2. CASE os[i].settled # Never
  <2>1. PICK s \in Nat : s = os[i].settled
    BY <1>2, DayTicksTyped DEF Dates
  <2>2. /\ s < k * DayTicks <=> Days(s) < k
        /\ s < (k + 1) * DayTicks <=> Days(s) < k + 1
        /\ Days(s) \in Nat
    BY DaysTyped
  <2>3. k * DayTicks \in Int /\ (k + 1) * DayTicks \in Int
    BY WholeDays, DayTicksTyped
  <2>4. s \in k * DayTicks .. (k + 1) * DayTicks - 1 <=> ~(Days(s) < k) /\ Days(s) < k + 1
    BY <2>2, <2>3
  <2>5. QED
    BY <1>2, <2>1, <2>2, <2>4 DEF Ended
<1>3. QED
  BY <1>1, <1>2

\* A tick within a day belongs to it.
LEMMA DayOf ==
  ASSUME NEW s \in Nat, NEW k \in Nat, s \in k * DayTicks .. (k + 1) * DayTicks - 1
  PROVE  Days(s) = k
<1>1. k * DayTicks \in Int /\ (k + 1) * DayTicks \in Int
  BY WholeDays, DayTicksTyped
<1>2. ~(s < k * DayTicks) /\ s < (k + 1) * DayTicks
  BY <1>1
<1>3. ~(Days(s) < k) /\ Days(s) < k + 1 /\ Days(s) \in Nat
  BY <1>2, DaysTyped
<1>4. QED
  BY <1>3

\* The orders rated on day k.
OnDay(os, k) ==
  {j \in DOMAIN os : os[j].settled \in k * DayTicks .. (k + 1) * DayTicks - 1 /\ Rated(os[j])}

\* A day that ends ages the evidence and adds its own.
LEMMA NextDaily ==
  ASSUME NEW os, Dates(os), NEW k \in Nat
  PROVE  Daily(os, k + 1) = Older(Daily(os, k)) \cup {<<i, 0>> : i \in OnDay(os, k)}
<1>1. Older(Daily(os, k)) = {<<i, k - Days(os[i].settled)>> : i \in Ended(os, k)}
  <2>1. ASSUME NEW i \in Ended(os, k)
        PROVE  (k - 1 - Days(os[i].settled)) + 1 = k - Days(os[i].settled)
    BY <2>1, EndedTyped
  <2>2. ASSUME NEW e \in Daily(os, k)
        PROVE  \E i \in Ended(os, k) : <<e[1], e[2] + 1>> = <<i, k - Days(os[i].settled)>>
    <3>1. PICK i \in Ended(os, k) : e = <<i, k - 1 - Days(os[i].settled)>>
      BY DEF Daily
    <3>2. e[1] = i /\ e[2] = k - 1 - Days(os[i].settled)
      BY <3>1
    <3>3. QED
      BY <2>1, <3>2
  <2>3. ASSUME NEW i \in Ended(os, k)
        PROVE  \E e \in Daily(os, k) : <<e[1], e[2] + 1>> = <<i, k - Days(os[i].settled)>>
    <3>1. PICK e : e = <<i, k - 1 - Days(os[i].settled)>>
      OBVIOUS
    <3>2. e \in Daily(os, k)
      BY <3>1 DEF Daily
    <3>3. e[1] = i /\ e[2] = k - 1 - Days(os[i].settled)
      BY <3>1
    <3>4. QED
      BY <2>1, <3>2, <3>3
  <2>4. ASSUME NEW x
        PROVE  x \in Older(Daily(os, k)) <=> x \in {<<i, k - Days(os[i].settled)>> : i \in Ended(os, k)}
    <3>1. x \in Older(Daily(os, k)) <=> \E e \in Daily(os, k) : x = <<e[1], e[2] + 1>>
      BY DEF Older
    <3>2. QED
      BY <2>2, <2>3, <3>1
  <2>5. QED
    BY <2>4
<1>2. ASSUME NEW i \in OnDay(os, k) PROVE k - Days(os[i].settled) = 0
  <2>1. os[i].settled \in Nat
    BY WholeDays DEF OnDay
  <2>2. QED
    BY <2>1, DayOf DEF OnDay
<1>3. Ended(os, k + 1) = Ended(os, k) \cup OnDay(os, k)
  <2>1. \A i : i \in Ended(os, k + 1) \/ i \in Ended(os, k) => i \in DOMAIN os
    BY DEF Ended
  <2>2. QED
    BY <2>1, EndedNext DEF OnDay
<1>4. Daily(os, k + 1) = {<<i, k - Days(os[i].settled)>> : i \in Ended(os, k + 1)}
  <2>1. k + 1 - 1 = k
    OBVIOUS
  <2>2. QED
    BY <2>1 DEF Daily
<1>5. {<<i, k - Days(os[i].settled)>> : i \in OnDay(os, k)} = {<<i, 0>> : i \in OnDay(os, k)}
  BY <1>2
<1>6. QED
  BY <1>1, <1>3, <1>4, <1>5

\* Without its last day the evidence is younger by a day.
LEMMA BackDaily ==
  ASSUME NEW os, Dates(os), NEW k \in Nat
  PROVE  Daily(os, k) = {<<e[1], e[2] - 1>> : e \in {f \in Daily(os, k + 1) : f[2] > 0}}
<1>1. Daily(os, k + 1) = {<<i, k - Days(os[i].settled)>> : i \in Ended(os, k + 1)}
  <2>1. k + 1 - 1 = k
    OBVIOUS
  <2>2. QED
    BY <2>1 DEF Daily
<1>2. ASSUME NEW i \in Ended(os, k + 1)
      PROVE  /\ k - Days(os[i].settled) > 0 <=> i \in Ended(os, k)
             /\ (k - Days(os[i].settled)) - 1 = k - 1 - Days(os[i].settled)
  <2>1. Days(os[i].settled) \in 0 .. k
    BY EndedTyped
  <2>2. i \in Ended(os, k) <=> Days(os[i].settled) < k
    BY DEF Ended
  <2>3. QED
    BY <2>1, <2>2
<1>3. Ended(os, k) \subseteq Ended(os, k + 1)
  <2>1. \A i : i \in Ended(os, k) => i \in DOMAIN os
    BY DEF Ended
  <2>2. QED
    BY <2>1, EndedNext
<1>4. {f \in Daily(os, k + 1) : f[2] > 0} = {<<i, k - Days(os[i].settled)>> : i \in Ended(os, k)}
  BY <1>1, <1>2, <1>3
<1>5. ASSUME NEW f \in Daily(os, k + 1), f[2] > 0
      PROVE  \E i \in Ended(os, k) : <<f[1], f[2] - 1>> = <<i, k - 1 - Days(os[i].settled)>>
  <2>1. PICK i \in Ended(os, k) : f = <<i, k - Days(os[i].settled)>>
    BY <1>4, <1>5
  <2>2. f[1] = i /\ f[2] = k - Days(os[i].settled) /\ i \in Ended(os, k + 1)
    BY <1>3, <2>1
  <2>3. QED
    BY <1>2, <2>2
<1>6. ASSUME NEW i \in Ended(os, k)
      PROVE  \E f \in Daily(os, k + 1) :
               f[2] > 0 /\ <<f[1], f[2] - 1>> = <<i, k - 1 - Days(os[i].settled)>>
  <2>1. PICK f : f = <<i, k - Days(os[i].settled)>>
    OBVIOUS
  <2>2. f \in Daily(os, k + 1) /\ f[1] = i /\ f[2] = k - Days(os[i].settled)
    BY <1>1, <1>3, <2>1
  <2>3. QED
    BY <1>2, <1>3, <2>2
<1>7. ASSUME NEW x
      PROVE  x \in Daily(os, k) <=>
               x \in {<<e[1], e[2] - 1>> : e \in {f \in Daily(os, k + 1) : f[2] > 0}}
  <2>1. x \in Daily(os, k) <=> \E i \in Ended(os, k) : x = <<i, k - 1 - Days(os[i].settled)>>
    BY DEF Daily
  <2>2. QED
    BY <1>5, <1>6, <2>1
<1>8. QED
  BY <1>7

\* A tick lies within its day.
LEMMA TickOfDay ==
  ASSUME NEW u \in Nat
  PROVE  /\ Days(u) \in Nat /\ Days(u) * DayTicks \in Nat
         /\ Days(u) * DayTicks <= u /\ u < (Days(u) + 1) * DayTicks
<1>1. Days(u) \in Nat
  BY DaysTyped
<1>2. Days(u) * DayTicks \in Nat /\ (Days(u) + 1) * DayTicks \in Nat
  BY <1>1, WholeDays
<1>3. ~(u < Days(u) * DayTicks)
  BY <1>1, DaysTyped
<1>4. u < (Days(u) + 1) * DayTicks
  BY <1>1, DaysTyped
<1>5. QED
  BY <1>1, <1>2, <1>3, <1>4

-----------------------------------------------------------------------------
(* A tick of the table of orders.                                          *)

\* What a tick does to the table of orders.
Grows(os, new, u) ==
  /\ DOMAIN os \subseteq DOMAIN new
  /\ \A i \in DOMAIN os :
       /\ new[i].product = os[i].product
       /\ \/ new[i].settled = os[i].settled /\ new[i].outcome = os[i].outcome
          \/ os[i].settled = Never /\ new[i].settled = u
       /\ \/ new[i].late = os[i].late
          \/ os[i].late = Never /\ new[i].late = u
  /\ \A i \in DOMAIN new \ DOMAIN os : {new[i].settled, new[i].late} \subseteq {Never, u}

\* The new rows are dated.
LEMMA GrowsDates ==
  ASSUME NEW os, NEW new, NEW u \in Nat, Grows(os, new, u), Dates(os)
  PROVE  Dates(new)
<1>1. ASSUME NEW i \in DOMAIN new PROVE new[i].settled \in Int /\ new[i].settled >= Never
  <2>1. CASE i \in DOMAIN os
    BY <2>1, DayTicksTyped DEF Grows, Dates
  <2>2. CASE i \notin DOMAIN os
    <3>1. new[i].settled \in {Never, u}
      BY <2>2 DEF Grows
    <3>2. QED
      BY <3>1, DayTicksTyped
  <2>3. QED
    BY <2>1, <2>2
<1>2. QED
  BY <1>1 DEF Dates

\* A row that did not settle in this tick was there and is the same.
LEMMA GrowsRow ==
  ASSUME NEW os, NEW new, NEW u \in Nat, Grows(os, new, u), Dates(os),
         NEW i \in DOMAIN new, new[i].settled # Never, new[i].settled # u
  PROVE  /\ i \in DOMAIN os /\ os[i].settled = new[i].settled
         /\ os[i].product = new[i].product /\ Rated(os[i]) = Rated(new[i])
         /\ os[i].outcome = new[i].outcome
<1>1. i \in DOMAIN os
  BY DEF Grows
<1>2. new[i].settled = os[i].settled /\ new[i].outcome = os[i].outcome
  BY <1>1 DEF Grows
<1>3. new[i].product = os[i].product
  BY <1>1 DEF Grows
<1>4. QED
  BY <1>1, <1>2, <1>3 DEF Rated

\* A settled row stays as it is.
LEMMA GrowsKeeps ==
  ASSUME NEW os, NEW new, NEW u \in Nat, Grows(os, new, u), Dates(os),
         NEW i \in DOMAIN os, os[i].settled # Never
  PROVE  /\ i \in DOMAIN new /\ new[i].settled = os[i].settled
         /\ new[i].product = os[i].product /\ Rated(new[i]) = Rated(os[i])
         /\ new[i].outcome = os[i].outcome
<1>1. new[i].settled = os[i].settled /\ new[i].outcome = os[i].outcome /\ i \in DOMAIN new
  BY DEF Grows
<1>2. new[i].product = os[i].product
  BY DEF Grows
<1>3. QED
  BY <1>1, <1>2 DEF Rated

\* What ended before this tick is the same afterwards.
LEMMA GrowsBefore ==
  ASSUME NEW os, NEW new, NEW u \in Nat, Grows(os, new, u), Dates(os),
         NEW c \in Int, c <= u
  PROVE  /\ Before(new, c) = Before(os, c)
         /\ PublicReviews(new, c) = PublicReviews(os, c)
<1>1. ASSUME NEW i \in Before(new, c) PROVE i \in Before(os, c)
  <2>1. i \in DOMAIN new /\ new[i].settled # Never /\ new[i].settled < c
    BY DEF Before
  <2>2. new[i].settled # u
    BY <2>1
  <2>3. i \in DOMAIN os /\ os[i].settled = new[i].settled
    BY <2>1, <2>2, GrowsRow
  <2>4. QED
    BY <2>1, <2>3 DEF Before
<1>2. ASSUME NEW i \in Before(os, c)
      PROVE  i \in Before(new, c) /\ Rated(new[i]) = Rated(os[i]) /\ new[i].outcome = os[i].outcome
  <2>1. i \in DOMAIN os /\ os[i].settled # Never /\ os[i].settled < c
    BY DEF Before
  <2>2. /\ i \in DOMAIN new /\ new[i].settled = os[i].settled
        /\ Rated(new[i]) = Rated(os[i]) /\ new[i].outcome = os[i].outcome
    BY <2>1, GrowsKeeps
  <2>3. QED
    BY <2>1, <2>2 DEF Before
<1>3. Before(new, c) = Before(os, c)
  BY <1>1, <1>2
<1>4. QED
  BY <1>2, <1>3 DEF PublicReviews

\* The evidence of the days before this tick is the same afterwards.
LEMMA GrowsDaily ==
  ASSUME NEW os, NEW new, NEW u \in Nat, Grows(os, new, u), Dates(os),
         NEW k \in Nat, k * DayTicks <= u
  PROVE  /\ Ended(new, k) = Ended(os, k)
         /\ Daily(new, k) = Daily(os, k)
         /\ \A p : Of(new, p, Daily(new, k)) = Of(os, p, Daily(os, k))
         /\ PublicReviews(new, k * DayTicks) = PublicReviews(os, k * DayTicks)
<1>1. k * DayTicks \in Int
  BY WholeDays
<1>2. Dates(new)
  BY GrowsDates
<1>3. Before(new, k * DayTicks) = Before(os, k * DayTicks)
      /\ PublicReviews(new, k * DayTicks) = PublicReviews(os, k * DayTicks)
  BY <1>1, GrowsBefore
<1>4. /\ Before(new, k * DayTicks) =
           {i \in DOMAIN new : new[i].settled # Never /\ Days(new[i].settled) < k}
      /\ Before(os, k * DayTicks) =
           {i \in DOMAIN os : os[i].settled # Never /\ Days(os[i].settled) < k}
  BY <1>2, BeforeDays
<1>5. ASSUME NEW i \in Before(os, k * DayTicks)
      PROVE  /\ new[i].settled = os[i].settled /\ Rated(new[i]) = Rated(os[i])
             /\ new[i].product = os[i].product
  <2>1. i \in DOMAIN os /\ os[i].settled # Never
    BY DEF Before
  <2>2. QED
    BY <2>1, GrowsKeeps
<1>6. /\ Ended(new, k) = {i \in Before(new, k * DayTicks) : Rated(new[i])}
      /\ Ended(os, k) = {i \in Before(os, k * DayTicks) : Rated(os[i])}
  BY <1>4 DEF Ended
<1>7. Ended(new, k) = Ended(os, k)
  BY <1>3, <1>5, <1>6
<1>8. \A i \in Ended(os, k) : new[i].settled = os[i].settled /\ new[i].product = os[i].product
  BY <1>5, <1>6
<1>9. Daily(new, k) = Daily(os, k)
  BY <1>7, <1>8 DEF Daily
<1>10. ASSUME NEW e \in Daily(os, k) PROVE new[e[1]].product = os[e[1]].product
  <2>1. PICK i \in Ended(os, k) : e = <<i, k - 1 - Days(os[i].settled)>>
    BY DEF Daily
  <2>2. e[1] = i
    BY <2>1
  <2>3. QED
    BY <1>8, <2>2
<1>11. \A p : Of(new, p, Daily(new, k)) = Of(os, p, Daily(os, k))
  BY <1>9, <1>10 DEF Of
<1>12. QED
  BY <1>3, <1>7, <1>9, <1>11

\* What a tick rates under the model beta.
NewOf(os, p, u) ==
  {<<i, 0>> : i \in {j \in DOMAIN os : os[j].product = p /\ os[j].settled = u /\ Rated(os[j])}}

\* Beta's evidence of a listing grows by the orders that end in this tick.
LEMMA GrowsCounted ==
  ASSUME NEW os, NEW new, NEW u \in Nat, Grows(os, new, u), Dates(os),
         \A i \in DOMAIN os : os[i].settled # u, NEW p
  PROVE  Counted(new, p) = Counted(os, p) \cup NewOf(new, p, u)
<1> DEFINE C(x) == {j \in DOMAIN x : x[j].product = p /\ x[j].settled # Never /\ Rated(x[j])}
           N == {j \in DOMAIN new : new[j].product = p /\ new[j].settled = u /\ Rated(new[j])}
<1>1. ASSUME NEW i \in C(new) PROVE i \in C(os) \/ i \in N
  <2>1. CASE new[i].settled = u
    BY <2>1
  <2>2. CASE new[i].settled # u
    BY <2>2, GrowsRow
  <2>3. QED
    BY <2>1, <2>2
<1>2. ASSUME NEW i \in C(os) PROVE i \in C(new)
  BY GrowsKeeps
<1>3. u # Never
  BY DayTicksTyped
<1>4. C(new) = C(os) \cup N
  BY <1>1, <1>2, <1>3
<1>5. /\ Counted(new, p) = {<<i, 0>> : i \in C(new)} /\ Counted(os, p) = {<<i, 0>> : i \in C(os)}
      /\ NewOf(new, p, u) = {<<i, 0>> : i \in N}
  BY DEF Counted, NewOf
<1> HIDE DEF C, N
<1>6. QED
  BY <1>4, <1>5

\* The events of earlier ticks are the same afterwards.
LEMMA GrowsEvents ==
  ASSUME NEW os, NEW new, NEW u \in Nat, Grows(os, new, u), Dates(os),
         NEW v \in 0 .. u - 1
  PROVE  Events(new, v) = Events(os, v)
<1>0. v # Never /\ v # u
  BY DayTicksTyped
<1>1. {j \in DOMAIN new : new[j].late = v} = {j \in DOMAIN os : os[j].late = v}
  <2>1. ASSUME NEW j \in DOMAIN new, new[j].late = v PROVE j \in DOMAIN os /\ os[j].late = v
    <3>1. j \in DOMAIN os
      BY <1>0, <2>1 DEF Grows
    <3>2. QED
      BY <1>0, <2>1, <3>1 DEF Grows
  <2>2. ASSUME NEW j \in DOMAIN os, os[j].late = v PROVE j \in DOMAIN new /\ new[j].late = v
    BY <1>0, <2>2 DEF Grows
  <2>3. QED
    BY <2>1, <2>2
<1>2. {j \in DOMAIN new : new[j].settled = v /\ Rated(new[j])}
        = {j \in DOMAIN os : os[j].settled = v /\ Rated(os[j])}
  <2>1. ASSUME NEW j \in DOMAIN new, new[j].settled = v, Rated(new[j])
        PROVE  j \in DOMAIN os /\ os[j].settled = v /\ Rated(os[j])
    BY <1>0, <2>1, GrowsRow
  <2>2. ASSUME NEW j \in DOMAIN os, os[j].settled = v, Rated(os[j])
        PROVE  j \in DOMAIN new /\ new[j].settled = v /\ Rated(new[j])
    BY <1>0, <2>2, GrowsKeeps
  <2>3. QED
    BY <2>1, <2>2
<1>3. QED
  BY <1>1, <1>2 DEF Events

\* A function on 1 to n is a sequence of length n.
LEMMA SeqOf ==
  ASSUME NEW S, NEW n \in Nat, NEW f, f = [i \in 1 .. n |-> f[i]], \A i \in 1 .. n : f[i] \in S
  PROVE  f \in Seq(S) /\ Len(f) = n
OBVIOUS

\* A multiple is 0 only for the factor 0.
LEMMA PositiveProduct == \A k \in Nat, D \in Nat \ {0} : k * D > 0 <=> k # 0
OBVIOUS

\* The parts of an event with its age.
LEMMA AgedEvent ==
  ASSUME NEW D, NEW m \in Nat
  PROVE  /\ \A d \in D, b \in {"late", "end"}, c \in 0 .. m :
              <<d, b, c>> \in D \X {"late", "end"} \X (0 .. m)
         /\ \A x \in D \X {"late", "end"} \X (0 .. m) : x = <<x[1], x[2], x[3]>> /\ x[3] \in 0 .. m
OBVIOUS

\* rebuild_counters counts the events of all ticks, each with its age.
LEMMA RebuiltIs ==
  ASSUME NEW os, NEW n, NEW x
  PROVE  x \in Rebuilt(os, n) <=>
           \E u \in 0 .. n - 1 : \E e \in Events(os, u) : x = <<e[1], e[2], n - 1 - u>>
BY DEF Rebuilt

\* A tick ages beta's counters and adds its own events.
LEMMA RebuiltNext ==
  ASSUME NEW os, NEW new, NEW n \in Nat, \A v \in 0 .. n - 1 : Events(new, v) = Events(os, v)
  PROVE  Rebuilt(new, n + 1) = {<<e[1], e[2], e[3] + 1>> : e \in Rebuilt(os, n)}
                               \cup {<<e[1], e[2], 0>> : e \in Events(new, n)}
<1>1. ASSUME NEW x \in Rebuilt(new, n + 1)
      PROVE  \/ \E e \in Rebuilt(os, n) : x = <<e[1], e[2], e[3] + 1>>
             \/ \E e \in Events(new, n) : x = <<e[1], e[2], 0>>
  <2>1. PICK u \in 0 .. n + 1 - 1 : \E e \in Events(new, u) : x = <<e[1], e[2], n + 1 - 1 - u>>
    BY RebuiltIs
  <2>2. PICK e \in Events(new, u) : x = <<e[1], e[2], n + 1 - 1 - u>>
    BY <2>1
  <2>3. CASE u = n
    BY <2>2, <2>3
  <2>4. CASE u # n
    <3>1. u \in 0 .. n - 1
      BY <2>4
    <3>2. e \in Events(os, u)
      BY <3>1
    <3>3. PICK y : y = <<e[1], e[2], n - 1 - u>>
      OBVIOUS
    <3>4. y \in Rebuilt(os, n)
      BY <3>1, <3>2, <3>3, RebuiltIs
    <3>5. y[1] = e[1] /\ y[2] = e[2] /\ y[3] + 1 = n + 1 - 1 - u
      BY <3>3
    <3>6. QED
      BY <2>2, <3>4, <3>5
  <2>5. QED
    BY <2>3, <2>4
<1>2. ASSUME NEW y \in Rebuilt(os, n) PROVE <<y[1], y[2], y[3] + 1>> \in Rebuilt(new, n + 1)
  <2>1. PICK u \in 0 .. n - 1 : \E e \in Events(os, u) : y = <<e[1], e[2], n - 1 - u>>
    BY RebuiltIs
  <2>2. PICK e \in Events(os, u) : y = <<e[1], e[2], n - 1 - u>>
    BY <2>1
  <2>3. y[1] = e[1] /\ y[2] = e[2] /\ y[3] + 1 = n + 1 - 1 - u
    BY <2>2
  <2>4. u \in 0 .. n + 1 - 1 /\ e \in Events(new, u)
    BY <2>2
  <2>5. QED
    BY <2>3, <2>4, RebuiltIs
<1>3. ASSUME NEW e \in Events(new, n) PROVE <<e[1], e[2], 0>> \in Rebuilt(new, n + 1)
  <2>1. n \in 0 .. n + 1 - 1 /\ n + 1 - 1 - n = 0
    OBVIOUS
  <2>2. QED
    BY <2>1, RebuiltIs
<1>4. ASSUME NEW x
      PROVE  x \in Rebuilt(new, n + 1) <=>
               \/ \E e \in Rebuilt(os, n) : x = <<e[1], e[2], e[3] + 1>>
               \/ \E e \in Events(new, n) : x = <<e[1], e[2], 0>>
  BY <1>1, <1>2, <1>3
<1>5. QED
  BY <1>4

\* An event is of an order, late or ended.
LEMMA EventsAre ==
  ASSUME NEW os, NEW u, NEW e \in Events(os, u)
  PROVE  /\ e[1] \in DOMAIN os /\ e[2] \in {"late", "end"} /\ e = <<e[1], e[2]>>
<1>1. CASE e \in {<<i, "late">> : i \in {j \in DOMAIN os : os[j].late = u}}
  BY <1>1
<1>2. CASE e \in {<<i, "end">> : i \in {j \in DOMAIN os : os[j].settled = u /\ Rated(os[j])}}
  BY <1>2
<1>3. QED
  BY <1>1, <1>2 DEF Events

\* Beta's counters, told by the age of the events.
LEMMA RebuiltByAge ==
  ASSUME NEW os, NEW D, D = DOMAIN os, NEW n \in Nat, NEW m \in Nat, n <= m + 1
  PROVE  Rebuilt(os, n) =
           {e \in D \X {"late", "end"} \X (0 .. m) :
              LET u == n - 1 - e[3] IN u \in Nat /\ <<e[1], e[2]>> \in Events(os, u)}
<1> DEFINE S == {e \in D \X {"late", "end"} \X (0 .. m) :
                   n - 1 - e[3] \in Nat /\ <<e[1], e[2]>> \in Events(os, n - 1 - e[3])}
<1>1. ASSUME NEW x \in Rebuilt(os, n) PROVE x \in S
  <2>1. PICK u \in 0 .. n - 1 : \E e \in Events(os, u) : x = <<e[1], e[2], n - 1 - u>>
    BY RebuiltIs
  <2>2. PICK e \in Events(os, u) : x = <<e[1], e[2], n - 1 - u>>
    BY <2>1
  <2>3. e[1] \in DOMAIN os /\ e[2] \in {"late", "end"} /\ e = <<e[1], e[2]>>
    BY EventsAre
  <2>4. n - 1 - u \in 0 .. m /\ n - 1 - (n - 1 - u) = u
    OBVIOUS
  <2>5. x[1] = e[1] /\ x[2] = e[2] /\ x[3] = n - 1 - u
    BY <2>2
  <2>6. x \in D \X {"late", "end"} \X (0 .. m)
    <3>1. PICK c \in 0 .. m : c = n - 1 - u
      BY <2>4
    <3>2. <<e[1], e[2], c>> \in D \X {"late", "end"} \X (0 .. m)
      BY <2>3, AgedEvent
    <3>3. QED
      BY <2>2, <3>1, <3>2
  <2>7. n - 1 - x[3] = u /\ <<x[1], x[2]>> = e
    BY <2>3, <2>4, <2>5
  <2>8. QED
    BY <2>6, <2>7
<1>2. ASSUME NEW x \in S PROVE x \in Rebuilt(os, n)
  <2>1. PICK u \in Nat : u = n - 1 - x[3]
    OBVIOUS
  <2>2. x = <<x[1], x[2], x[3]>> /\ x[3] \in 0 .. m
    <3>1. x \in D \X {"late", "end"} \X (0 .. m)
      OBVIOUS
    <3>2. QED
      BY <3>1, AgedEvent
  <2>3. u \in 0 .. n - 1 /\ x[3] = n - 1 - u
    BY <2>1, <2>2
  <2>4. PICK e : e = <<x[1], x[2]>>
    OBVIOUS
  <2>5. e \in Events(os, u) /\ e[1] = x[1] /\ e[2] = x[2]
    BY <2>1, <2>4
  <2>6. x = <<e[1], e[2], n - 1 - u>>
    BY <2>2, <2>3, <2>5
  <2>7. QED
    BY <2>3, <2>5, <2>6, RebuiltIs
<1>3. QED
  BY <1>1, <1>2

\* The rows are dated before the tick to be run next.
LEMMA OrdersDated ==
  ASSUME Typed, Dated
  PROVE  /\ DOMAIN orders = Numbers /\ Dates(orders) /\ t \in Nat /\ NextRun(t) \in Nat
         /\ \A i \in DOMAIN orders : /\ orders[i].settled \in Int /\ orders[i].settled < NextRun(t)
                                     /\ orders[i].late \in Int /\ orders[i].late < NextRun(t)
<1>1. t \in Nat /\ NextRun(t) \in Nat
  BY ShopRatingAssumption DEF Typed, NextRun
<1>2. DOMAIN orders = Numbers
  BY DEF Typed, Numbers
<1>3. ASSUME NEW i \in DOMAIN orders
      PROVE  /\ orders[i].settled \in Int /\ orders[i].settled < NextRun(t)
             /\ orders[i].settled >= Never
             /\ orders[i].late \in Int /\ orders[i].late < NextRun(t)
  <2>1. /\ orders[i].settled \in Never .. NextRun(t) - 1
        /\ orders[i].late \in Never .. NextRun(t) - 1
    BY <1>2 DEF Dated
  <2>2. QED
    BY <1>1, <2>1, DayTicksTyped
<1>4. QED
  BY <1>1, <1>2, <1>3 DEF Dates

\* What a tick does to one order.
Row(o, n) ==
  /\ n \in OrderRows /\ n.product = o.product
  /\ \/ n.settled = o.settled /\ n.outcome = o.outcome
     \/ o.settled = Never /\ n.settled = t
  /\ \/ n.late = o.late
     \/ o.late = Never /\ n.late = t

\* An order moves as a row may.
LEMMA MovesRow ==
  ASSUME t \in Nat, NEW o \in OrderRows, NEW n \in Moves(o)
  PROVE  Row(o, n)
<1>0. t \in Int
  OBVIOUS
<1>1. CASE n = o
  BY <1>1 DEF Row
<1>2. ASSUME o.settled = Never, NEW s \in Outcomes, n = [o EXCEPT !.settled = t, !.outcome = s]
      PROVE  Row(o, n)
  <2>1. s \in Endings
    BY DEF Endings
  <2>2. n \in OrderRows /\ n.product = o.product /\ n.settled = t /\ n.late = o.late
    BY <1>0, <1>2, <2>1 DEF OrderRows
  <2>3. QED
    BY <1>2, <2>2 DEF Row
<1>3. ASSUME o.late = Never, n = [o EXCEPT !.late = t] PROVE Row(o, n)
  <2>1. n \in OrderRows /\ n.product = o.product /\ n.settled = o.settled
        /\ n.outcome = o.outcome /\ n.late = t
    BY <1>0, <1>3 DEF OrderRows
  <2>2. QED
    BY <1>3, <2>1 DEF Row
<1>4. QED
  BY <1>1, <1>2, <1>3 DEF Moves

\* A new order is a row, dated now if at all.
LEMMA NewRow ==
  ASSUME t \in Nat, NEW p \in Products, NEW n \in Moves(New(p)) \cup {New(p)},
         n = New(p) \/ n.outcome \in {"stockout", "insufficient_balance"}
  PROVE  n \in OrderRows /\ {n.settled, n.late} \subseteq {Never, t}
<1>1. New(p) \in OrderRows /\ New(p).settled = Never /\ New(p).late = Never
  <2>1. "open" \in Endings /\ Never \in Int
    BY DayTicksTyped DEF Endings
  <2>2. QED
    BY <2>1 DEF New, OrderRows
<1>2. CASE n = New(p)
  BY <1>1, <1>2
<1>3. CASE n \in Moves(New(p))
  <2>1. Row(New(p), n)
    BY <1>1, <1>3, MovesRow
  <2>2. QED
    BY <1>1, <2>1 DEF Row
<1>4. QED
  BY <1>2, <1>3

\* A tick makes the table grow.
LEMMA TransitionGrows ==
  ASSUME Typed, Dated, Transition
  PROVE  orders' \in Seq(OrderRows) /\ Grows(orders, orders', t)
<1>0. t \in Nat
  BY OrdersDated
<1> DEFINE O == UNION {{New(p)} \cup
                  {m \in Moves(New(p)) : m.outcome \in {"stockout", "insufficient_balance"}} :
                  p \in Listed}
<1>1. PICK moved \in {os \in [Numbers -> UNION {Moves(orders[i]) : i \in Numbers}] :
                     \A i \in Numbers : os[i] \in Moves(orders[i])},
           new \in {<<>>} \cup {<<o>> : o \in O} : orders' = moved \o new
  BY DEF Transition
<1>2. ASSUME NEW o \in O PROVE o \in OrderRows /\ {o.settled, o.late} \subseteq {Never, t}
  <2>1. PICK p \in Listed :
          o \in {New(p)} \cup {m \in Moves(New(p)) : m.outcome \in {"stockout", "insufficient_balance"}}
    OBVIOUS
  <2>2. p \in Products
    BY DEF Listed
  <2>3. QED
    BY <1>0, <2>1, <2>2, NewRow
<1> HIDE DEF O
<1>3. \A i \in Numbers : Row(orders[i], moved[i])
  <2>1. ASSUME NEW i \in Numbers PROVE Row(orders[i], moved[i])
    <3>1. orders[i] \in OrderRows
      BY DEF Typed, Numbers
    <3>2. moved[i] \in Moves(orders[i])
      OBVIOUS
    <3>3. QED
      BY <1>0, <3>1, <3>2, MovesRow
  <2>2. QED
    BY <2>1
<1>4. Len(orders) \in Nat /\ DOMAIN orders = Numbers
  BY DEF Typed, Numbers
<1>5. DOMAIN moved = Numbers /\ \A i \in Numbers : moved[i] \in OrderRows
  BY <1>3 DEF Row
<1>6. moved \in Seq(OrderRows) /\ Len(moved) = Len(orders)
  BY <1>4, <1>5, SeqOf DEF Numbers
<1>7. new \in Seq(OrderRows) /\ \A i \in DOMAIN new : {new[i].settled, new[i].late} \subseteq {Never, t}
  <2>1. CASE new = <<>>
    BY <2>1
  <2>2. ASSUME NEW o \in O, new = <<o>> PROVE <1>7!1 /\ <1>7!2
    <3>1. o \in OrderRows /\ {o.settled, o.late} \subseteq {Never, t}
      BY <1>2
    <3>2. QED
      BY <2>2, <3>1
  <2>3. QED
    BY <1>1, <2>1, <2>2
<1>8. /\ orders' \in Seq(OrderRows) /\ DOMAIN orders' = 1 .. Len(moved) + Len(new)
      /\ \A i \in 1 .. Len(moved) : orders'[i] = moved[i]
      /\ \A i \in Len(moved) + 1 .. Len(moved) + Len(new) : orders'[i] = new[i - Len(moved)]
  <2>1. orders' \in Seq(OrderRows)
    BY <1>1, <1>6, <1>7
  <2>2. Len(orders') = Len(moved) + Len(new)
    BY <1>1, <1>6, <1>7
  <2>3. \A i \in 1 .. Len(moved) + Len(new) :
          orders'[i] = IF i <= Len(moved) THEN moved[i] ELSE new[i - Len(moved)]
    BY <1>1, <1>6, <1>7, ConcatProperties
  <2>4. Len(moved) \in Nat /\ Len(new) \in Nat
    BY <1>6, <1>7
  <2>5. QED
    BY <2>1, <2>2, <2>3, <2>4
<1>9. Len(new) \in Nat /\ DOMAIN new = 1 .. Len(new)
  BY <1>7
<1>10. DOMAIN orders \subseteq DOMAIN orders'
  BY <1>4, <1>6, <1>8, <1>9 DEF Numbers
<1>11. \A i \in DOMAIN orders : Row(orders[i], orders'[i])
  BY <1>3, <1>4, <1>6, <1>8 DEF Numbers
<1>12. ASSUME NEW i \in DOMAIN orders' \ DOMAIN orders
       PROVE  {orders'[i].settled, orders'[i].late} \subseteq {Never, t}
  <2>1. i - Len(moved) \in DOMAIN new /\ orders'[i] = new[i - Len(moved)]
    <3>1. PICK a \in Nat : a = Len(moved)
      BY <1>4, <1>6
    <3>2. PICK b \in Nat : b = Len(new)
      BY <1>9
    <3>3. i \in a + 1 .. a + b
      BY <1>4, <1>6, <1>8, <1>12, <3>1, <3>2 DEF Numbers
    <3>4. i - a \in 1 .. b
      BY <3>3
    <3>5. QED
      BY <1>8, <1>9, <3>1, <3>2, <3>3, <3>4
  <2>2. QED
    BY <1>7, <2>1
<1>13. QED
  BY <1>8, <1>10, <1>11, <1>12 DEF Grows, Row

-----------------------------------------------------------------------------
(* The steps keep the ratings right.                                       *)

\* The days of the clock.
LEMMA DayFacts ==
  ASSUME t \in Nat
  PROVE  /\ Days(t) \in Nat /\ Days(t + 1) \in Nat /\ AllDays \in Nat
         /\ (t + 1) % DayTicks = 0 => /\ Days(t + 1) = Days(t) + 1
                                      /\ t + 1 - DayTicks = Days(t) * DayTicks
                                      /\ t + 1 = (Days(t) + 1) * DayTicks
         /\ (t + 1) % DayTicks # 0 => Days(t + 1) = Days(t)
         /\ t % DayTicks = 0 => AllDays = Days(t) /\ t = Days(t) * DayTicks
         /\ t % DayTicks # 0 => /\ AllDays = Days(t) + 1 /\ Days(t) * DayTicks < t
                                /\ t < (Days(t) + 1) * DayTicks
         /\ LastCutoff(t) = Days(t) * DayTicks /\ LastCutoff(t + 1) = Days(t + 1) * DayTicks
         /\ Ceiling(t) = AllDays * DayTicks
<1>1. Days(t) \in Nat /\ Days(t + 1) \in Nat
  BY DaysTyped
<1>2. /\ (t + 1) % DayTicks = 0 => /\ Days(t + 1) = Days(t) + 1
                                   /\ t + 1 - DayTicks = Days(t) * DayTicks
                                   /\ t + 1 = (Days(t) + 1) * DayTicks
      /\ (t + 1) % DayTicks # 0 => Days(t + 1) = Days(t)
  BY DayTicksTyped, DayEnd DEF Days
<1>3. /\ t % DayTicks = 0 => AllDays = Days(t) /\ t = Days(t) * DayTicks
      /\ t % DayTicks # 0 => /\ AllDays = Days(t) + 1 /\ Days(t) * DayTicks < t
                             /\ t < (Days(t) + 1) * DayTicks
  BY DayTicksTyped, CeilDay DEF Days, AllDays
<1>4. AllDays \in Nat
  BY <1>1, <1>3
<1>5. LastCutoff(t) = Days(t) * DayTicks /\ LastCutoff(t + 1) = Days(t + 1) * DayTicks
      /\ Ceiling(t) = AllDays * DayTicks
  BY DEF LastCutoff, Ceiling, Days, AllDays
<1>6. QED
  BY <1>1, <1>2, <1>3, <1>4, <1>5

\* The days that have been rated, in each phase.
LEMMA RatedFacts ==
  ASSUME Typed, Dated
  PROVE  /\ RatedDays \in Nat
         /\ phase = "quiet" => RatedDays = Days(t) /\ NextRun(t) = t
         /\ phase \in {"hook", "closed"} => RatedDays = Days(t + 1) /\ NextRun(t) = t + 1
         /\ phase \in {"closing", "finished"} => RatedDays = AllDays /\ NextRun(t) = t
<1>1. t \in Nat
  BY OrdersDated
<1>2. QED
  BY <1>1, DayFacts DEF RatedDays, NextRun, Typed

\* _publish_daily_ratings through whole days gives their evidence.
LEMMA PublishRight ==
  ASSUME NEW os, Dates(os), NEW k \in Nat, Publish(os, k * DayTicks),
         model # Reviewed => reviews = {}
  PROVE  /\ shop' = Daily(os, k) /\ published' = k * DayTicks
         /\ reviews' = Left(os, k)
         /\ shelf' = [p \in Products |-> IF p \in Listed THEN Of(os, p, Daily(os, k)) ELSE Off]
<1>1. Evidence(os, k * DayTicks) = Daily(os, k)
  BY EvidenceDaily
<1>2. QED
  BY <1>1 DEF Publish, Left

\* Steps that leave the ratings and the days alone keep them right.
LEMMA RatingFrame ==
  ASSUME RatingInv, UNCHANGED <<model, orders, shop, reviews, published, aged>>,
         NextRun(t)' = NextRun(t), RatedDays' = RatedDays
  PROVE  /\ Dated' /\ aged' = Daily(orders', RatedDays')
         /\ BetaRight' /\ DailyRight'
<1>1. Dated'
  BY DEF RatingInv, Dated, Numbers
<1>2. aged' = Daily(orders', RatedDays')
  BY DEF RatingInv
<1>3. BetaRight'
  BY DEF RatingInv, BetaRight
<1>4. DailyRight'
  BY DEF RatingInv, DailyRight, Left
<1>5. QED
  BY <1>1, <1>2, <1>3, <1>4

\* Steps that leave the ratings and the series alone keep the series right.
LEMMA PointFrame ==
  ASSUME PointRight, UNCHANGED <<model, orders, shop, reviews, point>>, AllDays' = AllDays,
         point.final => phase' \in {"quiet", "closing", "finished"},
         ~point.final /\ model # Beta /\ phase' \in {"closing", "finished"} => t' % DayTicks = 0
  PROVE  PointRight'
<1>1. CASE point.final
  <2>1. DemandBasis(Daily(orders, AllDays), Left(orders, AllDays))'
          = DemandBasis(Daily(orders, AllDays), Left(orders, AllDays))
    BY DEF DemandBasis, Left
  <2>2. QED
    BY <1>1, <2>1 DEF PointRight
<1>2. CASE ~point.final
  <2>1. DemandBasis(shop, reviews)' = DemandBasis(shop, reviews)
    BY DEF DemandBasis
  <2>2. QED
    BY <1>2, <2>1 DEF PointRight
<1>3. QED
  BY <1>1, <1>2

\* The agent's changes of the shelf leave the ratings right.
LEMMA ShelfActionsRate ==
  ASSUME RatingInv, NEW p \in Products, ListProduct(p) \/ DelistProduct(p)
  PROVE  RatingInv'
<1>1. UNCHANGED <<t, phase, model, orders, shop, reviews, published, point, aged>> /\ phase = "hook"
  BY DEF ListProduct, DelistProduct
<1>2. NextRun(t)' = NextRun(t) /\ RatedDays' = RatedDays /\ AllDays' = AllDays
  BY <1>1 DEF NextRun, RatedDays, AllDays
<1>3. Typed'
  BY <1>1 DEF RatingInv, Typed
<1>4. PointRight'
  BY <1>1, <1>2, PointFrame DEF RatingInv, PointRight
<1>5. QED
  BY <1>1, <1>2, <1>3, <1>4, RatingFrame DEF RatingInv

\* The end of the hook leaves the ratings right.
LEMMA CloseHookRates ==
  ASSUME RatingInv, CloseHook
  PROVE  RatingInv'
<1>1. /\ UNCHANGED <<t, model, orders, shop, reviews, published, point, aged>>
      /\ phase = "hook" /\ phase' = "closed"
  BY DEF CloseHook
<1>2. NextRun(t)' = NextRun(t) /\ RatedDays' = RatedDays /\ AllDays' = AllDays
  BY <1>1 DEF NextRun, RatedDays, AllDays
<1>3. Typed'
  BY <1>1 DEF RatingInv, Typed
<1>4. PointRight'
  BY <1>1, <1>2, PointFrame DEF RatingInv, PointRight
<1>5. QED
  BY <1>1, <1>2, <1>3, <1>4, RatingFrame DEF RatingInv

\* The clock leaves the ratings right.
LEMMA ClockRates ==
  ASSUME RatingInv, Clock
  PROVE  RatingInv'
<1>1. /\ UNCHANGED <<model, orders, shop, reviews, published, point, aged>>
      /\ phase = "closed" /\ phase' = "quiet" /\ t' = t + 1 /\ t < LastTick
  BY DEF Clock
<1>2. NextRun(t)' = NextRun(t)
  BY <1>1 DEF NextRun
<1>3. RatedDays' = RatedDays
  BY <1>1, <1>2 DEF RatedDays, Days
<1>4. Typed'
  BY <1>1, ShopRatingAssumption DEF RatingInv, Typed
<1>5. PointRight'
  <2>1. ~point.final /\ point.basis = DemandBasis(shop, reviews)
    BY <1>1 DEF RatingInv, PointRight
  <2>2. DemandBasis(shop, reviews)' = DemandBasis(shop, reviews)
    BY <1>1 DEF DemandBasis
  <2>3. QED
    BY <1>1, <2>1, <2>2 DEF PointRight
<1>6. QED
  BY <1>1, <1>2, <1>3, <1>4, <1>5, RatingFrame DEF RatingInv

\* The mark of the finished run leaves the ratings right.
LEMMA MarkFinishedRates ==
  ASSUME RatingInv, MarkFinished
  PROVE  RatingInv'
<1>1. /\ UNCHANGED <<t, model, orders, shop, reviews, published, point, aged>>
      /\ phase = "closing" /\ phase' = "finished"
  BY DEF MarkFinished
<1>2. NextRun(t)' = NextRun(t) /\ RatedDays' = RatedDays /\ AllDays' = AllDays
  BY <1>1 DEF NextRun, RatedDays, AllDays
<1>3. Typed'
  BY <1>1 DEF RatingInv, Typed
<1>4. PointRight'
  BY <1>1, <1>2, PointFrame DEF RatingInv, PointRight
<1>5. QED
  BY <1>1, <1>2, <1>3, <1>4, RatingFrame DEF RatingInv

\* The evidence of an unbroken run at the end of a day, and of the last day.
LEMMA NextDayRight ==
  ASSUME NEW os, Dates(os), NEW k \in Nat, aged = Daily(os, k), NEW from, NEW to \in Int,
         from = k * DayTicks, to < (k + 1) * DayTicks,
         \A i \in DOMAIN os : os[i].settled <= to
  PROVE  NextDay(os, from, to) = Daily(os, k + 1)
<1>1. PICK a \in Nat, b \in Nat : a = k * DayTicks /\ b = (k + 1) * DayTicks
  BY WholeDays
<1>2. \A i \in DOMAIN os : os[i].settled \in from .. to <=> os[i].settled \in a .. b - 1
  BY <1>1 DEF Dates
<1>3. {j \in DOMAIN os : os[j].settled \in from .. to /\ Rated(os[j])} = OnDay(os, k)
  BY <1>1, <1>2 DEF OnDay
<1>4. QED
  BY <1>3, NextDaily DEF NextDay

\* A run that is being finished has the evidence of all days.
LEMMA TerminalDays ==
  ASSUME RatingInv, PublishTerminal
  PROVE  aged' = Daily(orders, AllDays)
<1>1. t \in Nat /\ Dates(orders) /\ phase = "quiet"
  BY OrdersDated DEF RatingInv, PublishTerminal
<1>2. aged = Daily(orders, Days(t)) /\ Days(t) \in Nat
  BY <1>1, RatedFacts, DayFacts DEF RatingInv
<1>3. CASE t % DayTicks = 0
  BY <1>1, <1>2, <1>3, DayFacts DEF PublishTerminal
<1>4. CASE t % DayTicks # 0
  <2>1. aged' = NextDay(orders, Days(t) * DayTicks, t - 1)
    BY <1>1, <1>4, DayFacts DEF PublishTerminal
  <2>2. AllDays = Days(t) + 1 /\ t - 1 < (Days(t) + 1) * DayTicks /\ t - 1 \in Int
    <3>1. PICK b \in Int : b = (Days(t) + 1) * DayTicks
      BY <1>2, DayTicksTyped
    <3>2. AllDays = Days(t) + 1 /\ t < b
      BY <1>1, <1>4, <3>1, DayFacts
    <3>3. QED
      BY <1>1, <3>1, <3>2
  <2>3. \A i \in DOMAIN orders : orders[i].settled <= t - 1
    BY <1>1, OrdersDated DEF RatingInv, NextRun
  <2>4. NextDay(orders, Days(t) * DayTicks, t - 1) = Daily(orders, Days(t) + 1)
    BY <1>1, <1>2, <2>2, <2>3, NextDayRight
  <2>5. QED
    BY <2>1, <2>2, <2>4
<1>5. QED
  BY <1>3, <1>4

\* What the ratings are once the run's last day has ended.
LEMMA TerminalRates ==
  ASSUME RatingInv, PublishTerminal
  PROVE  /\ model # Beta => /\ shop' = Daily(orders, AllDays) /\ reviews' = Left(orders, AllDays)
                            /\ published' = AllDays * DayTicks
         /\ model = Beta => UNCHANGED <<shop, reviews, published>>
         /\ \/ /\ model # Beta /\ Publish(orders, AllDays * DayTicks)
               /\ point' = [basis |-> DemandBasis(shop', reviews'), final |-> TRUE]
            \/ /\ UNCHANGED <<shop, reviews, published, shelf, point>>
               /\ model # Beta => t % DayTicks = 0
<1>1. t \in Nat /\ Dates(orders) /\ phase = "quiet"
  BY OrdersDated DEF RatingInv, PublishTerminal
<1>2. RatedDays = Days(t) /\ Days(t) \in Nat /\ AllDays \in Nat /\ Ceiling(t) = AllDays * DayTicks
  BY <1>1, RatedFacts, DayFacts DEF RatingInv
<1>3. CASE model # Beta /\ t > 0 /\ published < Ceiling(t)
  <2>1. /\ Publish(orders, AllDays * DayTicks)
        /\ point' = [basis |-> DemandBasis(shop', reviews'), final |-> TRUE]
    BY <1>2, <1>3 DEF PublishTerminal
  <2>2. model # Reviewed => reviews = {}
    BY <1>3 DEF RatingInv, DailyRight, Left
  <2>3. QED
    BY <1>1, <1>2, <1>3, <2>1, <2>2, PublishRight
<1>4. CASE ~(model # Beta /\ t > 0 /\ published < Ceiling(t))
  <2>1. UNCHANGED <<shop, reviews, published, shelf, point>>
    BY <1>4 DEF PublishTerminal
  <2>2. ASSUME model # Beta PROVE t % DayTicks = 0
    <3>1. published = Days(t) * DayTicks
      BY <1>2, <2>2 DEF RatingInv, DailyRight
    <3>2. CASE t = 0
      <4>1. PICK D \in Nat \ {0} : D = DayTicks
        BY DayTicksTyped
      <4>2. 0 % D = 0
        <5>1. 0 = 0 * D + 0 /\ 0 \in 0 .. D - 1 /\ 0 \in Int /\ 0 \in Nat
          OBVIOUS
        <5>2. QED
          BY <5>1, DivIs
      <4>3. QED
        BY <3>2, <4>1, <4>2
    <3>3. CASE t # 0
      <4>1. ~(published < Ceiling(t))
        BY <1>1, <1>4, <2>2, <3>3
      <4>2. PICK a \in Nat, b \in Nat : a = Days(t) * DayTicks /\ b = (Days(t) + 1) * DayTicks
        BY <1>2, WholeDays
      <4>3. ASSUME t % DayTicks # 0 PROVE FALSE
        <5>1. AllDays = Days(t) + 1 /\ a < t /\ t < b
          BY <1>1, <4>2, <4>3, DayFacts
        <5>2. Ceiling(t) = b
          BY <1>2, <4>2, <5>1
        <5>3. QED
          BY <1>1, <3>1, <4>1, <4>2, <5>1, <5>2
      <4>4. QED
        BY <4>3
    <3>4. QED
      BY <3>2, <3>3
  <2>3. ASSUME model # Beta
        PROVE  /\ shop' = Daily(orders, AllDays) /\ reviews' = Left(orders, AllDays)
               /\ published' = AllDays * DayTicks
    <3>1. AllDays = RatedDays
      BY <1>1, <1>2, <2>2, <2>3, DayFacts
    <3>2. QED
      BY <2>1, <2>3, <3>1 DEF RatingInv, DailyRight
  <2>4. QED
    BY <2>1, <2>2, <2>3
<1>5. QED
  BY <1>3, <1>4

\* publish_terminal_ratings leaves the ratings right.
LEMMA PublishTerminalRates ==
  ASSUME RatingInv, PublishTerminal
  PROVE  RatingInv'
<1>1. UNCHANGED <<t, model, orders>> /\ phase = "quiet" /\ phase' = "closing"
  BY DEF PublishTerminal
<1>2. NextRun(t)' = NextRun(t) /\ RatedDays' = AllDays /\ AllDays' = AllDays
  BY <1>1 DEF NextRun, RatedDays, AllDays
<1>3. Typed' /\ Dated'
  BY <1>1, <1>2 DEF RatingInv, Typed, Dated, Numbers
<1>4. aged' = Daily(orders', RatedDays')
  BY <1>1, <1>2, TerminalDays
<1>5. BetaRight'
  BY <1>1, <1>2, TerminalRates DEF RatingInv, BetaRight
<1>6. DailyRight'
  BY <1>1, <1>2, TerminalRates DEF DailyRight, Left
<1>7. PointRight'
  <2>1. CASE model # Beta /\ point' = [basis |-> DemandBasis(shop', reviews'), final |-> TRUE]
    <3>1. point'.basis = DemandBasis(Daily(orders, AllDays), Left(orders, AllDays))
      BY <2>1, TerminalRates
    <3>2. DemandBasis(Daily(orders, AllDays), Left(orders, AllDays))'
            = DemandBasis(Daily(orders, AllDays), Left(orders, AllDays))
      BY <1>1, <1>2 DEF DemandBasis, Left
    <3>3. QED
      BY <1>1, <2>1, <3>1, <3>2 DEF PointRight
  <2>2. CASE UNCHANGED <<shop, reviews, published, shelf, point>> /\ (model # Beta => t % DayTicks = 0)
    BY <1>1, <1>2, <2>2, PointFrame DEF RatingInv
  <2>3. QED
    BY <2>1, <2>2, TerminalRates
<1>8. QED
  BY <1>3, <1>4, <1>5, <1>6, <1>7 DEF RatingInv

\* What a tick does to the ratings.
LEMMA TransitionIs ==
  ASSUME Transition
  PROVE  /\ phase = "quiet" /\ ~point.final /\ UNCHANGED <<t, model>>
         /\ phase' = IF t % Period = 0 THEN "hook" ELSE "closed"
         /\ aged' = IF (t + 1) % DayTicks = 0 THEN NextDay(orders', t + 1 - DayTicks, t) ELSE aged
         /\ model = Beta => Update(orders')
         /\ model # Beta /\ DayEnds => Publish(orders', t + 1)
         /\ model # Beta /\ ~DayEnds => UNCHANGED <<shop, reviews, published, shelf>>
         /\ \/ point' = [basis |-> DemandBasis(shop', reviews'), final |-> FALSE]
            \/ model # Beta /\ ~DayEnds /\ UNCHANGED <<shop, reviews, point>>
<1> DEFINE M == {os \in [Numbers -> UNION {Moves(orders[i]) : i \in Numbers}] :
                     \A i \in Numbers : os[i] \in Moves(orders[i])}
           N == {<<>>} \cup {<<o>> : o \in UNION {{New(p)} \cup
                  {m \in Moves(New(p)) : m.outcome \in {"stockout", "insufficient_balance"}} :
                  p \in Listed}}
<1>1. PICK moved \in M, new \in N :
       /\ orders' = moved \o new
       /\ aged' = IF (t + 1) % DayTicks = 0
                  THEN NextDay(moved \o new, t + 1 - DayTicks, t) ELSE aged
       /\ CASE model = Beta -> Update(moved \o new)
            [] model # Beta /\ DayEnds -> Publish(moved \o new, t + 1)
            [] OTHER -> UNCHANGED <<shop, reviews, published, shelf>>
       /\ point' = IF Written(DayEnds)
                   THEN [basis |-> DemandBasis(shop', reviews'), final |-> FALSE] ELSE point
  BY DEF Transition
<1>2. /\ phase = "quiet" /\ ~point.final /\ UNCHANGED <<t, model>>
      /\ phase' = IF t % Period = 0 THEN "hook" ELSE "closed"
  BY DEF Transition
<1> HIDE DEF M, N
<1>3. /\ aged' = IF (t + 1) % DayTicks = 0 THEN NextDay(orders', t + 1 - DayTicks, t) ELSE aged
      /\ CASE model = Beta -> Update(orders')
           [] model # Beta /\ DayEnds -> Publish(orders', t + 1)
           [] OTHER -> UNCHANGED <<shop, reviews, published, shelf>>
  BY <1>1
<1>4. /\ model = Beta => Update(orders')
      /\ model # Beta /\ DayEnds => Publish(orders', t + 1)
      /\ model # Beta /\ ~DayEnds => UNCHANGED <<shop, reviews, published, shelf>>
  BY <1>3
<1>5. \/ point' = [basis |-> DemandBasis(shop', reviews'), final |-> FALSE]
      \/ model # Beta /\ ~DayEnds /\ UNCHANGED <<shop, reviews, point>>
  BY <1>1, <1>4 DEF Written
<1>6. QED
  BY <1>2, <1>3, <1>4, <1>5

\* The table after a tick, and the day it belongs to.
LEMMA TransitionDates ==
  ASSUME RatingInv, Transition
  PROVE  /\ Typed' /\ Dated' /\ Dates(orders') /\ Grows(orders, orders', t)
         /\ DOMAIN orders' = Numbers'
         /\ \A i \in DOMAIN orders' : orders'[i].settled <= t
         /\ phase' \in {"hook", "closed"} /\ NextRun(t)' = t + 1 /\ RatedDays' = Days(t + 1)
         /\ NextRun(t) = t /\ RatedDays = Days(t) /\ Days(t) \in Nat /\ t \in Nat
         /\ Days(t) * DayTicks <= t
<1>1. /\ t \in Nat /\ Dates(orders) /\ DOMAIN orders = Numbers
      /\ \A i \in DOMAIN orders : /\ orders[i].settled \in Int /\ orders[i].settled < NextRun(t)
                                  /\ orders[i].late \in Int /\ orders[i].late < NextRun(t)
  BY OrdersDated DEF RatingInv
<1>2. /\ phase = "quiet" /\ UNCHANGED <<t, model>>
      /\ phase' = IF t % Period = 0 THEN "hook" ELSE "closed"
  BY TransitionIs
<1>3. NextRun(t) = t /\ RatedDays = Days(t) /\ Days(t) \in Nat /\ Days(t) * DayTicks <= t
  BY <1>1, <1>2, RatedFacts, TickOfDay DEF RatingInv
<1>4. orders' \in Seq(OrderRows) /\ Grows(orders, orders', t)
  BY TransitionGrows DEF RatingInv
<1>5. Dates(orders') /\ DOMAIN orders' = Numbers'
  BY <1>1, <1>4, GrowsDates DEF Numbers
<1>6. ASSUME NEW i \in DOMAIN orders'
      PROVE  orders'[i].settled \in Never .. t /\ orders'[i].late \in Never .. t
  <2>1. CASE i \in DOMAIN orders
    <3>1. orders[i].settled \in Never .. t /\ orders[i].late \in Never .. t
      <4>1. i \in Numbers
        BY <1>1, <2>1
      <4>2. orders[i].settled \in Never .. NextRun(t) - 1 /\ orders[i].late \in Never .. NextRun(t) - 1
        BY <4>1 DEF RatingInv, Dated
      <4>3. QED
        BY <1>1, <1>3, <4>2, DayTicksTyped
    <3>2. t \in Never .. t
      BY <1>1, DayTicksTyped
    <3>3. QED
      BY <1>4, <2>1, <3>1, <3>2 DEF Grows
  <2>2. CASE i \notin DOMAIN orders
    <3>1. {orders'[i].settled, orders'[i].late} \subseteq {Never, t}
      BY <1>4, <2>2 DEF Grows
    <3>2. QED
      BY <1>1, <3>1, DayTicksTyped
  <2>3. QED
    BY <2>1, <2>2
<1>7. /\ phase' \in {"hook", "closed"} /\ NextRun(t)' = t + 1 /\ RatedDays' = Days(t + 1)
  <2>1. phase' \in {"hook", "closed"}
    BY <1>2
  <2>2. NextRun(t)' = t + 1
    BY <1>2, <2>1 DEF NextRun
  <2>3. QED
    BY <2>1, <2>2 DEF RatedDays, Days
<1>8. Typed'
  BY <1>2, <1>4 DEF RatingInv, Typed
<1>9. Dated'
  <2>1. NextRun(t)' - 1 = t
    BY <1>1, <1>7
  <2>2. QED
    BY <1>5, <1>6, <2>1 DEF Dated
<1>10. \A i \in DOMAIN orders' : orders'[i].settled <= t
  BY <1>1, <1>6, DayTicksTyped
<1>11. QED
  BY <1>1, <1>3, <1>4, <1>5, <1>7, <1>8, <1>9, <1>10

\* The days after a tick.
LEMMA TransitionDays ==
  ASSUME RatingInv, Transition
  PROVE  /\ aged' = Daily(orders', RatedDays')
         /\ DayEnds => RatedDays' = Days(t) + 1 /\ t + 1 = (Days(t) + 1) * DayTicks
         /\ ~DayEnds => /\ RatedDays' = RatedDays /\ Daily(orders', RatedDays) = Daily(orders, RatedDays)
                        /\ PublicReviews(orders', RatedDays * DayTicks)
                             = PublicReviews(orders, RatedDays * DayTicks)
<1>1. /\ t \in Nat /\ Days(t) \in Nat /\ RatedDays = Days(t) /\ RatedDays' = Days(t + 1)
      /\ Dates(orders) /\ Dates(orders') /\ Grows(orders, orders', t)
      /\ Days(t) * DayTicks <= t
      /\ \A i \in DOMAIN orders' : orders'[i].settled <= t
  BY TransitionDates, OrdersDated DEF RatingInv
<1>2. /\ Daily(orders', Days(t)) = Daily(orders, Days(t))
      /\ PublicReviews(orders', Days(t) * DayTicks) = PublicReviews(orders, Days(t) * DayTicks)
  BY <1>1, GrowsDaily
<1>3. aged = Daily(orders', Days(t))
  BY <1>1, <1>2 DEF RatingInv
<1>4. CASE DayEnds
  <2>1. /\ Days(t + 1) = Days(t) + 1 /\ t + 1 - DayTicks = Days(t) * DayTicks
        /\ t + 1 = (Days(t) + 1) * DayTicks /\ (t + 1) % DayTicks = 0
    BY <1>1, <1>4, DayFacts DEF DayEnds
  <2>2. aged' = NextDay(orders', t + 1 - DayTicks, t)
    BY <2>1, TransitionIs
  <2>3. t < (Days(t) + 1) * DayTicks
    BY <1>1, <2>1
  <2>4. NextDay(orders', t + 1 - DayTicks, t) = Daily(orders', Days(t) + 1)
    BY <1>1, <1>3, <2>1, <2>3, NextDayRight
  <2>5. QED
    BY <1>1, <1>4, <2>1, <2>2, <2>4
<1>5. CASE ~DayEnds
  <2>1. Days(t + 1) = Days(t) /\ aged' = aged
    BY <1>1, <1>5, DayFacts, TransitionIs DEF DayEnds
  <2>2. QED
    BY <1>1, <1>2, <1>3, <1>5, <2>1
<1>6. QED
  BY <1>4, <1>5

\* A tick decays beta's events once and adds its own.
LEMMA TransitionBeta ==
  ASSUME RatingInv, Transition, model = Beta
  PROVE  shop' = Rebuilt(orders', t + 1) /\ reviews' = {} /\ published' = 0
<1>1. t \in Nat /\ Dates(orders) /\ Grows(orders, orders', t) /\ NextRun(t) = t
  BY TransitionDates, OrdersDated DEF RatingInv
<1>2. shop = Rebuilt(orders, t) /\ reviews = {} /\ published = 0
  BY <1>1 DEF RatingInv, BetaRight
<1>3. \A v \in 0 .. t - 1 : Events(orders', v) = Events(orders, v)
  BY <1>1, GrowsEvents
<1>4. Rebuilt(orders', t + 1) = {<<e[1], e[2], e[3] + 1>> : e \in Rebuilt(orders, t)}
                                \cup {<<e[1], e[2], 0>> : e \in Events(orders', t)}
  BY <1>1, <1>3, RebuiltNext
<1>5. Update(orders')
  BY TransitionIs
<1>6. QED
  BY <1>2, <1>4, <1>5 DEF Update

\* A tick leaves the ratings right.
LEMMA TransitionRates ==
  ASSUME RatingInv, Transition
  PROVE  RatingInv'
<1>1. /\ phase = "quiet" /\ UNCHANGED <<t, model>> /\ phase' \in {"hook", "closed"}
      /\ t \in Nat /\ Dates(orders') /\ Typed' /\ Dated'
  BY TransitionIs, TransitionDates
<1>2. aged' = Daily(orders', RatedDays') /\ RatedDays = Days(t) /\ Days(t) \in Nat
  BY TransitionDays, TransitionDates
<1>3. BetaRight'
  BY <1>1, TransitionBeta, TransitionDates DEF BetaRight
<1>4. ASSUME model # Beta
      PROVE  /\ shop' = Daily(orders', RatedDays') /\ published' = RatedDays' * DayTicks
             /\ reviews' = Left(orders', RatedDays')
  <2>1. shop = Daily(orders, RatedDays) /\ reviews = Left(orders, RatedDays)
        /\ published = RatedDays * DayTicks
    BY <1>4 DEF RatingInv, DailyRight
  <2>2. CASE DayEnds
    <3>1. Publish(orders', (Days(t) + 1) * DayTicks) /\ RatedDays' = Days(t) + 1
      BY <1>4, <2>2, TransitionIs, TransitionDays
    <3>2. model # Reviewed => reviews = {}
      BY <2>1 DEF Left
    <3>3. Days(t) + 1 \in Nat
      BY <1>2
    <3>4. QED
      BY <1>1, <3>1, <3>2, <3>3, PublishRight
  <2>3. CASE ~DayEnds
    <3>1. UNCHANGED <<shop, reviews, published>>
      BY <1>4, <2>3, TransitionIs
    <3>2. QED
      BY <2>1, <2>3, <3>1, TransitionDays DEF Left
  <2>4. QED
    BY <2>2, <2>3
<1>5. DailyRight'
  BY <1>1, <1>4 DEF DailyRight, Left
<1>6. PointRight'
  <2>1. DemandBasis(shop, reviews)' = DemandBasis(shop', reviews')
    BY <1>1 DEF DemandBasis
  <2>2. ~point'.final /\ point'.basis = DemandBasis(shop', reviews')
    <3>1. CASE point' = [basis |-> DemandBasis(shop', reviews'), final |-> FALSE]
      BY <3>1
    <3>2. CASE UNCHANGED <<shop, reviews, point>>
      <4>1. ~point.final /\ point.basis = DemandBasis(shop, reviews)
        BY TransitionIs DEF RatingInv, PointRight
      <4>2. DemandBasis(shop', reviews') = DemandBasis(shop, reviews)
        BY <3>2
      <4>3. QED
        BY <3>2, <4>1, <4>2
    <3>3. QED
      BY <3>1, <3>2, TransitionIs
  <2>3. QED
    BY <1>1, <2>1, <2>2 DEF PointRight
<1>7. QED
  BY <1>1, <1>2, <1>3, <1>5, <1>6 DEF RatingInv

\* What a restart restores: the days of a run that is finished, or those that
\* ended before the tick to be run next.
RestoredDays == IF phase = "finished" THEN AllDays ELSE Days(NextRun(t))

\* restore_rating_state gives what the days restored for have.
LEMMA RestoreIs ==
  ASSUME RatingInv, Restart
  PROVE  /\ RestoredDays \in Nat
         /\ model = Beta => UNCHANGED <<shop, reviews, published, shelf>>
         /\ model # Beta => /\ shop' = Daily(orders, RestoredDays) /\ reviews' = Left(orders, RestoredDays)
                            /\ published' = RestoredDays * DayTicks
                            /\ IF RestoredDays = 0 THEN shelf' = shelf
                               ELSE shelf' = [p \in Products |->
                                     IF p \in Listed THEN Of(orders, p, Daily(orders, RestoredDays)) ELSE Off]
<1>1. t \in Nat /\ Dates(orders) /\ NextRun(t) \in Nat
  BY OrdersDated DEF RatingInv
<1>2. RestoredDays \in Nat
  BY <1>1, DaysTyped, DayFacts DEF RestoredDays
<1>3. Restored = NextRun(t)
  BY DEF Restored, NextRun
<1>4. (IF phase = "finished" THEN Ceiling(Restored) ELSE LastCutoff(Restored)) = RestoredDays * DayTicks
  <2>1. CASE phase = "finished"
    BY <1>1, <1>3, <2>1, DayFacts DEF RestoredDays, NextRun
  <2>2. CASE phase # "finished"
    BY <1>3, <2>2 DEF RestoredDays, LastCutoff, Days
  <2>3. QED
    BY <2>1, <2>2
<1>5. CASE model = Beta
  <2>1. shop' = Rebuilt(orders, NextRun(t)) /\ UNCHANGED <<reviews, published, shelf>>
    BY <1>3, <1>5 DEF Restart
  <2>2. shop = Rebuilt(orders, NextRun(t))
    BY <1>5 DEF RatingInv, BetaRight
  <2>3. QED
    BY <1>2, <1>5, <2>1, <2>2
<1>6. CASE model # Beta
  <2>1. IF RestoredDays * DayTicks > 0
        THEN Publish(orders, RestoredDays * DayTicks)
        ELSE shop' = {} /\ reviews' = {} /\ published' = 0 /\ UNCHANGED shelf
    BY <1>4, <1>6 DEF Restart
  <2>2. PICK a \in Nat : a = RestoredDays * DayTicks
    BY <1>2, WholeDays
  <2>3. a > 0 <=> RestoredDays # 0
    BY <1>2, <2>2, DayTicksTyped, PositiveProduct
  <2>4. CASE RestoredDays = 0
    <3>1. shop' = {} /\ reviews' = {} /\ published' = 0 /\ shelf' = shelf
      BY <2>1, <2>2, <2>3, <2>4
    <3>2. Daily(orders, 0) = {}
      <4>1. ASSUME NEW i \in Ended(orders, 0) PROVE FALSE
        BY <1>1, EndedTyped
      <4>2. QED
        BY <4>1 DEF Daily
    <3>3. 0 * DayTicks = 0
      BY DayTicksTyped
    <3>4. Before(orders, 0) = {}
      BY <1>1, DayTicksTyped DEF Before, Dates
    <3>5. Left(orders, 0) = {}
      BY <3>3, <3>4 DEF Left, PublicReviews
    <3>6. QED
      BY <1>2, <1>6, <2>4, <3>1, <3>2, <3>3, <3>5
  <2>5. CASE RestoredDays # 0
    <3>1. Publish(orders, RestoredDays * DayTicks)
      BY <2>1, <2>2, <2>3, <2>5
    <3>2. model # Reviewed => reviews = {}
      BY <1>6 DEF RatingInv, DailyRight, Left
    <3>3. QED
      BY <1>1, <1>2, <1>6, <2>5, <3>1, <3>2, PublishRight
  <2>6. QED
    BY <2>4, <2>5
<1>7. QED
  BY <1>5, <1>6

\* A restart leaves the ratings right.
LEMMA RestartRates ==
  ASSUME RatingInv, Restart
  PROVE  RatingInv'
<1>1. /\ UNCHANGED <<t, model, orders, point>>
      /\ phase' = IF phase = "closing" THEN "quiet" ELSE phase
      /\ t \in Nat /\ Dates(orders)
  BY OrdersDated DEF RatingInv, Restart
<1>2. /\ NextRun(t)' = NextRun(t) /\ AllDays' = AllDays
      /\ phase # "closing" => RatedDays' = RatedDays /\ RatedDays = RestoredDays
      /\ phase = "closing" => RatedDays' = Days(t) /\ RatedDays = AllDays
      /\ RatedDays' = RestoredDays
  <2>1. NextRun(t)' = NextRun(t) /\ AllDays' = AllDays
    BY <1>1 DEF NextRun, AllDays, RatingInv, Typed
  <2>2. CASE phase = "closing"
    BY <1>1, <2>1, <2>2 DEF RatedDays, RestoredDays, NextRun, Days
  <2>3. CASE phase # "closing"
    BY <1>1, <2>1, <2>3 DEF RatedDays, RestoredDays, Days
  <2>4. QED
    BY <2>1, <2>2, <2>3
<1>3. Typed'
  BY <1>1 DEF RatingInv, Typed
<1>4. Dated'
  BY <1>1, <1>2 DEF RatingInv, Dated, Numbers
<1>5. aged' = Daily(orders', RatedDays')
  <2>1. CASE phase = "closing" /\ t % DayTicks # 0
    <3>1. AllDays = Days(t) + 1 /\ Days(t) \in Nat
      BY <1>1, <2>1, DayFacts
    <3>2. aged = Daily(orders, Days(t) + 1)
      BY <1>2, <2>1, <3>1 DEF RatingInv
    <3>3. aged' = {<<e[1], e[2] - 1>> : e \in {f \in aged : f[2] > 0}}
      BY <2>1 DEF Restart
    <3>4. aged' = Daily(orders, Days(t))
      BY <1>1, <3>1, <3>2, <3>3, BackDaily
    <3>5. QED
      BY <1>1, <1>2, <2>1, <3>4
  <2>2. CASE ~(phase = "closing" /\ t % DayTicks # 0)
    <3>1. RatedDays' = RatedDays
      BY <1>1, <1>2, <2>2, DayFacts
    <3>2. aged' = aged
      BY <2>2 DEF Restart
    <3>3. QED
      BY <1>1, <3>1, <3>2 DEF RatingInv
  <2>3. QED
    BY <2>1, <2>2
<1>6. BetaRight'
  BY <1>1, <1>2, RestoreIs DEF RatingInv, BetaRight
<1>7. DailyRight'
  BY <1>1, <1>2, RestoreIs DEF DailyRight, Left
<1>8. PointRight'
  <2>1. CASE point.final
    <3>1. DemandBasis(Daily(orders, AllDays), Left(orders, AllDays))'
            = DemandBasis(Daily(orders, AllDays), Left(orders, AllDays))
      BY <1>1, <1>2 DEF DemandBasis, Left
    <3>2. QED
      BY <1>1, <2>1, <3>1 DEF RatingInv, PointRight
  <2>2. CASE ~point.final
    <3>1. UNCHANGED <<shop, reviews>>
      <4>1. CASE model = Beta
        BY <4>1, RestoreIs
      <4>2. CASE model # Beta
        <5>1. RatedDays = RestoredDays
          <6>1. CASE phase = "closing"
            <7>1. t % DayTicks = 0
              BY <2>2, <4>2, <6>1 DEF RatingInv, PointRight
            <7>2. QED
              BY <1>1, <1>2, <6>1, <7>1, DayFacts
          <6>2. QED
            BY <1>2, <6>1
        <5>2. QED
          BY <4>2, <5>1, RestoreIs DEF RatingInv, DailyRight
      <4>3. QED
        BY <4>1, <4>2
    <3>2. QED
      BY <1>1, <1>2, <2>2, <3>1, PointFrame DEF RatingInv, PointRight
  <2>3. QED
    BY <2>1, <2>2
<1>9. QED
  BY <1>3, <1>4, <1>5, <1>6, <1>7, <1>8 DEF RatingInv

-----------------------------------------------------------------------------
(* The steps keep the listings right.                                      *)

\* No hook is open in the last tick of a day.  It is so with the day and the
\* activation period of the default configuration, 24 and 12, and whenever the
\* period divides the day and is not 1.
HooksMissDayEnds == \A u \in Nat : u % Period = 0 => (u + 1) % DayTicks # 0

\* A tick leaves the listings right.
LEMMA TransitionShelf ==
  ASSUME RatingInv, ShelfInv, Transition
  PROVE  ShelfInv'
<1>1. /\ UNCHANGED <<t, model>> /\ ~point.final /\ t \in Nat /\ Dates(orders) /\ Dates(orders')
      /\ Grows(orders, orders', t) /\ RatedDays = Days(t) /\ Days(t) \in Nat
      /\ Days(t) * DayTicks <= t /\ NextRun(t) = t
  BY TransitionIs, TransitionDates, OrdersDated DEF RatingInv
<1>2. CASE model = Beta
  <2>1. shelf' = [p \in Products |-> IF p \in Listed THEN shelf[p] \cup NewOf(orders', p, t) ELSE Off]
    BY <1>2, TransitionIs DEF Update, NewOf
  <2>2. \A i \in DOMAIN orders : orders[i].settled # t
    <3>1. \A i \in DOMAIN orders : orders[i].settled \in Int /\ orders[i].settled < t
      BY <1>1, OrdersDated DEF RatingInv
    <3>2. QED
      BY <1>1, <3>1
  <2>3. ASSUME NEW p \in Listed' PROVE ShelfRight(p)'
    <3>1. p \in Products /\ p \in Listed
      BY <2>1 DEF Listed
    <3>2. shelf'[p] = Counted(orders, p) \cup NewOf(orders', p, t)
      BY <1>2, <2>1, <3>1 DEF ShelfInv, ShelfRight
    <3>3. Counted(orders', p) = Counted(orders, p) \cup NewOf(orders', p, t)
      BY <1>1, <2>2, GrowsCounted
    <3>4. QED
      BY <1>1, <1>2, <3>2, <3>3 DEF ShelfRight
  <2>4. QED
    BY <2>1, <2>3 DEF ShelfInv
<1>3. CASE model # Beta /\ DayEnds
  <2>1. Publish(orders', (Days(t) + 1) * DayTicks) /\ RatedDays' = Days(t) + 1
    BY <1>3, TransitionIs, TransitionDays
  <2>2. model # Reviewed => reviews = {}
    BY <1>3 DEF RatingInv, DailyRight, Left
  <2>3. Days(t) + 1 \in Nat
    BY <1>1
  <2>4. shelf' = [p \in Products |-> IF p \in Listed THEN Of(orders', p, Daily(orders', Days(t) + 1)) ELSE Off]
    BY <1>1, <2>1, <2>2, <2>3, PublishRight
  <2>5. ASSUME NEW p \in Listed' PROVE ShelfRight(p)'
    <3>1. p \in Products /\ p \in Listed
      BY <2>4 DEF Listed
    <3>2. shelf'[p] = Of(orders', p, Daily(orders', RatedDays'))
      BY <2>1, <2>4, <3>1
    <3>3. QED
      BY <1>1, <1>3, <3>2 DEF ShelfRight
  <2>6. QED
    BY <2>4, <2>5 DEF ShelfInv
<1>4. CASE model # Beta /\ ~DayEnds
  <2>1. shelf' = shelf /\ RatedDays' = RatedDays
    BY <1>4, TransitionIs, TransitionDays
  <2>2. ASSUME NEW p \in Listed' PROVE ShelfRight(p)'
    <3>1. p \in Listed
      BY <2>1 DEF Listed
    <3>2. shelf[p] = Of(orders, p, Daily(orders, RatedDays))
      BY <1>1, <1>4, <3>1 DEF ShelfInv, ShelfRight
    <3>3. Of(orders', p, Daily(orders', RatedDays)) = Of(orders, p, Daily(orders, RatedDays))
      BY <1>1, GrowsDaily
    <3>4. QED
      BY <1>1, <1>4, <2>1, <3>2, <3>3 DEF ShelfRight
  <2>3. QED
    BY <2>1, <2>2 DEF ShelfInv
<1>5. QED
  BY <1>2, <1>3, <1>4

\* A product put on the shelf has all its evidence.
LEMMA ListProductShelf ==
  ASSUME RatingInv, ShelfInv, HooksMissDayEnds, NEW q \in Products, ListProduct(q)
  PROVE  ShelfInv'
<1>1. /\ UNCHANGED <<t, phase, model, orders, point>> /\ phase = "hook"
      /\ shelf' = [shelf EXCEPT ![q] =
           IF model = Beta THEN Counted(orders, q)
           ELSE Of(orders, q, Evidence(orders, LastCutoff(t)))]
  BY DEF ListProduct
<1>2. RatedDays' = RatedDays /\ AllDays' = AllDays
  BY <1>1 DEF RatedDays, AllDays, Days, NextRun
<1>3. t \in Nat /\ Dates(orders)
  BY OrdersDated DEF RatingInv
<1>4. Evidence(orders, LastCutoff(t)) = Daily(orders, RatedDays)
  <2>1. t % Period = 0
    BY <1>1 DEF RatingInv, Typed
  <2>2. RatedDays = Days(t) /\ Days(t) \in Nat /\ LastCutoff(t) = Days(t) * DayTicks
    BY <1>1, <1>3, <2>1, RatedFacts, DayFacts DEF RatingInv, HooksMissDayEnds
  <2>3. QED
    BY <1>3, <2>2, EvidenceDaily
<1>5. ASSUME NEW p \in Listed' PROVE ShelfRight(p)'
  <2>1. CASE p = q
    <3>1. shelf'[p] = IF model = Beta THEN Counted(orders, q) ELSE Of(orders, q, Daily(orders, RatedDays))
      BY <1>1, <1>4, <2>1 DEF ShelfInv
    <3>2. QED
      BY <1>1, <1>2, <2>1, <3>1 DEF ShelfRight
  <2>2. CASE p # q
    <3>1. p \in Listed /\ shelf'[p] = shelf[p]
      BY <1>1, <2>2 DEF ShelfInv, Listed
    <3>2. QED
      BY <1>1, <1>2, <3>1 DEF ShelfInv, ShelfRight
  <2>3. QED
    BY <2>1, <2>2
<1>6. shelf' = [p \in Products |-> shelf'[p]]
  BY <1>1 DEF ShelfInv
<1>7. QED
  BY <1>5, <1>6 DEF ShelfInv

\* A product taken off the shelf leaves the others right.
LEMMA DelistProductShelf ==
  ASSUME RatingInv, ShelfInv, NEW q \in Products, DelistProduct(q)
  PROVE  ShelfInv'
<1>1. /\ UNCHANGED <<t, phase, model, orders, point>>
      /\ shelf' = [shelf EXCEPT ![q] = Off]
  BY DEF DelistProduct
<1>2. RatedDays' = RatedDays /\ AllDays' = AllDays
  BY <1>1 DEF RatedDays, AllDays, Days, NextRun
<1>3. ASSUME NEW p \in Listed' PROVE ShelfRight(p)'
  <2>1. p \in Listed /\ shelf'[p] = shelf[p]
    BY <1>1 DEF ShelfInv, Listed
  <2>2. QED
    BY <1>1, <1>2, <2>1 DEF ShelfInv, ShelfRight
<1>4. shelf' = [p \in Products |-> shelf'[p]]
  BY <1>1 DEF ShelfInv
<1>5. QED
  BY <1>3, <1>4 DEF ShelfInv

\* publish_terminal_ratings leaves the listings right.
LEMMA PublishTerminalShelf ==
  ASSUME RatingInv, ShelfInv, PublishTerminal
  PROVE  ShelfInv'
<1>1. UNCHANGED <<t, model, orders>> /\ phase = "quiet" /\ phase' = "closing"
  BY DEF PublishTerminal
<1>2. RatedDays' = AllDays /\ AllDays' = AllDays /\ RatedDays = Days(t)
      /\ t \in Nat /\ Dates(orders) /\ AllDays \in Nat
  BY <1>1, RatedFacts, DayFacts, OrdersDated DEF RatedDays, AllDays, RatingInv
<1>3. CASE model # Beta /\ Publish(orders, AllDays * DayTicks)
  <2>1. model # Reviewed => reviews = {}
    BY <1>3 DEF RatingInv, DailyRight, Left
  <2>2. shelf' = [p \in Products |-> IF p \in Listed THEN Of(orders, p, Daily(orders, AllDays)) ELSE Off]
    BY <1>2, <1>3, <2>1, PublishRight
  <2>3. ASSUME NEW p \in Listed' PROVE ShelfRight(p)'
    <3>1. p \in Products /\ p \in Listed
      BY <2>2 DEF Listed
    <3>2. QED
      BY <1>1, <1>2, <1>3, <2>2, <3>1 DEF ShelfRight
  <2>4. QED
    BY <2>2, <2>3 DEF ShelfInv
<1>4. CASE UNCHANGED shelf /\ (model # Beta => t % DayTicks = 0)
  <2>1. model # Beta => AllDays = RatedDays
    BY <1>2, <1>4, DayFacts
  <2>2. ASSUME NEW p \in Listed' PROVE ShelfRight(p)'
    <3>1. p \in Listed /\ shelf'[p] = shelf[p]
      BY <1>4 DEF Listed
    <3>2. QED
      BY <1>1, <1>2, <2>1, <3>1 DEF ShelfInv, ShelfRight
  <2>3. QED
    BY <1>4, <2>2 DEF ShelfInv
<1>5. QED
  BY <1>3, <1>4, TerminalRates

\* A restart leaves the listings right.
LEMMA RestartShelf ==
  ASSUME RatingInv, ShelfInv, Restart
  PROVE  ShelfInv'
<1>1. /\ UNCHANGED <<t, model, orders, point>>
      /\ phase' = IF phase = "closing" THEN "quiet" ELSE phase
      /\ t \in Nat
  BY OrdersDated DEF RatingInv, Restart
<1>2. AllDays' = AllDays
  BY <1>1 DEF AllDays
<1>3. /\ phase # "closing" => RatedDays' = RatedDays /\ RatedDays = RestoredDays
      /\ phase = "closing" => RatedDays' = Days(t) /\ RatedDays = AllDays
      /\ RatedDays' = RestoredDays
  <2>1. NextRun(t)' = NextRun(t)
    BY <1>1 DEF NextRun, RatingInv, Typed
  <2>2. CASE phase = "closing"
    BY <1>1, <2>1, <2>2 DEF RatedDays, RestoredDays, NextRun, Days
  <2>3. CASE phase # "closing"
    BY <1>1, <1>2, <2>1, <2>3 DEF RatedDays, RestoredDays, Days
  <2>4. QED
    BY <2>2, <2>3
<1>4. CASE model = Beta
  <2>1. shelf' = shelf
    BY <1>4, RestoreIs
  <2>2. QED
    BY <1>1, <1>4, <2>1 DEF ShelfInv, ShelfRight, Listed
<1>5. CASE model # Beta /\ RestoredDays # 0
  <2>1. shelf' = [p \in Products |-> IF p \in Listed THEN Of(orders, p, Daily(orders, RestoredDays)) ELSE Off]
    BY <1>5, RestoreIs
  <2>2. ASSUME NEW p \in Listed' PROVE ShelfRight(p)'
    <3>1. p \in Products /\ p \in Listed
      BY <2>1 DEF Listed
    <3>2. QED
      BY <1>1, <1>3, <1>5, <2>1, <3>1 DEF ShelfRight
  <2>3. QED
    BY <2>1, <2>2 DEF ShelfInv
<1>6. CASE model # Beta /\ RestoredDays = 0
  <2>1. shelf' = shelf
    BY <1>6, RestoreIs
  <2>2. ASSUME NEW p \in Listed' PROVE ShelfRight(p)'
    <3>1. p \in Listed /\ shelf'[p] = shelf[p]
      BY <2>1 DEF Listed
    <3>2. ShelfRight(p)
      BY <3>1 DEF ShelfInv
    <3>3. CASE phase = "closing"
      <4>1. shelf[p] = Of(orders, p, Daily(orders, AllDays)) /\ phase' = "quiet" /\ RatedDays' = 0
        BY <1>1, <1>3, <1>6, <3>2, <3>3 DEF ShelfRight
      <4>2. CASE point.final
        BY <1>1, <1>2, <1>6, <3>1, <4>1, <4>2 DEF ShelfRight
      <4>3. CASE ~point.final
        <5>1. t % DayTicks = 0
          BY <1>6, <3>3, <4>3 DEF RatingInv, PointRight
        <5>2. AllDays = RatedDays'
          BY <1>1, <1>3, <3>3, <5>1, DayFacts
        <5>3. QED
          BY <1>1, <1>6, <3>1, <4>1, <5>2 DEF ShelfRight
      <4>4. QED
        BY <4>2, <4>3
    <3>4. CASE phase # "closing"
      BY <1>1, <1>2, <1>3, <1>6, <3>1, <3>2, <3>4 DEF ShelfRight
    <3>5. QED
      BY <3>3, <3>4
  <2>3. QED
    BY <2>1, <2>2 DEF ShelfInv
<1>7. QED
  BY <1>4, <1>5, <1>6

\* The other steps leave the listings right.
LEMMA OtherShelf ==
  ASSUME RatingInv, ShelfInv, CloseHook \/ Clock \/ MarkFinished
  PROVE  ShelfInv'
<1>1. UNCHANGED <<model, orders, shelf, point>> /\ phase # "quiet"
  BY DEF CloseHook, Clock, MarkFinished
<1>2. RatedDays' = RatedDays
  BY DEF CloseHook, Clock, MarkFinished, RatedDays, AllDays, NextRun, Days
<1>3. QED
  BY <1>1, <1>2 DEF ShelfInv, ShelfRight, Listed

-----------------------------------------------------------------------------
(* The theorems.                                                           *)

\* The ratings are right at first.
LEMMA InitRates == Init => RatingInv
<1> SUFFICES ASSUME Init PROVE RatingInv
  OBVIOUS
<1>1. /\ t = 0 /\ phase = "quiet" /\ model \in Models /\ orders = <<>>
      /\ shop = {} /\ reviews = {} /\ published = 0 /\ aged = {}
      /\ point = [basis |-> DemandBasis({}, {}), final |-> FALSE]
  BY DEF Init
<1>2. Typed
  BY <1>1, ShopRatingAssumption DEF Typed
<1>3. Numbers = {} /\ DOMAIN orders = {}
  BY <1>1 DEF Numbers
<1>4. Dated
  BY <1>3 DEF Dated
<1>5. NextRun(t) = 0 /\ RatedDays = Days(0)
  BY <1>1 DEF NextRun, RatedDays
<1>6. Days(0) = 0 /\ 0 * DayTicks = 0
  <2>1. 0 = 0 * DayTicks + 0 /\ 0 \in 0 .. DayTicks - 1 /\ 0 \in Int /\ 0 \in Nat
    BY DayTicksTyped
  <2>2. QED
    BY <2>1, DayTicksTyped, DivIs DEF Days
<1>7. Daily(orders, 0) = {}
  BY <1>3 DEF Daily, Ended
<1>8. Left(orders, 0) = {}
  BY <1>3 DEF Left, PublicReviews, Before
<1>9. Rebuilt(orders, 0) = {}
  BY RebuiltIs
<1>10. BetaRight /\ DailyRight
  BY <1>1, <1>5, <1>6, <1>7, <1>8, <1>9 DEF BetaRight, DailyRight
<1>11. PointRight
  BY <1>1 DEF PointRight
<1>12. QED
  BY <1>1, <1>2, <1>4, <1>5, <1>6, <1>7, <1>10, <1>11 DEF RatingInv

\* Every step leaves the ratings right.
LEMMA NextRates == RatingInv /\ [Next]_vars => RatingInv'
<1> SUFFICES ASSUME RatingInv, [Next]_vars PROVE RatingInv'
  OBVIOUS
<1>1. CASE Transition
  BY <1>1, TransitionRates
<1>2. CASE CloseHook
  BY <1>2, CloseHookRates
<1>3. CASE Clock
  BY <1>3, ClockRates
<1>4. ASSUME NEW p \in Products, ListProduct(p) \/ DelistProduct(p) PROVE RatingInv'
  BY <1>4, ShelfActionsRate
<1>5. CASE PublishTerminal
  BY <1>5, PublishTerminalRates
<1>6. CASE MarkFinished
  BY <1>6, MarkFinishedRates
<1>7. CASE Restart
  BY <1>7, RestartRates
<1>8. CASE UNCHANGED vars
  <2>1. UNCHANGED <<t, phase, model, orders, shop, reviews, published, point, aged>>
    BY <1>8 DEF vars
  <2>2. NextRun(t)' = NextRun(t) /\ RatedDays' = RatedDays /\ AllDays' = AllDays
    BY <2>1 DEF NextRun, RatedDays, AllDays
  <2>3. Typed'
    BY <2>1 DEF RatingInv, Typed
  <2>4. PointRight'
    BY <2>1, <2>2, PointFrame DEF RatingInv, PointRight
  <2>5. QED
    BY <2>1, <2>2, <2>3, <2>4, RatingFrame DEF RatingInv
<1>9. QED
  BY <1>1, <1>2, <1>3, <1>4, <1>5, <1>6, <1>7, <1>8 DEF Next

\* No listing is wrong at first.
LEMMA InitShelf == Init => ShelfInv
<1> SUFFICES ASSUME Init PROVE ShelfInv
  OBVIOUS
<1>1. shelf = [p \in Products |-> Off]
  BY DEF Init
<1>2. QED
  BY <1>1 DEF ShelfInv, Listed

\* Every step leaves the listings right.
LEMMA NextShelf == HooksMissDayEnds /\ RatingInv /\ ShelfInv /\ [Next]_vars => ShelfInv'
<1> SUFFICES ASSUME HooksMissDayEnds, RatingInv, ShelfInv, [Next]_vars PROVE ShelfInv'
  OBVIOUS
<1>1. CASE Transition
  BY <1>1, TransitionShelf
<1>2. CASE CloseHook \/ Clock \/ MarkFinished
  BY <1>2, OtherShelf
<1>3. ASSUME NEW p \in Products, ListProduct(p) PROVE ShelfInv'
  BY <1>3, ListProductShelf
<1>4. ASSUME NEW p \in Products, DelistProduct(p) PROVE ShelfInv'
  BY <1>4, DelistProductShelf
<1>5. CASE PublishTerminal
  BY <1>5, PublishTerminalShelf
<1>6. CASE Restart
  BY <1>6, RestartShelf
<1>7. CASE UNCHANGED vars
  <2>1. UNCHANGED <<t, phase, model, orders, shelf, point>>
    BY <1>7 DEF vars
  <2>2. RatedDays' = RatedDays /\ AllDays' = AllDays
    BY <2>1 DEF NextRun, RatedDays, AllDays, Days
  <2>3. QED
    BY <2>1, <2>2 DEF ShelfInv, ShelfRight, Listed
<1>8. QED
  BY <1>1, <1>2, <1>3, <1>4, <1>5, <1>6, <1>7 DEF Next

\* The ratings are right in every state.
LEMMA AlwaysRates == Spec => []RatingInv
BY InitRates, NextRates, PTL DEF Spec

\* The listings are right in every state.
LEMMA AlwaysShelf == HooksMissDayEnds => (Spec => []ShelfInv)
<1> SUFFICES ASSUME HooksMissDayEnds PROVE Spec => []ShelfInv
  OBVIOUS
<1>1. RatingInv /\ ShelfInv /\ [Next]_vars => ShelfInv'
  BY NextShelf
<1>2. QED
  BY <1>1, InitShelf, AlwaysRates, PTL DEF Spec

\* The evidence of days has an age, and one per order.
LEMMA DailyTyped ==
  ASSUME NEW os, Dates(os), NEW k \in Nat
  PROVE  /\ \A e \in Daily(os, k) : e[2] \in Nat
         /\ \A e, f \in Daily(os, k) : e[1] = f[1] => e = f
<1>1. ASSUME NEW e \in Daily(os, k)
      PROVE  e = <<e[1], k - 1 - Days(os[e[1]].settled)>> /\ e[2] \in Nat
  <2>1. PICK i \in Ended(os, k) : e = <<i, k - 1 - Days(os[i].settled)>>
    BY DEF Daily
  <2>2. Days(os[i].settled) \in 0 .. k - 1
    BY EndedTyped
  <2>3. k - 1 - Days(os[i].settled) \in Nat
    BY <2>2
  <2>4. e[1] = i /\ e[2] = k - 1 - Days(os[i].settled)
    BY <2>1
  <2>5. QED
    BY <2>1, <2>3, <2>4
<1>2. ASSUME NEW e \in Daily(os, k), NEW f \in Daily(os, k), e[1] = f[1] PROVE e = f
  <2>1. e = <<e[1], k - 1 - Days(os[e[1]].settled)>>
    BY <1>1
  <2>2. f = <<f[1], k - 1 - Days(os[f[1]].settled)>>
    BY <1>1
  <2>3. QED
    BY <1>2, <2>1, <2>2
<1>3. QED
  BY <1>1, <1>2

\* The evidence of a listing is of its product.
LEMMA OfTyped ==
  ASSUME NEW os, Dates(os), NEW k \in Nat, NEW p
  PROVE  /\ \A e \in Of(os, p, Daily(os, k)) : os[e[1]].product = p /\ e[2] \in Nat
         /\ \A e, f \in Of(os, p, Daily(os, k)) : e[1] = f[1] => e = f
BY DailyTyped DEF Of

\* Beta's evidence of a listing is of its product.
LEMMA CountedTyped ==
  ASSUME NEW os, NEW p
  PROVE  /\ \A e \in Counted(os, p) : os[e[1]].product = p /\ e[2] \in Nat
         /\ \A e, f \in Counted(os, p) : e[1] = f[1] => e = f
<1>1. ASSUME NEW e \in Counted(os, p) PROVE e = <<e[1], 0>> /\ os[e[1]].product = p /\ e[2] = 0
  <2>1. PICK i \in {j \in DOMAIN os : os[j].product = p /\ os[j].settled # Never /\ Rated(os[j])} :
          e = <<i, 0>>
    BY DEF Counted
  <2>2. e[1] = i /\ e[2] = 0
    BY <2>1
  <2>3. QED
    BY <2>1, <2>2
<1>2. QED
  BY <1>1

\* The type invariant.
LEMMA RatesTyped == RatingInv /\ ShelfInv => TypeOK
<1> SUFFICES ASSUME RatingInv, ShelfInv PROVE TypeOK
  OBVIOUS
<1>1. /\ t \in Nat /\ t <= LastTick /\ LastTick \in Nat /\ Dates(orders) /\ model \in Models
      /\ RatedDays \in Nat /\ AllDays \in Nat /\ Days(t + 1) \in Nat /\ DayTicks \in Nat \ {0}
  BY OrdersDated, RatedFacts, DayFacts, DayTicksTyped, ShopRatingAssumption
     DEF RatingInv, Typed
<1>2. published \in 0 .. LastTick + DayTicks
  <2>1. CASE model = Beta
    BY <1>1, <2>1 DEF RatingInv, BetaRight
  <2>2. CASE model # Beta
    <3>1. PICK a \in Nat : a = RatedDays * DayTicks
      BY <1>1, WholeDays
    <3>2. published = a
      BY <2>2, <3>1 DEF RatingInv, DailyRight
    <3>3. CASE phase \in {"hook", "closed"}
      <4>1. a <= t + 1
        BY <1>1, <3>1, <3>3, RatedFacts, TickOfDay DEF RatingInv
      <4>2. QED
        BY <1>1, <3>2, <4>1
    <3>4. CASE phase = "quiet"
      <4>1. a <= t
        BY <1>1, <3>1, <3>4, RatedFacts, TickOfDay DEF RatingInv
      <4>2. QED
        BY <1>1, <3>2, <4>1
    <3>5. CASE phase \in {"closing", "finished"}
      <4>1. RatedDays = AllDays
        BY <3>5, RatedFacts DEF RatingInv
      <4>2. CASE t % DayTicks = 0
        <5>1. a = t
          BY <1>1, <3>1, <4>1, <4>2, DayFacts
        <5>2. QED
          BY <1>1, <3>2, <5>1
      <4>3. CASE t % DayTicks # 0
        <5>1. PICK b \in Nat, d \in Nat : b = Days(t) * DayTicks /\ d = Days(t)
          BY <1>1, DayFacts, WholeDays
        <5>2. b < t /\ AllDays = d + 1
          BY <1>1, <4>3, <5>1, DayFacts
        <5>3. (d + 1) * DayTicks = d * DayTicks + DayTicks
          BY <1>1
        <5>4. a = b + DayTicks
          BY <3>1, <4>1, <5>1, <5>2, <5>3
        <5>5. QED
          BY <1>1, <3>2, <5>2, <5>4
      <4>4. QED
        BY <4>2, <4>3
    <3>6. QED
      BY <3>3, <3>4, <3>5 DEF RatingInv, Typed
  <2>3. QED
    BY <2>1, <2>2
<1>3. ASSUME NEW p \in Listed
      PROVE  /\ \A e \in shelf[p] : orders[e[1]].product = p /\ e[2] \in Nat
             /\ \A e, f \in shelf[p] : e[1] = f[1] => e = f
  <2>1. \/ shelf[p] = Counted(orders, p)
        \/ shelf[p] = Of(orders, p, Daily(orders, RatedDays))
        \/ shelf[p] = Of(orders, p, Daily(orders, AllDays))
    BY DEF ShelfInv, ShelfRight
  <2>2. CASE shelf[p] = Counted(orders, p)
    BY <2>2, CountedTyped
  <2>3. CASE shelf[p] = Of(orders, p, Daily(orders, RatedDays))
    BY <1>1, <2>3, OfTyped
  <2>4. CASE shelf[p] = Of(orders, p, Daily(orders, AllDays))
    BY <1>1, <2>4, OfTyped
  <2>5. QED
    BY <2>1, <2>2, <2>3, <2>4
<1>4. \A i \in reviews : Rated(orders[i])
  <2>1. CASE model = Beta
    BY <2>1 DEF RatingInv, BetaRight
  <2>2. CASE model # Beta
    BY <2>2 DEF RatingInv, DailyRight, Left, PublicReviews
  <2>3. QED
    BY <2>1, <2>2
<1>5. QED
  BY <1>1, <1>2, <1>3, <1>4 DEF TypeOK

\* The shop has the evidence of a run that was not interrupted.
LEMMA RatesFollow == RatingInv => ShopFollowsOrders
<1> SUFFICES ASSUME RatingInv PROVE ShopFollowsOrders
  OBVIOUS
<1>1. t \in Nat /\ NextRun(t) \in Nat /\ Numbers = DOMAIN orders
  BY OrdersDated DEF RatingInv
<1>2. CASE model = Beta
  <2>1. NextRun(t) <= t + 1
    BY <1>1 DEF NextRun
  <2>2. Rebuilt(orders, NextRun(t)) =
          {e \in Numbers \X {"late", "end"} \X (0 .. t) :
             LET u == NextRun(t) - 1 - e[3] IN u \in Nat /\ <<e[1], e[2]>> \in Events(orders, u)}
    BY <1>1, <2>1, RebuiltByAge
  <2>3. QED
    BY <1>2, <2>2 DEF RatingInv, BetaRight, ShopFollowsOrders
<1>3. CASE model # Beta
  BY <1>3 DEF RatingInv, DailyRight, ShopFollowsOrders
<1>4. QED
  BY <1>2, <1>3

\* The listings have the evidence of their orders.
LEMMA ListingsFollow == RatingInv /\ ShelfInv => ListingFollowsOrders
<1> SUFFICES ASSUME RatingInv, ShelfInv, NEW p \in Listed
    PROVE  \/ shelf[p] = IF model = Beta THEN Counted(orders, p) ELSE Of(orders, p, aged)
           \/ /\ model # Beta /\ point.final /\ phase = "quiet" /\ t < DayTicks
              /\ shelf[p] = Of(orders, p, Evidence(orders, Ceiling(t)))
  BY DEF ListingFollowsOrders
<1>1. t \in Nat /\ Dates(orders) /\ AllDays \in Nat
  BY OrdersDated, DayFacts DEF RatingInv
<1>2. Evidence(orders, Ceiling(t)) = Daily(orders, AllDays)
  BY <1>1, DayFacts, EvidenceDaily
<1>3. phase = "quiet" /\ RatedDays = 0 => t < DayTicks
  <2>1. phase = "quiet" => RatedDays = Days(t)
    BY RatedFacts DEF RatingInv
  <2>2. t < (Days(t) + 1) * DayTicks
    BY <1>1, TickOfDay
  <2>3. (0 + 1) * DayTicks = DayTicks
    BY DayTicksTyped
  <2>4. QED
    BY <2>1, <2>2, <2>3
<1>4. QED
  BY <1>2, <1>3 DEF RatingInv, ShelfInv, ShelfRight

\* The series shows what the demand is computed from.
LEMMA SeriesRight == RatingInv => SeriesShowsRating
<1> SUFFICES ASSUME RatingInv PROVE SeriesShowsRating
  OBVIOUS
<1>1. CASE ~point.final
  BY <1>1 DEF RatingInv, PointRight, SeriesShowsRating
<1>2. CASE point.final /\ phase = "quiet"
  BY <1>2 DEF SeriesShowsRating
<1>3. CASE point.final /\ phase # "quiet"
  <2>1. /\ model # Beta /\ RatedDays = AllDays
        /\ point.basis = DemandBasis(Daily(orders, AllDays), Left(orders, AllDays))
    BY <1>3, RatedFacts DEF RatingInv, PointRight
  <2>2. QED
    BY <2>1 DEF RatingInv, DailyRight, SeriesShowsRating
<1>4. QED
  BY <1>1, <1>2, <1>3

\* However often and wherever the process restarts, the shop, its listings and
\* the series of its ratings are those of a run that was never interrupted,
\* as long as no hook falls on the last tick of a day.
THEOREM RatingIsUnbroken == HooksMissDayEnds => (Spec => []RatesUnbroken)
<1> SUFFICES ASSUME HooksMissDayEnds PROVE Spec => []RatesUnbroken
  OBVIOUS
<1>1. RatingInv /\ ShelfInv => RatesUnbroken
  BY RatesTyped, RatesFollow, ListingsFollow, SeriesRight DEF RatesUnbroken
<1>2. Spec => []ShelfInv
  BY AlwaysShelf
<1>3. QED
  BY <1>1, <1>2, AlwaysRates, PTL

\* Whatever the periods, the models of order outcomes change what the demand is
\* computed from only when a day or the run ends: a restart changes nothing.
THEOREM DemandMovesDayByDay == Spec => DayByDay
<1> DEFINE Step == model # Beta /\ DemandBasis(shop', reviews') # DemandBasis(shop, reviews) =>
       \/ phase = "quiet" /\ phase' # "quiet" /\ (t + 1) % DayTicks = 0
       \/ phase = "quiet" /\ phase' = "closing"
       \/ phase = "closing"
<1>1. ASSUME RatingInv, [Next]_vars PROVE Step \/ UNCHANGED vars
  <2>1. CASE UNCHANGED vars
    BY <2>1
  <2>2. CASE Transition
    <3>1. phase = "quiet" /\ phase' # "quiet"
      BY <2>2, TransitionIs
    <3>2. CASE DayEnds
      BY <3>1, <3>2 DEF DayEnds
    <3>3. CASE ~DayEnds
      <4>1. model # Beta => UNCHANGED <<shop, reviews>>
        BY <2>2, <3>3, TransitionIs
      <4>2. QED
        BY <4>1
    <3>4. QED
      BY <3>2, <3>3
  <2>3. CASE CloseHook \/ Clock \/ MarkFinished \/ \E p \in Products : ListProduct(p) \/ DelistProduct(p)
    <3>1. UNCHANGED <<shop, reviews>>
      BY <2>3 DEF CloseHook, Clock, MarkFinished, ListProduct, DelistProduct
    <3>2. QED
      BY <3>1
  <2>4. CASE PublishTerminal
    BY <2>4 DEF PublishTerminal
  <2>5. CASE Restart
    <3>1. CASE phase = "closing"
      BY <3>1
    <3>2. CASE phase # "closing"
      <4>1. RatedDays = RestoredDays
        BY <3>2 DEF RatedDays, RestoredDays
      <4>2. model # Beta => UNCHANGED <<shop, reviews>>
        BY <1>1, <2>5, <4>1, RestoreIs DEF RatingInv, DailyRight
      <4>3. QED
        BY <4>2
    <3>3. QED
      BY <3>1, <3>2
  <2>6. QED
    BY <1>1, <2>1, <2>2, <2>3, <2>4, <2>5 DEF Next
<1>2. RatingInv /\ [Next]_vars => [Step]_vars
  BY <1>1
<1>3. Spec => [][Step]_vars
  BY <1>2, AlwaysRates, PTL DEF Spec
<1>4. QED
  BY <1>3 DEF DayByDay
=============================================================================
