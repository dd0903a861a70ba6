--------------------------- MODULE Ancillary_proofs ---------------------------
(***************************************************************************)
(* Proofs about updatetoms.py and lndpm, alone and beside each other, for  *)
(* any years and days, any contents of the ancillary directory, and any    *)
(* number of runs of both: that the two programs count days alike, that a  *)
(* day's ozone file is replaced only by what the run downloaded for it,    *)
(* and that scenes are processed with the ozone of their day.              *)
(***************************************************************************)
EXTENDS Ancillary, TLAPS, FiniteSetTheorems, FunctionTheorems, WellFoundedInduction

-----------------------------------------------------------------------------
(* Days of the months, as conv_date adds them up.                          *)
Leap(y) == (y % 4 = 0 /\ y % 100 # 0) \/ y % 400 = 0
Feb(y) == IF Leap(y) THEN 29 ELSE 28
Months(y) ==
    <<31, 59 + (Feb(y) - 28), 90 + (Feb(y) - 28), 120 + (Feb(y) - 28), 151 + (Feb(y) - 28),
      181 + (Feb(y) - 28), 212 + (Feb(y) - 28), 243 + (Feb(y) - 28), 273 + (Feb(y) - 28),
      304 + (Feb(y) - 28), 334 + (Feb(y) - 28), 365 + (Feb(y) - 28)>>
Sums(y) == [im \in 0 .. 12 |-> IF im = 0 THEN 0 ELSE Months(y)[im]]

LEMMA ndaysLength ==
  ASSUME NEW y \in Nat
  PROVE  /\ ndays(y) \in [1 .. 12 -> 28 .. 31] /\ Feb(y) \in 28 .. 29
         /\ \A m \in 1 .. 12 : ndays(y)[m] = LengthOf(m, y)
         /\ ndays(y)[2] = Feb(y)
<1>1. Feb(y) \in 28 .. 29
  BY DEF Feb
<1>2. ndays(y) = <<31, Feb(y), 31, 30, 31, 30, 31, 31, 30, 31, 30, 31>>
  BY DEF ndays, Feb, Leap
<1>3. LengthOf(2, y) = Feb(y)
  BY DEF LengthOf, Feb, Leap
<1>4. ndays(y) \in [1 .. 12 -> 28 .. 31]
  BY <1>1, <1>2
<1>5. ASSUME NEW m \in 1 .. 12 PROVE ndays(y)[m] = LengthOf(m, y)
  <2>1. CASE m = 2
    BY <2>1, <1>2, <1>3
  <2>2. CASE m # 2
    BY <2>2, <1>2 DEF LengthOf
  <2> QED
    BY <2>1, <2>2
<1> QED
  BY <1>1, <1>2, <1>4, <1>5

LEMMA SumsStep ==
  ASSUME NEW y \in Nat, NEW m \in 1 .. 12
  PROVE  /\ Sums(y)[m] = Sums(y)[m - 1] + ndays(y)[m]
         /\ Sums(y)[m - 1] \in Nat
<1>1. ndays(y) = <<31, Feb(y), 31, 30, 31, 30, 31, 31, 30, 31, 30, 31>> /\ Feb(y) \in 28 .. 29
  BY DEF ndays, Feb, Leap
<1> QED
  BY <1>1 DEF Sums, Months

LEMMA DaysOfSums ==
  ASSUME NEW y \in Nat, NEW n \in 0 .. 12
  PROVE  DaysOf(n, y) = Sums(y)[n]
<1> DEFINE F(s) == [im \in 0 .. 12 |-> IF im = 0 THEN 0 ELSE s[im - 1] + ndays(y)[im]]
<1>1. Sums(y) = F(Sums(y))
  BY SumsStep DEF Sums
<1>2. DaysOf(n, y) = (CHOOSE s : s = F(s))[n]
  BY DEF DaysOf
<1> HIDE DEF F
<1>3. PICK sum : sum = F(sum) /\ DaysOf(n, y) = sum[n]
  BY <1>1, <1>2
<1>4. sum = [im \in 0 .. 12 |-> IF im = 0 THEN 0 ELSE sum[im - 1] + ndays(y)[im]]
  BY <1>3 DEF F
<1>5. sum[0] = Sums(y)[0] /\ \A m \in 1 .. 12 : sum[m] = sum[m - 1] + ndays(y)[m]
  <2>1. sum[0] = 0 /\ \A m \in 1 .. 12 : sum[m] = sum[m - 1] + ndays(y)[m]
    BY <1>4
  <2> QED
    BY <2>1 DEF Sums
<1>6. \A m \in 1 .. 12 : sum[m - 1] = Sums(y)[m - 1] => sum[m] = Sums(y)[m]
  BY <1>5, SumsStep
<1>7. /\ sum[1] = Sums(y)[1] /\ sum[2] = Sums(y)[2] /\ sum[3] = Sums(y)[3]
      /\ sum[4] = Sums(y)[4] /\ sum[5] = Sums(y)[5] /\ sum[6] = Sums(y)[6]
  BY <1>5, <1>6
<1>8. /\ sum[7] = Sums(y)[7] /\ sum[8] = Sums(y)[8] /\ sum[9] = Sums(y)[9]
      /\ sum[10] = Sums(y)[10] /\ sum[11] = Sums(y)[11] /\ sum[12] = Sums(y)[12]
  BY <1>6, <1>7
<1> QED
  BY <1>3, <1>5, <1>7, <1>8

-----------------------------------------------------------------------------
(* The number of a date is its day of the year: dates are numbered from 1  *)
(* on, in order, without a gap.                                            *)
Number(d, y) == Sums(y)[d[1] - 1] + d[2]

LEMMA SumsGrow ==
  ASSUME NEW y \in Nat, NEW m \in 0 .. 12, NEW n \in 0 .. 12, m <= n
  PROVE  Sums(y)[m] \in Nat /\ Sums(y)[m] <= Sums(y)[n] /\ Sums(y)[12] = 337 + Feb(y)
<1>1. Feb(y) \in 28 .. 29
  BY DEF Feb
<1> QED
  BY <1>1 DEF Sums, Months

LEMMA Numbers ==
  ASSUME NEW y \in Nat, NEW d \in DatesOf(y)
  PROVE  /\ d[1] \in 1 .. 12 /\ d[2] \in 1 .. ndays(y)[d[1]] /\ d = <<d[1], d[2]>>
         /\ Number(d, y) \in Nat /\ Number(d, y) > Sums(y)[d[1] - 1]
         /\ Number(d, y) <= Sums(y)[d[1]]
<1>1. d[1] \in 1 .. 12 /\ d[2] \in 1 .. ndays(y)[d[1]] /\ d = <<d[1], d[2]>>
  BY ndaysLength DEF DatesOf
<1>2. /\ Sums(y)[d[1]] = Sums(y)[d[1] - 1] + ndays(y)[d[1]]
      /\ Sums(y)[d[1] - 1] \in Nat /\ ndays(y)[d[1]] \in Nat
  BY <1>1, SumsStep, ndaysLength
<1> QED
  BY <1>1, <1>2 DEF Number

LEMMA NumberOrder ==
  ASSUME NEW y \in Nat, NEW d \in DatesOf(y), NEW e \in DatesOf(y)
  PROVE  /\ NotLater(d, e) <=> Number(d, y) <= Number(e, y)
         /\ Number(d, y) = Number(e, y) => d = e
<1>1. ASSUME NEW a \in DatesOf(y), NEW b \in DatesOf(y), a[1] < b[1]
      PROVE  Number(a, y) < Number(b, y)
  <2>1. /\ a[1] \in 1 .. 12 /\ b[1] \in 1 .. 12
        /\ Number(a, y) \in Nat /\ Number(a, y) <= Sums(y)[a[1]]
        /\ Number(b, y) \in Nat /\ Number(b, y) > Sums(y)[b[1] - 1]
    BY Numbers
  <2>2. Sums(y)[a[1]] <= Sums(y)[b[1] - 1] /\ Sums(y)[a[1]] \in Nat /\ Sums(y)[b[1] - 1] \in Nat
    <3>1. a[1] \in 0 .. 12 /\ b[1] - 1 \in 0 .. 12 /\ a[1] <= b[1] - 1
      BY <1>1, <2>1
    <3> QED
      BY <3>1, SumsGrow
  <2> QED
    BY <2>1, <2>2
<1>2. /\ d[1] \in 1 .. 12 /\ e[1] \in 1 .. 12 /\ d[2] \in Nat /\ e[2] \in Nat
      /\ d = <<d[1], d[2]>> /\ e = <<e[1], e[2]>>
      /\ Number(d, y) \in Nat /\ Number(e, y) \in Nat
  <2>1. ndays(y)[d[1]] \in Nat /\ ndays(y)[e[1]] \in Nat
    BY Numbers, ndaysLength
  <2> QED
    BY <2>1, Numbers
<1>3. CASE d[1] = e[1]
  <2>1. Sums(y)[d[1] - 1] \in Nat
    BY <1>2, SumsStep
  <2>2. Number(d, y) <= Number(e, y) <=> d[2] <= e[2]
    BY <1>2, <1>3, <2>1 DEF Number
  <2>3. Number(d, y) = Number(e, y) => d[2] = e[2]
    BY <1>2, <1>3, <2>1 DEF Number
  <2>4. NotLater(d, e) <=> d[2] <= e[2]
    BY <1>2, <1>3 DEF NotLater
  <2> QED
    BY <1>2, <1>3, <2>2, <2>3, <2>4
<1>4. CASE d[1] < e[1]
  BY <1>1, <1>2, <1>4 DEF NotLater
<1>5. CASE e[1] < d[1]
  BY <1>1, <1>2, <1>5 DEF NotLater
<1> QED
  BY <1>2, <1>3, <1>4, <1>5

LEMMA NoGap ==
  ASSUME NEW y \in Nat, NEW k \in 1 .. Sums(y)[12]
  PROVE  \E d \in DatesOf(y) : Number(d, y) = k
<1>1. PICK m \in 1 .. 12 : Sums(y)[m - 1] < k /\ k <= Sums(y)[m]
  <2>1. Feb(y) \in 28 .. 29
    BY DEF Feb
  <2>2. Sums(y)[0] = 0 /\ \A m \in 1 .. 12 : Sums(y)[m] = Months(y)[m]
    BY DEF Sums
  <2> QED
    BY <2>1, <2>2, SumsGrow DEF Months
<1>2. /\ Sums(y)[m] = Sums(y)[m - 1] + ndays(y)[m] /\ Sums(y)[m - 1] \in Nat
      /\ ndays(y)[m] \in 28 .. 31 /\ ndays(y)[m] = LengthOf(m, y)
  BY SumsStep, ndaysLength
<1> DEFINE d == <<m, k - Sums(y)[m - 1]>>
<1>3. d \in DatesOf(y)
  <2>1. k \in Int /\ Sums(y)[12] \in Nat
    BY SumsGrow
  <2> QED
    BY <1>1, <1>2, <2>1 DEF DatesOf
<1>4. Number(d, y) = k
  <2>1. k \in Int /\ Sums(y)[12] \in Nat
    BY SumsGrow
  <2> QED
    BY <1>2, <2>1 DEF Number
<1> QED
  BY <1>3, <1>4

LEMMA Counted ==
  ASSUME NEW y \in Nat, NEW n \in Nat, NEW S \in SUBSET DatesOf(y),
         \A d \in S : Number(d, y) \in 1 .. n,
         \A k \in 1 .. n : \E d \in S : Number(d, y) = k
  PROVE  Cardinality(S) = n
<1> DEFINE f == [k \in 1 .. n |-> CHOOSE d \in S : Number(d, y) = k]
<1>1. \A k \in 1 .. n : f[k] \in S /\ Number(f[k], y) = k
  OBVIOUS
<1>2. \A d \in S : \E k \in 1 .. n : f[k] = d
  <2> SUFFICES ASSUME NEW d \in S PROVE \E k \in 1 .. n : f[k] = d
    OBVIOUS
  <2>1. PICK k \in 1 .. n : Number(d, y) = k
    OBVIOUS
  <2>2. f[k] \in DatesOf(y) /\ d \in DatesOf(y) /\ Number(f[k], y) = Number(d, y)
    BY <1>1, <2>1
  <2> QED
    BY <2>2, NumberOrder
<1>3. f \in [1 .. n -> S]
  BY <1>1
<1> HIDE DEF f
<1>4. f \in Injection(1 .. n, S)
  BY <1>1, <1>3 DEF Injection, IsInjective
<1>5. f \in Surjection(1 .. n, S)
  BY <1>2, <1>3 DEF Surjection
<1>6. ExistsBijection(1 .. n, S)
  BY <1>4, <1>5 DEF ExistsBijection, Bijection
<1> QED
  BY <1>6, FS_CountingElements

LEMMA DaysInYear ==
  ASSUME NEW y \in Nat
  PROVE  Cardinality(DatesOf(y)) = Sums(y)[12]
<1>1. Sums(y)[12] \in Nat
  BY SumsGrow
<1>2. ASSUME NEW d \in DatesOf(y) PROVE Number(d, y) \in 1 .. Sums(y)[12]
  <2>1. /\ d[1] \in 1 .. 12 /\ Number(d, y) \in Nat /\ Number(d, y) > Sums(y)[d[1] - 1]
        /\ Number(d, y) <= Sums(y)[d[1]]
    BY Numbers
  <2>2. Sums(y)[d[1]] \in Nat /\ Sums(y)[d[1]] <= Sums(y)[12] /\ Sums(y)[d[1] - 1] \in Nat
    BY <2>1, SumsGrow
  <2> QED
    BY <1>1, <2>1, <2>2
<1> QED
  BY <1>1, <1>2, NoGap, Counted

LEMMA DayIsNumber ==
  ASSUME NEW y \in Nat, NEW e \in DatesOf(y)
  PROVE  DayOfYear(e, y) = Number(e, y)
<1> DEFINE S == {d \in DatesOf(y) : NotLater(d, e)}
<1>1. Number(e, y) \in Nat /\ S \in SUBSET DatesOf(y)
  BY Numbers
<1>2. ASSUME NEW d \in S PROVE Number(d, y) \in 1 .. Number(e, y)
  <2>1. d[1] \in 1 .. 12 /\ Number(d, y) \in Nat /\ Number(d, y) > Sums(y)[d[1] - 1]
    BY Numbers
  <2>2. Sums(y)[d[1] - 1] \in Nat
    BY <2>1, SumsStep
  <2>3. Number(d, y) <= Number(e, y)
    BY NumberOrder
  <2> QED
    BY <1>1, <2>1, <2>2, <2>3
<1>3. ASSUME NEW k \in 1 .. Number(e, y) PROVE \E d \in S : Number(d, y) = k
  <2>1. k \in 1 .. Sums(y)[12]
    <3>1. e[1] \in 1 .. 12 /\ Number(e, y) <= Sums(y)[e[1]]
      BY Numbers
    <3>2. Sums(y)[e[1]] \in Nat /\ Sums(y)[e[1]] <= Sums(y)[12] /\ Sums(y)[12] \in Nat
      BY <3>1, SumsGrow
    <3> QED
      BY <1>1, <3>1, <3>2
  <2>2. PICK d \in DatesOf(y) : Number(d, y) = k
    BY <2>1, NoGap
  <2>3. NotLater(d, e)
    BY <1>1, <2>2, NumberOrder
  <2> QED
    BY <2>2, <2>3
<1> HIDE DEF S
<1>4. Cardinality(S) = Number(e, y)
  BY <1>1, <1>2, <1>3, Counted
<1> QED
  BY <1>4 DEF DayOfYear, S

-----------------------------------------------------------------------------
(* The date of each day, which is a date of its year; lndpm counts back to *)
(* the day from it, and to the date from the day.                          *)
LEMMA DateOfDay ==
  ASSUME NEW d \in Days
  PROVE  /\ d[1] \in Years /\ d[1] \in Nat /\ d[2] \in 1 .. 366 /\ d = <<d[1], d[2]>>
         /\ DateOf(d) \in DatesOf(d[1]) /\ Number(DateOf(d), d[1]) = d[2]
<1>1. /\ d[1] \in Years /\ d[1] \in Nat /\ d[2] \in 1 .. 366 /\ d = <<d[1], d[2]>>
      /\ d[2] <= Cardinality(DatesOf(d[1]))
  <2>1. d \in Years \X Doys /\ d[2] <= Cardinality(DatesOf(d[1]))
    BY DEF Days
  <2>2. d[1] \in Years /\ d[2] \in Doys /\ d = <<d[1], d[2]>>
    BY <2>1
  <2> QED
    BY <2>1, <2>2, UpdateAssumption
<1>2. \E date \in DatesOf(d[1]) : DayOfYear(date, d[1]) = d[2]
  <2>1. Sums(d[1])[12] \in Nat /\ d[2] <= Sums(d[1])[12]
    BY <1>1, SumsGrow, DaysInYear
  <2>2. d[2] \in 1 .. Sums(d[1])[12]
    BY <1>1, <2>1
  <2> QED
    BY <1>1, <2>2, NoGap, DayIsNumber
<1> DEFINE dateOf(e) == CHOOSE date \in DatesOf(e[1]) : DayOfYear(date, e[1]) = e[2]
<1>3. dateOf(d) \in DatesOf(d[1]) /\ DayOfYear(dateOf(d), d[1]) = d[2]
  BY <1>2
<1>4. DateTable = {<<e, dateOf(e)>> : e \in Days}
  BY DEF DateTable
<1> HIDE DEF dateOf
<1>5. \E e \in DateTable : e[1] = d
  <2>1. <<d, dateOf(d)>> \in DateTable
    BY <1>4
  <2> QED
    BY <2>1
<1> DEFINE entry == CHOOSE e \in DateTable : e[1] = d
<1>6. entry \in DateTable /\ entry[1] = d
  BY <1>5
<1>7. DateOf(d) = entry[2]
  BY DEF DateOf
<1> HIDE DEF entry
<1>8. entry[2] = dateOf(d)
  BY <1>4, <1>6
<1> QED
  BY <1>1, <1>3, <1>7, <1>8, DayIsNumber

LEMMA ConvDate ==
  ASSUME NEW d \in Days
  PROVE  /\ conv_date(DateOf(d)[1], DateOf(d)[2], d[1]).dd = d[2]
         /\ conv_date(0, d[2], d[1]) = [mm |-> DateOf(d)[1], dd |-> DateOf(d)[2]]
<1> DEFINE y == d[1]
           m == DateOf(d)[1]
           n == DateOf(d)[2]
<1>1. /\ y \in Nat /\ m \in 1 .. 12 /\ n \in Nat \ {0} /\ n <= ndays(y)[m]
      /\ Sums(y)[m - 1] + n = d[2] /\ d[2] \in 1 .. 366
  <2>1. y \in Nat /\ DateOf(d) \in DatesOf(y) /\ Number(DateOf(d), y) = d[2] /\ d[2] \in 1 .. 366
    BY DateOfDay
  <2>2. m \in 1 .. 12 /\ n \in 1 .. ndays(y)[m]
    BY <2>1, Numbers
  <2> QED
    BY <2>1, <2>2, ndaysLength DEF Number
<1> HIDE DEF y, m, n
<1>2. /\ Sums(y)[m] = Sums(y)[m - 1] + ndays(y)[m] /\ Sums(y)[m - 1] \in Nat
      /\ ndays(y)[m] \in Nat /\ DaysOf(m - 1, y) = Sums(y)[m - 1]
  <2>1. m - 1 \in 0 .. 12 /\ ndays(y)[m] \in 28 .. 31
    BY <1>1, ndaysLength
  <2> QED
    BY <1>1, <2>1, SumsStep, DaysOfSums
<1>3. conv_date(m, n, y).dd = d[2]
  BY <1>1, <1>2 DEF conv_date, ToDayOfYear
<1>4. \A k \in 1 .. 12 : k \in MonthReached(d[2], y) <=> d[2] <= Sums(y)[k]
  <2> SUFFICES ASSUME NEW k \in 1 .. 12
               PROVE  d[2] - DaysOf(k, y) <= 0 <=> d[2] <= Sums(y)[k]
    BY DEF MonthReached
  <2>1. k \in 0 .. 12
    OBVIOUS
  <2>2. DaysOf(k, y) = Sums(y)[k] /\ Sums(y)[k] \in Nat
    BY <1>1, <2>1, DaysOfSums, SumsGrow
  <2> QED
    BY <1>1, <2>2
<1>5. m \in MonthReached(d[2], y)
  BY <1>1, <1>2, <1>4
<1>6. \A k \in MonthReached(d[2], y) : m <= k
  <2> SUFFICES ASSUME NEW k \in 1 .. 12, d[2] <= Sums(y)[k], k < m PROVE FALSE
    BY <1>1, <1>4 DEF MonthReached
  <2>1. k \in 0 .. 12 /\ m - 1 \in 0 .. 12 /\ k <= m - 1
    BY <1>1
  <2>2. Sums(y)[k] <= Sums(y)[m - 1] /\ Sums(y)[k] \in Nat
    BY <1>1, <2>1, SumsGrow
  <2> QED
    BY <1>1, <1>2, <2>2
<1>7. m = CHOOSE i \in MonthReached(d[2], y) : \A k \in MonthReached(d[2], y) : i <= k
  BY <1>1, <1>5, <1>6 DEF MonthReached
<1>8. ToMonthAndDay(d[2], y) = [mm |-> m, dd |-> d[2] - DaysOf(m - 1, y)]
  BY <1>1, <1>5, <1>7 DEF ToMonthAndDay
<1>9. conv_date(0, d[2], y) = [mm |-> m, dd |-> n]
  BY <1>1, <1>2, <1>8 DEF conv_date
<1> QED
  BY <1>3, <1>9 DEF y, m, n

-----------------------------------------------------------------------------
(* The first of a set of numbers; the current year; the best file.         *)
LEMMA Least ==
  ASSUME NEW S \in SUBSET Nat, S # {}
  PROVE  \E x \in S : \A z \in S : x <= z
<1> DEFINE R == {ss \in Nat \X Nat : ss[1] < ss[2]}
<1>1. IsWellFoundedOn(R, Nat)
  BY NatLessThanWellFounded, Zenon DEF OpToRel
<1>2. \A x, z \in Nat : <<z, x>> \in R <=> z < x
  OBVIOUS
<1> HIDE DEF R
<1>3. PICK x \in S : \A z \in S : ~(<<z, x>> \in R)
  BY <1>1, WFMin, Zenon
<1>4. \A z \in S : z \in Nat /\ x \in Nat /\ ~(z < x)
  BY <1>2, <1>3, Zenon
<1> QED
  BY <1>4

LEMMA CurrentYear ==
  ASSUME years \subseteq Years, years # {}
  PROVE  Year \in years /\ Year \in Years /\ Year \in Nat
BY Least, UpdateAssumption DEF Year

LEMMA NextDay ==
  ASSUME NEW n \in Nat
  PROVE  DoyAfter(n) \in Nat
<1> Doys \subseteq Nat
  BY UpdateAssumption
<1>1. CASE \E d \in Doys : d > n
  <2> DEFINE S == {d \in Doys : d > n}
  <2>1. S \in SUBSET Nat /\ S # {}
    BY <1>1
  <2>2. \E d \in S : \A e \in S : d <= e
    BY <2>1, Least
  <2>3. \E d \in Doys : d > n /\ \A e \in Doys : e > n => d <= e
    BY <2>2
  <2> QED
    <3> DEFINE first == CHOOSE d \in Doys : d > n /\ \A e \in Doys : e > n => d <= e
    <3>1. first \in Doys
      BY <2>3, Zenon
    <3>2. DoyAfter(n) = first
      BY <1>1, Zenon DEF DoyAfter
    <3> QED
      BY <3>1, <3>2
<1>2. CASE ~\E d \in Doys : d > n
  BY <1>2 DEF DoyAfter
<1> QED
  BY <1>1, <1>2

LEMMA Ranks ==
  /\ Rank("OMI") = 1 /\ Rank("EARTHPROBE") = 2 /\ Rank("METEOR3") = 3 /\ Rank("NIMBUS") = 4
BY DEF Rank, Priority

LEMMA BestFile ==
  ASSUME NEW S \in SUBSET File, S # {}
  PROVE  /\ resolveFile(S) \in S
         /\ \A f \in S : Rank(resolveFile(S).source) <= Rank(f.source)
<1> DEFINE R == {Rank(f.source) : f \in S}
<1>1. R \in SUBSET Nat /\ R # {}
  BY Ranks DEF File, Sources
<1>2. PICK r \in R : \A q \in R : r <= q
  BY <1>1, Least
<1>3. \E f \in S : \A g \in S : Rank(f.source) <= Rank(g.source)
  BY <1>2
<1> QED
  BY <1>3 DEF resolveFile

-----------------------------------------------------------------------------
(* The invariant of updatetoms.py.  While a year is under way, what is in  *)
(* its download directory was downloaded by this run from the sources of   *)
(* the year: what an earlier run left is gone.                             *)
OfRange(s) == {s[i] : i \in DOMAIN s}
Hdfs == Sources \union {"NIMBUS7", NoFile, "incomplete"}
UTyped ==
    /\ today \in Today /\ pc \in {"idle", "year", "wget", "day", "convert"}
    /\ runs \in 0 .. MaxRuns /\ (pc # "idle" => runs >= 1)
    /\ years \subseteq Years /\ sources \in Seq(Sources)
    /\ doy \in Nat /\ lastDoy \in 0 .. 366
    /\ dload \in [Years -> SUBSET File]
    /\ tomsfile \in File \union {NoToms} /\ (pc = "convert" <=> tomsfile # NoToms)
    /\ hdf \in [Days -> Hdfs]

OwnFiles(S, year) == \A f \in S : f.run = runs /\ f.source \in OfRange(resolve(year))
AtWork ==
    pc \in {"wget", "day", "convert"} =>
        /\ years # {} /\ OwnFiles(dload[Year], Year)
        /\ OfRange(sources) \subseteq OfRange(resolve(Year))

(* The file that convert_ozone is at is the best for the day.              *)
Best(S, date) ==
    /\ tomsfile \in S /\ tomsfile.date = date
    /\ \A f \in S : f.date = date => Rank(tomsfile.source) <= Rank(f.source)
Converting == pc = "convert" => Best(dload[Year], DateStr(<<Year, doy>>))

UpdateInv == UTyped /\ AtWork /\ Converting

LEMMA NoFileTyped ==
  /\ \A f \in File : f # NoToms /\ f.source \in Sources
  /\ NoFile \in Hdfs /\ "incomplete" \in Hdfs
  /\ \A f \in File : getOzoneSource(f) \in Hdfs
<1>1. \A f \in File : f.source \in Sources
  BY DEF File
<1>2. NoToms.source = "none" /\ "none" \notin Sources
  BY DEF NoToms, Sources
<1> QED
  BY <1>1, <1>2 DEF Hdfs, getOzoneSource

LEMMA SourcesOfYear ==
  ASSUME NEW y \in Nat
  PROVE  /\ resolve(y) \in Seq(Sources)
         /\ OfRange(resolve(y)) \in {{}, {"NIMBUS"}, {"METEOR3", "NIMBUS"}, {"METEOR3"},
                                     {"EARTHPROBE"}, {"OMI", "EARTHPROBE"}, {"OMI"}}
<1>1. resolve(y) \in {<< >>, <<"NIMBUS">>, <<"METEOR3", "NIMBUS">>, <<"METEOR3">>,
                      <<"EARTHPROBE">>, <<"OMI", "EARTHPROBE">>, <<"OMI">>}
  BY DEF resolve
<1>2. \A a : OfRange(<<a>>) = {a}
  BY DEF OfRange
<1>3. \A a, b : OfRange(<<a, b>>) = {a, b}
  BY DEF OfRange
<1>4. OfRange(<< >>) = {}
  BY DEF OfRange
<1>5. /\ << >> \in Seq(Sources)
      /\ \A a \in Sources : <<a>> \in Seq(Sources)
      /\ \A a, b \in Sources : <<a, b>> \in Seq(Sources)
  OBVIOUS
<1>6. "NIMBUS" \in Sources /\ "METEOR3" \in Sources /\ "EARTHPROBE" \in Sources /\ "OMI" \in Sources
  BY DEF Sources
<1> DEFINE list == resolve(y)
<1> HIDE DEF list
<1>7. \/ list = << >> \/ list = <<"NIMBUS">> \/ list = <<"METEOR3", "NIMBUS">>
      \/ list = <<"METEOR3">> \/ list = <<"EARTHPROBE">> \/ list = <<"OMI", "EARTHPROBE">>
      \/ list = <<"OMI">>
  BY <1>1 DEF list
<1>8. list \in Seq(Sources)
  BY <1>5, <1>6, <1>7, Zenon
<1>9. \/ OfRange(list) = {} \/ OfRange(list) = {"NIMBUS"}
      \/ OfRange(list) = {"METEOR3", "NIMBUS"} \/ OfRange(list) = {"METEOR3"}
      \/ OfRange(list) = {"EARTHPROBE"} \/ OfRange(list) = {"OMI", "EARTHPROBE"}
      \/ OfRange(list) = {"OMI"}
  <2>1. /\ OfRange(<<"NIMBUS">>) = {"NIMBUS"} /\ OfRange(<<"METEOR3">>) = {"METEOR3"}
        /\ OfRange(<<"EARTHPROBE">>) = {"EARTHPROBE"} /\ OfRange(<<"OMI">>) = {"OMI"}
    BY <1>2, Zenon
  <2>2. /\ OfRange(<<"METEOR3", "NIMBUS">>) = {"METEOR3", "NIMBUS"}
        /\ OfRange(<<"OMI", "EARTHPROBE">>) = {"OMI", "EARTHPROBE"}
    BY <1>3, Zenon
  <2> QED
    BY <1>4, <1>7, <2>1, <2>2
<1> QED
  BY <1>8, <1>9 DEF list

LEMMA TailRange ==
  ASSUME NEW s \in Seq(Sources), s # << >>
  PROVE  /\ Tail(s) \in Seq(Sources) /\ Head(s) \in Sources
         /\ OfRange(Tail(s)) \subseteq OfRange(s) /\ Head(s) \in OfRange(s)
<1>1. Tail(s) \in Seq(Sources) /\ Head(s) \in Sources /\ Head(s) \in OfRange(s)
  BY DEF OfRange
<1>2. ASSUME NEW i \in DOMAIN Tail(s) PROVE Tail(s)[i] \in OfRange(s)
  <2>1. i + 1 \in DOMAIN s /\ Tail(s)[i] = s[i + 1]
    OBVIOUS
  <2> QED
    BY <2>1 DEF OfRange
<1> QED
  BY <1>1, <1>2 DEF OfRange

LEMMA SameYear == years' = years => Year' = Year
BY DEF Year

-----------------------------------------------------------------------------
LEMMA UpdateInitInv == UpdateInit => UpdateInv
<1> SUFFICES ASSUME UpdateInit PROVE UpdateInv
  OBVIOUS
<1>1. hdf \in [Days -> Hdfs] /\ dload \in [Years -> SUBSET File]
  BY NoFileTyped DEF UpdateInit
<1>2. UTyped
  BY <1>1, UpdateAssumption DEF UpdateInit, UTyped
<1> QED
  BY <1>2 DEF UpdateInit, UpdateInv, AtWork, Converting

LEMMA StartKeeps ==
  ASSUME UpdateInv, NEW opt \in Options, NEW span \in Spans, Start(opt, span)
  PROVE  UpdateInv'
<1>1. years' \subseteq Years
  BY DEF Start, Main, YearRange
<1>2. runs \in Nat /\ runs' = runs + 1 /\ runs' \in 0 .. MaxRuns
  BY UpdateAssumption DEF UpdateInv, UTyped, Start
<1>3. /\ pc' = "year" /\ pc = "idle"
      /\ UNCHANGED <<today, sources, doy, lastDoy, dload, tomsfile, hdf>>
  BY DEF Start
<1>4. UTyped'
  BY <1>1, <1>2, <1>3 DEF UpdateInv, UTyped
<1> QED
  BY <1>3, <1>4 DEF UpdateInv, AtWork, Converting

LEMMA ClockKeeps == UpdateInv /\ (DaysPass \/ EndRun) => UpdateInv'
<1> SUFFICES ASSUME UpdateInv, DaysPass \/ EndRun PROVE UpdateInv'
  OBVIOUS
<1>1. /\ today' \in Today /\ pc' = "idle" /\ pc # "convert"
      /\ UNCHANGED <<runs, years, sources, doy, lastDoy, dload, tomsfile, hdf>>
  BY DEF DaysPass, EndRun, UpdateInv, UTyped
<1>2. UTyped'
  BY <1>1 DEF UpdateInv, UTyped
<1> QED
  BY <1>1, <1>2 DEF UpdateInv, AtWork, Converting

LEMMA BeginYearKeeps == UpdateInv /\ BeginYear => UpdateInv'
<1> SUFFICES ASSUME UpdateInv, BeginYear PROVE UpdateInv'
  OBVIOUS
<1>1. /\ pc = "year" /\ years # {} /\ dload' = [dload EXCEPT ![Year] = {}]
      /\ UNCHANGED <<today, runs, doy, lastDoy, tomsfile, hdf>>
  BY DEF BeginYear, Cleaned
<1>2. Year \in Years /\ Year \in Nat
  BY <1>1, CurrentYear DEF UpdateInv, UTyped
<1>3. dload' \in [Years -> SUBSET File] /\ dload'[Year] = {}
  BY <1>1, <1>2 DEF UpdateInv, UTyped
<1>4. CASE years' = years \ {Year} /\ UNCHANGED <<pc, sources>>
  <2>1. UTyped'
    BY <1>1, <1>3, <1>4 DEF UpdateInv, UTyped
  <2> QED
    BY <1>1, <1>4, <2>1 DEF UpdateInv, AtWork, Converting
<1>5. CASE sources' = resolve(Year) /\ pc' = "wget" /\ UNCHANGED years
  <2>1. sources' \in Seq(Sources)
    BY <1>2, <1>5, SourcesOfYear
  <2>2. UTyped'
    BY <1>1, <1>3, <1>5, <2>1 DEF UpdateInv, UTyped
  <2>3. AtWork'
    BY <1>1, <1>3, <1>5, SameYear DEF AtWork, OwnFiles
  <2> QED
    BY <1>5, <2>2, <2>3 DEF UpdateInv, Converting
<1> QED
  BY <1>4, <1>5 DEF BeginYear

LEMMA WgetKeeps ==
  ASSUME UpdateInv, NEW some \in SUBSET {s \in DateStrs : years # {} /\ s[1] = Year}, Wget(some)
  PROVE  UpdateInv'
<1>1. /\ pc = "wget" /\ sources # << >> /\ sources' = Tail(sources)
      /\ dload' = [dload EXCEPT ![Year] = @ \union {f \in Arrived(some) : Fresh(f)}]
      /\ UNCHANGED <<today, pc, runs, years, doy, lastDoy, tomsfile, hdf>>
  BY DEF Wget
<1>2. /\ years # {} /\ Year \in Years /\ sources \in Seq(Sources) /\ dload[Year] \in SUBSET File
      /\ runs \in 1 .. MaxRuns
      /\ OwnFiles(dload[Year], Year) /\ OfRange(sources) \subseteq OfRange(resolve(Year))
  BY <1>1, CurrentYear, UpdateAssumption DEF UpdateInv, UTyped, AtWork
<1> DEFINE new == {f \in Arrived(some) : Fresh(f)}
<1>3. /\ Tail(sources) \in Seq(Sources) /\ Head(sources) \in Sources
      /\ OfRange(Tail(sources)) \subseteq OfRange(sources) /\ Head(sources) \in OfRange(sources)
  BY <1>1, <1>2, TailRange
<1>4. \A f \in new : f \in File /\ f.run = runs /\ f.source = Head(sources)
  BY <1>2, <1>3 DEF Arrived, File
<1> HIDE DEF new
<1>5. dload' \in [Years -> SUBSET File] /\ dload'[Year] = dload[Year] \union new
  BY <1>1, <1>2, <1>4 DEF UpdateInv, UTyped, new
<1>6. UTyped'
  BY <1>1, <1>3, <1>5 DEF UpdateInv, UTyped
<1>7. OwnFiles(dload'[Year], Year)
  BY <1>2, <1>3, <1>4, <1>5 DEF OwnFiles
<1>8. AtWork'
  BY <1>1, <1>2, <1>3, <1>7, SameYear DEF AtWork, OwnFiles
<1> QED
  BY <1>1, <1>6, <1>8 DEF UpdateInv, Converting

LEMMA DaysKeep == UpdateInv /\ (BeginDays \/ NoData) => UpdateInv'
<1> SUFFICES ASSUME UpdateInv, BeginDays \/ NoData PROVE UpdateInv'
  OBVIOUS
<1>1. /\ pc \in {"wget", "day"} /\ pc' = "day"
      /\ UNCHANGED <<today, runs, years, sources, dload, tomsfile, hdf>>
  BY DEF BeginDays, NoData
<1>2. doy' \in Nat
  BY NextDay DEF BeginDays, NoData, UpdateInv, UTyped
<1>3. lastDoy' \in 0 .. 366
  <2>1. today \in 0 .. 366 /\ lastDoy \in 0 .. 366
    BY UpdateAssumption DEF UpdateInv, UTyped
  <2>2. LastDay(Year) \in 0 .. 366
    BY <2>1 DEF LastDay
  <2> QED
    BY <2>1, <2>2 DEF BeginDays, NoData
<1>4. UTyped'
  BY <1>1, <1>2, <1>3 DEF UpdateInv, UTyped
<1>5. AtWork'
  BY <1>1, SameYear DEF UpdateInv, AtWork, OwnFiles
<1> QED
  BY <1>1, <1>4, <1>5 DEF UpdateInv, Converting

LEMMA PrepareKeeps == UpdateInv /\ Prepare => UpdateInv'
<1> SUFFICES ASSUME UpdateInv, Prepare PROVE UpdateInv'
  OBVIOUS
<1>1. /\ pc = "day" /\ pc' = "convert" /\ fileList # {} /\ tomsfile' = resolveFile(fileList)
      /\ hdf' = [hdf EXCEPT ![<<Year, doy>>] = NoFile]
      /\ UNCHANGED <<today, runs, years, sources, doy, lastDoy, dload>>
  BY DEF Prepare
<1>2. years # {} /\ Year \in Years /\ fileList \in SUBSET File
  BY <1>1, CurrentYear DEF UpdateInv, UTyped, AtWork, fileList
<1>3. tomsfile' \in fileList /\ \A f \in fileList : Rank(tomsfile'.source) <= Rank(f.source)
  BY <1>1, <1>2, BestFile
<1>4. tomsfile' \in File /\ tomsfile' # NoToms
  BY <1>2, <1>3, NoFileTyped
<1>5. hdf' \in [Days -> Hdfs]
  BY <1>1, NoFileTyped DEF UpdateInv, UTyped
<1>6. UTyped'
  BY <1>1, <1>4, <1>5 DEF UpdateInv, UTyped
<1>7. AtWork'
  BY <1>1, SameYear DEF UpdateInv, AtWork, OwnFiles
<1>8. Year' = Year /\ DateStr(<<Year', doy'>>) = DateStr(<<Year, doy>>) /\ dload' = dload
  BY <1>1, SameYear
<1>9. Converting'
  BY <1>3, <1>8 DEF Converting, Best, fileList
<1> QED
  BY <1>6, <1>7, <1>9 DEF UpdateInv

LEMMA ConvertKeeps == UpdateInv /\ Convert => UpdateInv'
<1> SUFFICES ASSUME UpdateInv, Convert PROVE UpdateInv'
  OBVIOUS
<1>1. PICK out \in {getOzoneSource(tomsfile), NoFile, "incomplete"} :
          /\ pc = "convert" /\ pc' = "day" /\ tomsfile' = NoToms /\ doy' = DoyAfter(doy)
          /\ hdf' = [hdf EXCEPT ![<<Year, doy>>] = out]
          /\ UNCHANGED <<today, runs, years, sources, lastDoy, dload>>
  BY DEF Convert
<1>2. doy' \in Nat
  BY <1>1, NextDay DEF UpdateInv, UTyped
<1>3. out \in Hdfs
  BY <1>1, NoFileTyped DEF UpdateInv, UTyped
<1>4. hdf' \in [Days -> Hdfs]
  BY <1>1, <1>3 DEF UpdateInv, UTyped
<1>5. UTyped'
  BY <1>1, <1>2, <1>4 DEF UpdateInv, UTyped
<1>6. AtWork'
  BY <1>1, SameYear DEF UpdateInv, AtWork, OwnFiles
<1> QED
  BY <1>1, <1>5, <1>6 DEF UpdateInv, Converting

LEMMA EndYearKeeps == UpdateInv /\ EndYear => UpdateInv'
<1> SUFFICES ASSUME UpdateInv, EndYear PROVE UpdateInv'
  OBVIOUS
<1>1. /\ pc = "day" /\ pc' = "year" /\ doy' = 1 /\ lastDoy' = 0 /\ years' = years \ {Year}
      /\ dload' = [dload EXCEPT ![Year] = {}]
      /\ UNCHANGED <<today, runs, sources, tomsfile, hdf>>
  BY DEF EndYear
<1>2. dload' \in [Years -> SUBSET File]
  BY <1>1 DEF UpdateInv, UTyped
<1>3. UTyped'
  BY <1>1, <1>2 DEF UpdateInv, UTyped
<1> QED
  BY <1>1, <1>3 DEF UpdateInv, AtWork, Converting

LEMMA InterruptKeeps == UpdateInv /\ Interrupt => UpdateInv'
<1> SUFFICES ASSUME UpdateInv, Interrupt PROVE UpdateInv'
  OBVIOUS
<1>1. /\ pc' = "idle" /\ years' = {} /\ sources' = << >> /\ doy' = 1 /\ lastDoy' = 0
      /\ tomsfile' = NoToms /\ UNCHANGED <<today, runs, dload>>
  BY DEF Interrupt
<1>2. hdf' \in [Days -> Hdfs]
  BY NoFileTyped DEF Interrupt, UpdateInv, UTyped
<1>3. UTyped'
  BY <1>1, <1>2 DEF UpdateInv, UTyped
<1> QED
  BY <1>1, <1>3 DEF UpdateInv, AtWork, Converting

LEMMA UpdateKeeps == UpdateInv /\ UpdateStep => UpdateInv'
BY StartKeeps, ClockKeeps, BeginYearKeeps, WgetKeeps, DaysKeep, PrepareKeeps, ConvertKeeps,
   EndYearKeeps, InterruptKeeps DEF UpdateStep

LEMMA IdleKeeps == UpdateInv /\ UNCHANGED updateVars => UpdateInv'
<1> SUFFICES ASSUME UpdateInv, UNCHANGED updateVars PROVE UpdateInv'
  OBVIOUS
<1>1. UTyped'
  BY DEF updateVars, UpdateInv, UTyped
<1>2. AtWork' /\ Converting'
  BY SameYear DEF updateVars, UpdateInv, AtWork, OwnFiles, Converting, Best
<1> QED
  BY <1>1, <1>2 DEF UpdateInv

-----------------------------------------------------------------------------
(* Names of files: one ends with another of as many parts when it is it.   *)
LEMMA SuffixOfThree ==
  ASSUME NEW a, NEW b, NEW c, NEW d, NEW e, NEW f
  PROVE  IsSuffix(<<a, b, c>>, <<d, e, f>>) => a = d
<1>1. Reverse(<<a, b, c>>) = <<c, b, a>> /\ Reverse(<<d, e, f>>) = <<f, e, d>>
  BY DEF Reverse
<1>2. SubSeq(<<c, b, a>>, 1, 3)[3] = a /\ SubSeq(<<f, e, d>>, 1, 3)[3] = d
  OBVIOUS
<1> QED
  BY <1>1, <1>2 DEF IsSuffix, IsPrefix

(* Only an ozone file is found under the name of one.                      *)
LEMMA FoundFile ==
  ASSUME NEW path \in find_file(Ozone)
  PROVE  path \in Tree /\ path.dir = "EP_TOMS" /\ IsSuffix(Ozone, path.name)
<1>1. path \in Tree /\ IsSuffix(Ozone, path.name)
  BY DEF find_file
<1>2. CASE path \in {Path("EP_TOMS", Toms(d[1], d[2])) : d \in {e \in Days : hdf[e] # NoFile}}
  BY <1>1, <1>2 DEF Path
<1>3. CASE path \in {Path("EP_TOMS", <<"old_">> \o Toms(d[1], d[2])) : d \in aux.copies}
  BY <1>1, <1>3 DEF Path
<1>4. CASE path \in {Path("REANALYSIS", Reanalysis(d[1], d[2])) : d \in aux.ncep}
  <2>1. PICK d \in aux.ncep : path.name = <<"REANALYSIS", d[1], d[2]>>
    BY <1>4 DEF Path, Reanalysis
  <2> QED
    BY <1>1, <2>1, SuffixOfThree DEF Ozone, Toms
<1>5. CASE path \in {Path(".", CMGDEM) : i \in IF aux.dem THEN {1} ELSE {}}
  <2>1. path.name = <<"CMGDEM", 0, 0>>
    BY <1>5 DEF Path, CMGDEM
  <2> QED
    BY <1>1, <2>1, SuffixOfThree DEF Ozone, Toms
<1> QED
  BY <1>1, <1>2, <1>3, <1>4, <1>5 DEF Tree

-----------------------------------------------------------------------------
(* The invariant of lndpm: what it knows of the scene's ozone file at each *)
(* place, and that a file it has found is still there unless an update has *)
(* removed it since.                                                       *)
Busy == {"dem", "ozone", "ncep", "write", "written", "processed"}
PmTyped ==
    /\ aux \in Directories /\ scene \in Days /\ scenes \in 0 .. MaxScenes
    /\ at \in Busy \union {"idle", "failed"}
    /\ day \in 0 .. 366 /\ (at \in Busy => day = scene[2])
    /\ ozone.dir \in {"none", "EP_TOMS"}
    /\ lndsr \in {"unwritten", "ozone", "climatology"}
    /\ missing \in BOOLEAN /\ vanished \in BOOLEAN
HasOzone == IsSuffix(Ozone, ozone.name) /\ (ozone \in Tree \/ vanished)
Searched ==
    /\ at \in {"idle", "dem", "ozone", "ncep", "write"} => lndsr = "unwritten"
    /\ at \in {"ncep", "write"} /\ ~missing => HasOzone
    /\ at \in {"written", "processed"} => HasOzone
Fallback ==
    /\ lndsr = "climatology" => vanished
    /\ at = "failed" /\ lndsr = "ozone" => vanished
PmInv == PmTyped /\ Searched /\ Fallback
IInv == UpdateInv /\ PmInv

LEMMA NotFoundDir == NotFound.dir = "none"
BY DEF NotFound, Path

LEMMA InitIInv == Init => IInv
<1> SUFFICES ASSUME Init PROVE IInv
  OBVIOUS
<1>1. scene \in Days
  BY AncillaryAssumption DEF Init
<1>2. PmTyped
  <2>1. /\ aux \in Directories /\ at = "idle" /\ scenes = 0 /\ day = 0 /\ missing = FALSE
        /\ ozone = NotFound /\ lndsr = "unwritten" /\ vanished = FALSE
    BY DEF Init
  <2>2. ozone.dir \in {"none", "EP_TOMS"}
    BY <2>1, NotFoundDir
  <2>3. scenes \in 0 .. MaxScenes
    BY <2>1, AncillaryAssumption
  <2>4. day \in 0 .. 366
    BY <2>1
  <2>5. at \in Busy \union {"idle", "failed"} /\ at \notin Busy
    BY <2>1 DEF Busy
  <2> QED
    BY <1>1, <2>1, <2>2, <2>3, <2>4, <2>5 DEF PmTyped
<1>3. Searched /\ Fallback
  BY DEF Init, Searched, Fallback
<1> QED
  BY <1>2, <1>3, UpdateInitInv DEF Init, IInv, PmInv

LEMMA SameTree == UNCHANGED <<hdf, aux>> => Tree' = Tree
BY DEF Tree
LEMMA SameOzone == UNCHANGED <<scene, day>> => Ozone' = Ozone
BY DEF Ozone, Toms

LEMMA PmStartKeeps == ASSUME PmInv, NEW d \in Days, PmStart(d) PROVE PmInv'
<1>1. scenes' \in 0 .. MaxScenes
  BY AncillaryAssumption DEF PmInv, PmTyped, PmStart
<1>2. day' = d[2] /\ d[2] \in 0 .. 366
  <2>1. day' = conv_date(DateOf(d)[1], DateOf(d)[2], d[1]).dd
    BY DEF PmStart
  <2>2. d[2] \in 1 .. 366
    BY DateOfDay
  <2>3. conv_date(DateOf(d)[1], DateOf(d)[2], d[1]).dd = d[2]
    BY ConvDate
  <2> QED
    BY <2>1, <2>2, <2>3
<1>3. /\ scene' = d /\ at' = "dem" /\ missing' = FALSE /\ ozone' = NotFound
      /\ lndsr' = "unwritten" /\ vanished' = FALSE /\ UNCHANGED aux
  BY DEF PmStart
<1>4. PmTyped'
  BY <1>1, <1>2, <1>3, NotFoundDir DEF PmInv, PmTyped, Busy
<1> QED
  BY <1>3, <1>4 DEF PmInv, Searched, Fallback

LEMMA PmFailsKeeps == ASSUME PmInv, NEW d \in Days, PmFails(d) PROVE PmInv'
<1>1. scenes' \in 0 .. MaxScenes
  BY AncillaryAssumption DEF PmInv, PmTyped, PmFails
<1>2. /\ scene' = d /\ at' = "failed" /\ lndsr' = "unwritten"
      /\ UNCHANGED <<aux, day, missing, ozone, vanished>>
  BY DEF PmFails
<1>3. PmTyped'
  BY <1>1, <1>2 DEF PmInv, PmTyped, Busy
<1> QED
  BY <1>2, <1>3 DEF PmInv, Searched, Fallback

LEMMA FindDemKeeps == PmInv /\ FindDem => PmInv'
<1> SUFFICES ASSUME PmInv, FindDem PROVE PmInv'
  OBVIOUS
<1>1. /\ at = "dem" /\ at' = "ozone" /\ missing' \in BOOLEAN
      /\ UNCHANGED <<aux, scene, scenes, day, ozone, lndsr, vanished>>
  BY DEF FindDem, Search
<1>2. PmTyped'
  BY <1>1 DEF PmInv, PmTyped, Busy
<1> QED
  BY <1>1, <1>2 DEF PmInv, Searched, Fallback

LEMMA FindOzoneKeeps == PmInv /\ FindOzone => PmInv'
<1> SUFFICES ASSUME PmInv, FindOzone PROVE PmInv'
  OBVIOUS
<1>1. /\ at = "ozone" /\ at' = "ncep" /\ missing' = (missing \/ find_file(Ozone) = {})
      /\ ozone' \in IF find_file(Ozone) = {} THEN {NotFound} ELSE find_file(Ozone)
      /\ UNCHANGED <<hdf, aux, scene, scenes, day, lndsr, vanished>>
  BY DEF FindOzone, Search, updateVars
<1>2. /\ ozone'.dir \in {"none", "EP_TOMS"}
      /\ ~missing' => ozone' \in Tree /\ IsSuffix(Ozone, ozone'.name)
  <2>1. CASE find_file(Ozone) = {}
    <3>1. ozone' = NotFound /\ missing'
      BY <1>1, <2>1
    <3> QED
      BY <3>1, NotFoundDir
  <2>2. CASE find_file(Ozone) # {}
    BY <1>1, <2>2, FoundFile
  <2> QED
    BY <2>1, <2>2
<1>3. missing' \in BOOLEAN
  BY <1>1
<1>4. PmTyped'
  BY <1>1, <1>2, <1>3 DEF PmInv, PmTyped, Busy
<1>5. ~missing' => HasOzone'
  BY <1>1, <1>2, SameTree, SameOzone DEF HasOzone
<1> QED
  BY <1>1, <1>4, <1>5 DEF PmInv, Searched, Fallback

LEMMA FindNcepKeeps == PmInv /\ FindNcep => PmInv'
<1> SUFFICES ASSUME PmInv, FindNcep PROVE PmInv'
  OBVIOUS
<1>1. /\ at = "ncep" /\ at' = "write" /\ missing' \in BOOLEAN /\ (~missing' => ~missing)
      /\ UNCHANGED <<hdf, aux, scene, scenes, day, ozone, lndsr, vanished>>
  BY DEF FindNcep, Search, updateVars
<1>2. PmTyped'
  BY <1>1 DEF PmInv, PmTyped, Busy
<1>3. HasOzone => HasOzone'
  BY <1>1, SameTree, SameOzone DEF HasOzone
<1> QED
  BY <1>1, <1>2, <1>3 DEF PmInv, Searched, Fallback

LEMMA WriteKeeps == PmInv /\ (GiveUp \/ Write) => PmInv'
<1> SUFFICES ASSUME PmInv, GiveUp \/ Write PROVE PmInv'
  OBVIOUS
<1>1. /\ at = "write" /\ lndsr = "unwritten"
      /\ UNCHANGED <<hdf, aux, scene, scenes, day, missing, ozone, vanished>>
  BY DEF GiveUp, Write, updateVars, PmInv, Searched
<1>2. \/ at' = "failed" /\ lndsr' = "unwritten"
      \/ /\ ~missing /\ at' = "written"
         /\ lndsr' = IF ozone \in Tree THEN "ozone" ELSE "climatology"
  BY <1>1 DEF GiveUp, Write, GivesUp
<1>3. PmTyped'
  BY <1>1, <1>2 DEF PmInv, PmTyped, Busy
<1>4. HasOzone => HasOzone'
  BY <1>1, SameTree, SameOzone DEF HasOzone
<1>5. ~missing => HasOzone
  BY <1>1 DEF PmInv, Searched
<1>6. Searched'
  BY <1>1, <1>2, <1>4, <1>5 DEF Searched
<1>7. Fallback'
  BY <1>1, <1>2, <1>5 DEF Fallback, HasOzone
<1> QED
  BY <1>3, <1>6, <1>7 DEF PmInv

LEMMA LndsrOpensKeeps == PmInv /\ LndsrOpens => PmInv'
<1> SUFFICES ASSUME PmInv, LndsrOpens PROVE PmInv'
  OBVIOUS
<1>1. /\ at = "written"
      /\ at' = IF lndsr = "ozone" /\ ozone \notin Tree THEN "failed" ELSE "processed"
      /\ UNCHANGED <<hdf, aux, scene, scenes, day, missing, ozone, lndsr, vanished>>
  BY DEF LndsrOpens, updateVars
<1>2. PmTyped'
  BY <1>1 DEF PmInv, PmTyped, Busy
<1>3. HasOzone /\ HasOzone'
  BY <1>1, SameTree, SameOzone DEF HasOzone, PmInv, Searched
<1>4. Searched'
  BY <1>1, <1>3 DEF Searched
<1>5. Fallback'
  BY <1>1, <1>3 DEF PmInv, Fallback, HasOzone
<1> QED
  BY <1>2, <1>4, <1>5 DEF PmInv

(* An update may take the file away, but not unnoticed.                    *)
LEMMA UpdateBeside == PmInv /\ Update => PmInv'
<1> SUFFICES ASSUME PmInv, Update PROVE PmInv'
  OBVIOUS
<1>1. /\ UNCHANGED <<aux, scene, at, scenes, day, missing, ozone, lndsr>>
      /\ vanished' = (vanished \/ (ozone \in Tree /\ ozone \notin Tree'))
  BY DEF Update
<1>2. vanished' \in BOOLEAN /\ (vanished => vanished')
  BY <1>1 DEF PmInv, PmTyped
<1>3. PmTyped'
  BY <1>1, <1>2 DEF PmInv, PmTyped
<1>4. HasOzone => HasOzone'
  BY <1>1, SameOzone DEF HasOzone
<1>5. Searched' /\ Fallback'
  BY <1>1, <1>2, <1>4 DEF PmInv, Searched, Fallback
<1> QED
  BY <1>3, <1>5 DEF PmInv

-----------------------------------------------------------------------------
LEMMA StepIInv == IInv /\ [Next]_vars => IInv'
<1> SUFFICES ASSUME IInv, [Next]_vars PROVE IInv'
  OBVIOUS
<1> USE DEF IInv
<1>1. CASE Update
  BY <1>1, UpdateKeeps, UpdateBeside DEF Update
<1>2. ASSUME NEW d \in Days, PmStart(d) PROVE IInv'
  BY <1>2, PmStartKeeps, IdleKeeps DEF PmStart
<1>3. ASSUME NEW d \in Days, PmFails(d) PROVE IInv'
  BY <1>3, PmFailsKeeps, IdleKeeps DEF PmFails
<1>4. CASE FindDem
  BY <1>4, FindDemKeeps, IdleKeeps DEF FindDem
<1>5. CASE FindOzone
  BY <1>5, FindOzoneKeeps, IdleKeeps DEF FindOzone
<1>6. CASE FindNcep
  BY <1>6, FindNcepKeeps, IdleKeeps DEF FindNcep
<1>7. CASE GiveUp \/ Write
  BY <1>7, WriteKeeps, IdleKeeps DEF GiveUp, Write
<1>8. CASE LndsrOpens
  BY <1>8, LndsrOpensKeeps, IdleKeeps DEF LndsrOpens
<1>9. CASE UNCHANGED vars
  <2>1. UNCHANGED updateVars /\ UNCHANGED pmVars
    BY <1>9 DEF vars
  <2>2. PmInv'
    <3>1. UNCHANGED <<hdf, aux, scene, at, scenes, day, missing, ozone, lndsr, vanished>>
      BY <2>1 DEF updateVars, pmVars
    <3>2. HasOzone' = HasOzone
      BY <3>1, SameTree, SameOzone DEF HasOzone
    <3> QED
      BY <3>1, <3>2 DEF PmInv, PmTyped, Searched, Fallback
  <2> QED
    BY <2>1, <2>2, IdleKeeps
<1> QED
  BY <1>1, <1>2, <1>3, <1>4, <1>5, <1>6, <1>7, <1>8, <1>9 DEF Next

LEMMA Invariance == Spec => []IInv
BY InitIInv, StepIInv, PTL DEF Spec

-----------------------------------------------------------------------------
(* UpdateToms!BestOfThisRun: the file convert_ozone is given for a day is  *)
(* this run's, for that day, of the instrument resolveFile puts first, for *)
(* any years, sources and runs cut short before.                           *)
THEOREM BestFileConverted == Spec => []BestOfThisRun
<1>1. IInv => BestOfThisRun
  <2> SUFFICES ASSUME IInv, NEW d \in Days, pc = "convert", d = <<Year, doy>>
               PROVE  /\ tomsfile.run = runs /\ tomsfile.date = DateStr(d)
                      /\ \A f \in dload[Year] : f.date = DateStr(d) =>
                            \/ f.source = tomsfile.source
                            \/ <<tomsfile.source, f.source>> \in
                                 {<<"OMI", "EARTHPROBE">>, <<"METEOR3", "NIMBUS">>}
    BY Zenon DEF BestOfThisRun
  <2>1. /\ years # {} /\ years \subseteq Years /\ OwnFiles(dload[Year], Year)
        /\ Best(dload[Year], DateStr(d))
    BY DEF IInv, UpdateInv, UTyped, AtWork, Converting
  <2>2. tomsfile.run = runs /\ tomsfile.date = DateStr(d)
    BY <2>1 DEF OwnFiles, Best
  <2>3. ASSUME NEW f \in dload[Year], f.date = DateStr(d)
        PROVE  \/ f.source = tomsfile.source
               \/ <<tomsfile.source, f.source>> \in
                    {<<"OMI", "EARTHPROBE">>, <<"METEOR3", "NIMBUS">>}
    <3>1. /\ tomsfile.source \in OfRange(resolve(Year)) /\ f.source \in OfRange(resolve(Year))
          /\ Rank(tomsfile.source) <= Rank(f.source)
      BY <2>1, <2>3 DEF OwnFiles, Best
    <3>2. Year \in Nat
      BY <2>1, CurrentYear
    <3>3. OfRange(resolve(Year)) \in {{}, {"NIMBUS"}, {"METEOR3", "NIMBUS"}, {"METEOR3"},
                                      {"EARTHPROBE"}, {"OMI", "EARTHPROBE"}, {"OMI"}}
      BY <3>2, SourcesOfYear
    <3> QED
      BY <3>1, <3>3, Ranks
  <2> QED
    BY <2>2, <2>3
<1> QED
  BY Invariance, <1>1, PTL

(* UpdateToms!RemovedOnlyWithData: no step of updatetoms.py touches the    *)
(* file of a day for which the run under way has downloaded nothing,       *)
(* wherever earlier runs were cut short.                                   *)
THEOREM ReplacedFromDownload == Spec => RemovedOnlyWithData
<1>1. IInv /\ [Next]_vars =>
        [\A d \in Days : hdf'[d] # hdf[d] =>
            \E f \in dload[d[1]] : f.date = DateStr(d) /\ f.run = runs]_updateVars
  <2> SUFFICES ASSUME IInv, [Next]_vars, NEW d \in Days, hdf'[d] # hdf[d]
               PROVE  \E f \in dload[d[1]] : f.date = DateStr(d) /\ f.run = runs
    OBVIOUS
  <2>1. UpdateStep
    BY DEF Next, vars, updateVars, Update, PmStart, PmFails, FindDem, FindOzone, FindNcep,
           GiveUp, Write, LndsrOpens
  <2>2. Prepare \/ Convert \/ (Interrupt /\ pc = "convert")
    BY <2>1 DEF UpdateStep, Start, DaysPass, BeginYear, EndRun, Wget, BeginDays, NoData, EndYear,
                Interrupt
  <2>3. d = <<Year, doy>> /\ pc \in {"day", "convert"}
    <3>1. PICK x : hdf' = [hdf EXCEPT ![<<Year, doy>>] = x]
      BY <2>2 DEF Prepare, Convert, Interrupt
    <3>2. hdf \in [Days -> Hdfs]
      BY DEF IInv, UpdateInv, UTyped
    <3>3. pc \in {"day", "convert"}
      BY <2>2 DEF Prepare, Convert
    <3> QED
      BY <3>1, <3>2, <3>3
  <2>4. \A f \in dload[Year] : f.run = runs
    BY <2>3 DEF IInv, UpdateInv, AtWork, OwnFiles
  <2>5. CASE Prepare
    BY <2>3, <2>4, <2>5 DEF Prepare, fileList
  <2>6. CASE pc = "convert"
    BY <2>3, <2>4, <2>6 DEF IInv, UpdateInv, Converting, Best
  <2> QED
    BY <2>2, <2>5, <2>6 DEF Convert
<1> QED
  BY Invariance, <1>1, PTL DEF Spec, RemovedOnlyWithData

(* Ancillary!TypeOK, for any years and days: in particular the day of the  *)
(* year lndpm computes is one.                                             *)
THEOREM TypeCorrect == Spec => []TypeOK
<1>1. IInv => TypeOK
  <2> SUFFICES ASSUME IInv PROVE TypeOK
    OBVIOUS
  <2>1. Range(sources) \subseteq Sources
    BY DEF IInv, UpdateInv, UTyped, Range
  <2>2. UpdateTypeOK
    BY <2>1 DEF IInv, UpdateInv, UTyped, UpdateTypeOK, Hdfs
  <2> QED
    BY <2>2 DEF IInv, PmInv, PmTyped, Busy, TypeOK
<1> QED
  BY Invariance, <1>1, PTL

(* Ancillary!SameDay: conv_date and the calendar of updatetoms.py agree on *)
(* every day of every year, in both directions.                            *)
THEOREM DaysAgree == Spec => []SameDay
<1>1. IInv => SameDay
  <2> SUFFICES ASSUME IInv, at = "dem"
               PROVE  /\ Ozone = Toms(scene[1], scene[2])
                      /\ conv_date(0, day, scene[1]) =
                            [mm |-> DateOf(scene)[1], dd |-> DateOf(scene)[2]]
    BY DEF SameDay
  <2>1. day = scene[2] /\ scene \in Days
    BY DEF IInv, PmInv, PmTyped, Busy
  <2> QED
    BY <2>1, ConvDate DEF Ozone
<1> QED
  BY Invariance, <1>1, PTL

(* Ancillary!OzoneUnlessRemoved: a scene is processed with the ozone found *)
(* for its day; climatology and failures need an update in between.        *)
THEOREM OzoneFound == Spec => []OzoneUnlessRemoved
<1>1. IInv => OzoneUnlessRemoved
  BY DEF IInv, PmInv, PmTyped, Busy, Searched, Fallback, HasOzone, Ozone, OzoneUnlessRemoved
<1> QED
  BY Invariance, <1>1, PTL
=============================================================================
