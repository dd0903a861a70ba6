------------------------------ MODULE Calendar ------------------------------
(***************************************************************************)
(* Days of the year, counted twice in ledaps: updatetoms.py goes from the  *)
(* day of the year to the date in a file's name, lndpm.c from the date of  *)
(* a scene to the day of the year in a file's name.                        *)
(***************************************************************************)
EXTENDS Integers, Sequences, SequencesExt, FiniteSets

(* updatetoms.py, isLeapYear. *)
isLeapYear(year) ==
    IF year % 4 # 0 THEN FALSE ELSE IF year % 100 # 0 THEN TRUE ELSE year % 400 = 0

(* lndpm.c, conv_date: ndays after its check for a leap year, and the days *)
(* of the first n months.                                                  *)
X_ndays(yyyy) == <<31, 28, 31, 30, 31, 30, 31, 31, 30, 31, 30, 31>>
ndays(yyyy) ==
    <<31, IF yyyy % 400 = 0 \/ (yyyy % 4 = 0 /\ yyyy % 100 # 0) THEN 29 ELSE 28,
      31, 30, 31, 30, 31, 31, 30, 31, 30, 31>>
DaysOf(n, yyyy) ==
    LET sum[im \in 0 .. 12] == IF im = 0 THEN 0 ELSE sum[im - 1] + ndays(yyyy)[im]
    IN  sum[n]

Invalid == [mm |-> -1, dd |-> -1]

(* The month a day of the year is taken to be in: the loop subtracts       *)
(* months until nothing is left.                                           *)
MonthReached(dd, yyyy) == {im \in 1 .. 12 : dd - DaysOf(im, yyyy) <= 0}

ToMonthAndDay(dd, yyyy) ==
    IF dd <= 0 \/ MonthReached(dd, yyyy) = {} THEN Invalid
    ELSE LET im == CHOOSE n \in MonthReached(dd, yyyy) :
                       \A k \in MonthReached(dd, yyyy) : n <= k
         IN [mm |-> im, dd |-> dd - DaysOf(im - 1, yyyy)]

X_ToDayOfYear(mm, dd, yyyy) == [mm |-> 0, dd |-> dd + DaysOf(mm, yyyy)]
ToDayOfYear(mm, dd, yyyy) ==
    IF mm <= 0 \/ dd <= 0 THEN Invalid ELSE [mm |-> 0, dd |-> dd + DaysOf(mm - 1, yyyy)]

conv_date(mm, dd, yyyy) ==
    IF mm = 0 THEN ToMonthAndDay(dd, yyyy) ELSE ToDayOfYear(mm, dd, yyyy)

(* The calendar itself, which updatetoms.py has from Python's datetime:    *)
(* a date's day of the year is how many dates of the year are not later.   *)
LengthOf(month, year) ==
    CASE month \in {4, 6, 9, 11} -> 30
      [] month = 2 -> IF (year % 4 = 0 /\ year % 100 # 0) \/ year % 400 = 0 THEN 29 ELSE 28
      [] OTHER -> 31
DatesOf(year) == {d \in (1 .. 12) \X (1 .. 31) : d[2] <= LengthOf(d[1], year)}
NotLater(d, e) == d[1] < e[1] \/ (d[1] = e[1] /\ d[2] <= e[2])
DayOfYear(date, year) == Cardinality({d \in DatesOf(year) : NotLater(d, date)})
=============================================================================
