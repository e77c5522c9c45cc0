--------------------------- MODULE Scalars_proofs ---------------------------
(***************************************************************************)
(* Proofs about what the expressions of a SELECT compute from a time and   *)
(* from vectors: that the divisions of civil_from_days are the Gregorian   *)
(* calendar, that EXTRACT and date_trunc yield the parts and the units     *)
(* meant, and that the kernels of the distances meet every component once. *)
(***************************************************************************)
EXTENDS Calendar, Vectors, NaturalFacts, FiniteSetTheorems

-----------------------------------------------------------------------------
(* Eras, years and months.                                                 *)

\* A day of an era, by its century, its four years and its year: days before each.
Placed(doe, c, q, k, r) ==
    /\ c \in 0..3 /\ q \in 0..24 /\ k \in 0..3 /\ r \in Nat /\ r <= 365
    /\ doe = 36524 * c + 1461 * q + 365 * k + r
    /\ r = 365 => k = 3 /\ (q = 24 => c = 3)

\* The year of the era that place is in.
YearIn(c, q, k) == 100 * c + 4 * q + k

\* Every day of an era has a place in it.
LEMMA PlacedExists ==
  ASSUME NEW doe \in Nat, doe < 146097
  PROVE  \E c, q, k, r \in Int : Placed(doe, c, q, k, r)
  <1>1. PICK c \in 0..3 : LET x == doe - 36524 * c
                        IN  x \in Nat /\ x <= 36524 /\ (x = 36524 => c = 3)
    <2>1. CASE doe < 36524  BY <2>1
    <2>2. CASE 36524 <= doe /\ doe < 2 * 36524  BY <2>2
    <2>3. CASE 2 * 36524 <= doe /\ doe < 3 * 36524  BY <2>3
    <2>4. CASE 3 * 36524 <= doe  BY <2>4
    <2> QED  BY <2>1, <2>2, <2>3, <2>4
  <1> DEFINE x == doe - 36524 * c
  <1>2. PICK q \in 0..24 : LET y == x - 1461 * q IN y \in Nat /\ y <= 1460
    <2>1. x \in Nat /\ x <= 36524  BY <1>1
    <2> DEFINE q0 == x \div 1461
    <2> HIDE DEF x
    <2>2. q0 \in 0..24 /\ x - 1461 * q0 \in Nat /\ x - 1461 * q0 <= 1460  BY <2>1
    <2> QED  BY <2>2
  <1> DEFINE y == x - 1461 * q
  <1>3. PICK k \in 0..3 : LET r == y - 365 * k IN r \in Nat /\ r <= 365 /\ (r = 365 => k = 3)
    <2>1. y \in Nat /\ y <= 1460  BY <1>2
    <2> HIDE DEF x, y
    <2>2. CASE y < 365  BY <2>1, <2>2
    <2>3. CASE 365 <= y /\ y < 730  BY <2>1, <2>3
    <2>4. CASE 730 <= y /\ y < 1095  BY <2>1, <2>4
    <2>5. CASE 1095 <= y  BY <2>1, <2>5
    <2> QED  BY <2>1, <2>2, <2>3, <2>4, <2>5
  <1>4. Placed(doe, c, q, k, y - 365 * k)
    BY <1>1, <1>2, <1>3 DEF Placed
  <1>5. c \in Int /\ q \in Int /\ k \in Int /\ y - 365 * k \in Int  BY <1>1, <1>2, <1>3
  <1> HIDE DEF x, y
  <1> QED  BY <1>4, <1>5

\* YearOfEra and DayOfYear find the place (civil_from_days: the divisions by 1460,
\* 36524 and 146096 take out the leap days).
LEMMA Era ==
  ASSUME NEW doe, NEW c, NEW q, NEW k, NEW r, Placed(doe, c, q, k, r)
  PROVE  YearOfEra(doe) = YearIn(c, q, k) /\ DayOfYear(doe, YearIn(c, q, k)) = r
  <1> USE DEF Placed, YearIn
  <1>1. PICK e \in 0..1 : /\ doe \div 1460 = 25 * c + q + e
                          /\ e = 1 <=> 24 * c + q + 365 * k + r >= 1460
    <2>1. CASE 24 * c + q + 365 * k + r >= 1460
      <3>1. doe = 1460 * (25 * c + q + 1) + (24 * c + q + 365 * k + r - 1460)  OBVIOUS
      <3>2. /\ 24 * c + q + 365 * k + r - 1460 \in Nat
            /\ 24 * c + q + 365 * k + r - 1460 <= 1459
        BY <2>1
      <3>3. doe \div 1460 = 25 * c + q + 1  BY <3>1, <3>2
      <3> QED  BY <2>1, <3>3
    <2>2. CASE 24 * c + q + 365 * k + r < 1460
      <3>1. doe = 1460 * (25 * c + q) + (24 * c + q + 365 * k + r)  OBVIOUS
      <3>3. doe \div 1460 = 25 * c + q  BY <2>2, <3>1
      <3> QED  BY <2>2, <3>3
    <2> QED  BY <2>1, <2>2
  <1>2. doe \div 36524 - doe \div 146096 = c
    <2>1. CASE doe = 146096
      <3>1. c = 3  BY <2>1
      <3> QED  BY <2>1, <3>1
    <2>2. CASE doe < 146096
      <3>1. doe \div 146096 = 0  BY <2>2
      <3>2. 1461 * q + 365 * k + r < 36524  BY <2>2
      <3>3. doe \div 36524 = c  BY <3>2
      <3> QED  BY <3>1, <3>3
    <2> QED  BY <2>1, <2>2
  <1>3. 0 <= r - e /\ r - e < 365  BY <1>1
  <1>4. doe - doe \div 1460 + doe \div 36524 - doe \div 146096
          = 365 * (100 * c + 4 * q + k) + (r - e)
    BY <1>1, <1>2
  <1>5. YearOfEra(doe) = 100 * c + 4 * q + k  BY <1>3, <1>4 DEF YearOfEra
  <1>6. DayOfYear(doe, 100 * c + 4 * q + k) = r
    <2>1. (100 * c + 4 * q + k) \div 4 = 25 * c + q  OBVIOUS
    <2>2. (100 * c + 4 * q + k) \div 100 = c  OBVIOUS
    <2> QED  BY <2>1, <2>2 DEF DayOfYear
  <1> QED  BY <1>5, <1>6

\* MonthOfYear finds the month, whose days 153 / 5 counts (civil_from_days).
LEMMA Month ==
  ASSUME NEW doy \in Nat, doy <= 365
  PROVE  /\ MonthOfYear(doy) \in 0..11
         /\ (153 * MonthOfYear(doy) + 2) \div 5 <= doy
         /\ doy < (153 * (MonthOfYear(doy) + 1) + 2) \div 5
  BY DEF MonthOfYear

\* Leap adds the day of a leap year.
Leap(y) == IF IsLeap(y) THEN 1 ELSE 0

\* A year is 365 days long, and one more when it is a leap year.
LEMMA YearLength ==
  ASSUME NEW y \in Int
  PROVE  /\ DaysBefore(y) \in Int /\ Leap(y) \in 0..1
         /\ DaysBefore(y + 1) = DaysBefore(y) + 365 + Leap(y)
  <1> DEFINE a == y \div 4 - (y - 1) \div 4
             b == y \div 100 - (y - 1) \div 100
             g == y \div 400 - (y - 1) \div 400
  <1>1. a = IF y % 4 = 0 THEN 1 ELSE 0  OBVIOUS
  <1>2. b = IF y % 100 = 0 THEN 1 ELSE 0  OBVIOUS
  <1>3. g = IF y % 400 = 0 THEN 1 ELSE 0  OBVIOUS
  <1>4. (y % 100 = 0 => y % 4 = 0) /\ (y % 400 = 0 => y % 100 = 0)  OBVIOUS
  <1>5. DaysBefore(y) \in Int /\ DaysBefore(y + 1) \in Int  BY DEF DaysBefore
  <1>6. Leap(y) \in 0..1  BY DEF Leap
  <1>7. DaysBefore(y + 1) = DaysBefore(y) + 365 + a - b + g  BY DEF DaysBefore
  <1> HIDE DEF a, b, g
  <1>8. CASE y % 4 # 0
    <2>1. Leap(y) = 0  BY <1>8 DEF IsLeap, Leap
    <2> QED  BY <1>1, <1>2, <1>3, <1>4, <1>5, <1>7, <1>8, <2>1
  <1>9. CASE y % 4 = 0 /\ y % 100 # 0
    <2>1. Leap(y) = 1  BY <1>9 DEF IsLeap, Leap
    <2> QED  BY <1>1, <1>2, <1>3, <1>4, <1>5, <1>7, <1>9, <2>1
  <1>10. CASE y % 100 = 0 /\ y % 400 # 0
    <2>1. Leap(y) = 0  BY <1>10 DEF IsLeap, Leap
    <2> QED  BY <1>1, <1>2, <1>3, <1>4, <1>5, <1>7, <1>10, <2>1
  <1>11. CASE y % 400 = 0
    <2>1. Leap(y) = 1  BY <1>4, <1>11 DEF IsLeap, Leap
    <2> QED  BY <1>1, <1>2, <1>3, <1>4, <1>5, <1>7, <1>11, <2>1
  <1> QED  BY <1>4, <1>5, <1>6, <1>8, <1>9, <1>10, <1>11

\* Days from the first of January 1970 to the first of March of the year
\* 400 * era + YearIn(c, q, k).
March(era, c, q, k) == 146097 * era + 36524 * c + 1461 * q + 365 * k - 719468

\* The year y that begins in March does so at start.
MarchLiesAt(start, y, c, q, k) ==
    DaysBefore(y + 1) = start + 306 /\ (IsLeap(y + 1) <=> k = 3 /\ (q = 24 => c = 3))

\* The first of March of a place lies where March says, and its February is known.
LEMMA MarchLies ==
  ASSUME NEW era \in Int, NEW doe, NEW c, NEW q, NEW k, NEW r, Placed(doe, c, q, k, r)
  PROVE  MarchLiesAt(March(era, c, q, k), 400 * era + YearIn(c, q, k), c, q, k)
  <1> DEFINE y == 400 * era + YearIn(c, q, k)
  <1>0. /\ c \in 0..3 /\ q \in 0..24 /\ k \in 0..3
        /\ y \in Int /\ y = 400 * era + 100 * c + 4 * q + k
    BY DEF Placed, YearIn
  <1> HIDE DEF y
  <1> USE <1>0
  <1>1. y \div 4 = 100 * era + 25 * c + q /\ y \div 100 = 4 * era + c /\ y \div 400 = era
    <2>1. y = 4 * (100 * era + 25 * c + q) + k  OBVIOUS
    <2>2. y \div 4 = 100 * era + 25 * c + q  BY <2>1
    <2>3. y = 100 * (4 * era + c) + (4 * q + k) /\ 4 * q + k \in 0..99  OBVIOUS
    <2>4. y \div 100 = 4 * era + c  BY <2>3
    <2>5. y = 400 * era + (100 * c + 4 * q + k) /\ 100 * c + 4 * q + k \in 0..399  OBVIOUS
    <2>6. y \div 400 = era  BY <2>5
    <2> QED  BY <2>2, <2>4, <2>6
  <1>2. DaysBefore(y + 1) = March(era, c, q, k) + 306
    <2>1. (y + 1) - 1 = y /\ (1969 \div 4) - (1969 \div 100) + (1969 \div 400) = 477  OBVIOUS
    <2>2. DaysBefore(y + 1) = 365 * (y + 1 - 1970) + (y \div 4 - y \div 100 + y \div 400) - 477
      BY <2>1 DEF DaysBefore
    <2> QED  BY <1>1, <2>2 DEF March
  <1>3. IsLeap(y + 1) <=> k = 3 /\ (q = 24 => c = 3)
    <2>1. y + 1 = 4 * (100 * era + 25 * c + q) + (k + 1)  OBVIOUS
    <2>2. (y + 1) % 4 = 0 <=> k = 3  BY <2>1
    <2>3. y + 1 = 100 * (4 * era + c) + (4 * q + k + 1) /\ 4 * q + k + 1 \in 1..100  OBVIOUS
    <2>4. (y + 1) % 100 = 0 <=> q = 24 /\ k = 3  BY <2>3
    <2>5. y + 1 = 400 * era + (100 * c + 4 * q + k + 1) /\ 100 * c + 4 * q + k + 1 \in 1..400
      OBVIOUS
    <2>6. (y + 1) % 400 = 0 <=> c = 3 /\ q = 24 /\ k = 3  BY <2>5
    <2> QED  BY <2>2, <2>4, <2>6 DEF IsLeap
  <1> QED  BY <1>2, <1>3 DEF y, MarchLiesAt

\* Days from the beginning of a year to that of each month, and to its end.
MonthsBefore(y) ==
    LET l == Leap(y)
    IN  <<0, 31, 59 + l, 90 + l, 120 + l, 151 + l, 181 + l, 212 + l, 243 + l, 273 + l,
          304 + l, 334 + l, 365 + l>>

\* Each month begins where the one before it ends.
LEMMA MonthsAdd ==
  ASSUME NEW y \in Int
  PROVE  /\ \A m \in 1..13 : MonthsBefore(y)[m] \in Int
         /\ MonthsBefore(y)[1] = 0
         /\ \A m \in 2..13 : MonthsBefore(y)[m] = MonthsBefore(y)[m - 1] + MonthDays(y)[m - 1]
         /\ \A m \in 1..12 : MonthDays(y)[m] \in Int
  <1>1. Leap(y) \in 0..1 /\ (IF IsLeap(y) THEN 29 ELSE 28) = 28 + Leap(y)
    BY DEF Leap
  <1> QED  BY <1>1 DEF MonthsBefore, MonthDays

\* The date in a year is what the days before its months say.
InMonth(y, m, days) ==
    /\ DaysBefore(y) + MonthsBefore(y)[m] <= days
    /\ days < DaysBefore(y) + MonthsBefore(y)[m + 1]

\* DateIn finds the month a day is in.
LEMMA DateInIs ==
  ASSUME NEW y \in Int, NEW days \in Int, NEW m \in 1..12, InMonth(y, m, days)
  PROVE  DateIn(y, days) = <<y, m, days - (DaysBefore(y) + MonthsBefore(y)[m]) + 1>>
  <1> DEFINE Rec(f) == [n \in 1..13 |-> IF n = 1 THEN DaysBefore(y)
                                       ELSE f[n - 1] + MonthDays(y)[n - 1]]
             before == CHOOSE f : f = Rec(f)
             given == [n \in 1..13 |-> DaysBefore(y) + MonthsBefore(y)[n]]
  <1>1. DaysBefore(y) \in Int  BY YearLength
  <1>2. given = Rec(given)
    <2> HIDE DEF given
    <2>1. ASSUME NEW n \in 1..13
          PROVE  given[n] = IF n = 1 THEN DaysBefore(y) ELSE given[n - 1] + MonthDays(y)[n - 1]
      <3>1. given[n] = DaysBefore(y) + MonthsBefore(y)[n]  BY DEF given
      <3>2. CASE n = 1  BY <1>1, <3>1, <3>2, MonthsAdd
      <3>3. CASE n # 1
        <4>1. n \in 2..13 /\ n - 1 \in 1..12 /\ n - 1 \in 1..13  BY <3>3
        <4>2. given[n - 1] = DaysBefore(y) + MonthsBefore(y)[n - 1]  BY <4>1 DEF given
        <4>3. MonthsBefore(y)[n] = MonthsBefore(y)[n - 1] + MonthDays(y)[n - 1]
          BY <4>1, MonthsAdd
        <4>4. PICK b \in Int : b = MonthsBefore(y)[n - 1]  BY <4>1, MonthsAdd
        <4>5. PICK l \in Int : l = MonthDays(y)[n - 1]  BY <4>1, MonthsAdd
        <4>6. given[n] = given[n - 1] + MonthDays(y)[n - 1]
          <5>1. DaysBefore(y) + (b + l) = (DaysBefore(y) + b) + l  BY <1>1
          <5> QED  BY <3>1, <4>2, <4>3, <4>4, <4>5, <5>1
        <4> QED  BY <3>3, <4>6
      <3> QED  BY <3>2, <3>3
    <2>2. given = [n \in 1..13 |-> given[n]]  BY DEF given
    <2> QED  BY <2>1, <2>2
  <1>3. before = Rec(before)  BY <1>2
  <1> HIDE DEF before
  <1>4. ASSUME NEW n \in 1..13 PROVE before[n] = DaysBefore(y) + MonthsBefore(y)[n]
    <2> HIDE DEF given
    <2> DEFINE S == {i \in Nat : i + 1 \in 1..13 => before[i + 1] = given[i + 1]}
    <2>1. 0 \in S  BY <1>2, <1>3
    <2>2. ASSUME NEW i \in Nat, i \in S PROVE i + 1 \in S
      <3> SUFFICES ASSUME i + 2 \in 1..13 PROVE before[i + 2] = given[i + 2]  OBVIOUS
      <3>1. i + 2 # 1 /\ (i + 2) - 1 = i + 1 /\ i + 1 \in 1..13  OBVIOUS
      <3>2. before[i + 2] = before[i + 1] + MonthDays(y)[i + 1]  BY <1>3, <3>1
      <3>3. given[i + 2] = given[i + 1] + MonthDays(y)[i + 1]  BY <1>2, <3>1
      <3> QED  BY <2>2, <3>1, <3>2, <3>3
    <2> HIDE DEF S
    <2>3. \A i \in Nat : i \in S  BY <2>1, <2>2, Induction
    <2>4. n - 1 \in Nat /\ (n - 1) + 1 = n  OBVIOUS
    <2>5. before[n] = given[n]  BY <2>3, <2>4 DEF S
    <2> QED  BY <2>5 DEF given
  <1> HIDE DEF given
  <1> DEFINE month == CHOOSE n \in 1..12 : before[n] <= days /\ days < before[n + 1]
  <1>5. DateIn(y, days) = <<y, month, days - before[month] + 1>>
    BY DEF DateIn, before
  <1>6. before[m] <= days /\ days < before[m + 1]
    BY <1>4 DEF InMonth
  <1>7. ASSUME NEW n \in 1..12, before[n] <= days /\ days < before[n + 1] PROVE n = m
    <2>1. \A i, j \in 1..13 : i <= j => MonthsBefore(y)[i] <= MonthsBefore(y)[j]
      <3>1. Leap(y) \in Int /\ 0 <= Leap(y)  BY YearLength
      <3> QED  BY <3>1 DEF MonthsBefore
    <2>2. /\ DaysBefore(y) + MonthsBefore(y)[n] <= days
          /\ days < DaysBefore(y) + MonthsBefore(y)[n + 1]
      BY <1>4, <1>7
    <2>3. \A i \in 1..13 : MonthsBefore(y)[i] \in Int  BY MonthsAdd
    <2>4. ~(n < m)
      <3> SUFFICES ASSUME n < m PROVE FALSE  OBVIOUS
      <3>1. n + 1 \in 1..13 /\ m \in 1..13 /\ n + 1 <= m  OBVIOUS
      <3>2. MonthsBefore(y)[n + 1] <= MonthsBefore(y)[m]  BY <2>1, <3>1
      <3> QED  BY <1>1, <2>2, <2>3, <3>1, <3>2 DEF InMonth
    <2>5. ~(m < n)
      <3> SUFFICES ASSUME m < n PROVE FALSE  OBVIOUS
      <3>1. m + 1 \in 1..13 /\ n \in 1..13 /\ m + 1 <= n  OBVIOUS
      <3>2. MonthsBefore(y)[m + 1] <= MonthsBefore(y)[n]  BY <2>1, <3>1
      <3> QED  BY <1>1, <2>2, <2>3, <3>1, <3>2 DEF InMonth
    <2> QED  BY <2>4, <2>5
  <1>8. month = m
    <2>1. month \in 1..12 /\ before[month] <= days /\ days < before[month + 1]  BY <1>6
    <2> HIDE DEF month
    <2> QED  BY <1>7, <2>1
  <1> HIDE DEF month
  <1>9. before[m] = DaysBefore(y) + MonthsBefore(y)[m]  BY <1>4
  <1> QED  BY <1>5, <1>8, <1>9

\* Where the months lie that are counted from March.
LEMMA MarchMonths ==
  ASSUME NEW y \in Int
  PROVE  /\ \A mp \in 0..10 : MonthsBefore(y)[mp + 3] = 59 + Leap(y) + (153 * mp + 2) \div 5
         /\ \A mp \in 10..11 : MonthsBefore(y)[mp - 9] = (153 * mp + 2) \div 5 - 306
         /\ MonthsBefore(y)[3] = 59 + Leap(y)
  BY YearLength, SMTT(30) DEF MonthsBefore

\* A day is in a year.
InYear(y, days) == DaysBefore(y) <= days /\ days < DaysBefore(y + 1)

\* civil_from_days (src/src/exec.rs) gives the date of the Gregorian calendar for every
\* number of days before and behind 1970: the year is the one that holds the day, and
\* month and day are counted in it month by month.
THEOREM DatesAreGregorian ==
  ASSUME NEW days \in Int
  PROVE  \E y \in Int : InYear(y, days) /\ CivilFromDays(days) = DateIn(y, days)
  <1> DEFINE z == days + 719468
             era == z \div 146097
             doe == z % 146097
  <1>1. era \in Int /\ doe \in Nat /\ doe < 146097 /\ z = 146097 * era + doe
    BY Divided
  <1> HIDE DEF era, doe
  <1>2. PICK c, q, k, r \in Int : Placed(doe, c, q, k, r)  BY <1>1, PlacedExists
  <1> DEFINE y == 400 * era + YearIn(c, q, k)
             mp == MonthOfYear(r)
             start == March(era, c, q, k)
  <1>3. /\ c \in 0..3 /\ q \in 0..24 /\ k \in 0..3 /\ r \in Nat /\ r <= 365 /\ y \in Int
        /\ r = 365 => k = 3 /\ (q = 24 => c = 3)
    BY <1>1, <1>2 DEF Placed, YearIn
  <1>4. days = start + r /\ start \in Int
    <2>1. doe = 36524 * c + 1461 * q + 365 * k + r  BY <1>2 DEF Placed
    <2>2. days = 146097 * era + doe - 719468  BY <1>1 DEF z
    <2> QED  BY <1>1, <1>3, <2>1, <2>2 DEF March
  <1>5. CivilFromDays(days) = FromMarch(y, r, mp)
    <2>1. YearOfEra(doe) = YearIn(c, q, k) /\ DayOfYear(doe, YearIn(c, q, k)) = r
      BY <1>2, Era
    <2>2. YearIn(c, q, k) + era * 400 = y  BY <1>1, <1>3 DEF YearIn
    <2>3. CivilFromDays(days) = CivilOfEra(era, doe, YearOfEra(doe))
      BY DEF CivilFromDays, era, doe
    <2> HIDE DEF y, mp
    <2> QED  BY <2>1, <2>2, <2>3 DEF CivilOfEra, mp
  <1>6. /\ DaysBefore(y + 1) = start + 306 /\ DaysBefore(y) \in Int /\ DaysBefore(y + 1) \in Int
        /\ DaysBefore(y) = start - 59 - Leap(y) /\ Leap(y) \in 0..1
        /\ DaysBefore(y + 2) = start + 671 + Leap(y + 1) /\ Leap(y + 1) \in 0..1
        /\ r = 365 => Leap(y + 1) = 1
    <2>1. DaysBefore(y + 1) = start + 306 /\ (IsLeap(y + 1) <=> k = 3 /\ (q = 24 => c = 3))
      <3>1. MarchLiesAt(start, y, c, q, k)  BY <1>1, <1>2, MarchLies
      <3> QED  BY <3>1 DEF MarchLiesAt
    <2> HIDE DEF y, start
    <2>2. /\ DaysBefore(y + 1) = DaysBefore(y) + 365 + Leap(y) /\ DaysBefore(y) \in Int
          /\ Leap(y) \in 0..1
      BY <1>3, YearLength
    <2>3. /\ DaysBefore((y + 1) + 1) = DaysBefore(y + 1) + 365 + Leap(y + 1)
          /\ DaysBefore(y + 1) \in Int /\ Leap(y + 1) \in 0..1 /\ (y + 1) + 1 = y + 2
      BY <1>3, YearLength
    <2>4. r = 365 => Leap(y + 1) = 1  BY <1>3, <2>1 DEF Leap
    <2> QED  BY <1>4, <2>1, <2>2, <2>3, <2>4
  <1>7. /\ mp \in 0..11 /\ (153 * mp + 2) \div 5 <= r /\ r < (153 * (mp + 1) + 2) \div 5
    BY <1>3, Month
  <1> HIDE DEF y, mp, start
  <1>8. CASE mp < 10
    <2>1. mp \in 0..9 /\ mp + 1 \in 0..10 /\ mp \in 0..10 /\ mp + 3 \in 1..12  BY <1>7, <1>8
    <2>2. /\ MonthsBefore(y)[mp + 3] = 59 + Leap(y) + (153 * mp + 2) \div 5
          /\ MonthsBefore(y)[(mp + 1) + 3] = 59 + Leap(y) + (153 * (mp + 1) + 2) \div 5
      BY <1>3, <2>1, MarchMonths
    <2>3. (mp + 1) + 3 = (mp + 3) + 1  BY <2>1
    <2>4. /\ DaysBefore(y) + MonthsBefore(y)[mp + 3] = start + (153 * mp + 2) \div 5
          /\ DaysBefore(y) + MonthsBefore(y)[(mp + 3) + 1] = start + (153 * (mp + 1) + 2) \div 5
      BY <1>4, <1>6, <2>1, <2>2, <2>3
    <2>5. DateIn(y, days) = <<y, mp + 3, days - (DaysBefore(y) + MonthsBefore(y)[mp + 3]) + 1>>
      <3>1. InMonth(y, mp + 3, days)  BY <1>3, <1>4, <1>7, <2>1, <2>4 DEF InMonth
      <3> QED  BY <1>3, <2>1, <3>1, DateInIs
    <2>6. days - (DaysBefore(y) + MonthsBefore(y)[mp + 3]) + 1 = r - (153 * mp + 2) \div 5 + 1
      BY <1>3, <1>4, <2>1, <2>4
    <2>7. FromMarch(y, r, mp) = <<y, mp + 3, r - (153 * mp + 2) \div 5 + 1>>
      BY <1>8 DEF FromMarch
    <2>8. InYear(y, days)
      <3>1. r < 306  BY <1>3, <1>7, <2>1
      <3> QED  BY <1>3, <1>4, <1>6, <3>1 DEF InYear
    <2> QED  BY <1>3, <1>5, <2>5, <2>6, <2>7, <2>8
  <1>9. CASE mp >= 10
    <2>1. mp \in 10..11 /\ mp - 9 \in 1..2  BY <1>7, <1>9
    <2>2. MonthsBefore(y + 1)[mp - 9] = (153 * mp + 2) \div 5 - 306 /\ y + 1 \in Int
      BY <1>3, <2>1, MarchMonths
    <2>3. DaysBefore(y + 1) + MonthsBefore(y + 1)[mp - 9] = start + (153 * mp + 2) \div 5
      BY <1>4, <1>6, <2>1, <2>2
    <2>4. days < DaysBefore(y + 1) + MonthsBefore(y + 1)[(mp - 9) + 1]
      <3>1. CASE mp = 10
        <4>1. MonthsBefore(y + 1)[2] = 31  BY <2>2, MarchMonths, <3>1
        <4>2. r < 337  BY <1>7, <3>1
        <4> QED  BY <1>3, <1>4, <1>6, <3>1, <4>1, <4>2
      <3>2. CASE mp = 11
        <4>1. MonthsBefore(y + 1)[3] = 59 + Leap(y + 1)  BY <2>2, MarchMonths
        <4> QED  BY <1>3, <1>4, <1>6, <3>2, <4>1
      <3> QED  BY <2>1, <3>1, <3>2
    <2>5. DateIn(y + 1, days)
            = <<y + 1, mp - 9, days - (DaysBefore(y + 1) + MonthsBefore(y + 1)[mp - 9]) + 1>>
      <3>1. mp - 9 \in 1..12  BY <2>1
      <3>2. InMonth(y + 1, mp - 9, days)  BY <1>3, <1>4, <1>7, <2>1, <2>3, <2>4 DEF InMonth
      <3> QED  BY <2>2, <3>1, <3>2, DateInIs, SMTT(30)
    <2>6. days - (DaysBefore(y + 1) + MonthsBefore(y + 1)[mp - 9]) + 1
            = r - (153 * mp + 2) \div 5 + 1
      BY <1>3, <1>4, <2>1, <2>3
    <2>7. FromMarch(y, r, mp) = <<y + 1, mp - 9, r - (153 * mp + 2) \div 5 + 1>>
      BY <1>9, <2>1 DEF FromMarch
    <2>8. InYear(y + 1, days)
      <3>1. r >= 306  BY <1>3, <1>7, <2>1
      <3>2. (y + 1) + 1 = y + 2  BY <1>3
      <3> QED  BY <1>3, <1>4, <1>6, <3>1, <3>2 DEF InYear
    <2> QED  BY <1>5, <2>2, <2>5, <2>6, <2>7, <2>8
  <1> QED  BY <1>7, <1>8, <1>9

\* No day lies in two years.
LEMMA OneYear ==
  ASSUME NEW x \in Int, NEW y \in Int, x < y
  PROVE  DaysBefore(x + 1) <= DaysBefore(y)
  <1> DEFINE S == {i \in Nat : DaysBefore(x + 1) <= DaysBefore(x + 1 + i)}
  <1>1. 0 \in S
    <2>1. x + 1 + 0 = x + 1 /\ DaysBefore(x + 1) \in Int  BY YearLength
    <2> QED  BY <2>1
  <1>2. ASSUME NEW i \in Nat, i \in S PROVE i + 1 \in S
    <2>1. /\ DaysBefore(x + 1 + i) \in Int /\ DaysBefore(x + 1) \in Int
          /\ Leap(x + 1 + i) \in 0..1
          /\ DaysBefore((x + 1 + i) + 1) = DaysBefore(x + 1 + i) + 365 + Leap(x + 1 + i)
      BY YearLength
    <2>2. (x + 1 + i) + 1 = x + 1 + (i + 1)  OBVIOUS
    <2> QED  BY <1>2, <2>1, <2>2
  <1> HIDE DEF S
  <1>3. \A i \in Nat : i \in S  BY <1>1, <1>2, Induction
  <1>4. y - x - 1 \in Nat /\ x + 1 + (y - x - 1) = y  OBVIOUS
  <1> QED  BY <1>3, <1>4 DEF S

\* A day is in one year.
LEMMA YearUnique ==
  ASSUME NEW x \in Int, NEW y \in Int, NEW days \in Int, InYear(x, days), InYear(y, days)
  PROVE  x = y
  <1>1. \A i \in Int : DaysBefore(i) \in Int /\ i + 1 \in Int  BY YearLength
  <1>2. ~(x < y)  BY OneYear, <1>1 DEF InYear
  <1>3. ~(y < x)  BY OneYear, <1>1 DEF InYear
  <1> QED  BY <1>2, <1>3

\* The days whose year CivilByCounting looks for near enough: those of the years
\* from -766 on to 4706.
Countable(days) == -1000000 <= days /\ days <= 1000000

\* The year of such a day is near the quotient by 365.
LEMMA YearNear ==
  ASSUME NEW y \in Int, NEW days \in Int, InYear(y, days), Countable(days)
  PROVE  y \in (1970 + days \div 365 - 3)..(1970 + days \div 365 + 3)
  <1>1. DaysBefore(y) \in Int /\ Leap(y) \in 0..1
        /\ DaysBefore(y + 1) = DaysBefore(y) + 365 + Leap(y)
    BY YearLength
  <1> DEFINE l == (y - 1) \div 4 - (y - 1) \div 100 + (y - 1) \div 400 - 477
  <1>2. DaysBefore(y) = 365 * (y - 1970) + l /\ l \in Int  BY DEF DaysBefore
  <1>3. /\ 400 * l <= 97 * (y - 1) - 190800 + 400
        /\ 97 * (y - 1) - 190800 - 800 <= 400 * l
    <2>1. PICK a \in Int, b \in Int, g \in Int :
             /\ a = (y - 1) \div 4 /\ b = (y - 1) \div 100 /\ g = (y - 1) \div 400
             /\ 4 * a <= y - 1 /\ y - 1 < 4 * a + 4
             /\ 100 * b <= y - 1 /\ y - 1 < 100 * b + 100
             /\ 400 * g <= y - 1 /\ y - 1 < 400 * g + 400
      OBVIOUS
    <2>2. l = a - b + g - 477  BY <2>1
    <2> HIDE DEF l
    <2> QED  BY <2>1, <2>2
  <1> HIDE DEF l
  <1>4. PICK d \in Int : d = days \div 365 /\ 365 * d <= days /\ days < 365 * d + 365
    OBVIOUS
  <1>5. 365 * (y - 1970) + l <= days /\ days < 365 * (y - 1970) + l + 366
    BY <1>1, <1>2 DEF InYear
  <1>6. -3 <= y - 1970 - d /\ y - 1970 - d <= 3
    BY <1>2, <1>3, <1>4, <1>5 DEF Countable
  <1> QED  BY <1>4, <1>6

\* For such days CivilByCounting, which runs compute, is that calendar too.
LEMMA CountingFinds ==
  ASSUME NEW days \in Int, Countable(days)
  PROVE  CivilFromDays(days) = CivilByCounting(days)
  <1>1. PICK y \in Int : InYear(y, days) /\ CivilFromDays(days) = DateIn(y, days)
    BY DatesAreGregorian
  <1> DEFINE near == (1970 + days \div 365 - 3)..(1970 + days \div 365 + 3)
             found == CHOOSE x \in near : DaysBefore(x) <= days /\ days < DaysBefore(x + 1)
  <1>2. y \in near  BY <1>1, YearNear
  <1>3. found \in near /\ InYear(found, days)  BY <1>1, <1>2 DEF InYear
  <1>4. found = y
    <2>1. found \in Int  BY <1>3
    <2> HIDE DEF found
    <2> QED  BY <1>1, <1>3, <2>1, YearUnique
  <1>5. CivilByCounting(days) = DateIn(found, days)  BY DEF CivilByCounting
  <1> QED  BY <1>1, <1>4, <1>5

-----------------------------------------------------------------------------
(* Units and parts of a time.                                              *)

\* The multiple of d that is at most d - 1 below a time is its quotient's.
LEMMA Multiple ==
  ASSUME NEW d \in Nat \ {0}, NEW ts \in Int, NEW x \in (ts - d + 1)..ts, x % d = 0
  PROVE  x = (ts \div d) * d
  <1>1. PICK q \in Int : x = d * q
    <2>1. x \in Int  OBVIOUS
    <2>2. PICK q \in Int, r \in Int : q = x \div d /\ r = x % d /\ x = d * q + r
      BY <2>1, Divided
    <2> QED  BY <2>2, SMTT(30)
  <1>2. q * d = x /\ (q + 1) * d = x + d  BY <1>1
  <1>3. q * d <= ts /\ ts < (q + 1) * d  BY <1>2
  <1>4. ts \div d = q  BY <1>3, Quotient
  <1> QED  BY <1>2, <1>4

\* date_trunc (scalar_func in src/src/exec.rs) cuts every time, those before 1970
\* included, to the last whole unit that is not behind it.
THEOREM CutsAreMeant ==
  ASSUME NEW unit \in Units, NEW ts \in Int
  PROVE  DateTrunc(unit, ts) = CutMeant(unit, ts)
  <1> DEFINE step == CASE unit = "second" -> 1
                       [] unit = "minute" -> MinuteSeconds
                       [] unit = "hour"   -> HourSeconds
                       [] unit = "day"    -> DaySeconds
             cut == CHOOSE x \in (ts - step + 1)..ts : x % step = 0
  <1>1. step \in Nat \ {0}
    <2>1. CASE unit = "second"
      <3>1. step = 1  BY <2>1
      <3> HIDE DEF step
      <3> QED  BY <3>1
    <2>2. CASE unit = "minute"
      <3>1. step = MinuteSeconds  BY <2>2
      <3> HIDE DEF step
      <3> QED  BY <3>1, CalendarAssumption
    <2>3. CASE unit = "hour"
      <3>1. step = HourSeconds  BY <2>3
      <3> HIDE DEF step
      <3> QED  BY <3>1, CalendarAssumption
    <2>4. CASE unit = "day"
      <3>1. step = DaySeconds  BY <2>4
      <3> HIDE DEF step
      <3> QED  BY <3>1, CalendarAssumption
    <2> QED  BY <2>1, <2>2, <2>3, <2>4 DEF Units
  <1>2. DateTrunc(unit, ts) = (ts \div step) * step  BY DEF DateTrunc
  <1>3. CutMeant(unit, ts) = cut  BY DEF CutMeant
  <1> HIDE DEF step
  <1> DEFINE x == (ts \div step) * step
  <1>4. x \in (ts - step + 1)..ts /\ x % step = 0
    <2>1. PICK q \in Int : q = ts \div step /\ q * step <= ts /\ ts < (q + 1) * step
      BY <1>1, QuotientBounds
    <2>2. (q + 1) * step = q * step + step /\ q * step \in Int /\ step * q = q * step  BY <1>1
    <2>3. (q * step) % step = 0
      <3>1. DividesInto(q * step, step, q, 0)  BY <1>1, <2>2 DEF DividesInto
      <3> QED  BY <1>1, <3>1, QuotientIs
    <2> QED  BY <1>1, <2>1, <2>2, <2>3
  <1>5. cut \in (ts - step + 1)..ts /\ cut % step = 0  BY <1>4
  <1> HIDE DEF cut
  <1>6. cut = x  BY <1>1, <1>5, Multiple
  <1> QED  BY <1>2, <1>3, <1>6

\* The day of a time in whole days.
LEMMA DayMeant ==
  ASSUME NEW ts \in Int
  PROVE  (CHOOSE d \in {(ts - s) \div DaySeconds : s \in 0..(DaySeconds - 1)} :
            d * DaySeconds <= ts /\ ts < (d + 1) * DaySeconds) = ts \div DaySeconds
  <1> DEFINE D == {(ts - s) \div DaySeconds : s \in 0..(DaySeconds - 1)}
             day == CHOOSE d \in D : d * DaySeconds <= ts /\ ts < (d + 1) * DaySeconds
  <1>1. DaySeconds \in Nat \ {0}  BY CalendarAssumption
  <1>2. ts \div DaySeconds \in D
    <2>1. 0 \in 0..(DaySeconds - 1) /\ ts - 0 = ts  BY <1>1
    <2> QED  BY <2>1
  <1>3. D \subseteq Int
    <2>1. \A s \in 0..(DaySeconds - 1) : ts - s \in Int  BY <1>1
    <2> QED  BY <1>1, <2>1, QuotientBounds
  <1> HIDE DEF D
  <1>4. day \in D /\ day * DaySeconds <= ts /\ ts < (day + 1) * DaySeconds
    BY <1>1, <1>2, QuotientBounds
  <1> HIDE DEF day
  <1>5. day = ts \div DaySeconds  BY <1>1, <1>3, <1>4, Quotient
  <1> QED  BY <1>5 DEF day, D

\* Hours and minutes of a number of seconds, whatever a minute and an hour last.
LEMMA HoursAndMinutes ==
  ASSUME NEW secs \in Nat
  PROVE  LET minutes == secs \div MinuteSeconds
             perHour == HourSeconds \div MinuteSeconds
         IN  /\ minutes \div perHour = secs \div HourSeconds
             /\ minutes % perHour = (secs % HourSeconds) \div MinuteSeconds
  <1> DEFINE m == MinuteSeconds
             p == HourSeconds \div MinuteSeconds
  <1>1. m \in Nat \ {0} /\ HourSeconds \in Nat \ {0} /\ HourSeconds % m = 0
    BY CalendarAssumption
  <1>2. p \in Nat \ {0} /\ HourSeconds = m * p
    <2>1. PICK q \in Int, r \in Int : /\ q = HourSeconds \div m /\ r = HourSeconds % m
                                      /\ HourSeconds = m * q + r
      BY <1>1, Divided
    <2>2. HourSeconds = m * q  BY <1>1, <2>1
    <2>3. q > 0
      <3> SUFFICES ASSUME q <= 0 PROVE FALSE  OBVIOUS
      <3>1. PICK n \in Nat : q = -n
        <4>1. -q \in Nat /\ q = -(-q)  OBVIOUS
        <4> QED  BY <4>1
      <3>2. m * q = -(m * n) /\ m * n \in Nat  BY <1>1, <3>1
      <3> QED  BY <1>1, <2>2, <3>2
    <2> QED  BY <2>1, <2>2, <2>3
  <1> HIDE DEF m, p
  <1>3. PICK h \in Int, rest \in Int : /\ h = secs \div HourSeconds /\ rest = secs % HourSeconds
                                       /\ 0 <= rest /\ rest < HourSeconds
                                       /\ secs = HourSeconds * h + rest
    BY <1>1, Divided
  <1>4. PICK n \in Int, s \in Int : /\ n = rest \div m /\ s = rest % m
                                    /\ 0 <= s /\ s < m /\ rest = m * n + s
    BY <1>1, Divided
  <1>5. 0 <= n /\ n < p
    <2>1. n >= 0
      <3> SUFFICES ASSUME n < 0 PROVE FALSE  OBVIOUS
      <3>1. PICK i \in Nat : n = -1 - i
        <4>1. -1 - n \in Nat /\ n = -1 - (-1 - n)  OBVIOUS
        <4> QED  BY <4>1
      <3>2. PICK a \in Nat : a = m * i  BY <1>1
      <3>3. m * n = -m - a  BY <1>1, <3>1, <3>2
      <3>4. rest = -m - a + s  BY <1>4, <3>3
      <3> QED  BY <1>1, <1>3, <1>4, <3>4
    <2>2. n < p
      <3> SUFFICES ASSUME n >= p PROVE FALSE  BY <1>2, <1>4
      <3>1. PICK i \in Nat : n = p + i
        <4>1. n - p \in Nat /\ n = p + (n - p)  BY <1>2
        <4> QED  BY <4>1
      <3>2. m * n = m * p + m * i /\ m * i \in Nat /\ m * p \in Int  BY <1>1, <1>2, <3>1
      <3> QED  BY <1>1, <1>2, <1>3, <1>4, <3>2
    <2> QED  BY <2>1, <2>2
  <1>6. secs \div m = p * h + n
    <2>1. (m * p) * h = m * (p * h) /\ m * (p * h + n) = m * (p * h) + m * n
          /\ p * h + n \in Int /\ m * (p * h) \in Int /\ m * n \in Int
      BY <1>1, <1>2
    <2>2. secs = m * (p * h + n) + s  BY <1>2, <1>3, <1>4, <2>1
    <2>3. DividesInto(secs, m, p * h + n, s)  BY <1>4, <2>1, <2>2 DEF DividesInto
    <2> QED  BY <1>1, <2>3, QuotientIs
  <1>7. (p * h + n) \div p = h /\ (p * h + n) % p = n
    <2>1. DividesInto(p * h + n, p, h, n)  BY <1>2, <1>5 DEF DividesInto
    <2> QED  BY <1>2, <2>1, QuotientIs
  <1> QED  BY <1>3, <1>4, <1>6, <1>7 DEF m, p

\* The minute of a day, counted from its beginning.
LEMMA MinuteMeant ==
  ASSUME NEW ts \in Int
  PROVE  (CHOOSE n \in 0..(DaySeconds \div MinuteSeconds) :
            LET rest == ts - (ts \div DaySeconds) * DaySeconds - n * MinuteSeconds
            IN  0 <= rest /\ rest < MinuteSeconds)
         = (ts % DaySeconds) \div MinuteSeconds
  <1> DEFINE secs == ts - (ts \div DaySeconds) * DaySeconds
             N == 0..(DaySeconds \div MinuteSeconds)
             minute == CHOOSE n \in N : LET rest == secs - n * MinuteSeconds
                                        IN  0 <= rest /\ rest < MinuteSeconds
  <1>1. DaySeconds \in Nat \ {0} /\ MinuteSeconds \in Nat \ {0}  BY CalendarAssumption
  <1>2. secs = ts % DaySeconds /\ secs \in Nat /\ secs < DaySeconds
    <2>1. PICK q \in Int, r \in Int : /\ q = ts \div DaySeconds /\ r = ts % DaySeconds
                                      /\ 0 <= r /\ r < DaySeconds /\ ts = DaySeconds * q + r
      BY <1>1, Divided
    <2>2. q * DaySeconds = DaySeconds * q /\ q * DaySeconds \in Int  BY <1>1
    <2> QED  BY <1>1, <2>1, <2>2
  <1> HIDE DEF secs
  <1>3. \A n \in Int : /\ n * MinuteSeconds \in Int
                       /\ (n + 1) * MinuteSeconds = n * MinuteSeconds + MinuteSeconds
    BY <1>1
  <1>4. PICK n \in Int : /\ n = secs \div MinuteSeconds
                         /\ n * MinuteSeconds <= secs /\ secs < (n + 1) * MinuteSeconds
    <2>1. secs \in Int  BY <1>2
    <2> QED  BY <1>1, <2>1, QuotientBounds
  <1>5. n \in N
    <2>1. PICK d \in Int : /\ d = DaySeconds \div MinuteSeconds
                           /\ d * MinuteSeconds <= DaySeconds
                           /\ DaySeconds < (d + 1) * MinuteSeconds
      BY <1>1, QuotientBounds
    <2>2. n <= d
      <3> SUFFICES ASSUME d < n PROVE FALSE  OBVIOUS
      <3>1. PICK i \in Nat : n = (d + 1) + i
        <4>1. n - d - 1 \in Nat /\ n = (d + 1) + (n - d - 1)  OBVIOUS
        <4> QED  BY <4>1
      <3>2. PICK a \in Nat : a = i * MinuteSeconds  BY <1>1
      <3>3. n * MinuteSeconds = (d + 1) * MinuteSeconds + a  BY <1>1, <3>1, <3>2
      <3>4. (d + 1) * MinuteSeconds \in Int  BY <1>3
      <3> QED  BY <1>1, <1>2, <1>4, <2>1, <3>3, <3>4
    <2>3. n >= 0
      <3> SUFFICES ASSUME n < 0 PROVE FALSE  OBVIOUS
      <3>1. PICK i \in Nat : n + 1 = -i
        <4>1. -n - 1 \in Nat /\ n + 1 = -(-n - 1)  OBVIOUS
        <4> QED  BY <4>1
      <3>2. PICK a \in Nat : a = i * MinuteSeconds  BY <1>1
      <3>3. (n + 1) * MinuteSeconds = -a  BY <1>1, <3>1, <3>2
      <3> QED  BY <1>2, <1>4, <3>3
    <2> QED  BY <2>1, <2>2, <2>3
  <1>6. minute \in N /\ LET rest == secs - minute * MinuteSeconds
                        IN  0 <= rest /\ rest < MinuteSeconds
    <2>1. 0 <= secs - n * MinuteSeconds /\ secs - n * MinuteSeconds < MinuteSeconds
      BY <1>1, <1>2, <1>3, <1>4
    <2> QED  BY <1>5, <2>1
  <1>7. minute \in Int  BY <1>6
  <1> HIDE DEF minute, N
  <1>8. minute * MinuteSeconds <= secs /\ secs < (minute + 1) * MinuteSeconds
    BY <1>1, <1>2, <1>3, <1>6, <1>7
  <1>9. secs \div MinuteSeconds = minute
    <2>1. secs \in Int  BY <1>2
    <2> QED  BY <1>1, <1>7, <1>8, <2>1, Quotient
  <1> QED  BY <1>2, <1>9 DEF minute, N, secs

\* EXTRACT (extract_part in src/src/exec.rs) yields the hour and the minute of every
\* time, and the day, month and year of every time whose date is countable: what
\* counting out its day from its beginning, minute by minute, yields.
THEOREM PartsAreMeant ==
  ASSUME NEW part \in Parts, NEW ts \in Int,
         part \in {"hour", "minute"} \/ Countable(ts \div DaySeconds)
  PROVE  ExtractPart(part, ts) = PartMeant(part, ts)
  <1> DEFINE day == CHOOSE d \in {(ts - s) \div DaySeconds : s \in 0..(DaySeconds - 1)} :
                       d * DaySeconds <= ts /\ ts < (d + 1) * DaySeconds
             minute == CHOOSE n \in 0..(DaySeconds \div MinuteSeconds) :
                          LET rest == ts - day * DaySeconds - n * MinuteSeconds
                          IN  0 <= rest /\ rest < MinuteSeconds
             perHour == HourSeconds \div MinuteSeconds
             secs == ts % DaySeconds
  <1>1. day = ts \div DaySeconds /\ ts \div DaySeconds \in Int /\ secs \in Nat
    <2>1. ts \div DaySeconds \in Int /\ secs \in Nat  BY CalendarAssumption, Divided
    <2> QED  BY <2>1, DayMeant
  <1>2. PartMeant(part, ts) = CASE part = "hour"   -> minute \div perHour
                                [] part = "minute" -> minute % perHour
                                [] OTHER -> CivilByCounting(day)[DatePlace[part]]
    BY DEF PartMeant
  <1> HIDE DEF day
  <1>3. minute = secs \div MinuteSeconds  BY <1>1, MinuteMeant
  <1> HIDE DEF minute
  <1>4. part \in {"hour", "minute"} \/ CivilFromDays(day) = CivilByCounting(day)
    BY <1>1, CountingFinds
  <1>5. /\ minute \div perHour = secs \div HourSeconds
        /\ minute % perHour = (secs % HourSeconds) \div MinuteSeconds
    BY <1>1, <1>3, HoursAndMinutes
  <1> QED  BY <1>1, <1>2, <1>4, <1>5 DEF ExtractPart

-----------------------------------------------------------------------------
(* Totals of numbers at places.                                            *)

\* P holds what the numbers of v at the places of s, which lie in front of n, come to,
\* place by place.
IsRunning(P, v, s, n) ==
    /\ P \in [0..n -> Int]
    /\ P[0] = 0
    /\ \A i \in 1..n : P[i] = P[i - 1] + (IF i - 1 \in s THEN v[i - 1] ELSE 0)

\* What they come to, and in total.
Running(v, s, n) == CHOOSE P : IsRunning(P, v, s, n)
Total(v, s, n)   == Running(v, s, n)[n]

\* The numbers at n places, from place 0 on.
Numbers(n) == [0..(n - 1) -> Int]

\* The numbers of v do come to something, place by place.
LEMMA RunningExists ==
  ASSUME NEW n \in Nat, NEW v \in Numbers(n), NEW s
  PROVE  IsRunning(Running(v, s, n), v, s, n)
  <1> DEFINE step == [i \in 1..n |-> [x \in Int |-> x + (IF i - 1 \in s THEN v[i - 1] ELSE 0)]]
  <1>1. \A x \in Int : \A i \in 1..n : step[i][x] \in Int
    <2>1. \A i \in 1..n : v[i - 1] \in Int  BY DEF Numbers
    <2> QED  BY <2>1
  <1>2. PICK P : P \in [0..n -> Int] /\ Builds(P, n, 0, step)
    <2> HIDE DEF step
    <2>1. 0 \in Int  OBVIOUS
    <2> QED  BY <1>1, <2>1, Recursion, Zenon
  <1>3. IsRunning(P, v, s, n)
    <2>1. ASSUME NEW i \in 1..n PROVE P[i] = P[i - 1] + (IF i - 1 \in s THEN v[i - 1] ELSE 0)
      <3>1. P[i] = step[i][P[i - 1]] /\ P[i - 1] \in Int  BY <1>2 DEF Builds
      <3>2. \A x \in Int : step[i][x] = x + (IF i - 1 \in s THEN v[i - 1] ELSE 0)  OBVIOUS
      <3> HIDE DEF step
      <3> QED  BY <3>1, <3>2
    <2> HIDE DEF step
    <2> QED  BY <1>2, <2>1 DEF Builds, IsRunning
  <1> QED  BY <1>3 DEF Running

\* There is no other such function.
LEMMA RunningUnique ==
  ASSUME NEW n \in Nat, NEW v, NEW s, NEW P, NEW Q,
         IsRunning(P, v, s, n), IsRunning(Q, v, s, n), NEW i \in 0..n
  PROVE  P[i] = Q[i]
  <1>1. Alike(n, P, Q)  BY DEF IsRunning, Alike
  <1> QED  BY <1>1, RecursionAgrees

\* What comes to Q place by place comes to that in total.
LEMMA TotalIs ==
  ASSUME NEW n \in Nat, NEW v \in Numbers(n), NEW s, NEW Q, IsRunning(Q, v, s, n)
  PROVE  Total(v, s, n) = Q[n] /\ Q[n] \in Int
  <1>1. n \in 0..n  OBVIOUS
  <1>2. Q[n] \in Int  BY <1>1 DEF IsRunning
  <1> QED  BY <1>1, <1>2, RunningExists, RunningUnique DEF Total

\* A total is a number.
LEMMA TotalType ==
  ASSUME NEW n \in Nat, NEW v \in Numbers(n), NEW s
  PROVE  Total(v, s, n) \in Int
  BY RunningExists, TotalIs

\* Nothing comes to 0.
LEMMA TotalEmpty ==
  ASSUME NEW n \in Nat, NEW v \in Numbers(n)
  PROVE  Total(v, {}, n) = 0
  <1> DEFINE Q == [i \in 0..n |-> 0]
  <1>1. IsRunning(Q, v, {}, n)  BY DEF IsRunning
  <1>2. Q[n] = 0  OBVIOUS
  <1> HIDE DEF Q
  <1> QED  BY <1>1, <1>2, TotalIs

\* One place comes to its number.
LEMMA TotalOne ==
  ASSUME NEW n \in Nat, NEW v \in Numbers(n), NEW x \in 0..(n - 1)
  PROVE  Total(v, {x}, n) = v[x]
  <1> DEFINE Q == [i \in 0..n |-> IF x < i THEN v[x] ELSE 0]
  <1>1. v[x] \in Int  BY DEF Numbers
  <1>2. IsRunning(Q, v, {x}, n)
    <2>1. Q \in [0..n -> Int] /\ Q[0] = 0  BY <1>1
    <2>2. ASSUME NEW i \in 1..n
          PROVE  Q[i] = Q[i - 1] + (IF i - 1 \in {x} THEN v[i - 1] ELSE 0)
      <3>1. CASE i - 1 < x  BY <1>1, <3>1
      <3>2. CASE i - 1 = x  BY <1>1, <3>2
      <3>3. CASE i - 1 > x  BY <1>1, <3>3
      <3> QED  BY <3>1, <3>2, <3>3
    <2> HIDE DEF Q
    <2> QED  BY <2>1, <2>2 DEF IsRunning
  <1>3. Q[n] = v[x]  OBVIOUS
  <1> HIDE DEF Q
  <1> QED  BY <1>2, <1>3, TotalIs

\* Two sets that share no place come to the sum of their totals.
LEMMA TotalUnion ==
  ASSUME NEW n \in Nat, NEW v \in Numbers(n), NEW A, NEW B, A \cap B = {}
  PROVE  Total(v, A \cup B, n) = Total(v, A, n) + Total(v, B, n)
  <1> DEFINE P == Running(v, A, n)
             R == Running(v, B, n)
             Q == [i \in 0..n |-> P[i] + R[i]]
  <1>1. IsRunning(P, v, A, n) /\ IsRunning(R, v, B, n)  BY RunningExists
  <1> HIDE DEF P, R
  <1>2. IsRunning(Q, v, A \cup B, n)
    <2>1. Q \in [0..n -> Int] /\ Q[0] = 0  BY <1>1 DEF IsRunning
    <2>2. ASSUME NEW i \in 1..n
          PROVE  Q[i] = Q[i - 1] + (IF i - 1 \in A \cup B THEN v[i - 1] ELSE 0)
      <3>1. /\ P[i] = P[i - 1] + (IF i - 1 \in A THEN v[i - 1] ELSE 0)
            /\ R[i] = R[i - 1] + (IF i - 1 \in B THEN v[i - 1] ELSE 0)
        BY <1>1 DEF IsRunning
      <3>2. Q[i] = P[i] + R[i] /\ Q[i - 1] = P[i - 1] + R[i - 1]  OBVIOUS
      <3>3. P[i - 1] \in Int /\ R[i - 1] \in Int  BY <1>1 DEF IsRunning
      <3>4. v[i - 1] \in Int  BY DEF Numbers
      <3> HIDE DEF Q
      <3>5. CASE i - 1 \in A  BY <3>1, <3>2, <3>3, <3>4, <3>5
      <3>6. CASE i - 1 \notin A  BY <3>1, <3>2, <3>3, <3>4, <3>6
      <3> QED  BY <3>5, <3>6
    <2> HIDE DEF Q
    <2> QED  BY <2>1, <2>2 DEF IsRunning
  <1>3. Q[n] = P[n] + R[n]  OBVIOUS
  <1> HIDE DEF Q
  <1> QED  BY <1>2, <1>3, TotalIs DEF Total, P, R

\* f is the sum that FiniteSetsExt makes of the numbers of v.
Sums(f, v, S) ==
    f = [s \in SUBSET S |-> IF s = {} THEN 0
                            ELSE LET x == CHOOSE x \in s : TRUE IN v[x] + f[s \ {x}]]

\* The totals are such a sum.
LEMMA TotalsSum ==
  ASSUME NEW n \in Nat, NEW v \in Numbers(n), NEW S \in SUBSET (0..(n - 1))
  PROVE  Sums([s \in SUBSET S |-> Total(v, s, n)], v, S)
  <1> DEFINE T == [s \in SUBSET S |-> Total(v, s, n)]
  <1>1. ASSUME NEW s \in SUBSET S
        PROVE  Total(v, s, n) = IF s = {} THEN 0
                                ELSE LET x == CHOOSE x \in s : TRUE IN v[x] + T[s \ {x}]
    <2>1. CASE s = {}  BY <2>1, TotalEmpty
    <2>2. CASE s # {}
      <3> DEFINE x == CHOOSE x \in s : TRUE
      <3>1. x \in s /\ x \in 0..(n - 1)  BY <2>2
      <3> HIDE DEF x
      <3>2. T[s \ {x}] = Total(v, s \ {x}, n)  OBVIOUS
      <3>3. s = {x} \cup (s \ {x}) /\ {x} \cap (s \ {x}) = {}  BY <3>1
      <3>4. Total(v, {x} \cup (s \ {x}), n) = Total(v, {x}, n) + Total(v, s \ {x}, n)
        BY <3>3, TotalUnion
      <3>5. Total(v, s, n) = v[x] + T[s \ {x}]  BY <3>1, <3>2, <3>3, <3>4, TotalOne
      <3> QED  BY <2>2, <3>5 DEF x
    <2> QED  BY <2>1, <2>2
  <1> HIDE DEF T
  <1>2. T = [s \in SUBSET S |-> Total(v, s, n)]  BY DEF T
  <1> QED  BY <1>1, <1>2 DEF Sums, T

\* There is no other sum.
LEMMA SumIsTotal ==
  ASSUME NEW n \in Nat, NEW v \in Numbers(n), NEW S \in SUBSET (0..(n - 1)),
         NEW f, Sums(f, v, S)
  PROVE  f[S] = Total(v, S, n)
  <1> DEFINE K == {k \in Nat : \A s \in SUBSET S : Cardinality(s) = k => f[s] = Total(v, s, n)}
  <1>1. \A s \in SUBSET S : IsFiniteSet(s) /\ Cardinality(s) \in Nat
    <2>1. IsFiniteSet(0..(n - 1))  BY FS_Interval
    <2> QED  BY <2>1, FS_Subset, FS_CardinalityType
  <1>2. 0 \in K
    <2>1. ASSUME NEW s \in SUBSET S, Cardinality(s) = 0 PROVE f[s] = Total(v, s, n)
      <3>1. s = {}  BY <1>1, <2>1, FS_EmptySet
      <3>2. f[s] = 0  BY <3>1 DEF Sums
      <3> QED  BY <3>1, <3>2, TotalEmpty
    <2> QED  BY <2>1
  <1>3. ASSUME NEW k \in Nat, k \in K PROVE k + 1 \in K
    <2>1. ASSUME NEW s \in SUBSET S, Cardinality(s) = k + 1 PROVE f[s] = Total(v, s, n)
      <3> DEFINE x == CHOOSE x \in s : TRUE
      <3>1. s # {}  BY <2>1, FS_EmptySet
      <3>2. f[s] = v[x] + f[s \ {x}]  BY <3>1 DEF Sums
      <3>3. x \in s /\ x \in 0..(n - 1)  BY <3>1
      <3> HIDE DEF x
      <3>4. Cardinality(s \ {x}) = k
        <4>1. Cardinality(s \ {x}) = Cardinality(s) - 1  BY <1>1, <3>3, FS_RemoveElement, Zenon
        <4> QED  BY <2>1, <4>1
      <3>5. f[s \ {x}] = Total(v, s \ {x}, n)  BY <1>3, <3>4
      <3>6. s = {x} \cup (s \ {x}) /\ {x} \cap (s \ {x}) = {}  BY <3>3
      <3>7. Total(v, {x} \cup (s \ {x}), n) = Total(v, {x}, n) + Total(v, s \ {x}, n)
        BY <3>6, TotalUnion
      <3> QED  BY <3>2, <3>3, <3>5, <3>6, <3>7, TotalOne, ZenonT(40)
    <2> QED  BY <2>1
  <1> HIDE DEF K
  <1>4. \A k \in Nat : k \in K  BY <1>2, <1>3, Induction
  <1> QED  BY <1>1, <1>4 DEF K

-----------------------------------------------------------------------------
(* Which places the registers meet.                                        *)

\* The places register k holds at number j when the whole blocks of n numbers are met.
Met(n, k, j) == {i \in 1..WholeBlocks(n) : (i - 1) % LANES = k * Lane + j}

\* Those of the four registers at number j, and at all numbers in front of m.
MetAt(n, j) == (Met(n, 0, j) \cup Met(n, 1, j)) \cup (Met(n, 2, j) \cup Met(n, 3, j))
MetBefore(n, m) == {i \in 1..WholeBlocks(n) : \E j \in 0..(m - 1) : i \in MetAt(n, j)}

\* Whole blocks end at a place there is, and a place has its lane in the registers.
LEMMA WholeBlocksFit ==
  ASSUME NEW n \in Nat
  PROVE  /\ LANES \in Nat \ {0} /\ WholeBlocks(n) \in Nat /\ WholeBlocks(n) <= n
         /\ \A i \in 1..WholeBlocks(n) : (i - 1) % LANES \in 0..(LANES - 1)
  <1>1. LANES \in Nat \ {0}  BY LaneAssumption DEF LANES
  <1>2. PICK q \in Int, r \in Int : /\ q = n \div LANES /\ r = n % LANES
                                    /\ 0 <= r /\ r < LANES /\ n = LANES * q + r
    BY <1>1, Divided
  <1>3. q >= 0
    <2> SUFFICES ASSUME q < 0 PROVE FALSE  OBVIOUS
    <2>1. PICK i \in Nat : q = -1 - i
      <3>1. -1 - q \in Nat /\ q = -1 - (-1 - q)  OBVIOUS
      <3> QED  BY <3>1
    <2>2. PICK p \in Nat : p = LANES * i  BY <1>1
    <2>3. LANES * q = -LANES - p  BY <1>1, <2>1, <2>2
    <2>4. n = -LANES - p + r  BY <1>2, <2>3
    <2> QED  BY <1>1, <1>2, <2>4
  <1>4. LANES * q \in Nat  BY <1>1, <1>3
  <1>5. \A i \in 1..WholeBlocks(n) : (i - 1) % LANES \in 0..(LANES - 1)
    BY <1>1, Divided
  <1> QED  BY <1>1, <1>2, <1>4, <1>5 DEF WholeBlocks

\* A place is met once.
LEMMA MetOnce ==
  ASSUME NEW n \in Nat, NEW i \in 1..WholeBlocks(n), NEW j \in 0..(Lane - 1)
  PROVE  /\ ~(i \in Met(n, 0, j) /\ i \in Met(n, 1, j))
         /\ ~(i \in Met(n, 2, j) /\ i \in Met(n, 3, j))
         /\ ~(i \in Met(n, 0, j) \cup Met(n, 1, j) /\ i \in Met(n, 2, j) \cup Met(n, 3, j))
         /\ \A l \in 0..(Lane - 1) : i \in MetAt(n, j) /\ i \in MetAt(n, l) => l = j
  <1> DEFINE r == (i - 1) % LANES
  <1>1. /\ i \in Met(n, 0, j) <=> r = j
        /\ i \in Met(n, 1, j) <=> r = Lane + j
        /\ i \in Met(n, 2, j) <=> r = 2 * Lane + j
        /\ i \in Met(n, 3, j) <=> r = 3 * Lane + j
    BY LaneAssumption DEF Met
  <1>2. \A l \in 0..(Lane - 1) :
           i \in MetAt(n, l) <=> r \in {l, Lane + l, 2 * Lane + l, 3 * Lane + l}
    BY LaneAssumption DEF MetAt, Met
  <1> HIDE DEF r
  <1> QED  BY <1>1, <1>2, LaneAssumption

\* Every place of the whole blocks is met.
LEMMA AllMet ==
  ASSUME NEW n \in Nat
  PROVE  MetBefore(n, Lane) = 1..WholeBlocks(n)
  <1> SUFFICES ASSUME NEW i \in 1..WholeBlocks(n)
               PROVE  \E j \in 0..(Lane - 1) : i \in MetAt(n, j)
    BY DEF MetBefore
  <1> DEFINE r == (i - 1) % LANES
  <1>1. r \in 0..(4 * Lane - 1)  BY WholeBlocksFit DEF LANES
  <1>2. \A l \in 0..(Lane - 1) :
           r \in {l, Lane + l, 2 * Lane + l, 3 * Lane + l} => i \in MetAt(n, l)
    BY LaneAssumption DEF MetAt, Met
  <1> HIDE DEF r
  <1>3. \E j \in 0..(Lane - 1) : r \in {j, Lane + j, 2 * Lane + j, 3 * Lane + j}
    <2> USE LaneAssumption
    <2>1. CASE r < Lane
      <3>1. r \in 0..(Lane - 1)  BY <1>1, <2>1
      <3> QED  BY <3>1
    <2>2. CASE Lane <= r /\ r < 2 * Lane
      <3>1. r - Lane \in 0..(Lane - 1) /\ r = Lane + (r - Lane)  BY <1>1, <2>2
      <3> QED  BY <3>1
    <2>3. CASE 2 * Lane <= r /\ r < 3 * Lane
      <3>1. r - 2 * Lane \in 0..(Lane - 1) /\ r = 2 * Lane + (r - 2 * Lane)  BY <1>1, <2>3
      <3> QED  BY <3>1
    <2>4. CASE 3 * Lane <= r
      <3>1. r - 3 * Lane \in 0..(Lane - 1) /\ r = 3 * Lane + (r - 3 * Lane)  BY <1>1, <2>4
      <3> QED  BY <3>1
    <2> QED  BY <1>1, <2>1, <2>2, <2>3, <2>4
  <1> QED  BY <1>2, <1>3

\* What the registers come to at number j, and all of them.
AtNumber(v, n, j, N) ==
    (Total(v, Met(n, 0, j), N) + Total(v, Met(n, 1, j), N))
        + (Total(v, Met(n, 2, j), N) + Total(v, Met(n, 3, j), N))

\* What the registers come to at all their numbers is what the whole blocks come to.
LEMMA RegistersHoldAll ==
  ASSUME NEW n \in Nat, NEW N \in Nat, NEW v \in Numbers(N), NEW w \in Numbers(Lane),
         \A j \in 0..(Lane - 1) : w[j] = AtNumber(v, n, j, N)
  PROVE  Total(w, 0..(Lane - 1), Lane) = Total(v, 1..WholeBlocks(n), N)
  <1>1. Lane \in Nat \ {0}  BY LaneAssumption
  <1> DEFINE Q == [m \in 0..Lane |-> Total(v, MetBefore(n, m), N)]
  <1>2. ASSUME NEW j \in 0..(Lane - 1)
        PROVE  w[j] = Total(v, MetAt(n, j), N)
    <2>1. /\ Met(n, 0, j) \cap Met(n, 1, j) = {} /\ Met(n, 2, j) \cap Met(n, 3, j) = {}
          /\ (Met(n, 0, j) \cup Met(n, 1, j)) \cap (Met(n, 2, j) \cup Met(n, 3, j)) = {}
      <3>1. \A k \in 0..3 : Met(n, k, j) \subseteq 1..WholeBlocks(n)  BY DEF Met
      <3> QED  BY <3>1, MetOnce
    <2> DEFINE A == Met(n, 0, j) \cup Met(n, 1, j)
               B == Met(n, 2, j) \cup Met(n, 3, j)
    <2>2. Total(v, A, N) = Total(v, Met(n, 0, j), N) + Total(v, Met(n, 1, j), N)
      BY <2>1, TotalUnion
    <2>3. Total(v, B, N) = Total(v, Met(n, 2, j), N) + Total(v, Met(n, 3, j), N)
      BY <2>1, TotalUnion
    <2>4. MetAt(n, j) = A \cup B /\ A \cap B = {}  BY <2>1 DEF MetAt
    <2> HIDE DEF A, B
    <2>5. Total(v, A \cup B, N) = Total(v, A, N) + Total(v, B, N)  BY <2>4, TotalUnion
    <2>6. w[j] = AtNumber(v, n, j, N)  OBVIOUS
    <2> QED  BY <2>2, <2>3, <2>4, <2>5, <2>6 DEF AtNumber
  <1>3. MetBefore(n, 0) = {}  BY DEF MetBefore
  <1>4. ASSUME NEW m \in 1..Lane
        PROVE  Q[m] = Q[m - 1] + w[m - 1]
    <2>1. m - 1 \in 0..(Lane - 1) /\ m \in 0..Lane /\ m - 1 \in 0..Lane  BY <1>1
    <2>2. MetBefore(n, m) = MetBefore(n, m - 1) \cup MetAt(n, m - 1)
      <3>1. MetAt(n, m - 1) \subseteq 1..WholeBlocks(n)  BY DEF MetAt, Met
      <3>2. 0..(m - 1) = 0..((m - 1) - 1) \cup {m - 1}  OBVIOUS
      <3> HIDE DEF Q
      <3> QED  BY <3>1, <3>2 DEF MetBefore
    <2>3. MetBefore(n, m - 1) \cap MetAt(n, m - 1) = {}
      <3> SUFFICES ASSUME NEW i \in MetBefore(n, m - 1), i \in MetAt(n, m - 1) PROVE FALSE
        OBVIOUS
      <3>1. PICK j \in 0..((m - 1) - 1) : i \in MetAt(n, j)  BY DEF MetBefore
      <3>2. i \in 1..WholeBlocks(n) /\ j \in 0..(Lane - 1) /\ j # m - 1  BY <1>1 DEF MetBefore
      <3> QED  BY <2>1, <3>1, <3>2, MetOnce
    <2>4. Total(v, MetBefore(n, m), N)
            = Total(v, MetBefore(n, m - 1), N) + Total(v, MetAt(n, m - 1), N)
      BY <2>2, <2>3, TotalUnion
    <2> QED  BY <1>2, <2>1, <2>4
  <1>5. Q \in [0..Lane -> Int] /\ Q[0] = 0  BY <1>1, <1>3, TotalType, TotalEmpty
  <1>6. Q[Lane] = Total(v, MetBefore(n, Lane), N)  BY <1>1
  <1> HIDE DEF Q
  <1>7. IsRunning(Q, w, 0..(Lane - 1), Lane)
    <2>1. \A m \in 1..Lane : m - 1 \in 0..(Lane - 1)  BY <1>1
    <2> QED  BY <1>4, <1>5, <2>1 DEF IsRunning
  <1> QED  BY <1>1, <1>6, <1>7, AllMet, TotalIs

-----------------------------------------------------------------------------
(* The kernels.                                                            *)

\* What a kernel adds up register by register, and then behind the whole blocks, is all.
LEMMA BlocksAndTail ==
  ASSUME NEW n \in Nat, NEW N \in Nat, NEW v \in Numbers(N)
  PROVE  Total(v, 1..WholeBlocks(n), N) + Total(v, (WholeBlocks(n) + 1)..n, N)
            = Total(v, 1..n, N)
  <1>1. WholeBlocks(n) \in Nat /\ WholeBlocks(n) <= n  BY WholeBlocksFit
  <1>2. /\ 1..n = 1..WholeBlocks(n) \cup ((WholeBlocks(n) + 1)..n)
        /\ 1..WholeBlocks(n) \cap ((WholeBlocks(n) + 1)..n) = {}
    BY <1>1
  <1> DEFINE A == 1..WholeBlocks(n)
             B == (WholeBlocks(n) + 1)..n
  <1> HIDE DEF A, B
  <1>3. Total(v, A \cup B, N) = Total(v, A, N) + Total(v, B, N)
    <2>1. A \cap B = {}  BY <1>2 DEF A, B
    <2> QED  BY <2>1, TotalUnion
  <1> QED  BY <1>2, <1>3 DEF A, B

\* The places of a register, and those behind the whole blocks, are places.
LEMMA MetAreIn ==
  ASSUME NEW n \in Nat, NEW k, NEW j
  PROVE  Met(n, k, j) \in SUBSET (1..n) /\ (WholeBlocks(n) + 1)..n \in SUBSET (1..n)
  <1>1. WholeBlocks(n) \in Nat /\ WholeBlocks(n) <= n  BY WholeBlocksFit
  <1>2. 1..WholeBlocks(n) \subseteq 1..n  BY <1>1
  <1> QED  BY <1>1, <1>2 DEF Met

\* v holds at each place from 1 to n what of a and of b is multiplied, or is squared.
ProductsIn(v, a, b, n) == \A i \in 1..n : v[i] = a[i] * b[i]
SquaresIn(v, a, b, n)  == \A i \in 1..n : v[i] = (a[i] - b[i]) * (a[i] - b[i])

\* The sums of the kernel of the inner product, over places and over numbers.
SumDot(a, b, S) == MapThenSumSet(LAMBDA i : Times(a[i], b[i]), S)
LaneDot(a, b, n, j) ==
    (SumDot(a, b, Met(n, 0, j)) + SumDot(a, b, Met(n, 1, j)))
        + (SumDot(a, b, Met(n, 2, j)) + SumDot(a, b, Met(n, 3, j)))
LanesDot(a, b, n) == MapThenSumSet(LAMBDA j : LaneDot(a, b, n, j), 0..(Lane - 1))

\* The kernel is made of these sums (dot_neon).
LEMMA DotUnfolds ==
  ASSUME NEW a, NEW b
  PROVE  Dot(a, b) = LanesDot(a, b, Len(a)) + SumDot(a, b, (WholeBlocks(Len(a)) + 1)..Len(a))
  BY DEF Dot, Kernel, LanesDot, LaneDot, SumDot, Met

\* A sum of products that MapThenSumSet makes is the total of the products.
LEMMA SumOfDots ==
  ASSUME NEW n \in Nat, NEW v \in Numbers(n), NEW S \in SUBSET (0..(n - 1)), NEW a, NEW b,
         \A i \in S : v[i] = a[i] * b[i]
  PROVE  SumDot(a, b, S) = Total(v, S, n)
  <1> DEFINE Is(g) == g = [s \in SUBSET S |->
                              IF s = {} THEN 0
                              ELSE LET x == CHOOSE x \in s : TRUE
                                   IN Times(a[x], b[x]) + g[s \ {x}]]
             f == CHOOSE g : Is(g)
             T == [s \in SUBSET S |-> Total(v, s, n)]
  <1>1. SumDot(a, b, S) = f[S]  BY DEF SumDot, MapThenSumSet, MapThenFoldSet
  <1>2. ASSUME NEW g PROVE Sums(g, v, S) <=> Is(g)
    <2>1. ASSUME NEW s \in SUBSET S, s # {}
          PROVE  LET x == CHOOSE x \in s : TRUE IN v[x] = Times(a[x], b[x])
      BY <2>1 DEF Times
    <2> QED  BY <2>1 DEF Sums
  <1>3. Sums(T, v, S)  BY TotalsSum
  <1> HIDE DEF T, Is
  <1>4. Is(f)  BY <1>2, <1>3
  <1> HIDE DEF f
  <1> QED  BY <1>1, <1>2, <1>4, SumIsTotal

\* So is its sum over the numbers of a register.
LEMMA SumOfLanes ==
  ASSUME NEW w \in Numbers(Lane), NEW a, NEW b, NEW n,
         \A j \in 0..(Lane - 1) : w[j] = LaneDot(a, b, n, j)
  PROVE  LanesDot(a, b, n) = Total(w, 0..(Lane - 1), Lane)
  <1> DEFINE S == 0..(Lane - 1)
             Is(g) == g = [s \in SUBSET S |->
                              IF s = {} THEN 0
                              ELSE LET x == CHOOSE x \in s : TRUE
                                   IN LaneDot(a, b, n, x) + g[s \ {x}]]
             f == CHOOSE g : Is(g)
             T == [s \in SUBSET S |-> Total(w, s, Lane)]
  <1>0. Lane \in Nat /\ S \in SUBSET (0..(Lane - 1))  BY LaneAssumption
  <1>1. LanesDot(a, b, n) = f[S]
    BY DEF MapThenSumSet, MapThenFoldSet, LanesDot
  <1>2. ASSUME NEW g PROVE Sums(g, w, S) <=> Is(g)
    <2>1. ASSUME NEW s \in SUBSET S, s # {}
          PROVE  LET x == CHOOSE x \in s : TRUE IN w[x] = LaneDot(a, b, n, x)
      BY <2>1
    <2> QED  BY <2>1, ZenonT(40) DEF Sums
  <1> HIDE DEF S
  <1>3. Sums(T, w, S)  BY <1>0, TotalsSum
  <1> HIDE DEF T, Is
  <1>4. Is(f)  BY <1>2, <1>3
  <1> HIDE DEF f
  <1>5. f[S] = Total(w, S, Lane)  BY <1>0, <1>2, <1>4, SumIsTotal
  <1> QED  BY <1>1, <1>5 DEF S

\* The kernel of the inner product adds up all products.
LEMMA DotIsTotal ==
  ASSUME NEW n \in Nat, NEW N \in Nat, N = n + 1, NEW v \in Numbers(N), NEW a, NEW b,
         Len(a) = n, ProductsIn(v, a, b, n)
  PROVE  Dot(a, b) = Total(v, 1..n, N)
  <1> DEFINE w == [j \in 0..(Lane - 1) |-> AtNumber(v, n, j, N)]
  <1>1. ASSUME NEW S \in SUBSET (1..n) PROVE SumDot(a, b, S) = Total(v, S, N)
    <2>1. S \in SUBSET (0..(N - 1))  OBVIOUS
    <2>2. \A i \in S : v[i] = a[i] * b[i]  BY DEF ProductsIn
    <2> QED  BY <2>1, <2>2, SumOfDots
  <1>2. ASSUME NEW j \in 0..(Lane - 1)
        PROVE  w[j] = LaneDot(a, b, n, j) /\ w[j] = AtNumber(v, n, j, N) /\ w[j] \in Int
    <2>1. ASSUME NEW k
          PROVE  SumDot(a, b, Met(n, k, j)) = Total(v, Met(n, k, j), N)
                    /\ Total(v, Met(n, k, j), N) \in Int
      BY <1>1, MetAreIn, TotalType
    <2>2. AtNumber(v, n, j, N) = LaneDot(a, b, n, j)
      BY <2>1, Zenon DEF AtNumber, LaneDot
    <2>3. AtNumber(v, n, j, N) \in Int
      BY <2>1 DEF AtNumber
    <2> QED  BY <2>2, <2>3
  <1>3. w \in Numbers(Lane)  BY <1>2 DEF Numbers
  <1> HIDE DEF w
  <1>4. LanesDot(a, b, n) = Total(v, 1..WholeBlocks(n), N)
    BY <1>2, <1>3, SumOfLanes, RegistersHoldAll
  <1>5. SumDot(a, b, (WholeBlocks(n) + 1)..n) = Total(v, (WholeBlocks(n) + 1)..n, N)
    BY <1>1, MetAreIn
  <1> QED  BY <1>4, <1>5, DotUnfolds, BlocksAndTail

\* The sums of the kernel of the squared distance, over places and over numbers.
SumL2(a, b, S) == MapThenSumSet(LAMBDA i : Squared(a[i], b[i]), S)
LaneL2(a, b, n, j) ==
    (SumL2(a, b, Met(n, 0, j)) + SumL2(a, b, Met(n, 1, j)))
        + (SumL2(a, b, Met(n, 2, j)) + SumL2(a, b, Met(n, 3, j)))
LanesL2(a, b, n) == MapThenSumSet(LAMBDA j : LaneL2(a, b, n, j), 0..(Lane - 1))

\* The kernel is made of these sums (l2_sq_neon).
LEMMA L2SqUnfolds ==
  ASSUME NEW a, NEW b
  PROVE  L2Sq(a, b) = LanesL2(a, b, Len(a)) + SumL2(a, b, (WholeBlocks(Len(a)) + 1)..Len(a))
  BY DEF L2Sq, Kernel, LanesL2, LaneL2, SumL2, Met

\* A sum of squares that MapThenSumSet makes is the total of the squares.
LEMMA SumOfL2s ==
  ASSUME NEW n \in Nat, NEW v \in Numbers(n), NEW S \in SUBSET (0..(n - 1)), NEW a, NEW b,
         \A i \in S : v[i] = (a[i] - b[i]) * (a[i] - b[i])
  PROVE  SumL2(a, b, S) = Total(v, S, n)
  <1> DEFINE Is(g) == g = [s \in SUBSET S |->
                              IF s = {} THEN 0
                              ELSE LET x == CHOOSE x \in s : TRUE
                                   IN Squared(a[x], b[x]) + g[s \ {x}]]
             f == CHOOSE g : Is(g)
             T == [s \in SUBSET S |-> Total(v, s, n)]
  <1>1. SumL2(a, b, S) = f[S]  BY DEF SumL2, MapThenSumSet, MapThenFoldSet
  <1>2. ASSUME NEW g PROVE Sums(g, v, S) <=> Is(g)
    <2>1. ASSUME NEW s \in SUBSET S, s # {}
          PROVE  LET x == CHOOSE x \in s : TRUE IN v[x] = Squared(a[x], b[x])
      BY <2>1 DEF Squared
    <2> QED  BY <2>1 DEF Sums
  <1>3. Sums(T, v, S)  BY TotalsSum
  <1> HIDE DEF T, Is
  <1>4. Is(f)  BY <1>2, <1>3
  <1> HIDE DEF f
  <1> QED  BY <1>1, <1>2, <1>4, SumIsTotal

\* So is its sum over the numbers of a register.
LEMMA SumOfL2Lanes ==
  ASSUME NEW w \in Numbers(Lane), NEW a, NEW b, NEW n,
         \A j \in 0..(Lane - 1) : w[j] = LaneL2(a, b, n, j)
  PROVE  LanesL2(a, b, n) = Total(w, 0..(Lane - 1), Lane)
  <1> DEFINE S == 0..(Lane - 1)
             Is(g) == g = [s \in SUBSET S |->
                              IF s = {} THEN 0
                              ELSE LET x == CHOOSE x \in s : TRUE
                                   IN LaneL2(a, b, n, x) + g[s \ {x}]]
             f == CHOOSE g : Is(g)
             T == [s \in SUBSET S |-> Total(w, s, Lane)]
  <1>0. Lane \in Nat /\ S \in SUBSET (0..(Lane - 1))  BY LaneAssumption
  <1>1. LanesL2(a, b, n) = f[S]
    BY DEF MapThenSumSet, MapThenFoldSet, LanesL2
  <1>2. ASSUME NEW g PROVE Sums(g, w, S) <=> Is(g)
    <2>1. ASSUME NEW s \in SUBSET S, s # {}
          PROVE  LET x == CHOOSE x \in s : TRUE IN w[x] = LaneL2(a, b, n, x)
      BY <2>1
    <2> QED  BY <2>1, ZenonT(40) DEF Sums
  <1> HIDE DEF S
  <1>3. Sums(T, w, S)  BY <1>0, TotalsSum
  <1> HIDE DEF T, Is
  <1>4. Is(f)  BY <1>2, <1>3
  <1> HIDE DEF f
  <1>5. f[S] = Total(w, S, Lane)  BY <1>0, <1>2, <1>4, SumIsTotal
  <1> QED  BY <1>1, <1>5 DEF S

\* The kernel of the squared distance adds up all squares.
LEMMA L2SqIsTotal ==
  ASSUME NEW n \in Nat, NEW N \in Nat, N = n + 1, NEW v \in Numbers(N), NEW a, NEW b,
         Len(a) = n, SquaresIn(v, a, b, n)
  PROVE  L2Sq(a, b) = Total(v, 1..n, N)
  <1> DEFINE w == [j \in 0..(Lane - 1) |-> AtNumber(v, n, j, N)]
  <1>1. ASSUME NEW S \in SUBSET (1..n) PROVE SumL2(a, b, S) = Total(v, S, N)
    <2>1. S \in SUBSET (0..(N - 1))  OBVIOUS
    <2>2. \A i \in S : v[i] = (a[i] - b[i]) * (a[i] - b[i])  BY DEF SquaresIn
    <2> QED  BY <2>1, <2>2, SumOfL2s
  <1>2. ASSUME NEW j \in 0..(Lane - 1)
        PROVE  w[j] = LaneL2(a, b, n, j) /\ w[j] = AtNumber(v, n, j, N) /\ w[j] \in Int
    <2>1. ASSUME NEW k
          PROVE  SumL2(a, b, Met(n, k, j)) = Total(v, Met(n, k, j), N)
                    /\ Total(v, Met(n, k, j), N) \in Int
      BY <1>1, MetAreIn, TotalType
    <2>2. AtNumber(v, n, j, N) = LaneL2(a, b, n, j)
      BY <2>1, Zenon DEF AtNumber, LaneL2
    <2>3. AtNumber(v, n, j, N) \in Int
      BY <2>1 DEF AtNumber
    <2> QED  BY <2>2, <2>3
  <1>3. w \in Numbers(Lane)  BY <1>2 DEF Numbers
  <1> HIDE DEF w
  <1>4. LanesL2(a, b, n) = Total(v, 1..WholeBlocks(n), N)
    BY <1>2, <1>3, SumOfL2Lanes, RegistersHoldAll
  <1>5. SumL2(a, b, (WholeBlocks(n) + 1)..n) = Total(v, (WholeBlocks(n) + 1)..n, N)
    BY <1>1, MetAreIn
  <1> QED  BY <1>4, <1>5, L2SqUnfolds, BlocksAndTail

\* What metric makes of the numbers of a and q at each place, and nothing at place 0.
Terms(metric, a, q) ==
    [i \in 0..Len(a) |-> IF i = 0 THEN 0
                         ELSE IF metric = "l2" THEN Squared(a[i], q[i]) ELSE Times(a[i], q[i])]

\* The terms are numbers.
LEMMA TermsType ==
  ASSUME NEW metric, NEW a \in Seq(Int), NEW q \in Seq(Int), Len(a) = Len(q)
  PROVE  /\ Len(a) \in Nat /\ Terms(metric, a, q) \in Numbers(Len(a) + 1)
         /\ \A i \in 1..Len(a) : a[i] \in Int /\ q[i] \in Int /\ Terms(metric, a, q)[i] \in Int
  <1>1. Len(a) \in Nat /\ \A i \in 1..Len(a) : a[i] \in Int /\ q[i] \in Int  OBVIOUS
  <1>2. ASSUME NEW x \in Int, NEW y \in Int PROVE Squared(x, y) \in Int /\ Times(x, y) \in Int
    BY DEF Squared, Times
  <1>3. ASSUME NEW i \in 0..Len(a) PROVE Terms(metric, a, q)[i] \in Int
    <2>1. CASE i = 0  BY <2>1 DEF Terms
    <2>2. CASE i # 0
      <3>1. i \in 1..Len(a)  BY <1>1, <2>2
      <3> QED  BY <1>1, <1>2, <2>2, <3>1 DEF Terms
    <2> QED  BY <2>1, <2>2
  <1>4. 0..((Len(a) + 1) - 1) = 0..Len(a)  BY <1>1
  <1>5. Terms(metric, a, q) \in [0..Len(a) -> Int]
    <2>1. Terms(metric, a, q) = [i \in 0..Len(a) |-> Terms(metric, a, q)[i]]  BY DEF Terms
    <2> QED  BY <1>3, <2>1, Zenon
  <1>6. 1..Len(a) \subseteq 0..Len(a)  BY <1>1
  <1> QED  BY <1>1, <1>3, <1>4, <1>5, <1>6 DEF Numbers

\* What a metric means is the total of the terms, which "ip" takes from 0.
LEMMA MeantIsTotal ==
  ASSUME NEW metric, NEW a \in Seq(Int), NEW q \in Seq(Int), Len(a) = Len(q),
         NEW n, n = Len(a)
  PROVE  DistanceMeant(metric, a, q) =
            IF metric = "l2" THEN Total(Terms(metric, a, q), 1..n, n + 1)
            ELSE -Total(Terms(metric, a, q), 1..n, n + 1)
  <1> DEFINE v == Terms(metric, a, q)
             P == Running(v, 1..n, n + 1)
             Rec(f) == [i \in 0..Len(a) |->
                           IF i = 0 THEN 0
                           ELSE f[i - 1] + (IF metric = "l2" THEN Squared(a[i], q[i])
                                            ELSE -Times(a[i], q[i]))]
             from == CHOOSE f : f = Rec(f)
             given == [i \in 0..n |-> IF metric = "l2" THEN P[i + 1] ELSE -P[i + 1]]
  <1>1. n \in Nat /\ n + 1 \in Nat /\ v \in Numbers(n + 1)
           /\ \A i \in 1..n : a[i] \in Int /\ q[i] \in Int /\ v[i] \in Int
    BY TermsType
  <1>2. DistanceMeant(metric, a, q) = from[n]  BY DEF DistanceMeant
  <1>3. \A i \in 1..n : v[i] = IF metric = "l2" THEN Squared(a[i], q[i]) ELSE Times(a[i], q[i])
    <2>1. \A i \in 1..n : i \in 0..n /\ i # 0  BY <1>1
    <2> QED  BY <2>1 DEF Terms
  <1> HIDE DEF v
  <1>4. IsRunning(P, v, 1..n, n + 1)  BY <1>1, RunningExists
  <1> HIDE DEF P
  <1>5. P[1] = 0 /\ \A i \in 1..n : P[i] \in Int /\ P[i + 1] = P[i] + v[i]
    <2>1. 1 \in 1..(n + 1) /\ 1 - 1 = 0 /\ 0 \notin 1..n  BY <1>1
    <2>2. P[1] = 0  BY <1>4, <2>1 DEF IsRunning
    <2>3. ASSUME NEW i \in 1..n PROVE P[i] \in Int /\ P[i + 1] = P[i] + v[i]
      <3>1. i \in 0..(n + 1) /\ i + 1 \in 1..(n + 1) /\ (i + 1) - 1 = i  BY <1>1
      <3> QED  BY <1>4, <3>1 DEF IsRunning
    <2> QED  BY <2>2, <2>3
  <1>6. given = Rec(given)
    <2>1. ASSUME NEW i \in 0..n
          PROVE  given[i] = IF i = 0 THEN 0
                            ELSE given[i - 1] + (IF metric = "l2" THEN Squared(a[i], q[i])
                                                 ELSE -Times(a[i], q[i]))
      <3>1. CASE i = 0  BY <1>5, <3>1
      <3>2. CASE i # 0
        <4>1. i \in 1..n /\ i - 1 \in 0..n /\ (i - 1) + 1 = i  BY <1>1, <3>2
        <4>2. /\ given[i] = IF metric = "l2" THEN P[i + 1] ELSE -P[i + 1]
              /\ given[i - 1] = IF metric = "l2" THEN P[i] ELSE -P[i]
          BY <4>1
        <4>3. P[i] \in Int /\ v[i] \in Int /\ P[i + 1] = P[i] + v[i]  BY <1>1, <1>5, <4>1
        <4>4. v[i] = IF metric = "l2" THEN Squared(a[i], q[i]) ELSE Times(a[i], q[i])
          BY <1>3, <4>1
        <4> HIDE DEF given
        <4>5. CASE metric = "l2"  BY <3>2, <4>2, <4>3, <4>4, <4>5
        <4>6. CASE metric # "l2"  BY <3>2, <4>2, <4>3, <4>4, <4>6, SMTT(30)
        <4> QED  BY <4>5, <4>6
      <3> QED  BY <3>1, <3>2
    <2>2. given = [i \in 0..n |-> given[i]]  BY Zenon
    <2> HIDE DEF given
    <2> QED  BY <2>1, <2>2, Zenon
  <1> HIDE DEF given
  <1>7. from = Rec(from)  BY <1>6
  <1> HIDE DEF from
  <1>8. from[n] = given[n]
    <2>1. 0 \in 0..n /\ from[0] = 0 /\ given[0] = 0  BY <1>1, <1>6, <1>7
    <2>2. ASSUME NEW i \in 1..n, from[i - 1] = given[i - 1] PROVE from[i] = given[i]
      <3>1. i \in 0..n /\ i # 0  BY <1>1
      <3>2. from[i] = from[i - 1] + (IF metric = "l2" THEN Squared(a[i], q[i])
                                     ELSE -Times(a[i], q[i]))
        BY <1>7, <3>1
      <3>3. given[i] = given[i - 1] + (IF metric = "l2" THEN Squared(a[i], q[i])
                                       ELSE -Times(a[i], q[i]))
        BY <1>6, <3>1
      <3> HIDE DEF Rec
      <3> QED  BY <2>2, <3>2, <3>3
    <2>3. Alike(n, from, given)  BY <2>1, <2>2 DEF Alike
    <2>4. n \in 0..n  BY <1>1
    <2> QED  BY <1>1, <2>3, <2>4, RecursionAgrees
  <1>9. given[n] = IF metric = "l2" THEN P[n + 1] ELSE -P[n + 1]  BY <1>1 DEF given
  <1>10. P[n + 1] = Total(v, 1..n, n + 1)  BY DEF P, Total
  <1> HIDE DEF Rec
  <1> QED  BY <1>2, <1>8, <1>9, <1>10 DEF v

\* dot_neon and l2_sq_neon (src/src/simd.rs) meet every component once, however long the
\* vectors are and whatever a register holds: Metric's distance is the one meant.
THEOREM DistanceIsMeant ==
  ASSUME NEW metric \in Metrics, NEW a \in Seq(Int), NEW q \in Seq(Int), Len(a) = Len(q)
  PROVE  Distance(metric, a, q) = DistanceMeant(metric, a, q)
  <1> DEFINE v == Terms(metric, a, q)
             n == Len(a)
  <1>1. n \in Nat /\ n + 1 \in Nat /\ v \in Numbers(n + 1)  BY TermsType
  <1>2. \A i \in 1..n : v[i] = IF metric = "l2" THEN Squared(a[i], q[i]) ELSE Times(a[i], q[i])
    <2>1. \A i \in 1..n : i \in 0..n /\ i # 0  BY <1>1
    <2> QED  BY <2>1 DEF Terms
  <1>3. DistanceMeant(metric, a, q) =
            IF metric = "l2" THEN Total(v, 1..n, n + 1) ELSE -Total(v, 1..n, n + 1)
    BY MeantIsTotal, ZenonT(40)
  <1> HIDE DEF v
  <1>4. CASE metric = "l2"
    <2>1. SquaresIn(v, a, q, n)  BY <1>2, <1>4 DEF SquaresIn, Squared
    <2>2. L2Sq(a, q) = Total(v, 1..n, n + 1)  BY <1>1, <2>1, L2SqIsTotal
    <2> QED  BY <1>3, <1>4, <2>2 DEF Distance
  <1>5. CASE metric = "ip"
    <2>1. ProductsIn(v, a, q, n)  BY <1>2, <1>5 DEF ProductsIn, Times
    <2>2. Dot(a, q) = Total(v, 1..n, n + 1)  BY <1>1, <2>1, DotIsTotal
    <2> QED  BY <1>3, <1>5, <2>2 DEF Distance
  <1> QED  BY <1>4, <1>5 DEF Metrics
=============================================================================
