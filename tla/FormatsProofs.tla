---------------------------- MODULE FormatsProofs ----------------------------
(* What is written is read back, for input of any length: the calendar on     *)
(* every day, and the texts, records and envelopes of every size.             *)
EXTENDS Formats, SequenceTheorems, WellFoundedInduction, NaturalsInduction, TLAPS

-----------------------------------------------------------------------------
(* The calendar *)

\* The parts of an era of 400 years that begin in March: centuries, spans of four years,
\* years, days.  Only the last year of a span has 366 days, and the last span of a
\* century only in the last century.
EraParts(c, q, r, d) ==
    /\ c \in 0 .. 3 /\ q \in 0 .. 24 /\ r \in 0 .. 3 /\ d \in 0 .. 365
    /\ d = 365 => r = 3 /\ (q < 24 \/ c = 3)

LEMMA YearOfEra ==
    ASSUME NEW c \in Int, NEW q \in Int, NEW r \in Int, NEW d \in Int, EraParts(c, q, r, d),
           NEW e \in Int, e = 36524 * c + 1461 * q + 365 * r + d,
           NEW y \in Int, y = 100 * c + 4 * q + r
    PROVE  /\ 0 <= e /\ e <= 146096 /\ 0 <= y /\ y <= 399
           /\ (e - e \div 1460 + e \div 36524 - e \div 146096) \div 365 = y
           /\ 365 * y + y \div 4 - y \div 100 = e - d
<1>1. 0 <= c /\ c <= 3 /\ 0 <= q /\ q <= 24 /\ 0 <= r /\ r <= 3 /\ 0 <= d /\ d <= 365
  BY DEF EraParts
<1>2. d = 365 => r = 3 /\ (q < 24 \/ c = 3)
  BY DEF EraParts
<1>3. y \div 4 = 25 * c + q /\ y \div 100 = c
  BY <1>1
<1>4. 0 <= e /\ e <= 146096 /\ 0 <= y /\ y <= 399
  BY <1>1
<1>5. e \div 1460 = 25 * c + q \/ e \div 1460 = 25 * c + q + 1
  BY <1>1
<1>6. d = 365 => e \div 1460 = 25 * c + q + 1
  BY <1>1, <1>2
<1>7. d = 0 => e \div 1460 = 25 * c + q
  BY <1>1
<1>8. e \div 36524 - e \div 146096 = c
  BY <1>1, <1>2
<1>9. PICK u \in Int : u = e \div 1460 /\ (u = 25 * c + q \/ u = 25 * c + q + 1)
                      /\ (d = 365 => u = 25 * c + q + 1) /\ (d = 0 => u = 25 * c + q)
  BY <1>5, <1>6, <1>7
<1>10. e - e \div 1460 + e \div 36524 - e \div 146096 = e - u + c
  BY <1>8, <1>9
<1>11. 365 * y <= e - u + c /\ e - u + c < 365 * y + 365
  BY <1>1, <1>9
<1>12. (e - u + c) \div 365 = y
  BY <1>11
<1>13. 365 * y + y \div 4 - y \div 100 = e - d
  BY <1>3
<1> QED BY <1>4, <1>10, <1>12, <1>13

\* The months of a year that begins in March: the month of a day, and its first day.
MarchBegins(s) == <<0, 31, 61, 92, 122, 153, 184, 214, 245, 275, 306, 337>>[s + 1]

LEMMA MonthOfYear ==
    ASSUME NEW s \in 0 .. 11, NEW d \in Nat, MarchBegins(s) <= d, d <= 365,
           s < 11 => d < MarchBegins(s + 1)
    PROVE  /\ (5 * d + 2) \div 153 = s
           /\ (153 * s + 2) \div 5 = MarchBegins(s)
<1>1. CASE s = 0 BY <1>1 DEF MarchBegins
<1>2. CASE s = 1 BY <1>2 DEF MarchBegins
<1>3. CASE s = 2 BY <1>3 DEF MarchBegins
<1>4. CASE s = 3 BY <1>4 DEF MarchBegins
<1>5. CASE s = 4 BY <1>5 DEF MarchBegins
<1>6. CASE s = 5 BY <1>6 DEF MarchBegins
<1>7. CASE s = 6 BY <1>7 DEF MarchBegins
<1>8. CASE s = 7 BY <1>8 DEF MarchBegins
<1>9. CASE s = 8 BY <1>9 DEF MarchBegins
<1>10. CASE s = 9 BY <1>10 DEF MarchBegins
<1>11. CASE s = 10 BY <1>11 DEF MarchBegins
<1>12. CASE s = 11 BY <1>12 DEF MarchBegins
<1> QED BY <1>1, <1>2, <1>3, <1>4, <1>5, <1>6, <1>7, <1>8, <1>9, <1>10, <1>11, <1>12

\* A date by the year that begins in March, and the parts of its era.
InParts(date, e, c, q, r, s, d) ==
    /\ e \in Int /\ s \in 0 .. 11 /\ EraParts(c, q, r, d)
    /\ MarchBegins(s) <= d /\ (s < 11 => d < MarchBegins(s + 1))
    /\ date.year = 400 * e + 100 * c + 4 * q + r + (IF s < 10 THEN 0 ELSE 1)
    /\ date.month = s + (IF s < 10 THEN 3 ELSE -9)
    /\ date.day = d - MarchBegins(s) + 1

\* The number of the day with these parts.
DayOf(e, c, q, r, d) == 146097 * e + 36524 * c + 1461 * q + 365 * r + d - 719468

LEMMA DayOfParts ==
    ASSUME NEW date, NEW e, NEW c, NEW q, NEW r, NEW s, NEW d, InParts(date, e, c, q, r, s, d)
    PROVE  DayNumber(date) = DayOf(e, c, q, r, d)
<1>1. PICK y, m, k : y = date.year /\ m = date.month /\ k = date.day
  OBVIOUS
<1>2. e \in Int /\ c \in 0 .. 3 /\ q \in 0 .. 24 /\ r \in 0 .. 3 /\ s \in 0 .. 11 /\ d \in 0 .. 365
  BY DEF InParts, EraParts
<1>3. PICK b \in Int : b = MarchBegins(s)
  BY <1>2 DEF MarchBegins
<1>4. k \in Int /\ k = d - b + 1
  BY <1>1, <1>2, <1>3 DEF InParts
<1>5. m = s + (IF s < 10 THEN 3 ELSE -9)
  BY <1>1 DEF InParts
<1>11. DayNumber(date) = YearBegins(y) + MonthBegins(y, m) + k - 1
  BY <1>1 DEF DayNumber
<1>12. YearBegins(y) + MonthBegins(y, m) + k - 1
         = 146097 * e + 36524 * c + 1461 * q + 365 * r + d - 719468
  <2>1. CASE s < 10
    <3>1. y = 400 * e + 100 * c + 4 * q + r
      BY <2>1, <1>1, <1>2 DEF InParts
    <3>2. LeapYear(y) <=> r = 0 /\ (q = 0 => c = 0)
      BY <1>2, <3>1 DEF LeapYear
    <3>3. YearBegins(y) = 365 * y + (100 * e + 25 * c + q + (IF r > 0 THEN 1 ELSE 0))
             - (4 * e + c + (IF 4 * q + r > 0 THEN 1 ELSE 0))
             + (e + (IF 100 * c + 4 * q + r > 0 THEN 1 ELSE 0)) - 719528
      BY <1>2, <3>1 DEF YearBegins
    <3>4. MonthBegins(y, m) = b + 59 + (IF LeapYear(y) THEN 1 ELSE 0)
      BY <2>1, <1>2, <1>3, <1>5 DEF MonthBegins, MarchBegins
    <3> QED BY <1>2, <1>4, <3>1, <3>2, <3>3, <3>4
  <2>2. CASE s >= 10
    <3>1. y = 400 * e + 100 * c + 4 * q + r + 1
      BY <2>2, <1>1, <1>2 DEF InParts
    <3>2. YearBegins(y) = 365 * y + (100 * e + 25 * c + q + 1) - (4 * e + c + 1) + (e + 1) - 719528
      BY <1>2, <3>1 DEF YearBegins
    <3>3. MonthBegins(y, m) = b - 306
      BY <2>2, <1>2, <1>3, <1>5 DEF MonthBegins, MarchBegins
    <3> QED BY <1>2, <1>4, <3>1, <3>2, <3>3
  <2> QED BY <1>2, <2>1, <2>2
<1> QED BY <1>11, <1>12, SMT DEF DayOf

LEMMA PartsOfDate ==
    ASSUME NEW date, IsDate(date)
    PROVE  \E e, c, q, r, s, d : InParts(date, e, c, q, r, s, d)
<1>1. PICK y, m, k : y = date.year /\ m = date.month /\ k = date.day
  OBVIOUS
<1>2. y \in Int /\ m \in 1 .. 12 /\ k \in 1 .. MonthDays(y, m)
  BY <1>1 DEF IsDate
<1>3. PICK s \in 0 .. 11 : m = s + (IF s < 10 THEN 3 ELSE -9)
  <2>1. CASE m > 2
    <3>1. m - 3 \in 0 .. 11 /\ m = (m - 3) + (IF m - 3 < 10 THEN 3 ELSE -9)
      BY <1>2, <2>1
    <3> QED BY <3>1
  <2>2. CASE m <= 2
    <3>1. m + 9 \in 0 .. 11 /\ m = (m + 9) + (IF m + 9 < 10 THEN 3 ELSE -9)
      BY <1>2, <2>2
    <3> QED BY <3>1
  <2> QED BY <1>2, <2>1, <2>2
<1>4. PICK z \in Int : z = y - (IF s < 10 THEN 0 ELSE 1)
  BY <1>2
<1>5. PICK e \in Int, c \in 0 .. 3, q \in 0 .. 24, r \in 0 .. 3 : z = 400 * e + 100 * c + 4 * q + r
  <2>1. PICK e \in Int, x \in 0 .. 399 : z = 400 * e + x
    <3>1. z \div 400 \in Int /\ z - 400 * (z \div 400) \in 0 .. 399
      OBVIOUS
    <3> QED BY <3>1
  <2>2. PICK c \in 0 .. 3, w \in 0 .. 99 : x = 100 * c + w
    <3>1. x \div 100 \in 0 .. 3 /\ x - 100 * (x \div 100) \in 0 .. 99
      OBVIOUS
    <3> QED BY <3>1
  <2>3. PICK q \in 0 .. 24, r \in 0 .. 3 : w = 4 * q + r
    <3>1. w \div 4 \in 0 .. 24 /\ w - 4 * (w \div 4) \in 0 .. 3
      OBVIOUS
    <3> QED BY <3>1
  <2> QED BY <2>1, <2>2, <2>3
<1>6. PICK n \in {28, 29, 30, 31} : n = MonthDays(y, m) /\ (n = 29 => m = 2 /\ LeapYear(y))
                                     /\ (m = 2 => n \in {28, 29}) /\ (m \in {4, 6, 9, 11} => n = 30)
  BY <1>2 DEF MonthDays
<1>7. PICK d \in Int : d = MarchBegins(s) + k - 1
  <2>1. MarchBegins(s) \in Int
    BY DEF MarchBegins
  <2> QED BY <2>1, <1>2, <1>6
<1>8. k \in 1 .. n
  BY <1>2, <1>6
<1>9. MarchBegins(s) <= d /\ d \in 0 .. 365 /\ (s < 11 => d < MarchBegins(s + 1))
      /\ (d = 365 => s = 11 /\ n = 29)
  BY <1>3, <1>6, <1>7, <1>8 DEF MarchBegins
<1>10. EraParts(c, q, r, d)
  <2>1. ASSUME d = 365 PROVE r = 3 /\ (q < 24 \/ c = 3)
    <3>1. y = z + 1 /\ y % 4 = 0 /\ (y % 100 = 0 => y % 400 = 0)
      BY <2>1, <1>2, <1>4, <1>6, <1>9 DEF LeapYear
    <3> QED BY <3>1, <1>5
  <2> QED BY <2>1, <1>9 DEF EraParts
<1>13. y = 400 * e + 100 * c + 4 * q + r + (IF s < 10 THEN 0 ELSE 1) /\ k = d - MarchBegins(s) + 1
  <2>1. MarchBegins(s) \in Int /\ k \in Int
    BY <1>2 DEF MarchBegins
  <2> QED BY <2>1, <1>2, <1>4, <1>5, <1>7
<1>16. /\ date.year = 400 * e + 100 * c + 4 * q + r + (IF s < 10 THEN 0 ELSE 1)
       /\ date.month = s + (IF s < 10 THEN 3 ELSE -9)
       /\ date.day = d - MarchBegins(s) + 1
  BY <1>1, <1>3, <1>13, SMT
<1>17. MarchBegins(s) <= d /\ (s < 11 => d < MarchBegins(s + 1))
  BY <1>9
<1>19. InParts(date, e, c, q, r, s, d)
  BY <1>10, <1>16, <1>17 DEF InParts
<1> QED BY <1>19, Zenon

\* What civil_from_days computes, step by step, from the parts of an era; Rust's division,
\* as it is used there, rounds down whatever the sign.
CivilParts(n, e, x, y, d, s, m) ==
    /\ n \in Int /\ e \in Int /\ x \in Int /\ y \in Int /\ d \in Int /\ s \in Int /\ m \in Int
    /\ n + 719468 = 146097 * e + x /\ 0 <= x /\ x <= 146096
    /\ (x - x \div 1460 + x \div 36524 - x \div 146096) \div 365 = y
    /\ x - (365 * y + y \div 4 - y \div 100) = d
    /\ (5 * d + 2) \div 153 = s
    /\ m = s + (IF s < 10 THEN 3 ELSE -9)
CivilOf(e, y, d, s, m) ==
    [year |-> y + e * 400 + (IF m <= 2 THEN 1 ELSE 0), month |-> m,
     day |-> d - (153 * s + 2) \div 5 + 1]

LEMMA CivilFromDaysIs ==
    ASSUME NEW n, NEW e, NEW x, NEW y, NEW d, NEW s, NEW m, CivilParts(n, e, x, y, d, s, m)
    PROVE  civil_from_days(n) = CivilOf(e, y, d, s, m)
<1> USE DEF CivilParts, CivilOf
<1> DEFINE days == n + 719468
           era == Quotient(IF days >= 0 THEN days ELSE days - 146096, 146097)
           dayOfEra == days - era * 146097
           yearOfEra == (dayOfEra - dayOfEra \div 1460 + dayOfEra \div 36524
                        - dayOfEra \div 146096) \div 365
           dayOfYear == dayOfEra - (365 * yearOfEra + yearOfEra \div 4 - yearOfEra \div 100)
           shifted == (5 * dayOfYear + 2) \div 153
           month == shifted + (IF shifted < 10 THEN 3 ELSE -9)
<1>1. civil_from_days(n) =
       [year |-> yearOfEra + era * 400 + (IF month <= 2 THEN 1 ELSE 0), month |-> month,
        day |-> dayOfYear - (153 * shifted + 2) \div 5 + 1]
  BY SMT DEF civil_from_days
<1> HIDE DEF month
<1>2. month = shifted + (IF shifted < 10 THEN 3 ELSE -9)
  BY DEF month
<1> HIDE DEF shifted
<1>3. shifted = (5 * dayOfYear + 2) \div 153
  BY DEF shifted
<1> HIDE DEF dayOfYear
<1>4. dayOfYear = dayOfEra - (365 * yearOfEra + yearOfEra \div 4 - yearOfEra \div 100)
  BY DEF dayOfYear
<1> HIDE DEF yearOfEra
<1>5. yearOfEra = (dayOfEra - dayOfEra \div 1460 + dayOfEra \div 36524 - dayOfEra \div 146096) \div 365
  BY DEF yearOfEra
<1> HIDE DEF dayOfEra
<1>6. dayOfEra = days - era * 146097
  BY DEF dayOfEra
<1>7. days \in Int /\ days \div 146097 = e
  BY SMT
<1>8. era = days \div 146097
  BY <1>7, SMT DEF Quotient
<1> HIDE DEF era, days
<1>9. era = e
  BY <1>7, <1>8, SMT
<1>10. days = 146097 * e + x
  BY SMT DEF days
<1>11. dayOfEra = x
  BY <1>7, <1>9, <1>10, <1>6, SMT
<1>12. yearOfEra = y
  BY <1>11, <1>5, SMT
<1>13. dayOfYear = d
  BY <1>11, <1>12, <1>4, SMT
<1>14. shifted = s
  BY <1>13, <1>3, SMT
<1>15. month = m
  BY <1>14, <1>2, SMT
<1> QED BY <1>1, <1>9, <1>12, <1>13, <1>14, <1>15, SMT

\* The conversions of a date: what they compute is the number of its day, and the date.
LEMMA Converted ==
    ASSUME NEW date, IsDate(date)
    PROVE  /\ days_from_civil(date.year, date.month, date.day) = DayNumber(date)
           /\ civil_from_days(DayNumber(date)) = date
           /\ DayNumber(date) \in Int
<1>0. PICK e, c, q, r, s, d : InParts(date, e, c, q, r, s, d)
  BY PartsOfDate, Zenon
<1>1. /\ EraParts(c, q, r, d)
      /\ MarchBegins(s) <= d /\ (s < 11 => d < MarchBegins(s + 1))
      /\ date.year = 400 * e + 100 * c + 4 * q + r + (IF s < 10 THEN 0 ELSE 1)
      /\ date.month = s + (IF s < 10 THEN 3 ELSE -9)
      /\ date.day = d - MarchBegins(s) + 1
  BY <1>0 DEF InParts
<1>a. e \in Int /\ c \in 0 .. 3 /\ q \in 0 .. 24 /\ r \in 0 .. 3 /\ s \in 0 .. 11 /\ d \in 0 .. 365
  BY <1>0 DEF InParts, EraParts
<1>b. DayNumber(date) = 146097 * e + 36524 * c + 1461 * q + 365 * r + d - 719468
  BY <1>0, DayOfParts, SMT DEF DayOf
<1> USE <1>a
<1>2. PICK y \in Int, x \in Int : y = 100 * c + 4 * q + r /\ x = 36524 * c + 1461 * q + 365 * r + d
  OBVIOUS
<1>3. /\ 0 <= x /\ x <= 146096 /\ 0 <= y /\ y <= 399
      /\ (x - x \div 1460 + x \div 36524 - x \div 146096) \div 365 = y
      /\ 365 * y + y \div 4 - y \div 100 = x - d
  BY <1>1, <1>2, YearOfEra
<1>4. (5 * d + 2) \div 153 = s /\ (153 * s + 2) \div 5 = MarchBegins(s)
  BY <1>1, MonthOfYear
<1>5. DayNumber(date) \in Int /\ DayNumber(date) + 719468 = 146097 * e + x
  BY <1>b, <1>2, SMT
<1>6. PICK b \in Int : b = MarchBegins(s)
  BY DEF MarchBegins
<1>7. PICK m \in 1 .. 12 : m = date.month /\ m = s + (IF s < 10 THEN 3 ELSE -9)
  <2>1. s + (IF s < 10 THEN 3 ELSE -9) \in 1 .. 12
    OBVIOUS
  <2> QED BY <2>1, <1>1
<1>8. PICK k \in Int : k = date.day /\ k = d - b + 1
  BY <1>1, <1>6
<1>9. PICK w \in Int : w = date.year /\ w = 400 * e + y + (IF s < 10 THEN 0 ELSE 1)
  BY <1>1, <1>2
<1>10. days_from_civil(w, m, k) = 146097 * e + x - 719468
  <2>1. PICK z \in Int : z = (IF m <= 2 THEN w - 1 ELSE w)
    BY <1>9
  <2>2. z = 400 * e + y /\ z \div 400 = e
    BY <2>1, <1>3, <1>7, <1>9
  <2>4. z - e * 400 = y
    BY <2>2
  <2>5. (153 * (m + (IF m > 2 THEN -3 ELSE 9)) + 2) \div 5 + k - 1 = d
    <3>1. m + (IF m > 2 THEN -3 ELSE 9) = s
      BY <1>7
    <3> QED BY <3>1, <1>4, <1>6, <1>8
  <2>6. days_from_civil(w, m, k)
          = e * 146097 + ((z - e * 400) * 365 + (z - e * 400) \div 4 - (z - e * 400) \div 100
              + ((153 * (m + (IF m > 2 THEN -3 ELSE 9)) + 2) \div 5 + k - 1)) - 719468
    <3>1. CASE m <= 2
      <4>1. z = w - 1
        BY <2>1, <3>1
      <4> QED BY <2>2, <3>1, <4>1, SMT DEF days_from_civil, Quotient
    <3>2. CASE m > 2
      <4>1. z = w
        BY <2>1, <3>2
      <4> QED BY <2>2, <3>2, <4>1, SMT DEF days_from_civil, Quotient
    <3> QED BY <3>1, <3>2
  <2> QED BY <2>4, <2>5, <2>6, <1>3
<1>11. civil_from_days(DayNumber(date)) = [year |-> w, month |-> m, day |-> k]
  <2>1. PICK n \in Int : n = DayNumber(date)
    BY <1>5
  <2>2. n + 719468 = 146097 * e + x
    BY <2>1, <1>5, SMT
  <2>3. x - (365 * y + y \div 4 - y \div 100) = d
    BY <1>3, SMT
  <2>7. civil_from_days(n) = CivilOf(e, y, d, s, m)
    <3>1. s \in Int /\ m \in Int /\ d \in Int
      OBVIOUS
    <3>2. CivilParts(n, e, x, y, d, s, m)
      BY <2>2, <2>3, <3>1, <1>3, <1>4, <1>7, SMT DEF CivilParts
    <3> QED BY <3>2, CivilFromDaysIs, Zenon
  <2>8. y + e * 400 + (IF m <= 2 THEN 1 ELSE 0) = w /\ d - (153 * s + 2) \div 5 + 1 = k
    BY <1>4, <1>6, <1>7, <1>8, <1>9
  <2> QED BY <2>1, <2>7, <2>8 DEF CivilOf
<1>12. date = [year |-> w, month |-> m, day |-> k]
  BY <1>7, <1>8, <1>9 DEF IsDate
<1> QED BY <1>5, <1>7, <1>8, <1>9, <1>10, <1>11, <1>12

\* The day after a date has the next number.
LEMMA NextDate ==
    ASSUME NEW date, IsDate(date)
    PROVE  IsDate(Tomorrow(date)) /\ DayNumber(Tomorrow(date)) = DayNumber(date) + 1
<1>1. PICK y, m, k : y = date.year /\ m = date.month /\ k = date.day
  OBVIOUS
<1>2. y \in Int /\ m \in 1 .. 12 /\ k \in 1 .. MonthDays(y, m)
  BY <1>1 DEF IsDate
<1>3. date = [year |-> y, month |-> m, day |-> k]
  BY <1>1 DEF IsDate
<1>4. MonthDays(y, m) \in 28 .. 31
  BY <1>2 DEF MonthDays
<1>5. ASSUME NEW a \in Int, NEW b \in 1 .. 12, NEW c \in 1 .. MonthDays(a, b)
      PROVE  IsDate([year |-> a, month |-> b, day |-> c])
  BY <1>5 DEF IsDate
<1>6. ASSUME NEW a, NEW b, NEW c
      PROVE  DayNumber([year |-> a, month |-> b, day |-> c])
               = YearBegins(a) + MonthBegins(a, b) + c - 1
  BY DEF DayNumber
<1>7. YearBegins(y) \in Int /\ MonthBegins(y, m) \in Int
  BY <1>2 DEF YearBegins, MonthBegins
<1>8. CASE k < MonthDays(y, m)
  <2>1. Tomorrow(date) = [year |-> y, month |-> m, day |-> k + 1]
    BY <1>3, <1>8 DEF Tomorrow
  <2>2. k + 1 \in 1 .. MonthDays(y, m)
    BY <1>2, <1>4, <1>8
  <2>3. IsDate(Tomorrow(date))
    BY <1>2, <1>5, <2>1, <2>2
  <2>4. DayNumber(Tomorrow(date)) = YearBegins(y) + MonthBegins(y, m) + (k + 1) - 1
    BY <1>6, <2>1
  <2>5. DayNumber(date) = YearBegins(y) + MonthBegins(y, m) + k - 1
    BY <1>1 DEF DayNumber
  <2> QED BY <1>2, <1>4, <1>7, <2>3, <2>4, <2>5
<1>9. CASE ~(k < MonthDays(y, m)) /\ m < 12
  <2>1. Tomorrow(date) = [year |-> y, month |-> m + 1, day |-> 1]
    BY <1>3, <1>9 DEF Tomorrow
  <2>2. m + 1 \in 1 .. 12 /\ 1 \in 1 .. MonthDays(y, m + 1)
    BY <1>2, <1>9 DEF MonthDays
  <2>3. IsDate(Tomorrow(date))
    BY <1>2, <1>5, <2>1, <2>2
  <2>4. DayNumber(Tomorrow(date)) = YearBegins(y) + MonthBegins(y, m + 1) + 1 - 1
    BY <1>6, <2>1
  <2>5. DayNumber(date) = YearBegins(y) + MonthBegins(y, m) + k - 1
    BY <1>1 DEF DayNumber
  <2>6. k = MonthDays(y, m)
    BY <1>2, <1>4, <1>9
  <2>7. MonthBegins(y, m + 1) = MonthBegins(y, m) + MonthDays(y, m)
    BY <1>2, <1>9 DEF MonthBegins, MonthDays
  <2> QED BY <1>2, <1>4, <1>7, <2>3, <2>4, <2>5, <2>6, <2>7
<1>10. CASE ~(k < MonthDays(y, m)) /\ ~(m < 12)
  <2>0. m = 12
    BY <1>2, <1>10
  <2>1. Tomorrow(date) = [year |-> y + 1, month |-> 1, day |-> 1]
    BY <1>3, <1>10 DEF Tomorrow
  <2>2. y + 1 \in Int /\ 1 \in 1 .. MonthDays(y + 1, 1)
    BY <1>2 DEF MonthDays
  <2>3. IsDate(Tomorrow(date))
    BY <1>5, <2>1, <2>2
  <2>4. DayNumber(Tomorrow(date)) = YearBegins(y + 1) + MonthBegins(y + 1, 1) + 1 - 1
    BY <1>6, <2>1
  <2>5. DayNumber(date) = YearBegins(y) + MonthBegins(y, 12) + k - 1
    BY <1>1, <2>0 DEF DayNumber
  <2>6. k = 31
    BY <1>2, <1>10, <2>0 DEF MonthDays
  <2>7. MonthBegins(y + 1, 1) = 0 /\ MonthBegins(y, 12) = 334 + (IF LeapYear(y) THEN 1 ELSE 0)
    BY DEF MonthBegins
  <2>8. YearBegins(y + 1) = YearBegins(y) + 365 + (IF LeapYear(y) THEN 1 ELSE 0)
    BY <1>2, SMT DEF YearBegins, LeapYear
  <2>9. YearBegins(y + 1) \in Int
    BY <1>2 DEF YearBegins
  <2> QED BY <1>7, <2>3, <2>4, <2>5, <2>6, <2>7, <2>8, <2>9
<1> QED BY <1>8, <1>9, <1>10

-----------------------------------------------------------------------------
(* The written form of a time *)

LEMMA PaddedTwo ==
    ASSUME NEW n \in Nat, n < 100
    PROVE  Padded(n, 2) = <<n \div 10, n % 10>>
<1>1. ~(n >= 10^2) /\ ~(n < 0)
  OBVIOUS
<1>2. Padded(n, 2) = [i \in 1 .. 2 |-> Digit(n, 2 - i)]
  BY <1>1 DEF Padded
<1>3. Digit(n, 2 - 1) = n \div 10 /\ Digit(n, 2 - 2) = n % 10
  BY DEF Digit
<1> QED BY <1>2, <1>3

FourDigits(a, b, c, d, n) ==
    /\ a \in 0 .. 9 /\ b \in 0 .. 9 /\ c \in 0 .. 9 /\ d \in 0 .. 9
    /\ n = 1000 * a + 100 * b + 10 * c + d

LEMMA PaddedFour ==
    ASSUME NEW n \in Nat, n < 10000
    PROVE  \E a, b, c, d : Padded(n, 4) = <<a, b, c, d>> /\ FourDigits(a, b, c, d, n)
<1>1. ~(n >= 10^4) /\ ~(n < 0)
  BY SMT
<1>2. Padded(n, 4) = [i \in 1 .. 4 |-> Digit(n, 4 - i)]
  BY <1>1 DEF Padded
<1>3. PICK a, b, c, d :
         a = n \div 1000 /\ b = (n \div 100) % 10 /\ c = (n \div 10) % 10 /\ d = n % 10
  OBVIOUS
<1>4. Digit(n, 4 - 1) = a /\ Digit(n, 4 - 2) = b
  BY <1>3 DEF Digit
<1>5. Digit(n, 4 - 3) = c /\ Digit(n, 4 - 4) = d
  BY <1>3 DEF Digit
<1>6. Padded(n, 4) = <<a, b, c, d>>
  BY <1>2, <1>4, <1>5
<1>7. FourDigits(a, b, c, d, n)
  BY <1>3, SMT DEF FourDigits
<1> QED BY <1>6, <1>7, SMT

LEMMA NumberTwo ==
    ASSUME NEW a \in 0 .. 9, NEW b \in 0 .. 9
    PROVE  number(<<a, b>>) = <<10 * a + b>>
<1> DEFINE t == <<a, b>>
           Value(f) == f = [i \in 0 .. Len(t) |-> IF i = 0 THEN 0 ELSE 10 * f[i - 1] + t[i]]
           g == [i \in 0 .. 2 |-> IF i = 0 THEN 0 ELSE IF i = 1 THEN a ELSE 10 * a + b]
<1>1. Len(t) = 2 /\ t[1] = a /\ t[2] = b /\ DOMAIN t = 1 .. 2
  OBVIOUS
<1>2. Value(g)
  <2>1. \A i \in 0 .. 2 : g[i] = IF i = 0 THEN 0 ELSE 10 * g[i - 1] + t[i]
    BY <1>1
  <2> QED BY <1>1, <2>1
<1> DEFINE h == CHOOSE f : Value(f)
<1> HIDE DEF g, Value
<1>3. Value(h)
  BY <1>2, Zenon
<1> USE DEF Value
<1>4. number(t) = IF \E i \in DOMAIN t : t[i] = Other THEN None ELSE <<h[Len(t)]>>
  BY DEF number
<1> HIDE DEF h
<1>5. h[0] = 0 /\ h[1] = 10 * h[0] + a /\ h[2] = 10 * h[1] + b
  BY <1>1, <1>3
<1>6. ~\E i \in DOMAIN t : t[i] = Other
  BY <1>1 DEF Other
<1>7. h[2] = 10 * a + b
  BY <1>5
<1> QED BY <1>1, <1>4, <1>6, <1>7

LEMMA NumberFour ==
    ASSUME NEW a, NEW b, NEW c, NEW d, NEW n, FourDigits(a, b, c, d, n)
    PROVE  number(<<a, b, c, d>>) = <<n>>
<1> USE DEF FourDigits
<1> DEFINE t == <<a, b, c, d>>
           Value(f) == f = [i \in 0 .. Len(t) |-> IF i = 0 THEN 0 ELSE 10 * f[i - 1] + t[i]]
           g == [i \in 0 .. 4 |-> IF i = 0 THEN 0 ELSE IF i = 1 THEN a
                                  ELSE IF i = 2 THEN 10 * a + b
                                  ELSE IF i = 3 THEN 100 * a + 10 * b + c
                                  ELSE 1000 * a + 100 * b + 10 * c + d]
<1>1. Len(t) = 4 /\ t[1] = a /\ t[2] = b /\ t[3] = c /\ t[4] = d /\ DOMAIN t = 1 .. 4
  OBVIOUS
<1>2. Value(g)
  <2>1. \A i \in 0 .. 4 : g[i] = IF i = 0 THEN 0 ELSE 10 * g[i - 1] + t[i]
    BY <1>1
  <2> QED BY <1>1, <2>1
<1> DEFINE h == CHOOSE f : Value(f)
<1> HIDE DEF g, Value
<1>3. Value(h)
  BY <1>2, Zenon
<1> USE DEF Value
<1>4. number(t) = IF \E i \in DOMAIN t : t[i] = Other THEN None ELSE <<h[Len(t)]>>
  BY DEF number
<1> HIDE DEF h
<1>5. h[0] = 0 /\ h[1] = 10 * h[0] + a /\ h[2] = 10 * h[1] + b /\ h[3] = 10 * h[2] + c
      /\ h[4] = 10 * h[3] + d
  BY <1>1, <1>3
<1>6. ~\E i \in DOMAIN t : t[i] = Other
  BY <1>1 DEF Other
<1>7. h[4] = n
  BY <1>5
<1> QED BY <1>1, <1>4, <1>6, <1>7

\* A number that fits its width is read back as itself.
LEMMA PairReadBack ==
    ASSUME NEW n \in Nat, n < 100
    PROVE  Len(Padded(n, 2)) = 2 /\ number(Padded(n, 2)) = <<n>>
<1>1. PICK a \in 0 .. 9, b \in 0 .. 9 : a = n \div 10 /\ b = n % 10
  OBVIOUS
<1>2. Padded(n, 2) = <<a, b>>
  BY <1>1, PaddedTwo
<1>3. n = 10 * a + b
  BY <1>1
<1>4. number(<<a, b>>) = <<10 * a + b>>
  BY NumberTwo
<1>5. Len(<<a, b>>) = 2
  OBVIOUS
<1> QED BY <1>2, <1>3, <1>4, <1>5, Zenon

LEMMA YearReadBack ==
    ASSUME NEW n \in Nat, n < 10000
    PROVE  Len(Padded(n, 4)) = 4 /\ number(Padded(n, 4)) = <<n>>
<1>1. PICK a, b, c, d : Padded(n, 4) = <<a, b, c, d>> /\ FourDigits(a, b, c, d, n)
  BY PaddedFour
<1>2. number(<<a, b, c, d>>) = <<n>>
  BY <1>1, NumberFour, SMT
<1>3. Len(<<a, b, c, d>>) = 4
  OBVIOUS
<1> QED BY <1>1, <1>2, <1>3, SMT

LEMMA LeapYears == ASSUME NEW y \in Int PROVE is_leap_year(y) <=> LeapYear(y)
BY DEF is_leap_year, LeapYear

LEMMA MonthLengths ==
    ASSUME NEW y \in Int, NEW m \in 1 .. 12
    PROVE  days_in_month(y, m) = MonthDays(y, m) /\ MonthDays(y, m) \in 28 .. 31
<1>1. is_leap_year(y) <=> LeapYear(y)
  BY LeapYears
<1>2. CASE m = 2
  BY <1>1, <1>2 DEF days_in_month, MonthDays
<1>3. CASE m \in {1, 3, 5, 7, 8, 10, 12}
  BY <1>3 DEF days_in_month, MonthDays
<1>4. CASE m \in {4, 6, 9, 11}
  BY <1>4 DEF days_in_month, MonthDays
<1> QED BY <1>2, <1>3, <1>4

\* Six texts that are the numbers of a date and a time of day are read as that moment.
IsMoment(y, m, k, h, i, s) ==
    /\ y \in Int /\ m \in 1 .. 12 /\ k \in 1 .. MonthDays(y, m)
    /\ h \in 0 .. 23 /\ i \in 0 .. 59 /\ s \in 0 .. 59

Spells(piece, width, n) == Len(piece) = width /\ number(piece) = <<n>>

LEMMA SixNumbers ==
    ASSUME NEW y, NEW m, NEW k, NEW h, NEW i, NEW s, IsMoment(y, m, k, h, i, s),
           NEW a, NEW b, NEW c, NEW d, NEW e, NEW f, Spells(a, 4, y), Spells(b, 2, m),
           Spells(c, 2, k), Spells(d, 2, h), Spells(e, 2, i), Spells(f, 2, s)
    PROVE  parse_rfc3339(<<a, b, c, d, e, f>>)
             = <<[day |-> days_from_civil(y, m, k), second |-> h * 3600 + i * 60 + s]>>
<1> USE DEF IsMoment
<1> DEFINE t == <<a, b, c, d, e, f>>
           Fits == \A j \in 1 .. 6 : Len(t[j]) = (IF j = 1 THEN 4 ELSE 2) /\ number(t[j]) # None
           n == [j \in 1 .. 6 |-> number(t[j])[1]]
           Valid == /\ n[2] \in 1 .. 12
                    /\ n[3] >= 1 /\ n[3] <= days_in_month(n[1], n[2])
                    /\ n[4] <= 23 /\ n[5] <= 59 /\ n[6] <= 59
<1>1. /\ t[1] = a /\ t[2] = b /\ t[3] = c /\ t[4] = d /\ t[5] = e /\ t[6] = f
  OBVIOUS
<1>2. parse_rfc3339(t) = IF ~Fits \/ ~Valid THEN None
                         ELSE <<[day |-> days_from_civil(n[1], n[2], n[3]),
                                 second |-> n[4] * 3600 + n[5] * 60 + n[6]]>>
  BY SMT DEF parse_rfc3339
<1> HIDE DEF t
<1>3. Fits
  <2> SUFFICES ASSUME NEW j \in 1 .. 6
               PROVE  Len(t[j]) = (IF j = 1 THEN 4 ELSE 2) /\ number(t[j]) # <<>>
    BY DEF None
  <2>1. \A v : <<v>> # <<>>
    OBVIOUS
  <2>2. j = 1 \/ j = 2 \/ j = 3 \/ j = 4 \/ j = 5 \/ j = 6
    OBVIOUS
  <2> QED BY <1>1, <2>1, <2>2 DEF Spells
<1>4. n[1] = y /\ n[2] = m /\ n[3] = k /\ n[4] = h /\ n[5] = i /\ n[6] = s
  BY <1>1 DEF Spells
<1> HIDE DEF n, Fits
<1>5. days_in_month(y, m) = MonthDays(y, m) /\ MonthDays(y, m) \in 28 .. 31
  BY MonthLengths
<1>6. Valid
  BY <1>4, <1>5
<1> HIDE DEF Valid
<1>7. parse_rfc3339(t) = <<[day |-> days_from_civil(n[1], n[2], n[3]),
                            second |-> n[4] * 3600 + n[5] * 60 + n[6]]>>
  BY <1>2, <1>3, <1>6
<1>8. parse_rfc3339(t) = <<[day |-> days_from_civil(y, m, k), second |-> h * 3600 + i * 60 + s]>>
  BY <1>4, <1>7
<1> QED BY <1>8 DEF t

\* The time of day in hours, minutes and seconds
Clock(second, h, i, s) ==
    /\ h \in 0 .. 23 /\ i \in 0 .. 59 /\ s \in 0 .. 59
    /\ h = second \div 3600 /\ i = (second % 3600) \div 60 /\ s = second % 60
    /\ h * 3600 + i * 60 + s = second

LEMMA TimeOfDay ==
    ASSUME NEW second \in Nat, second < DaySeconds
    PROVE  \E h, i, s : Clock(second, h, i, s)
<1>1. PICK h \in Int, x \in Int : h = second \div 3600 /\ x = second % 3600
  BY SMT
<1>2. 0 <= h /\ h <= 23 /\ 0 <= x /\ x < 3600 /\ second = 3600 * h + x
  BY <1>1, SMT DEF DaySeconds
<1>3. PICK i \in Int, s \in Int : i = x \div 60 /\ s = x - 60 * i
  BY SMT
<1>4. 0 <= i /\ i <= 59 /\ 0 <= s /\ s <= 59
  BY <1>2, <1>3, SMT
<1>5. second = 60 * (60 * h + i) + s
  BY <1>2, <1>3, SMT
<1>6. second % 60 = s
  BY <1>4, <1>5, SMT
<1>7. Clock(second, h, i, s)
  BY <1>1, <1>2, <1>3, <1>4, <1>5, <1>6, SMT DEF Clock
<1> QED BY <1>7, SMT

\* What is written of a moment between the years 0 and 9999 is read back as that moment.
LEMMA MomentReadBack ==
    ASSUME NEW date, IsDate(date), 0 <= date.year, date.year <= 9999,
           NEW second \in Nat, second < DaySeconds
    PROVE  parse_rfc3339(to_rfc3339([day |-> DayNumber(date), second |-> second]))
             = <<[day |-> DayNumber(date), second |-> second]>>
<1>1. PICK y, m, k : y = date.year /\ m = date.month /\ k = date.day
  OBVIOUS
<1>2. y \in Int /\ m \in 1 .. 12 /\ k \in 1 .. MonthDays(y, m)
  BY <1>1 DEF IsDate
<1>3. MonthDays(y, m) \in 28 .. 31
  BY <1>2, MonthLengths
<1>4. PICK h, i, s : Clock(second, h, i, s)
  BY TimeOfDay
<1> USE DEF Clock
<1>5. civil_from_days(DayNumber(date)) = date /\ days_from_civil(y, m, k) = DayNumber(date)
  BY <1>1, Converted
<1> DEFINE moment == [day |-> DayNumber(date), second |-> second]
<1>6. PICK a, b, c, d, e, f :
         /\ a = Padded(y, 4) /\ b = Padded(m, 2) /\ c = Padded(k, 2)
         /\ d = Padded(h, 2) /\ e = Padded(i, 2) /\ f = Padded(s, 2)
  OBVIOUS
<1>7. to_rfc3339(moment) = <<a, b, c, d, e, f>>
  BY <1>1, <1>4, <1>5, <1>6, SMT DEF to_rfc3339
<1>8. Spells(a, 4, y)
  <2>1. y \in Nat /\ y < 10000
    BY <1>1, <1>2, SMT
  <2> QED BY <1>6, <2>1, YearReadBack, SMT DEF Spells
<1>9. Spells(b, 2, m) /\ Spells(c, 2, k)
  <2>1. m \in Nat /\ m < 100 /\ k \in Nat /\ k < 100
    BY <1>2, <1>3, SMT
  <2> QED BY <1>6, <2>1, PairReadBack, SMT DEF Spells
<1>10. Spells(d, 2, h) /\ Spells(e, 2, i) /\ Spells(f, 2, s)
  <2>1. h \in Nat /\ h < 100 /\ i \in Nat /\ i < 100 /\ s \in Nat /\ s < 100
    BY <1>4, SMT
  <2> QED BY <1>6, <2>1, PairReadBack, SMT DEF Spells
<1>11. parse_rfc3339(<<a, b, c, d, e, f>>)
         = <<[day |-> days_from_civil(y, m, k), second |-> h * 3600 + i * 60 + s]>>
  <2>1. IsMoment(y, m, k, h, i, s)
    BY <1>2, <1>4 DEF IsMoment
  <2> HIDE DEF Clock
  <2> QED BY <1>8, <1>9, <1>10, <2>1, SixNumbers, SMT
<1> QED BY <1>4, <1>5, <1>7, <1>11, SMT

\* The dates whose days lie between the first and the last writable day.
LEMMA WritableYears ==
    ASSUME NEW date, IsDate(date), MinMoment.day <= DayNumber(date),
           DayNumber(date) <= MaxMoment.day
    PROVE  0 <= date.year /\ date.year <= 9999
<1>1. PICK y, m, k : y = date.year /\ m = date.month /\ k = date.day
  OBVIOUS
<1>2. y \in Int /\ m \in 1 .. 12 /\ k \in 1 .. MonthDays(y, m)
  BY <1>1 DEF IsDate
<1>3. PICK x \in Int : x = MonthBegins(y, m) + k - 1 /\ 0 <= x /\ x <= 364 + (IF LeapYear(y) THEN 1 ELSE 0)
  <2>1. MonthBegins(y, m) + MonthDays(y, m) <= 365 + (IF LeapYear(y) THEN 1 ELSE 0)
    BY <1>2 DEF MonthBegins, MonthDays
  <2>2. MonthBegins(y, m) \in Nat /\ MonthDays(y, m) \in Nat
    BY <1>2 DEF MonthBegins, MonthDays
  <2>3. k \in Int /\ 1 <= k /\ k <= MonthDays(y, m)
    BY <1>2, <2>2
  <2> QED BY <2>1, <2>2, <2>3
<1>4. DayNumber(date) = YearBegins(y) + x
  <2>1. YearBegins(y) \in Int /\ MonthBegins(y, m) \in Int /\ k \in Int
    BY <1>2 DEF YearBegins, MonthBegins
  <2>2. DayNumber(date) = YearBegins(y) + MonthBegins(y, m) + k - 1
    BY <1>1 DEF DayNumber
  <2> QED BY <1>3, <2>1, <2>2
<1>5. MinMoment.day = -719528 /\ MaxMoment.day = 2932896
  BY SMT DEF MinMoment, MaxMoment
<1>6. YearBegins(y) \in Int
  BY <1>2 DEF YearBegins
<1>7. y < 0 => YearBegins(y) + x < -719528
  BY <1>2, <1>3, SMT DEF YearBegins, LeapYear
<1>8. y > 9999 => YearBegins(y) + x > 2932896
  BY <1>2, <1>3, SMT DEF YearBegins, LeapYear
<1> QED BY <1>1, <1>2, <1>3, <1>4, <1>5, <1>6, <1>7, <1>8, SMT

\* A clock, whatever it says, is held to a moment that is written and read back.
LEMMA StampReadBack ==
    ASSUME NEW date, IsDate(date), NEW second \in Nat, second < DaySeconds,
           NEW m, m = from_unix([day |-> DayNumber(date), second |-> second])
    PROVE  parse_rfc3339(to_rfc3339(m)) = <<m>>
<1> DEFINE first == [year |-> 0, month |-> 1, day |-> 1]
           last == [year |-> 9999, month |-> 12, day |-> 31]
           given0 == [day |-> DayNumber(date), second |-> second]
<1>1. DayNumber(date) \in Int
  BY Converted
<1>2. IsDate(first) /\ IsDate(last)
  BY SMT DEF IsDate, MonthDays
<1>3. DayNumber(first) = MinMoment.day /\ DayNumber(last) = MaxMoment.day
  <2>1. first.year = 0 /\ first.month = 1 /\ first.day = 1
    BY SMT
  <2>2. last.year = 9999 /\ last.month = 12 /\ last.day = 31
    BY SMT
  <2>3. YearBegins(0) = -719528 /\ MonthBegins(0, 1) = 0
    BY SMT DEF YearBegins, MonthBegins
  <2>4. YearBegins(9999) = 2932532 /\ MonthBegins(9999, 12) = 334
    BY SMT DEF YearBegins, MonthBegins, LeapYear
  <2> HIDE DEF first, last
  <2> QED BY <2>1, <2>2, <2>3, <2>4, SMT DEF DayNumber, MinMoment, MaxMoment
<1>4. 0 <= first.year /\ first.year <= 9999 /\ 0 <= last.year /\ last.year <= 9999
  BY SMT
<1> HIDE DEF first, last
<1>5. MinMoment = [day |-> DayNumber(first), second |-> 0]
  BY <1>3, SMT DEF MinMoment
<1>6. MaxMoment = [day |-> DayNumber(last), second |-> DaySeconds - 1]
  BY <1>3, SMT DEF MaxMoment
<1>7. 0 \in Nat /\ 0 < DaySeconds /\ DaySeconds - 1 \in Nat /\ DaySeconds - 1 < DaySeconds
  BY SMT DEF DaySeconds
<1>8. CASE Earlier(given0, MinMoment)
  <2>1. m = MinMoment
    BY <1>8 DEF from_unix
  <2> QED BY <1>2, <1>4, <1>5, <1>7, <2>1, MomentReadBack, SMT
<1>9. CASE ~Earlier(given0, MinMoment) /\ Earlier(MaxMoment, given0)
  <2>1. m = MaxMoment
    BY <1>9 DEF from_unix
  <2> QED BY <1>2, <1>4, <1>6, <1>7, <2>1, MomentReadBack, SMT
<1>10. CASE ~Earlier(given0, MinMoment) /\ ~Earlier(MaxMoment, given0)
  <2>1. m = given0
    BY <1>10 DEF from_unix
  <2>2. given0.day = DayNumber(date) /\ given0.second = second
    OBVIOUS
  <2>3. MinMoment.day \in Int /\ MaxMoment.day \in Int
    BY SMT DEF MinMoment, MaxMoment
  <2>4. MinMoment.day <= DayNumber(date) /\ DayNumber(date) <= MaxMoment.day
    BY <1>1, <1>10, <2>2, <2>3, SMT DEF Earlier
  <2>5. 0 <= date.year /\ date.year <= 9999
    BY <2>4, WritableYears, SMT
  <2> QED BY <2>1, <2>5, MomentReadBack, SMT
<1> QED BY <1>8, <1>9, <1>10

\* Every day has its parts, and with them its date.
LEMMA PartsOfDay ==
    ASSUME NEW n \in Int
    PROVE  \E e, c, q, r, d : e \in Int /\ EraParts(c, q, r, d) /\ n = DayOf(e, c, q, r, d)
<1>0. PICK e \in Int, x \in Int : e = (n + 719468) \div 146097 /\ x = n + 719468 - 146097 * e
  BY SMT
<1>1. n + 719468 = 146097 * e + x /\ 0 <= x /\ x <= 146096
  BY <1>0, SMT
<1>2. PICK c \in Int : c = (IF x \div 36524 > 3 THEN 3 ELSE x \div 36524)
  BY SMT
<1>3. PICK w \in Int : w = x - 36524 * c
  BY SMT
<1>4. 0 <= c /\ c <= 3 /\ 0 <= w /\ w <= 36524 /\ (w = 36524 => c = 3)
  BY <1>1, <1>2, <1>3, SMT
<1>5. PICK q \in Int, v \in Int : q = w \div 1461 /\ v = w - 1461 * q
  BY SMT
<1>6. 0 <= q /\ q <= 24 /\ 0 <= v /\ v <= 1460 /\ (q = 24 /\ v = 1460 => c = 3)
  BY <1>4, <1>5, SMT
<1>7. PICK r \in Int : r = (IF v \div 365 > 3 THEN 3 ELSE v \div 365)
  BY SMT
<1>8. PICK d \in Int : d = v - 365 * r
  BY SMT
<1>9. 0 <= r /\ r <= 3 /\ 0 <= d /\ d <= 365 /\ (d = 365 => r = 3 /\ v = 1460)
  BY <1>6, <1>7, <1>8, SMT
<1>10. EraParts(c, q, r, d)
  BY <1>4, <1>6, <1>9, SMT DEF EraParts
<1>11. n = DayOf(e, c, q, r, d)
  BY <1>1, <1>3, <1>5, <1>8, SMT DEF DayOf
<1> QED BY <1>10, <1>11, SMT

LEMMA EveryDayHasADate ==
    ASSUME NEW n \in Int
    PROVE  \E date : IsDate(date) /\ DayNumber(date) = n
<1>1. PICK e, c, q, r, d : e \in Int /\ EraParts(c, q, r, d) /\ n = DayOf(e, c, q, r, d)
  BY PartsOfDay
<1>2. e \in Int /\ c \in 0 .. 3 /\ q \in 0 .. 24 /\ r \in 0 .. 3 /\ d \in 0 .. 365
  BY <1>1 DEF EraParts
<1>3. PICK s \in 0 .. 11 : MarchBegins(s) <= d /\ (s < 11 => d < MarchBegins(s + 1))
  <2> DEFINE Within(t) == MarchBegins(t) <= d /\ (t < 11 => d < MarchBegins(t + 1))
  <2>1. \/ Within(0) \/ Within(1) \/ Within(2) \/ Within(3) \/ Within(4) \/ Within(5)
        \/ Within(6) \/ Within(7) \/ Within(8) \/ Within(9) \/ Within(10) \/ Within(11)
    BY <1>2, SMT DEF MarchBegins
  <2> HIDE DEF Within
  <2>2. \E t \in 0 .. 11 : Within(t)
    BY <2>1
  <2> QED BY <2>2 DEF Within
<1>4. PICK b \in Int : b = MarchBegins(s)
  BY DEF MarchBegins
<1>5. PICK y \in Int, m \in Int, k \in Int :
         /\ y = 400 * e + 100 * c + 4 * q + r + (IF s < 10 THEN 0 ELSE 1)
         /\ m = s + (IF s < 10 THEN 3 ELSE -9) /\ k = d - b + 1
  BY <1>2, SMT
<1>6. PICK date : date = [year |-> y, month |-> m, day |-> k]
  OBVIOUS
<1>7. date.year = y /\ date.month = m /\ date.day = k
  BY <1>6
<1>8. InParts(date, e, c, q, r, s, d)
  BY <1>1, <1>2, <1>3, <1>4, <1>5, <1>7 DEF InParts
<1>9. m \in 1 .. 12 /\ k \in 1 .. MonthDays(y, m)
  <2>1. m \in 1 .. 12
    BY <1>5
  <2>2. CASE s # 11
    BY <1>2, <1>3, <1>4, <1>5, <2>2, SMT DEF MarchBegins, MonthDays
  <2>3. CASE s = 11
    <3>1. m = 2 /\ b = 337 /\ y = 400 * e + 100 * c + 4 * q + r + 1
      BY <1>4, <1>5, <2>3, SMT DEF MarchBegins
    <3>2. d = 365 => LeapYear(y)
      BY <1>1, <1>2, <3>1, SMT DEF EraParts, LeapYear
    <3>3. k \in Int /\ k >= 1 /\ k <= 29 /\ (k = 29 => d = 365)
      BY <1>2, <1>3, <1>4, <1>5, <3>1, SMT
    <3>4. MonthDays(y, 2) = IF LeapYear(y) THEN 29 ELSE 28
      BY DEF MonthDays
    <3> QED BY <2>1, <3>1, <3>2, <3>3, <3>4, SMT
  <2> QED BY <2>1, <2>2, <2>3
<1>10. IsDate(date)
  BY <1>6, <1>7, <1>9 DEF IsDate
<1>11. DayNumber(date) = n
  BY <1>1, <1>8, DayOfParts
<1> QED BY <1>10, <1>11

\* Whatever day and second the clock of the host says, the calendar date computed for it is a
\* date of the Gregorian calendar with that number and is converted back to the same day,
\* and the time stamp made of it is written as a text that is read back as the same moment:
\* no clock, however wrong, stamps an event that a restart could not read.
THEOREM EveryClockReadsBack ==
    ASSUME NEW day \in Int, NEW second \in Nat, second < DaySeconds
    PROVE  LET date == civil_from_days(day)
               stamp == from_unix([day |-> day, second |-> second])
           IN /\ IsDate(date) /\ DayNumber(date) = day
              /\ days_from_civil(date.year, date.month, date.day) = day
              /\ parse_rfc3339(to_rfc3339(stamp)) = <<stamp>>
<1>1. PICK date : IsDate(date) /\ DayNumber(date) = day
  BY EveryDayHasADate
<1>2. civil_from_days(day) = date /\ days_from_civil(date.year, date.month, date.day) = day
  BY <1>1, Converted
<1>3. PICK stamp : stamp = from_unix([day |-> day, second |-> second])
  OBVIOUS
<1>4. parse_rfc3339(to_rfc3339(stamp)) = <<stamp>>
  BY <1>1, <1>3, StampReadBack
<1> QED BY <1>1, <1>2, <1>3, <1>4

-----------------------------------------------------------------------------
(* The calendar, walked *)

\* The date that a walk has reached is a date, and its day has the number of the walk.
OnItsDay == codec = "calendar" => IsDate(text) /\ given.day = DayNumber(text)

LEMMA StaysOnItsDay == Spec => []OnItsDay
<1>1. Init => OnItsDay
  BY FormatsAssumption DEF Init, OnItsDay, Growing
<1>2. OnItsDay /\ [Next]_vars => OnItsDay'
  <2> SUFFICES ASSUME OnItsDay, [Next]_vars PROVE OnItsDay'
    OBVIOUS
  <2>1. CASE NextDay
    <3>1. IsDate(text) /\ given.day = DayNumber(text) /\ codec' = codec
      BY <2>1 DEF NextDay, OnItsDay
    <3>2. text' = Tomorrow(text) /\ given'.day = given.day + 1
      BY <2>1 DEF NextDay
    <3>3. IsDate(text') /\ DayNumber(text') = DayNumber(text) + 1
      BY <3>1, <3>2, NextDate
    <3> QED BY <3>1, <3>2, <3>3 DEF OnItsDay
  <2>2. CASE Spoil
    BY <2>2 DEF Spoil, OnItsDay
  <2>3. CASE Lengthen
    BY <2>3 DEF Lengthen, OnItsDay, Growing
  <2>4. CASE HandIn
    BY <2>4 DEF HandIn, OnItsDay
  <2>5. CASE UNCHANGED vars
    BY <2>5 DEF vars, OnItsDay
  <2> QED BY <2>1, <2>2, <2>3, <2>4, <2>5 DEF Next
<1> QED BY <1>1, <1>2, PTL DEF Spec

\* On every day that a walk reaches from any correct date, however long it is, the
\* conversions of time.rs agree with the Gregorian rule, and a clock that says that day is
\* written as a moment that is read back the same.
THEOREM AlwaysTimesAreExact == Spec => []TimesAreExact
<1>1. OnItsDay => TimesAreExact
  <2> SUFFICES ASSUME OnItsDay, codec = "calendar"
               PROVE  /\ civil_from_days(given.day) = text
                      /\ days_from_civil(text.year, text.month, text.day) = given.day
                      /\ \A second \in Seconds :
                            LET m == from_unix([day |-> given.day, second |-> second])
                            IN parse_rfc3339(to_rfc3339(m)) = <<m>>
    BY Zenon DEF TimesAreExact
  <2>1. IsDate(text) /\ given.day = DayNumber(text)
    BY DEF OnItsDay
  <2>2. \A second \in Seconds : second \in Nat /\ second < DaySeconds
    BY SMT DEF Seconds, DaySeconds
  <2>3. ASSUME NEW second \in Seconds
        PROVE  LET m == from_unix([day |-> given.day, second |-> second])
               IN parse_rfc3339(to_rfc3339(m)) = <<m>>
    BY <2>1, <2>2, StampReadBack
  <2> QED BY <2>1, <2>3, Converted
<1> QED BY <1>1, StaysOnItsDay, PTL


-----------------------------------------------------------------------------
(* Sequences laid end to end *)

\* A set of naturals that holds 0 and every successor of its members up to N holds
\* everything up to N.
LEMMA UpTo ==
    ASSUME NEW N \in Nat, NEW S, 0 \in S, \A k \in 0 .. N - 1 : k \in S => k + 1 \in S
    PROVE  \A k \in 0 .. N : k \in S
<1> DEFINE T == {k \in 0 .. N : k \notin S}
           R == OpToRel(<, Nat)
<1>1. IsWellFoundedOn(R, Nat)
  BY NatLessThanWellFounded, Zenon
<1>2. \A x, y \in Nat : y < x => <<y, x>> \in R
  BY DEF OpToRel
<1> HIDE DEF R
<1>3. SUFFICES ASSUME T # {} PROVE FALSE
  OBVIOUS
<1>4. T \subseteq Nat
  OBVIOUS
<1>5. PICK m \in T : \A y \in T : ~ (<<y, m>> \in R)
  BY <1>1, <1>3, <1>4, WFMin
<1>6. m \in Nat /\ m # 0 /\ m - 1 \in 0 .. N - 1 /\ m - 1 \in Nat /\ m - 1 < m
  OBVIOUS
<1>7. m - 1 \notin T
  BY <1>2, <1>5, <1>6
<1>8. m - 1 \in S
  BY <1>6, <1>7
<1>9. (m - 1) + 1 \in S
  BY <1>6, <1>8
<1> QED BY <1>6, <1>9

LEMMA ConcatParts ==
    ASSUME NEW X, NEW u \in Seq(X), NEW v \in Seq(X), NEW w, w = u \o v
    PROVE  /\ w \in Seq(X) /\ Len(w) = Len(u) + Len(v) /\ Len(u) \in Nat /\ Len(v) \in Nat
           /\ \A i \in 1 .. Len(u) : w[i] = u[i]
           /\ \A j \in 1 .. Len(v) : w[Len(u) + j] = v[j]
<1>1. Len(u) \in Nat /\ Len(v) \in Nat
  OBVIOUS
<1>2. w \in Seq(X) /\ Len(w) = Len(u) + Len(v)
  BY ConcatProperties
<1>3. \A i \in 1 .. Len(u) + Len(v) : w[i] = IF i <= Len(u) THEN u[i] ELSE v[i - Len(u)]
  BY ConcatProperties
<1>4. ASSUME NEW i \in 1 .. Len(u) PROVE w[i] = u[i]
  <2>1. i \in 1 .. Len(u) + Len(v) /\ i <= Len(u)
    BY <1>1
  <2> QED BY <1>3, <2>1
<1>5. ASSUME NEW j \in 1 .. Len(v) PROVE w[Len(u) + j] = v[j]
  <2>1. PICK i : i = Len(u) + j
    OBVIOUS
  <2>2. i \in 1 .. Len(u) + Len(v) /\ ~(i <= Len(u)) /\ i - Len(u) = j
    BY <1>1, <2>1
  <2> QED BY <1>3, <2>1, <2>2
<1> QED BY <1>1, <1>2, <1>4, <1>5

Follows(w, u, v) ==
    /\ Len(w) = Len(u) + Len(v) /\ Len(u) \in Nat /\ Len(v) \in Nat
    /\ \A i \in 1 .. Len(u) : w[i] = u[i]
    /\ \A j \in 1 .. Len(v) : w[Len(u) + j] = v[j]

LEMMA Follow ==
    ASSUME NEW X, NEW u \in Seq(X), NEW v \in Seq(X)
    PROVE  u \o v \in Seq(X) /\ Follows(u \o v, u, v)
<1>1. PICK w : w = u \o v
  OBVIOUS
<1> QED BY <1>1, ConcatParts DEF Follows

FlatStep(before, s, i) == IF i = 1 THEN s[i] ELSE before \o s[i]
FlatSteps(f, s, m) == f = [i \in 1 .. m |-> FlatStep(f[i - 1], s, i)]

LEMMA FlatStepsExist == ASSUME NEW s PROVE \A m \in Nat : \E f : FlatSteps(f, s, m)
<1> SUFFICES ASSUME NEW N \in Nat PROVE \E f : FlatSteps(f, s, N)
  OBVIOUS
<1> DEFINE S == {m \in Nat : \E f : FlatSteps(f, s, m)}
<1>1. 0 \in S
  <2> DEFINE f == [i \in 1 .. 0 |-> s[i]]
  <2>1. f = [i \in 1 .. 0 |-> FlatStep(f[i - 1], s, i)]
    OBVIOUS
  <2> QED BY <2>1 DEF FlatSteps
<1>2. ASSUME NEW k \in 0 .. N - 1, k \in S
      PROVE  k + 1 \in S
  <2>1. PICK f : FlatSteps(f, s, k)
    BY <1>2
  <2> DEFINE g == [i \in 1 .. k + 1 |-> IF i = k + 1 THEN FlatStep(f[k], s, k + 1) ELSE f[i]]
  <2>2. \A i \in 1 .. k : g[i] = f[i] /\ f[i] = FlatStep(f[i - 1], s, i)
    BY <2>1 DEF FlatSteps
  <2>3. ASSUME NEW i \in 1 .. k + 1
        PROVE  g[i] = FlatStep(g[i - 1], s, i)
    <3>1. \A x, y : FlatStep(x, s, 1) = FlatStep(y, s, 1)
      BY DEF FlatStep
    <3>2. CASE i = k + 1
      <4>1. g[i] = FlatStep(f[k], s, i) /\ i - 1 = k
        BY <3>2
      <4>2. CASE i = 1
        BY <3>1, <4>1, <4>2
      <4>3. CASE i # 1
        <5>1. k \in 1 .. k
          BY <3>2, <4>3
        <5>2. g[k] = f[k]
          BY <2>2, <5>1
        <5> QED BY <4>1, <5>2
      <4> QED BY <4>2, <4>3
    <3>3. CASE i # k + 1
      <4>1. i \in 1 .. k
        BY <3>3
      <4>2. g[i] = f[i] /\ f[i] = FlatStep(f[i - 1], s, i)
        BY <2>2, <4>1
      <4>3. CASE i = 1
        BY <3>1, <4>2, <4>3
      <4>4. CASE i # 1
        <5>1. i - 1 \in 1 .. k
          BY <4>1, <4>4
        <5>2. g[i - 1] = f[i - 1]
          BY <2>2, <5>1
        <5> QED BY <4>2, <5>2
      <4> QED BY <4>3, <4>4
    <3> QED BY <3>2, <3>3
  <2>4. FlatSteps(g, s, k + 1)
    BY <2>3 DEF FlatSteps
  <2> QED BY <2>4
<1> HIDE DEF S
<1>3. N \in S
  BY <1>1, <1>2, UpTo
<1> QED BY <1>3 DEF S

\* The sequences of s one after the other: nothing, then each joined to those before it.
Joined(g, s) == g[0] = <<>> /\ \A i \in 1 .. Len(s) : g[i] = g[i - 1] \o s[i]

LEMMA FlattenJoins ==
    ASSUME NEW X, NEW s \in Seq(Seq(X))
    PROVE  \E g : Joined(g, s) /\ FlattenSeq(s) = g[Len(s)]
<1>1. Len(s) \in Nat /\ \A i \in 1 .. Len(s) : s[i] \in Seq(X)
  OBVIOUS
<1>2. PICK h : FlatSteps(h, s, Len(s))
  BY <1>1, FlatStepsExist
<1> DEFINE f == CHOOSE x : x = [i \in 1 .. Len(s) |-> IF i = 1 THEN s[i] ELSE x[i - 1] \o s[i]]
<1>3. f = [i \in 1 .. Len(s) |-> IF i = 1 THEN s[i] ELSE f[i - 1] \o s[i]]
  BY <1>2 DEF FlatSteps, FlatStep
<1>9. f = [i \in 1 .. Len(s) |-> FlatStep(f[i - 1], s, i)]
  BY <1>3 DEF FlatStep
<1>4. FlattenSeq(s) = IF Len(s) = 0 THEN s ELSE f[Len(s)]
  BY DEF FlattenSeq
<1> HIDE DEF f
<1> DEFINE g == [i \in 0 .. Len(s) |-> IF i = 0 THEN <<>> ELSE f[i]]
<1>5. g[0] = <<>>
  BY <1>1
<1>6. ASSUME NEW i \in 1 .. Len(s) PROVE g[i] = g[i - 1] \o s[i]
  <2>1. g[i] = f[i] /\ f[i] = FlatStep(f[i - 1], s, i)
    <3>1. f[i] = FlatStep(f[i - 1], s, i)
      BY <1>9
    <3>2. g[i] = f[i]
      BY <1>1
    <3> QED BY <3>1, <3>2
  <2>2. CASE i = 1
    <3>1. g[i - 1] = <<>> /\ f[i] = s[i] /\ s[i] \in Seq(X)
      BY <1>1, <1>5, <2>1, <2>2 DEF FlatStep
    <3> QED BY <2>1, <3>1, ConcatEmptySeq
  <2>3. CASE i # 1
    <3>1. g[i - 1] = f[i - 1]
      BY <1>1, <2>3
    <3> QED BY <2>1, <2>3, <3>1 DEF FlatStep
  <2> QED BY <2>2, <2>3
<1>7. FlattenSeq(s) = g[Len(s)]
  <2>1. CASE Len(s) = 0
    <3>1. s = <<>> /\ g[Len(s)] = <<>>
      BY <1>5, <2>1
    <3> QED BY <1>4, <2>1, <3>1
  <2>2. CASE Len(s) # 0
    BY <1>1, <1>4, <2>2
  <2> QED BY <2>1, <2>2
<1> HIDE DEF g
<1>8. Joined(g, s)
  BY <1>5, <1>6 DEF Joined
<1> QED BY <1>7, <1>8

LEMMA JoinedType ==
    ASSUME NEW X, NEW s \in Seq(Seq(X)), NEW g, Joined(g, s)
    PROVE  \A k \in 0 .. Len(s) : g[k] \in Seq(X)
<1>1. Len(s) \in Nat /\ \A i \in 1 .. Len(s) : s[i] \in Seq(X)
  OBVIOUS
<1> DEFINE S == {k \in Nat : g[k] \in Seq(X)}
<1>2. 0 \in S
  <2>1. g[0] = <<>> /\ <<>> \in Seq(X)
    BY EmptySeq DEF Joined
  <2> QED BY <2>1
<1>3. ASSUME NEW k \in 0 .. Len(s) - 1, k \in S PROVE k + 1 \in S
  <2>1. k + 1 \in 1 .. Len(s) /\ (k + 1) - 1 = k
    BY <1>1
  <2>2. g[k + 1] = g[k] \o s[k + 1] /\ g[k] \in Seq(X) /\ s[k + 1] \in Seq(X)
    BY <1>1, <1>3, <2>1 DEF Joined
  <2>3. g[k + 1] \in Seq(X)
    BY <2>2, ConcatProperties
  <2> QED BY <2>1, <2>3
<1> HIDE DEF S
<1>4. \A k \in 0 .. Len(s) : k \in S
  BY <1>1, <1>2, <1>3, UpTo
<1> QED BY <1>4 DEF S

\* Where in the whole each sequence of s lies: p[k] elements come before s[k + 1].
Laid(p, s, whole) ==
    /\ p[0] = 0 /\ p[Len(s)] = Len(whole)
    /\ \A k \in 0 .. Len(s) : p[k] \in Nat /\ p[k] <= Len(whole)
    /\ \A k \in 1 .. Len(s) :
          /\ p[k] = p[k - 1] + Len(s[k])
          /\ \A j \in 1 .. Len(s[k]) : whole[p[k - 1] + j] = s[k][j]

LEMMA JoinedGrows ==
    ASSUME NEW X, NEW s \in Seq(Seq(X)), NEW g, Joined(g, s), NEW k \in 0 .. Len(s)
    PROVE  /\ Len(g[k]) <= Len(g[Len(s)])
           /\ \A i \in 1 .. Len(g[k]) : g[Len(s)][i] = g[k][i]
<1>1. Len(s) \in Nat /\ Len(s) - k \in Nat /\ \A i \in 1 .. Len(s) : s[i] \in Seq(X)
  OBVIOUS
<1>2. \A m \in 0 .. Len(s) : g[m] \in Seq(X)
  BY JoinedType
<1> DEFINE S == {m \in Nat : /\ Len(g[k]) <= Len(g[k + m])
                             /\ \A i \in 1 .. Len(g[k]) : g[k + m][i] = g[k][i]}
<1>3. 0 \in S
  <2>1. k + 0 = k /\ Len(g[k]) \in Nat
    BY <1>2
  <2> QED BY <2>1
<1>4. ASSUME NEW m \in 0 .. Len(s) - k - 1, m \in S PROVE m + 1 \in S
  <2>1. PICK a, b : a = k + m /\ b = k + (m + 1)
    OBVIOUS
  <2>2. b \in 1 .. Len(s) /\ b - 1 = a /\ a \in 0 .. Len(s) /\ m + 1 \in Nat
    BY <1>1, <2>1
  <2>3. g[b] = g[a] \o s[b]
    BY <2>2 DEF Joined
  <2>4. g[a] \in Seq(X) /\ s[b] \in Seq(X) /\ g[k] \in Seq(X)
    BY <1>1, <1>2, <2>2
  <2>5. Len(g[k]) <= Len(g[a]) /\ \A i \in 1 .. Len(g[k]) : g[a][i] = g[k][i]
    BY <1>4, <2>1
  <2>6. Len(g[b]) = Len(g[a]) + Len(s[b]) /\ \A i \in 1 .. Len(g[a]) : g[b][i] = g[a][i]
    <3>1. PICK u, v, w : u = g[a] /\ v = s[b] /\ w = g[b]
      OBVIOUS
    <3>2. u \in Seq(X) /\ v \in Seq(X) /\ w = u \o v
      BY <2>3, <2>4, <3>1
    <3>3. Len(w) = Len(u) + Len(v) /\ \A i \in 1 .. Len(u) : w[i] = u[i]
      BY <3>2, ConcatParts
    <3> QED BY <3>1, <3>3, Zenon
  <2>7. Len(g[k]) <= Len(g[b]) /\ \A i \in 1 .. Len(g[k]) : g[b][i] = g[k][i]
    <3>1. Len(g[a]) \in Nat /\ Len(s[b]) \in Nat /\ Len(g[k]) \in Nat
      BY <2>4
    <3>2. Len(g[k]) <= Len(g[b])
      <4>1. PICK x, y, z : x = Len(g[k]) /\ y = Len(g[a]) /\ z = Len(s[b])
        OBVIOUS
      <4>2. Len(g[b]) = y + z /\ x <= y /\ x \in Nat /\ y \in Nat /\ z \in Nat
        BY <2>5, <2>6, <3>1, <4>1, Zenon
      <4>3. x <= y + z
        BY <4>2
      <4> QED BY <4>1, <4>2, <4>3, Zenon
    <3>3. ASSUME NEW i \in 1 .. Len(g[k]) PROVE g[b][i] = g[k][i]
      <4>1. i \in 1 .. Len(g[a])
        BY <2>5, <3>1
      <4> QED BY <2>5, <2>6, <4>1
    <3> QED BY <3>2, <3>3
  <2> QED BY <2>1, <2>2, <2>7
<1> HIDE DEF S
<1>5. Len(s) - k \in S
  <2>1. PICK n \in Nat : n = Len(s) - k
    BY <1>1
  <2>2. \A m \in 0 .. n - 1 : m \in S => m + 1 \in S
    BY <1>4, <2>1
  <2>3. \A m \in 0 .. n : m \in S
    BY <1>3, <2>2, UpTo
  <2> QED BY <2>1, <2>3
<1>6. k + (Len(s) - k) = Len(s)
  BY <1>1
<1> QED BY <1>5, <1>6 DEF S

LEMMA FlattenLays ==
    ASSUME NEW X, NEW s \in Seq(Seq(X))
    PROVE  FlattenSeq(s) \in Seq(X) /\ \E p : Laid(p, s, FlattenSeq(s))
<1>1. PICK g : Joined(g, s) /\ FlattenSeq(s) = g[Len(s)]
  BY FlattenJoins
<1>2. Len(s) \in Nat /\ \A i \in 1 .. Len(s) : s[i] \in Seq(X)
  OBVIOUS
<1>3. \A k \in 0 .. Len(s) : g[k] \in Seq(X) /\ Len(g[k]) \in Nat
  BY <1>1, JoinedType
<1> DEFINE p == [k \in 0 .. Len(s) |-> Len(g[k])]
<1>4. ASSUME NEW k \in 0 .. Len(s)
      PROVE  /\ p[k] \in Nat /\ p[k] = Len(g[k]) /\ p[k] <= Len(FlattenSeq(s))
             /\ \A i \in 1 .. Len(g[k]) : FlattenSeq(s)[i] = g[k][i]
  BY <1>1, <1>3, JoinedGrows
<1>5. p[0] = 0 /\ p[Len(s)] = Len(FlattenSeq(s))
  BY <1>1, <1>2 DEF Joined
<1> HIDE DEF p
<1>6. ASSUME NEW k \in 1 .. Len(s)
      PROVE  /\ p[k] = p[k - 1] + Len(s[k])
             /\ \A j \in 1 .. Len(s[k]) : FlattenSeq(s)[p[k - 1] + j] = s[k][j]
  <2>1. k \in 0 .. Len(s) /\ k - 1 \in 0 .. Len(s)
    BY <1>2
  <2>2. g[k] = g[k - 1] \o s[k] /\ g[k - 1] \in Seq(X) /\ s[k] \in Seq(X)
    BY <1>1, <1>2, <1>3, <2>1 DEF Joined
  <2>3. p[k] = Len(g[k]) /\ p[k - 1] = Len(g[k - 1])
    BY <1>4, <2>1
  <2>4. Len(g[k]) = Len(g[k - 1]) + Len(s[k])
    BY <2>2
  <2>5. ASSUME NEW j \in 1 .. Len(s[k]) PROVE FlattenSeq(s)[p[k - 1] + j] = s[k][j]
    <3>1. PICK i : i = Len(g[k - 1]) + j
      OBVIOUS
    <3>2. i \in 1 .. Len(g[k]) /\ g[k][i] = s[k][j]
      <4>1. PICK u, v, w : u = g[k - 1] /\ v = s[k] /\ w = g[k]
        OBVIOUS
      <4>2. u \in Seq(X) /\ v \in Seq(X) /\ w = u \o v /\ i = Len(u) + j
        BY <2>2, <3>1, <4>1
      <4>3. j \in 1 .. Len(v)
        BY <4>1
      <4>4. Len(w) = Len(u) + Len(v) /\ Len(u) \in Nat /\ Len(v) \in Nat /\ w[i] = v[j]
        BY <4>2, <4>3, ConcatParts
      <4>5. i \in 1 .. Len(w)
        BY <4>2, <4>3, <4>4
      <4> QED BY <4>1, <4>4, <4>5, Zenon
    <3>3. FlattenSeq(s)[i] = g[k][i]
      BY <1>4, <2>1, <3>2
    <3> QED BY <2>3, <3>1, <3>2, <3>3
  <2> QED BY <2>3, <2>4, <2>5
<1>7. Laid(p, s, FlattenSeq(s))
  BY <1>4, <1>5, <1>6 DEF Laid
<1>8. FlattenSeq(s) \in Seq(X)
  BY <1>1, <1>2, <1>3
<1> QED BY <1>7, <1>8

-----------------------------------------------------------------------------
(* Contexts of envelopes *)

\* Where in the whole each field lies, after its length.
Packed(p, fields, whole) ==
    /\ p[0] = 0
    /\ \A k \in 0 .. Len(fields) : p[k] \in Nat
    /\ \A k \in 1 .. Len(fields) :
          /\ p[k] = p[k - 1] + 1 + Len(fields[k])
          /\ whole[p[k - 1] + 1] = Len(fields[k])
          /\ \A j \in 1 .. Len(fields[k]) : whole[p[k - 1] + 1 + j] = fields[k][j]

Pushed(fields) == [i \in DOMAIN fields |-> push_field(fields[i])]

LEMMA PushField ==
    ASSUME NEW f \in Seq(Nat)
    PROVE  /\ push_field(f) \in Seq(Nat) /\ Len(push_field(f)) = 1 + Len(f)
           /\ push_field(f)[1] = Len(f)
           /\ \A j \in 1 .. Len(f) : push_field(f)[1 + j] = f[j]
<1>1. PICK u, w : u = <<Len(f)>> /\ w = u \o f
  OBVIOUS
<1>2. u \in Seq(Nat) /\ Len(u) = 1 /\ u[1] = Len(f)
  BY <1>1
<1>3. /\ w \in Seq(Nat) /\ Len(w) = Len(u) + Len(f)
      /\ \A i \in 1 .. Len(u) : w[i] = u[i]
      /\ \A j \in 1 .. Len(f) : w[Len(u) + j] = f[j]
  BY <1>1, <1>2, ConcatParts
<1>4. w[1] = u[1] /\ \A j \in 1 .. Len(f) : w[1 + j] = f[j]
  BY <1>2, <1>3
<1>5. push_field(f) = w
  BY <1>1 DEF push_field
<1> QED BY <1>2, <1>3, <1>4, <1>5

LEMMA PushedLays ==
    ASSUME NEW fields \in Seq(Seq(Nat))
    PROVE  /\ FlattenSeq(Pushed(fields)) \in Seq(Nat)
           /\ \E p : Packed(p, fields, FlattenSeq(Pushed(fields)))
<1>1. Len(fields) \in Nat /\ \A i \in 1 .. Len(fields) : fields[i] \in Seq(Nat)
  OBVIOUS
<1>2. PICK s, W : s = Pushed(fields) /\ W = FlattenSeq(s)
  OBVIOUS
<1>3. \A i \in 1 .. Len(fields) : s[i] = push_field(fields[i]) /\ s[i] \in Seq(Nat)
  <2>1. TAKE i \in 1 .. Len(fields)
  <2>2. s[i] = push_field(fields[i])
    BY <1>1, <1>2 DEF Pushed
  <2>3. PICK f : f = fields[i] /\ f \in Seq(Nat)
    BY <1>1
  <2>4. push_field(f) \in Seq(Nat)
    BY <2>3, PushField
  <2> QED BY <2>2, <2>3, <2>4
<1>4. s \in Seq(Seq(Nat)) /\ Len(s) = Len(fields)
  <2>1. DOMAIN fields = 1 .. Len(fields)
    OBVIOUS
  <2>2. s = [i \in 1 .. Len(fields) |-> push_field(fields[i])]
    BY <1>2, <2>1 DEF Pushed
  <2>3. PICK n : n = Len(fields) /\ n \in Nat
    BY <1>1
  <2>4. DOMAIN s = 1 .. n /\ \A i \in 1 .. n : s[i] \in Seq(Nat)
    BY <1>3, <2>2, <2>3
  <2>5. s = [i \in 1 .. n |-> s[i]]
    BY <2>2, <2>3, <2>4
  <2> QED BY <2>3, <2>4, <2>5, SeqDef
<1>5. W \in Seq(Nat)
  BY <1>2, <1>4, FlattenLays
<1>6. PICK p : Laid(p, s, W)
  BY <1>2, <1>4, FlattenLays
<1>7. ASSUME NEW k \in 1 .. Len(fields)
      PROVE  /\ p[k] = p[k - 1] + 1 + Len(fields[k])
             /\ W[p[k - 1] + 1] = Len(fields[k])
             /\ \A j \in 1 .. Len(fields[k]) : W[p[k - 1] + 1 + j] = fields[k][j]
  <2>1. PICK a, f, t : a = p[k - 1] /\ f = fields[k] /\ t = s[k]
    OBVIOUS
  <2>2. a \in Nat /\ f \in Seq(Nat) /\ t = push_field(f) /\ Len(f) \in Nat
    <3>1. k - 1 \in 0 .. Len(s) /\ k \in 1 .. Len(fields)
      BY <1>1, <1>4
    <3>2. a \in Nat
      BY <1>6, <2>1, <3>1 DEF Laid
    <3>3. f \in Seq(Nat) /\ t = push_field(f)
      BY <1>1, <1>3, <2>1, <3>1, Zenon
    <3> QED BY <3>2, <3>3
  <2>3. Len(t) = 1 + Len(f) /\ t[1] = Len(f) /\ \A j \in 1 .. Len(f) : t[1 + j] = f[j]
    BY <2>2, PushField
  <2>4. p[k] = a + Len(t) /\ \A j \in 1 .. Len(t) : W[a + j] = t[j]
    BY <1>4, <1>6, <2>1 DEF Laid
  <2>5. p[k] = a + 1 + Len(f)
    BY <2>2, <2>3, <2>4
  <2>6. W[a + 1] = Len(f)
    BY <2>2, <2>3, <2>4
  <2>7. ASSUME NEW j \in 1 .. Len(f) PROVE W[a + 1 + j] = f[j]
    <3>1. PICK i : i = 1 + j
      OBVIOUS
    <3>2. i \in 1 .. Len(t) /\ a + i = a + 1 + j
      BY <2>2, <2>3, <3>1
    <3>3. W[a + i] = t[i] /\ t[i] = f[j]
      BY <2>3, <2>4, <3>1, <3>2
    <3> QED BY <3>2, <3>3
  <2> QED BY <2>1, <2>5, <2>6, <2>7
<1>8. Packed(p, fields, W)
  BY <1>4, <1>6, <1>7 DEF Packed, Laid
<1> QED BY <1>2, <1>5, <1>8

\* As many fields that run together to the same bytes are the same fields: their lengths
\* stand before them.
LEMMA PushedApart ==
    ASSUME NEW F \in Seq(Seq(Nat)), NEW G \in Seq(Seq(Nat)), Len(F) = Len(G),
           FlattenSeq(Pushed(F)) = FlattenSeq(Pushed(G))
    PROVE  F = G
<1>1. PICK n, W : n = Len(F) /\ n = Len(G) /\ W = FlattenSeq(Pushed(F)) /\ W = FlattenSeq(Pushed(G))
  OBVIOUS
<1>2. n \in Nat /\ \A i \in 1 .. n : F[i] \in Seq(Nat) /\ G[i] \in Seq(Nat)
  BY <1>1
<1>3. PICK p : Packed(p, F, W)
  BY <1>1, PushedLays
<1>4. PICK q : Packed(q, G, W)
  BY <1>1, PushedLays
<1> DEFINE S == {k \in Nat : p[k] = q[k] /\ (k # 0 => F[k] = G[k])}
<1>5. 0 \in S
  BY <1>3, <1>4 DEF Packed
<1>6. ASSUME NEW k \in 0 .. n - 1, k \in S PROVE k + 1 \in S
  <2>1. PICK b : b = k + 1 /\ b \in 1 .. n /\ b - 1 = k /\ k \in 0 .. n /\ b \in Nat
    BY <1>2
  <2>2. PICK a, f, g : a = p[k] /\ a = q[k] /\ f = F[b] /\ g = G[b]
    BY <1>6
  <2>3. a \in Nat /\ f \in Seq(Nat) /\ g \in Seq(Nat) /\ Len(f) \in Nat /\ Len(g) \in Nat
    <3>1. a \in Nat
      BY <1>1, <1>3, <2>1, <2>2, Zenon DEF Packed
    <3>2. f \in Seq(Nat) /\ g \in Seq(Nat)
      BY <1>2, <2>1, <2>2, Zenon
    <3> QED BY <3>1, <3>2
  <2>4. /\ p[b] = a + 1 + Len(f) /\ W[a + 1] = Len(f)
        /\ \A j \in 1 .. Len(f) : W[a + 1 + j] = f[j]
    <3>1. b \in 1 .. Len(F) /\ p[b - 1] = a
      BY <1>1, <2>1, <2>2, Zenon
    <3> QED BY <1>3, <2>2, <3>1, Zenon DEF Packed
  <2>5. /\ q[b] = a + 1 + Len(g) /\ W[a + 1] = Len(g)
        /\ \A j \in 1 .. Len(g) : W[a + 1 + j] = g[j]
    <3>1. b \in 1 .. Len(G) /\ q[b - 1] = a
      BY <1>1, <2>1, <2>2, Zenon
    <3> QED BY <1>4, <2>2, <3>1, Zenon DEF Packed
  <2>6. Len(f) = Len(g) /\ p[b] = q[b] /\ \A j \in 1 .. Len(f) : f[j] = g[j]
    BY <2>4, <2>5
  <2>7. f = g
    BY <2>3, <2>6, SeqEqual
  <2> QED BY <2>1, <2>2, <2>6, <2>7
<1> HIDE DEF S
<1>7. \A k \in 0 .. n : k \in S
  BY <1>2, <1>5, <1>6, UpTo
<1>8. \A i \in 1 .. n : F[i] = G[i]
  <2>1. TAKE i \in 1 .. n
  <2>2. i \in 0 .. n /\ i # 0
    BY <1>2
  <2> QED BY <1>7, <2>2 DEF S
<1> QED BY <1>1, <1>8, SeqEqual

\* What stands before a part of known length, and what follows, are known.
LEMMA ConcatApart ==
    ASSUME NEW X, NEW u \in Seq(X), NEW v \in Seq(X), NEW s \in Seq(X), NEW t \in Seq(X),
           Len(u) = Len(s), u \o v = s \o t
    PROVE  u = s /\ v = t
<1>1. PICK w : w = u \o v /\ w = s \o t
  OBVIOUS
<1>2. /\ Len(w) = Len(u) + Len(v) /\ Len(u) \in Nat /\ Len(v) \in Nat
      /\ \A i \in 1 .. Len(u) : w[i] = u[i]
      /\ \A j \in 1 .. Len(v) : w[Len(u) + j] = v[j]
  <2>1. Follows(u \o v, u, v)
    BY Follow
  <2> QED BY <1>1, <2>1 DEF Follows
<1>3. /\ Len(w) = Len(s) + Len(t) /\ Len(s) \in Nat /\ Len(t) \in Nat
      /\ \A i \in 1 .. Len(s) : w[i] = s[i]
      /\ \A j \in 1 .. Len(t) : w[Len(s) + j] = t[j]
  BY <1>1, ConcatParts
<1>4. Len(v) = Len(t)
  BY <1>2, <1>3
<1>5. \A i \in 1 .. Len(u) : u[i] = s[i]
  BY <1>2, <1>3
<1>6. \A j \in 1 .. Len(v) : v[j] = t[j]
  BY <1>2, <1>3, <1>4
<1> QED BY <1>4, <1>5, <1>6, SeqEqual

\* A context is written for one domain and one sequence of fields only.
LEMMA AadApart ==
    ASSUME NEW d \in Seq(Nat), NEW e \in Seq(Nat),
           NEW F \in Seq(Seq(Nat)), NEW G \in Seq(Seq(Nat)), Aad(d, F) = Aad(e, G)
    PROVE  d = e /\ F = G
<1>1. PICK x, y, u, v, m, n :
        /\ x = push_field(d) /\ y = push_field(e) /\ m = <<Len(F)>> /\ n = <<Len(G)>>
        /\ u = FlattenSeq(Pushed(F)) /\ v = FlattenSeq(Pushed(G))
  OBVIOUS
<1>2. (x \o m) \o u = (y \o n) \o v
  BY <1>1 DEF Aad, Pushed
<1>3. x \in Seq(Nat) /\ y \in Seq(Nat) /\ u \in Seq(Nat) /\ v \in Seq(Nat)
  BY <1>1, PushField, PushedLays
<1>4. m \in Seq(Nat) /\ n \in Seq(Nat) /\ Len(m) = 1 /\ Len(n) = 1
      /\ m[1] = Len(F) /\ n[1] = Len(G)
  BY <1>1
<1>5. PICK a, b : a = x \o m /\ b = y \o n
  OBVIOUS
<1>6. /\ a \in Seq(Nat) /\ Len(a) = Len(x) + 1
      /\ \A i \in 1 .. Len(x) : a[i] = x[i]
  <2>1. a \in Seq(Nat) /\ Follows(a, x, m)
    BY <1>3, <1>4, <1>5, Follow
  <2> QED BY <1>4, <2>1 DEF Follows
<1>7. /\ b \in Seq(Nat) /\ Len(b) = Len(y) + 1
      /\ \A i \in 1 .. Len(y) : b[i] = y[i]
  <2>1. b \in Seq(Nat) /\ Follows(b, y, n)
    BY <1>3, <1>4, <1>5, Follow
  <2> QED BY <1>4, <2>1 DEF Follows
<1>8. PICK w : w = a \o u /\ w = b \o v
  BY <1>2, <1>5
<1>9. Len(x) = 1 + Len(d) /\ x[1] = Len(d) /\ Len(y) = 1 + Len(e) /\ y[1] = Len(e)
      /\ Len(d) \in Nat /\ Len(e) \in Nat
  <2>1. Len(x) = 1 + Len(d) /\ x[1] = Len(d)
    BY <1>1, PushField
  <2>2. Len(y) = 1 + Len(e) /\ y[1] = Len(e)
    BY <1>1, PushField
  <2> QED BY <2>1, <2>2
<1>10. w[1] = Len(d)
  <2>1. \A i \in 1 .. Len(a) : w[i] = a[i]
    <3>1. Follows(w, a, u)
      BY <1>3, <1>6, <1>8, Follow
    <3> QED BY <3>1 DEF Follows
  <2> QED BY <2>1, <1>6, <1>9
<1>11. w[1] = Len(e)
  <2>1. \A i \in 1 .. Len(b) : w[i] = b[i]
    <3>1. Follows(w, b, v)
      BY <1>3, <1>7, <1>8, Follow
    <3> QED BY <3>1 DEF Follows
  <2> QED BY <2>1, <1>7, <1>9
<1>12. Len(a) = Len(b) /\ Len(x) = Len(y) /\ Len(d) = Len(e)
  BY <1>6, <1>7, <1>9, <1>10, <1>11
<1>13. a = b /\ u = v
  BY <1>3, <1>6, <1>7, <1>8, <1>12, ConcatApart
<1>14. x = y /\ m = n
  BY <1>3, <1>4, <1>5, <1>12, <1>13, ConcatApart
<1>15. d = e
  <2>1. \A j \in 1 .. Len(d) : d[j] = e[j]
    <3>1. \A j \in 1 .. Len(d) : x[1 + j] = d[j]
      BY <1>1, PushField
    <3>2. \A j \in 1 .. Len(e) : y[1 + j] = e[j]
      BY <1>1, PushField
    <3> QED BY <1>12, <1>14, <3>1, <3>2
  <2> QED BY <1>12, <2>1, SeqEqual
<1>16. Len(F) = Len(G)
  BY <1>4, <1>14
<1>17. F = G
  BY <1>1, <1>13, <1>16, PushedApart
<1> QED BY <1>15, <1>17

-----------------------------------------------------------------------------

\* A text that grows holds pieces of its format, no more than its bound.
TextIsPieces ==
    codec \in Growing => text \in Seq(Alphabet[codec]) /\ Len(text) <= Longest[codec]

LEMMA TextStaysPieces == Spec => []TextIsPieces
<1>1. Init => TextIsPieces
  <2> SUFFICES ASSUME Init, codec \in Growing
               PROVE  text \in Seq(Alphabet[codec]) /\ Len(text) <= Longest[codec]
    BY DEF TextIsPieces
  <2>1. text = <<>>
    BY DEF Init, Growing
  <2>2. Longest[codec] \in Nat
    BY FormatsAssumption DEF Growing
  <2> QED BY <2>1, <2>2, EmptySeq
<1>2. TextIsPieces /\ [Next]_vars => TextIsPieces'
  <2> SUFFICES ASSUME TextIsPieces, [Next]_vars PROVE TextIsPieces'
    OBVIOUS
  <2>1. CASE Lengthen
    <3>1. PICK piece : piece \in Alphabet[codec] /\ text' = Append(text, piece)
      BY <2>1 DEF Lengthen
    <3>2. codec' = codec /\ text \in Seq(Alphabet[codec]) /\ Len(text) < Longest[codec]
      BY <2>1 DEF Lengthen, TextIsPieces, Growing
    <3>3. codec \in Growing /\ Longest[codec] \in Nat
      BY <2>1, FormatsAssumption DEF Lengthen, Growing
    <3>4. text' \in Seq(Alphabet[codec]) /\ Len(text') = Len(text) + 1 /\ Len(text) \in Nat
      BY <3>1, <3>2
    <3>5. Len(text') <= Longest[codec]
      BY <3>2, <3>3, <3>4
    <3> QED BY <3>2, <3>4, <3>5 DEF TextIsPieces
  <2>2. CASE NextDay
    BY <2>2 DEF NextDay, TextIsPieces, Growing
  <2>3. CASE Spoil
    BY <2>3 DEF Spoil, TextIsPieces, Growing
  <2>4. CASE HandIn
    BY <2>4 DEF HandIn, TextIsPieces, Growing
  <2>5. CASE UNCHANGED vars
    BY <2>5 DEF vars, TextIsPieces
  <2> QED BY <2>1, <2>2, <2>3, <2>4, <2>5 DEF Next
<1> QED BY <1>1, <1>2, PTL DEF Spec

\* Two slots are told apart by their contexts.
LEMMA ContextsApart ==
    ASSUME NEW s \in Slots, NEW t \in Slots, Context[s] = Context[t]
    PROVE  s = t
<1>1. \A x \in Slots : x \in Seq(Seq(Nat)) /\ Len(x) >= 1
  <2> TAKE x \in Slots
  <2>1. PICK n \in 1 .. Longest.slot : x \in [1 .. n -> Alphabet.slot]
    BY DEF Slots
  <2>2. n \in Nat /\ n >= 1
    BY FormatsAssumption
  <2>3. ASSUME NEW i \in 1 .. n PROVE x[i] \in Seq(Nat)
    <3>1. x[i] \in Seq(0 .. 255)
      BY <2>1, FormatsAssumption
    <3>2. 0 .. 255 \subseteq Nat
      OBVIOUS
    <3> QED BY <3>1, <3>2, SeqMonotonic
  <2>4. x \in [1 .. n -> Seq(Nat)]
    BY <2>1, <2>3
  <2>5. Len(x) = n /\ x \in Seq(Seq(Nat))
    BY <2>2, <2>4
  <2> QED BY <2>2, <2>5
<1>2. Aad(Head(s), Tail(s)) = Aad(Head(t), Tail(t))
  BY DEF Context
<1>3. s \in Seq(Seq(Nat)) /\ t \in Seq(Seq(Nat)) /\ s # <<>> /\ t # <<>>
  BY <1>1
<1>4. Head(s) \in Seq(Nat) /\ Tail(s) \in Seq(Seq(Nat)) /\ Head(t) \in Seq(Nat) /\ Tail(t) \in Seq(Seq(Nat))
  BY <1>3, HeadTailProperties
<1>5. Head(s) = Head(t) /\ Tail(s) = Tail(t)
  <2>1. PICK d, e, F, G : d = Head(s) /\ e = Head(t) /\ F = Tail(s) /\ G = Tail(t)
    OBVIOUS
  <2>2. d \in Seq(Nat) /\ e \in Seq(Nat) /\ F \in Seq(Seq(Nat)) /\ G \in Seq(Seq(Nat))
    BY <1>4, <2>1, Zenon
  <2>3. Aad(d, F) = Aad(e, G)
    BY <1>2, <2>1, Zenon
  <2>4. d = e /\ F = G
    BY <2>2, <2>3, AadApart
  <2> QED BY <2>1, <2>4
<1>6. Len(s) = Len(t)
  BY <1>3, <1>5
<1>7. ASSUME NEW i \in 1 .. Len(s) PROVE s[i] = t[i]
  <2>1. CASE i = 1
    BY <1>3, <1>5, <2>1
  <2>2. CASE i # 1
    <3>1. PICK j : j = i - 1 /\ j \in 1 .. Len(s) - 1 /\ j + 1 = i
      <4>1. Len(s) \in Nat /\ i \in Nat /\ 1 <= i /\ i <= Len(s)
        BY <1>3
      <4> QED BY <2>2, <4>1
    <3>2. Tail(s)[j] = s[j + 1] /\ Tail(t)[j] = t[j + 1]
      BY <1>3, <1>6, <3>1
    <3> QED BY <1>5, <3>1, <3>2
  <2> QED BY <2>1, <2>2
<1> QED BY <1>3, <1>6, <1>7, SeqEqual

\* Of any names of any length, in slots of any number of names: a value sealed in a slot
\* opens there, and in no other slot, since the context that aead.rs binds to it is written
\* for one slot only.
THEOREM AlwaysOpensInItsSlotOnly == Spec => []OpensInItsSlotOnly
<1>1. TextIsPieces => OpensInItsSlotOnly
  <2> SUFFICES ASSUME TextIsPieces, codec = "slot", text # <<>>
               PROVE  LET sealed == seal("key", [i \in 1 .. NonceLen |-> 0], text[1], Context[text])
                      IN IF Len(text[1]) > MaxPlaintext THEN sealed = <<>>
                         ELSE \A other \in Slots :
                                 open("key", sealed[1], Context[other])
                                   = IF other = text THEN <<text[1]>> ELSE <<>>
    BY Zenon DEF OpensInItsSlotOnly
  <2>1. text \in Slots
    <3>1. text \in Seq(Alphabet.slot) /\ Len(text) <= Longest.slot /\ Longest.slot \in Nat
      BY FormatsAssumption DEF TextIsPieces, Growing
    <3>2. Len(text) \in 1 .. Longest.slot
      BY <3>1, EmptySeq
    <3>3. text \in [1 .. Len(text) -> Alphabet.slot]
      BY <3>1
    <3> QED BY <3>2, <3>3 DEF Slots
  <2>2. PICK nonce : nonce = [i \in 1 .. NonceLen |-> 0]
    OBVIOUS
  <2>3. Len(nonce) = NonceLen
    BY <2>2 DEF NonceLen
  <2>4. PICK name, sealed : name = text[1] /\ sealed = seal("key", nonce, name, Context[text])
    OBVIOUS
  <2>5. CASE Len(name) > MaxPlaintext
    BY <2>2, <2>4, <2>5 DEF seal
  <2>6. CASE ~(Len(name) > MaxPlaintext)
    <3>1. sealed = <<[nonce |-> nonce, ciphertext |-> [key |-> "key", nonce |-> nonce,
                                                       aad |-> Context[text], text |-> name]]>>
      BY <2>4, <2>6, Zenon DEF seal
    <3>2. ASSUME NEW other \in Slots
          PROVE  open("key", sealed[1], Context[other]) = IF other = text THEN <<name>> ELSE <<>>
      <4>1. open("key", sealed[1], Context[other])
              = IF Context[other] = Context[text] THEN <<name>> ELSE <<>>
        BY <2>3, <3>1 DEF open
      <4>2. Context[other] = Context[text] <=> other = text
        BY <2>1, ContextsApart
      <4> QED BY <4>1, <4>2
    <3> QED BY <2>2, <2>4, <2>6, <3>2
  <2> QED BY <2>5, <2>6
<1> QED BY <1>1, TextStaysPieces, PTL

-----------------------------------------------------------------------------
(* Groups: sequences cut into equal pieces *)

\* Pieces of n, of which only the last may be shorter.
Full(c, n) ==
    /\ \A k \in 1 .. Len(c) : 1 <= Len(c[k]) /\ Len(c[k]) <= n
    /\ \A k \in 1 .. Len(c) - 1 : Len(c[k]) = n

Sizes == {2, 3, 4}

LEMMA Multiples ==
    ASSUME NEW n \in Sizes, NEW k \in Int
    PROVE  /\ n * k \in Int /\ n * (k - 1) = n * k - n /\ n * (k + 1) = n * k + n /\ n * 0 = 0
           /\ k >= 1 => n * k >= n
<1>1. CASE n = 2
  BY <1>1
<1>2. CASE n = 3
  BY <1>2
<1>3. CASE n = 4
  BY <1>3
<1> QED BY <1>1, <1>2, <1>3 DEF Sizes

LEMMA Ordered ==
    ASSUME NEW n \in Sizes, NEW k \in Int, NEW m \in Int
    PROVE  /\ k <= m => n * k <= n * m
           /\ k < m => n * k + n <= n * m
<1>1. CASE n = 2
  BY <1>1
<1>2. CASE n = 3
  BY <1>2
<1>3. CASE n = 4
  BY <1>3
<1> QED BY <1>1, <1>2, <1>3 DEF Sizes

\* So many groups are needed for l elements.
LEMMA Groups ==
    ASSUME NEW n \in Sizes, NEW l \in Nat, NEW m, m = (l + n - 1) \div n
    PROVE  /\ m \in Nat /\ (m = 0 <=> l = 0)
           /\ m # 0 => n * m - n < l
           /\ l <= n * m
<1>1. CASE n = 2
  BY <1>1
<1>2. CASE n = 3
  BY <1>2
<1>3. CASE n = 4
  BY <1>3
<1> QED BY <1>1, <1>2, <1>3 DEF Sizes

LEMMA GroupsOf ==
    ASSUME NEW n \in Sizes, NEW l \in Nat, NEW m \in Nat,
           m = 0 => l = 0, m # 0 => n * m - n < l /\ l <= n * m
    PROVE  (l + n - 1) \div n = m
<1>1. CASE n = 2
  BY <1>1
<1>2. CASE n = 3
  BY <1>2
<1>3. CASE n = 4
  BY <1>3
<1> QED BY <1>1, <1>2, <1>3 DEF Sizes

\* The group an element is in, and its place there.
LEMMA PlaceOf ==
    ASSUME NEW n \in Sizes, NEW i \in Nat, i >= 1
    PROVE  \E k \in Nat, j \in Nat : k >= 1 /\ j >= 1 /\ j <= n /\ i = n * k - n + j
<1>1. CASE n = 2
  <2>1. (i - 1) \div 2 + 1 \in Nat /\ ((i - 1) % 2) + 1 \in Nat /\ ((i - 1) % 2) + 1 <= 2
        /\ i = 2 * ((i - 1) \div 2 + 1) - 2 + (((i - 1) % 2) + 1)
    OBVIOUS
  <2> QED BY <1>1, <2>1
<1>2. CASE n = 3
  <2>1. (i - 1) \div 3 + 1 \in Nat /\ ((i - 1) % 3) + 1 \in Nat /\ ((i - 1) % 3) + 1 <= 3
        /\ i = 3 * ((i - 1) \div 3 + 1) - 3 + (((i - 1) % 3) + 1)
    OBVIOUS
  <2> QED BY <1>2, <2>1
<1>3. CASE n = 4
  <2>1. (i - 1) \div 4 + 1 \in Nat /\ ((i - 1) % 4) + 1 \in Nat /\ ((i - 1) % 4) + 1 <= 4
        /\ i = 4 * ((i - 1) \div 4 + 1) - 4 + (((i - 1) % 4) + 1)
    OBVIOUS
  <2> QED BY <1>3, <2>1
<1> QED BY <1>1, <1>2, <1>3 DEF Sizes

\* Where the elements of full groups lie in the whole.
Grouped(w, c, n) ==
    /\ Len(c) = 0 => Len(w) = 0
    /\ Len(c) # 0 => Len(w) = n * (Len(c) - 1) + Len(c[Len(c)])
    /\ \A k \in 1 .. Len(c) : \A j \in 1 .. Len(c[k]) : w[n * (k - 1) + j] = c[k][j]

LEMMA FullLaid ==
    ASSUME NEW X, NEW c \in Seq(Seq(X)), NEW n \in Sizes, Full(c, n)
    PROVE  FlattenSeq(c) \in Seq(X) /\ Grouped(FlattenSeq(c), c, n)
<1>1. PICK w : w = FlattenSeq(c)
  OBVIOUS
<1>2. w \in Seq(X)
  BY <1>1, FlattenLays
<1>3. PICK p : Laid(p, c, w)
  BY <1>1, FlattenLays
<1>4. PICK m \in Nat : m = Len(c)
  OBVIOUS
<1>5. n \in Nat
  BY DEF Sizes
<1> DEFINE S == {k \in Nat : p[k] = n * k}
<1>6. 0 \in S
  <2>1. p[0] = 0 /\ n * 0 = 0
    BY <1>3, Multiples DEF Laid
  <2> QED BY <2>1
<1>7. ASSUME m # 0 PROVE \A k \in 0 .. m - 1 : k \in S
  <2>1. PICK M \in Nat : M = m - 1
    <3>1. m \in Nat /\ m # 0
      BY <1>7
    <3>2. m - 1 \in Nat
      BY <3>1
    <3> QED BY <3>2
  <2>2. ASSUME NEW k \in 0 .. M - 1, k \in S PROVE k + 1 \in S
    <3>1. PICK b : b = k + 1
      OBVIOUS
    <3>2. b \in 1 .. Len(c) /\ b \in 1 .. Len(c) - 1 /\ b - 1 = k /\ b \in Nat
      BY <1>4, <2>1, <3>1
    <3>3. p[b] = p[k] + Len(c[b]) /\ Len(c[b]) = n
      BY <1>3, <3>2, Zenon DEF Laid, Full
    <3>4. n * b = n * k + n
      BY <3>1, Multiples
    <3>5. p[b] = n * b
      BY <2>2, <3>3, <3>4
    <3> QED BY <3>1, <3>2, <3>5
  <2> HIDE DEF S
  <2>3. \A k \in 0 .. M : k \in S
    BY <1>6, <2>2, UpTo
  <2> QED BY <2>1, <2>3
<1> HIDE DEF S
<1>8. ASSUME NEW k \in 1 .. Len(c) PROVE p[k - 1] = n * (k - 1)
  <2>1. k - 1 \in 0 .. m - 1 /\ m # 0
    BY <1>4
  <2> QED BY <1>7, <2>1 DEF S
<1>9. ASSUME Len(c) = 0 PROVE Len(w) = 0
  BY <1>3, <1>9 DEF Laid
<1>10. ASSUME Len(c) # 0 PROVE Len(w) = n * (Len(c) - 1) + Len(c[Len(c)])
  <2>1. m \in 1 .. Len(c)
    BY <1>4, <1>10
  <2>2. p[m] = Len(w) /\ p[m] = p[m - 1] + Len(c[m])
    BY <1>3, <1>4, <2>1, Zenon DEF Laid
  <2>3. p[m - 1] = n * (m - 1)
    BY <1>8, <2>1
  <2> QED BY <1>4, <2>2, <2>3
<1>11. ASSUME NEW k \in 1 .. Len(c), NEW j \in 1 .. Len(c[k])
       PROVE  w[n * (k - 1) + j] = c[k][j]
  <2>1. w[p[k - 1] + j] = c[k][j]
    BY <1>3, Zenon DEF Laid
  <2> QED BY <1>8, <2>1
<1>12. Grouped(w, c, n)
  BY <1>9, <1>10, <1>11 DEF Grouped
<1> QED BY <1>1, <1>2, <1>12

LEMMA SubSeqOf ==
    ASSUME NEW X, NEW s \in Seq(X), NEW a \in Nat, NEW b \in Nat, a + 1 <= b, b <= Len(s),
           NEW t, t = SubSeq(s, a + 1, b)
    PROVE  t \in Seq(X) /\ Len(t) = b - a /\ \A j \in 1 .. b - a : t[j] = s[a + j]
<1>1. PICK m \in Int : m = a + 1 /\ m <= b /\ b - m + 1 = b - a
  OBVIOUS
<1>2. \A i \in m .. b : s[i] \in X
  <2>1. \A i \in m .. b : i \in 1 .. Len(s)
    BY <1>1
  <2> QED BY <2>1
<1>3. /\ t \in Seq(X) /\ Len(t) = (IF m <= b THEN b - m + 1 ELSE 0)
      /\ \A i \in 1 .. b - m + 1 : t[i] = s[m + i - 1]
  BY <1>1, <1>2, SubSeqProperties
<1>4. ASSUME NEW j \in 1 .. b - a PROVE t[j] = s[a + j]
  <2>1. j \in 1 .. b - m + 1 /\ m + j - 1 = a + j
    BY <1>1
  <2> QED BY <1>3, <2>1
<1> QED BY <1>1, <1>3, <1>4

\* Chunks cuts a sequence into full groups.
LEMMA ChunksAre ==
    ASSUME NEW X, NEW s \in Seq(X), NEW n \in Sizes, NEW c, c = Chunks(s, n)
    PROVE  c \in Seq(Seq(X)) /\ Full(c, n) /\ Grouped(s, c, n)
<1>1. PICK l \in Nat : l = Len(s)
  OBVIOUS
<1>2. PICK m : m = (l + n - 1) \div n
  OBVIOUS
<1>3. m \in Nat /\ (m = 0 <=> l = 0) /\ (m # 0 => n * m - n < l) /\ l <= n * m
  BY <1>2, Groups
<1>4. n \in Nat /\ n >= 2
  BY DEF Sizes
<1>5. c = [k \in 1 .. m |-> SubSeq(s, n * (k - 1) + 1, IF n * k < l THEN n * k ELSE l)]
  BY <1>1, <1>2 DEF Chunks
<1>6. ASSUME NEW k \in 1 .. m
      PROVE  /\ c[k] \in Seq(X) /\ n * (k - 1) \in Nat
             /\ Len(c[k]) = (IF k < m THEN n ELSE l - (n * m - n))
             /\ \A j \in 1 .. Len(c[k]) : c[k][j] = s[n * (k - 1) + j]
             /\ 1 <= Len(c[k]) /\ Len(c[k]) <= n
  <2>1. k \in Int /\ m \in Int /\ 1 <= k /\ k <= m
    BY <1>3
  <2>2. PICK x, y : x = n * k /\ y = n * m
    OBVIOUS
  <2>3. x \in Int /\ y \in Int /\ n * (k - 1) = x - n /\ x >= n /\ (k < m => x + n <= y) /\ (k = m => x = y)
    BY <2>1, <2>2, Multiples, Ordered
  <2>4. PICK b, a : b = (IF x < l THEN x ELSE l) /\ a = x - n
    OBVIOUS
  <2>5. y - n < l /\ l <= y
    BY <1>3, <2>1, <2>2
  <2>6. a \in Nat /\ b \in Nat /\ a + 1 <= b /\ b <= l
        /\ b - a = (IF k < m THEN n ELSE l - (y - n)) /\ 1 <= b - a /\ b - a <= n
    BY <1>4, <2>1, <2>3, <2>4, <2>5
  <2>7. c[k] = SubSeq(s, a + 1, b)
    BY <1>5, <2>2, <2>3, <2>4
  <2>8. c[k] \in Seq(X) /\ Len(c[k]) = b - a /\ \A j \in 1 .. b - a : c[k][j] = s[a + j]
    BY <1>1, <2>6, <2>7, SubSeqOf
  <2> QED BY <2>2, <2>3, <2>4, <2>6, <2>8
<1>7. c \in Seq(Seq(X)) /\ Len(c) = m
  <2>1. c \in [1 .. m -> Seq(X)]
    BY <1>5, <1>6
  <2> QED BY <1>3, <2>1
<1>8. Full(c, n)
  <2>1. ASSUME NEW k \in 1 .. Len(c) - 1 PROVE Len(c[k]) = n
    <3>1. k \in 1 .. m /\ k < m
      BY <1>3, <1>7
    <3> QED BY <1>6, <3>1
  <2> QED BY <1>6, <1>7, <2>1 DEF Full
<1>9. Grouped(s, c, n)
  <2>1. ASSUME Len(c) # 0 PROVE Len(s) = n * (Len(c) - 1) + Len(c[Len(c)])
    <3>1. m \in 1 .. m /\ ~(m < m)
      BY <1>3, <1>7, <2>1
    <3>2. PICK y : y = n * m
      OBVIOUS
    <3>3. Len(c[m]) = l - (y - n) /\ n * (m - 1) = y - n /\ y \in Int
      BY <1>3, <1>6, <3>1, <3>2, Multiples
    <3>4. Len(s) = n * (m - 1) + Len(c[m])
      BY <1>1, <1>4, <3>3
    <3> QED BY <1>7, <3>4
  <2>2. ASSUME Len(c) = 0 PROVE Len(s) = 0
    BY <1>1, <1>3, <1>7, <2>2
  <2>3. ASSUME NEW k \in 1 .. Len(c), NEW j \in 1 .. Len(c[k]) PROVE s[n * (k - 1) + j] = c[k][j]
    BY <1>6, <1>7
  <2> QED BY <2>1, <2>2, <2>3 DEF Grouped
<1> QED BY <1>7, <1>8, <1>9

\* The whole is known by its groups.
LEMMA GroupedOnce ==
    ASSUME NEW X, NEW s \in Seq(X), NEW t \in Seq(X), NEW c \in Seq(Seq(X)), NEW n \in Sizes,
           Full(c, n), Grouped(s, c, n), Grouped(t, c, n)
    PROVE  s = t
<1>1. PICK m \in Nat : m = Len(c)
  OBVIOUS
<1>2. Len(s) = Len(t)
  BY DEF Grouped
<1>3. ASSUME NEW i \in 1 .. Len(s) PROVE s[i] = t[i]
  <2>1. PICK l \in Nat : l = Len(s)
    OBVIOUS
  <2>2. i \in Nat /\ i >= 1 /\ i <= l
    BY <2>1
  <2>3. PICK k \in Nat, j \in Nat : k >= 1 /\ j >= 1 /\ j <= n /\ i = n * k - n + j
    BY <2>2, PlaceOf
  <2>4. n * (k - 1) = n * k - n /\ n * k \in Int /\ n \in Nat /\ n * (m - 1) = n * m - n /\ n * m \in Int
    BY Multiples DEF Sizes
  <2>5. m # 0 /\ m \in 1 .. Len(c)
    BY <1>1, <2>1, <2>2 DEF Grouped
  <2>6. PICK last \in Nat : last = Len(c[m]) /\ last <= n /\ 1 <= last
    BY <1>1, <2>5 DEF Full
  <2>7. l = n * (m - 1) + last
    BY <1>1, <2>1, <2>5, <2>6 DEF Grouped
  <2>8. k <= m
    <3>1. SUFFICES ASSUME m < k PROVE FALSE
      OBVIOUS
    <3>2. n * m + n <= n * k
      BY <3>1, Ordered
    <3>3. PICK x, y : x = n * k /\ y = n * m
      OBVIOUS
    <3>4. x \in Int /\ y \in Int /\ y + n <= x /\ i = x - n + j /\ l = y - n + last
      BY <2>3, <2>4, <2>7, <3>2, <3>3
    <3>5. n \in Nat /\ i \in Nat /\ i <= l /\ j \in Nat /\ j >= 1 /\ last \in Nat /\ last <= n
      BY <2>2, <2>3, <2>6 DEF Sizes
    <3> QED BY <3>4, <3>5
  <2>9. k \in 1 .. Len(c)
    BY <1>1, <2>3, <2>8
  <2>10. j \in 1 .. Len(c[k])
    <3>1. CASE k = m
      <4>1. j <= last
        <5>1. PICK x : x = n * k
          OBVIOUS
        <5>2. x \in Int /\ i = x - n + j /\ l = x - n + last
          BY <2>3, <2>4, <2>7, <3>1, <5>1
        <5> QED BY <2>2, <2>3, <2>4, <2>6, <5>2
      <4> QED BY <2>3, <2>6, <3>1, <4>1
    <3>2. CASE k < m
      <4>1. k \in 1 .. Len(c) - 1
        BY <1>1, <2>3, <3>2
      <4>2. Len(c[k]) = n
        BY <4>1 DEF Full
      <4> QED BY <2>3, <2>4, <4>2
    <3> QED BY <2>8, <3>1, <3>2
  <2>11. s[n * (k - 1) + j] = c[k][j] /\ t[n * (k - 1) + j] = c[k][j]
    BY <2>9, <2>10 DEF Grouped
  <2>12. n * (k - 1) + j = i
    BY <2>3, <2>4
  <2> QED BY <2>11, <2>12
<1> QED BY <1>2, <1>3, SeqEqual

\* The chunks of a sequence, end to end, are the sequence.
LEMMA ChunksJoin ==
    ASSUME NEW X, NEW s \in Seq(X), NEW n \in Sizes
    PROVE  FlattenSeq(Chunks(s, n)) = s
<1>1. PICK c : c = Chunks(s, n)
  OBVIOUS
<1>2. c \in Seq(Seq(X)) /\ Full(c, n) /\ Grouped(s, c, n)
  BY <1>1, ChunksAre
<1>3. PICK t : t = FlattenSeq(c)
  OBVIOUS
<1>4. t \in Seq(X) /\ Grouped(t, c, n)
  BY <1>2, <1>3, FullLaid
<1>5. t = s
  BY <1>2, <1>4, GroupedOnce
<1> QED BY <1>1, <1>3, <1>5

\* Full groups, end to end, are cut into the same groups again.
LEMMA JoinChunks ==
    ASSUME NEW X, NEW c \in Seq(Seq(X)), NEW n \in Sizes, Full(c, n)
    PROVE  Chunks(FlattenSeq(c), n) = c
<1>1. PICK s : s = FlattenSeq(c)
  OBVIOUS
<1>2. s \in Seq(X) /\ Grouped(s, c, n)
  BY <1>1, FullLaid
<1>3. PICK d : d = Chunks(s, n)
  OBVIOUS
<1>4. d \in Seq(Seq(X)) /\ Full(d, n) /\ Grouped(s, d, n)
  BY <1>2, <1>3, ChunksAre
<1>5. Len(c) = Len(d) /\ \A k \in 1 .. Len(c) : Len(c[k]) = Len(d[k])
  <2>1. PICK l \in Nat, m \in Nat, r \in Nat : l = Len(s) /\ m = Len(c) /\ r = Len(d)
    BY <1>2, <1>4
  <2>2. ASSUME NEW x \in Seq(Seq(X)), Full(x, n), Grouped(s, x, n), NEW q \in Nat, q = Len(x)
        PROVE  /\ q = (l + n - 1) \div n
               /\ q # 0 => Len(x[q]) = l - n * (q - 1)
    <3>1. CASE q = 0
      <4>1. l = 0
        BY <2>1, <2>2, <3>1 DEF Grouped
      <4>2. (l + n - 1) \div n = q
        BY <3>1, <4>1, GroupsOf
      <4> QED BY <3>1, <4>2
    <3>2. CASE q # 0
      <4>1. PICK last \in Nat : last = Len(x[q]) /\ last <= n /\ 1 <= last
        <5>1. q \in 1 .. Len(x)
          BY <2>2, <3>2
        <5>2. 1 <= Len(x[q]) /\ Len(x[q]) <= n
          BY <2>2, <5>1, Zenon DEF Full
        <5>3. x[q] \in Seq(X)
          BY <5>1
        <5>4. Len(x[q]) \in Nat
          BY <5>3
        <5> QED BY <5>2, <5>4
      <4>2. l = n * (q - 1) + last
        BY <2>1, <2>2, <3>2, <4>1 DEF Grouped
      <4>3. n * (q - 1) = n * q - n /\ n * q \in Int /\ n \in Nat
        BY Multiples DEF Sizes
      <4>4. n * q - n < l /\ l <= n * q /\ last = l - n * (q - 1)
        <5>1. PICK y : y = n * q
          OBVIOUS
        <5>2. y \in Int /\ l = y - n + last
          BY <4>2, <4>3, <5>1
        <5>3. y - n < l /\ l <= y /\ last = l - (y - n)
          BY <4>1, <4>3, <5>2
        <5> QED BY <4>3, <5>1, <5>3
      <4>5. (l + n - 1) \div n = q
        BY <3>2, <4>4, GroupsOf
      <4> QED BY <4>1, <4>4, <4>5
    <3> QED BY <3>1, <3>2
  <2>3. m = r
    BY <1>2, <1>4, <2>1, <2>2
  <2>4. ASSUME NEW k \in 1 .. Len(c) PROVE Len(c[k]) = Len(d[k])
    <3>1. CASE k = m
      <4>1. m # 0
        BY <2>1, <3>1
      <4>2. Len(c[m]) = l - n * (m - 1)
        BY <1>2, <2>1, <2>2, <4>1
      <4>3. Len(d[m]) = l - n * (m - 1)
        BY <1>4, <2>1, <2>2, <2>3, <4>1
      <4> QED BY <3>1, <4>2, <4>3
    <3>2. CASE k # m
      <4>1. k \in 1 .. Len(c) - 1 /\ k \in 1 .. Len(d) - 1
        BY <2>1, <2>3, <3>2
      <4>2. Len(c[k]) = n
        BY <4>1 DEF Full
      <4>3. Len(d[k]) = n
        BY <1>4, <4>1 DEF Full
      <4> QED BY <4>2, <4>3
    <3> QED BY <3>1, <3>2
  <2> QED BY <2>1, <2>3, <2>4
<1>6. ASSUME NEW k \in 1 .. Len(c) PROVE c[k] = d[k]
  <2>1. k \in 1 .. Len(d) /\ c[k] \in Seq(X) /\ d[k] \in Seq(X)
    BY <1>4, <1>5
  <2>2. PICK u, v : u = c[k] /\ v = d[k]
    OBVIOUS
  <2>3. u \in Seq(X) /\ v \in Seq(X) /\ Len(u) = Len(v)
    BY <1>5, <2>1, <2>2
  <2>4. ASSUME NEW j \in 1 .. Len(u) PROVE u[j] = v[j]
    <3>1. j \in 1 .. Len(c[k]) /\ j \in 1 .. Len(d[k])
      BY <1>5, <2>2
    <3>2. s[n * (k - 1) + j] = c[k][j]
      BY <1>2, <3>1, Zenon DEF Grouped
    <3>3. s[n * (k - 1) + j] = d[k][j]
      BY <1>4, <2>1, <3>1, Zenon DEF Grouped
    <3> QED BY <2>2, <3>2, <3>3
  <2>5. u = v
    BY <2>3, <2>4, SeqEqual
  <2> QED BY <2>2, <2>5
<1>7. c = d
  BY <1>4, <1>5, <1>6, SeqEqual
<1> QED BY <1>1, <1>3, <1>7

-----------------------------------------------------------------------------
(* One group of base64 *)

Bits3(chunk) == At(chunk, 1, 0) * 2^16 + At(chunk, 2, 0) * 2^8 + At(chunk, 3, 0)
Chars(chunk) == [i \in 1 .. Len(chunk) + 1 |-> (Bits3(chunk) \div 2^(24 - 6 * i)) % 64]
Bits4(chunk) == At(chunk, 1, 0) * 2^18 + At(chunk, 2, 0) * 2^12
                  + At(chunk, 3, 0) * 2^6 + At(chunk, 4, 0)
Unused(chunk) == (Bits4(chunk) \div 2^(24 - 6 * Len(chunk))) % 2^UnusedBits(Len(chunk))
Bytes(chunk) == [i \in 1 .. Len(chunk) - 1 |-> (Bits4(chunk) \div 2^(24 - 8 * i)) % 256]

Byte(x) == x \in Int /\ 0 <= x /\ x <= 255
Char(x) == x \in Int /\ 0 <= x /\ x <= 63

\* A group as one number: three bytes, or four sixes.
Word8(x, y, z) == 65536 * x + 256 * y + z
Word6(p, q, r, s) == 262144 * p + 4096 * q + 64 * r + s
Wide(u) == u \in Int /\ 0 <= u /\ u <= 16777215

Eights(u, x, y, z) == (u \div 65536) % 256 = x /\ (u \div 256) % 256 = y /\ u % 256 = z
Sixes(u, p, q, r, s) ==
    /\ (u \div 262144) % 64 = p /\ (u \div 4096) % 64 = q /\ (u \div 64) % 64 = r /\ u % 64 = s

LEMMA Pack8 ==
    ASSUME NEW x, NEW y, NEW z, Byte(x), Byte(y), Byte(z)
    PROVE  Wide(Word8(x, y, z)) /\ Eights(Word8(x, y, z), x, y, z)
<1>1. PICK u : u = Word8(x, y, z)
  OBVIOUS
<1>2. u = 65536 * x + 256 * y + z /\ Wide(u)
  BY <1>1, SMT DEF Word8, Wide, Byte
<1>3. (u \div 65536) % 256 = x
  BY <1>2, SMT DEF Byte
<1>4. (u \div 256) % 256 = y
  <2>1. u \div 256 = 256 * x + y
    BY <1>2, SMT DEF Byte
  <2> QED BY <2>1, SMT DEF Byte
<1>5. u % 256 = z
  BY <1>2, SMT DEF Byte
<1> QED BY <1>1, <1>2, <1>3, <1>4, <1>5, SMT DEF Eights

LEMMA Pack6 ==
    ASSUME NEW p, NEW q, NEW r, NEW s, Char(p), Char(q), Char(r), Char(s)
    PROVE  Wide(Word6(p, q, r, s)) /\ Sixes(Word6(p, q, r, s), p, q, r, s)
<1>1. PICK u : u = Word6(p, q, r, s)
  OBVIOUS
<1>2. u = 262144 * p + 4096 * q + 64 * r + s /\ Wide(u)
  BY <1>1, SMT DEF Word6, Wide, Char
<1>3. (u \div 262144) % 64 = p
  BY <1>2, SMT DEF Char
<1>4. (u \div 4096) % 64 = q
  <2>1. u \div 4096 = 64 * p + q
    BY <1>2, SMT DEF Char
  <2> QED BY <2>1, SMT DEF Char
<1>5. (u \div 64) % 64 = r
  <2>1. u \div 64 = 4096 * p + 64 * q + r
    BY <1>2, SMT DEF Char
  <2> QED BY <2>1, SMT DEF Char
<1>6. u % 64 = s
  BY <1>2, SMT DEF Char
<1> QED BY <1>1, <1>2, <1>3, <1>4, <1>5, <1>6, SMT DEF Sixes

LEMMA Divided64 ==
    ASSUME NEW n \in Nat
    PROVE  \E a, b : a \in Nat /\ b \in Nat /\ n = 64 * a + b /\ b <= 63
<1>1. PICK a : a = n \div 64
  OBVIOUS
<1>2. a \in Int /\ 64 * a <= n /\ n <= 64 * a + 63
  BY <1>1, SMT
<1>3. PICK b : b = n - 64 * a
  OBVIOUS
<1>4. a \in Nat /\ b \in Nat /\ n = 64 * a + b /\ b <= 63
  BY <1>2, <1>3, SMT
<1> QED BY <1>4, Zenon

LEMMA Divided256 ==
    ASSUME NEW n \in Nat
    PROVE  \E a, b : a \in Nat /\ b \in Nat /\ n = 256 * a + b /\ b <= 255
<1>1. PICK a : a = n \div 256
  OBVIOUS
<1>2. a \in Int /\ 256 * a <= n /\ n <= 256 * a + 255
  BY <1>1, SMT
<1>3. PICK b : b = n - 256 * a
  OBVIOUS
<1>4. a \in Nat /\ b \in Nat /\ n = 256 * a + b /\ b <= 255
  BY <1>2, <1>3, SMT
<1> QED BY <1>4, Zenon

LEMMA Cut6 ==
    ASSUME NEW u, Wide(u)
    PROVE  \E p, q, r, s : Char(p) /\ Char(q) /\ Char(r) /\ Char(s) /\ u = Word6(p, q, r, s)
<1>1. u \in Nat
  BY SMT DEF Wide
<1>2. PICK a, s : a \in Nat /\ s \in Nat /\ u = 64 * a + s /\ s <= 63
  BY <1>1, Divided64
<1>3. PICK b, r : b \in Nat /\ r \in Nat /\ a = 64 * b + r /\ r <= 63
  BY <1>2, Divided64
<1>4. PICK p, q : p \in Nat /\ q \in Nat /\ b = 64 * p + q /\ q <= 63
  BY <1>3, Divided64
<1>5. u = 262144 * p + 4096 * q + 64 * r + s
  BY <1>2, <1>3, <1>4, SMT
<1>6. p <= 63
  BY <1>2, <1>3, <1>4, <1>5, SMT DEF Wide
<1>7. Char(p) /\ Char(q) /\ Char(r) /\ Char(s)
  BY <1>2, <1>3, <1>4, <1>6, SMT DEF Char
<1>8. u = Word6(p, q, r, s)
  BY <1>5, SMT DEF Word6
<1> QED BY <1>7, <1>8, Zenon

LEMMA Cut8 ==
    ASSUME NEW u, Wide(u)
    PROVE  \E x, y, z : Byte(x) /\ Byte(y) /\ Byte(z) /\ u = Word8(x, y, z)
<1>1. u \in Nat
  BY SMT DEF Wide
<1>2. PICK a, z : a \in Nat /\ z \in Nat /\ u = 256 * a + z /\ z <= 255
  BY <1>1, Divided256
<1>3. PICK x, y : x \in Nat /\ y \in Nat /\ a = 256 * x + y /\ y <= 255
  BY <1>2, Divided256
<1>5. u = 65536 * x + 256 * y + z
  BY <1>2, <1>3, SMT
<1>6. x <= 255
  BY <1>2, <1>3, <1>5, SMT DEF Wide
<1>7. Byte(x) /\ Byte(y) /\ Byte(z)
  BY <1>2, <1>3, <1>6, SMT DEF Byte
<1>8. u = Word8(x, y, z)
  BY <1>5, SMT DEF Word8
<1> QED BY <1>7, <1>8, Zenon

\* In which characters of a group there are bits of its second and third byte.
LEMMA ShortOne ==
    ASSUME NEW x, NEW y, NEW z, NEW p, NEW q, NEW r, NEW s,
           Byte(x), Byte(y), Byte(z), Char(p), Char(q), Char(r), Char(s),
           Word8(x, y, z) = Word6(p, q, r, s)
    PROVE  y = 0 /\ z = 0 <=> r = 0 /\ s = 0 /\ q % 16 = 0
<1>1. 65536 * x + 256 * y + z = 262144 * p + 4096 * q + 64 * r + s
  BY SMT DEF Word8, Word6
<1>2. PICK a, b : a \in Int /\ b \in Int /\ 0 <= b /\ b <= 15 /\ q = 16 * a + b /\ q % 16 = b
  <2>1. PICK a, b : a = q \div 16 /\ b = q % 16
    OBVIOUS
  <2>2. a \in Int /\ b \in Int /\ 0 <= b /\ b <= 15 /\ q = 16 * a + b
    BY <2>1, SMT DEF Char
  <2> QED BY <2>1, <2>2
<1>3. ASSUME y = 0, z = 0 PROVE r = 0 /\ s = 0 /\ b = 0
  BY <1>1, <1>2, <1>3, SMT DEF Byte, Char
<1>4. ASSUME r = 0, s = 0, b = 0 PROVE y = 0 /\ z = 0
  BY <1>1, <1>2, <1>4, SMT DEF Byte, Char
<1> QED BY <1>2, <1>3, <1>4

LEMMA ShortTwo ==
    ASSUME NEW x, NEW y, NEW z, NEW p, NEW q, NEW r, NEW s,
           Byte(x), Byte(y), Byte(z), Char(p), Char(q), Char(r), Char(s),
           Word8(x, y, z) = Word6(p, q, r, s)
    PROVE  z = 0 <=> s = 0 /\ r % 4 = 0
<1>1. 65536 * x + 256 * y + z = 262144 * p + 4096 * q + 64 * r + s
  BY SMT DEF Word8, Word6
<1>2. PICK a, b : a \in Int /\ b \in Int /\ 0 <= b /\ b <= 3 /\ r = 4 * a + b /\ r % 4 = b
  <2>1. PICK a, b : a = r \div 4 /\ b = r % 4
    OBVIOUS
  <2>2. a \in Int /\ b \in Int /\ 0 <= b /\ b <= 3 /\ r = 4 * a + b
    BY <2>1, SMT DEF Char
  <2> QED BY <2>1, <2>2
<1>3. ASSUME z = 0 PROVE s = 0 /\ b = 0
  BY <1>1, <1>2, <1>3, SMT DEF Byte, Char
<1>4. ASSUME s = 0, b = 0 PROVE z = 0
  BY <1>1, <1>2, <1>4, SMT DEF Byte, Char
<1> QED BY <1>2, <1>3, <1>4

LEMMA Bits3Is ==
    ASSUME NEW c, NEW x, NEW y, NEW z, Byte(x), Byte(y), Byte(z),
           At(c, 1, 0) = x, At(c, 2, 0) = y, At(c, 3, 0) = z
    PROVE  Bits3(c) = Word8(x, y, z)
<1>1. 2^16 = 65536 /\ 2^8 = 256
  BY SMT
<1>2. Bits3(c) = x * 65536 + y * 256 + z
  BY <1>1, SMT DEF Bits3
<1> QED BY <1>2, SMT DEF Word8, Byte

LEMMA Bits4Is ==
    ASSUME NEW d, NEW p, NEW q, NEW r, NEW s, Char(p), Char(q), Char(r), Char(s),
           At(d, 1, 0) = p, At(d, 2, 0) = q, At(d, 3, 0) = r, At(d, 4, 0) = s
    PROVE  Bits4(d) = Word6(p, q, r, s)
<1>1. 2^18 = 262144 /\ 2^12 = 4096 /\ 2^6 = 64
  BY SMT
<1>2. Bits4(d) = p * 262144 + q * 4096 + r * 64 + s
  BY <1>1, SMT DEF Bits4
<1> QED BY <1>2, SMT DEF Word6, Char

LEMMA SixAt ==
    ASSUME NEW u, Wide(u), NEW p, NEW q, NEW r, NEW s, Sixes(u, p, q, r, s)
    PROVE  /\ (u \div 2^(24 - 6 * 1)) % 64 = p /\ (u \div 2^(24 - 6 * 2)) % 64 = q
           /\ (u \div 2^(24 - 6 * 3)) % 64 = r /\ (u \div 2^(24 - 6 * 4)) % 64 = s
<1>1. /\ 2^(24 - 6 * 1) = 262144 /\ 2^(24 - 6 * 2) = 4096 /\ 2^(24 - 6 * 3) = 64
      /\ 2^(24 - 6 * 4) = 1
  BY SMT
<1>2. u \div 1 = u
  BY SMT DEF Wide
<1> QED BY <1>1, <1>2, SMT DEF Sixes

LEMMA EightAt ==
    ASSUME NEW u, Wide(u), NEW x, NEW y, NEW z, Eights(u, x, y, z)
    PROVE  /\ (u \div 2^(24 - 8 * 1)) % 256 = x /\ (u \div 2^(24 - 8 * 2)) % 256 = y
           /\ (u \div 2^(24 - 8 * 3)) % 256 = z
<1>1. 2^(24 - 8 * 1) = 65536 /\ 2^(24 - 8 * 2) = 256 /\ 2^(24 - 8 * 3) = 1
  BY SMT
<1>2. u \div 1 = u
  BY SMT DEF Wide
<1> QED BY <1>1, <1>2, SMT DEF Eights

\* The unused bits of a short group are the low bits of its last character.
LEMMA UnusedAt ==
    ASSUME NEW d, NEW u, Wide(u), Bits4(d) = u, NEW p, NEW q, NEW r, NEW s,
           Char(q), Char(r), Sixes(u, p, q, r, s)
    PROVE  /\ Len(d) = 2 => Unused(d) = q % 16
           /\ Len(d) = 3 => Unused(d) = r % 4
           /\ Len(d) = 4 => Unused(d) = 0
<1>1. /\ 2^(24 - 6 * 2) = 4096 /\ 2^(24 - 6 * 3) = 64 /\ 2^(24 - 6 * 4) = 1
      /\ 2^4 = 16 /\ 2^2 = 4 /\ 2^0 = 1
  BY SMT
<1>2. UnusedBits(2) = 4 /\ UnusedBits(3) = 2 /\ UnusedBits(4) = 0
  BY DEF UnusedBits
<1>3. ASSUME Len(d) = 2 PROVE Unused(d) = q % 16
  <2>1. Unused(d) = (u \div 4096) % 16
    <3>1. Unused(d) = (u \div 2^(24 - 6 * 2)) % 2^UnusedBits(2)
      BY <1>3, Zenon DEF Unused
    <3>2. Unused(d) = (u \div 2^(24 - 6 * 2)) % 2^4
      BY <1>2, <3>1, Zenon
    <3> QED BY <1>1, <3>2, SMT
  <2>2. PICK w : w = u \div 4096 /\ w \in Int /\ w % 64 = q
    BY SMT DEF Wide, Sixes
  <2>3. w % 16 = (w % 64) % 16
    BY <2>2, SMT
  <2> QED BY <2>1, <2>2, <2>3, SMT
<1>4. ASSUME Len(d) = 3 PROVE Unused(d) = r % 4
  <2>1. Unused(d) = (u \div 64) % 4
    <3>1. Unused(d) = (u \div 2^(24 - 6 * 3)) % 2^UnusedBits(3)
      BY <1>4, Zenon DEF Unused
    <3>2. Unused(d) = (u \div 2^(24 - 6 * 3)) % 2^2
      BY <1>2, <3>1, Zenon
    <3> QED BY <1>1, <3>2, SMT
  <2>2. PICK w : w = u \div 64 /\ w \in Int /\ w % 64 = r
    BY SMT DEF Wide, Sixes
  <2>3. w % 4 = (w % 64) % 4
    BY <2>2, SMT
  <2> QED BY <2>1, <2>2, <2>3, SMT
<1>5. ASSUME Len(d) = 4 PROVE Unused(d) = 0
  <2>1. Unused(d) = (u \div 1) % 1
    <3>1. Unused(d) = (u \div 2^(24 - 6 * 4)) % 2^UnusedBits(4)
      BY <1>5, Zenon DEF Unused
    <3>2. Unused(d) = (u \div 2^(24 - 6 * 4)) % 2^0
      BY <1>2, <3>1, Zenon
    <3> QED BY <1>1, <3>2, SMT
  <2> QED BY <2>1, SMT DEF Wide
<1> QED BY <1>3, <1>4, <1>5

LEMMA AtOf ==
    ASSUME NEW X, NEW c \in Seq(X), NEW i \in Nat, i >= 1
    PROVE  /\ i <= Len(c) => At(c, i, 0) = c[i] /\ c[i] \in X
           /\ i > Len(c) => At(c, i, 0) = 0
<1>1. DOMAIN c = 1 .. Len(c) /\ Len(c) \in Nat
  OBVIOUS
<1> QED BY <1>1 DEF At

\* A group is encoded as characters, which are decoded as that group.
LEMMA CharsOfGroup ==
    ASSUME NEW c \in Seq(0 .. 255), 1 <= Len(c), Len(c) <= 3, NEW d, d = Chars(c)
    PROVE  d \in Seq(0 .. 63) /\ Len(d) = Len(c) + 1 /\ Unused(d) = 0 /\ Bytes(d) = c
<1>1. PICK n : n = Len(c) /\ n \in Nat /\ 1 <= n /\ n <= 3
  OBVIOUS
<1>2. PICK x, y, z : x = At(c, 1, 0) /\ y = At(c, 2, 0) /\ z = At(c, 3, 0)
  OBVIOUS
<1>3. /\ x = c[1] /\ (n >= 2 => y = c[2]) /\ (n >= 3 => z = c[3])
      /\ (n < 2 => y = 0) /\ (n < 3 => z = 0)
  BY <1>1, <1>2, AtOf
<1>4. Byte(x) /\ Byte(y) /\ Byte(z)
  <2>1. ASSUME NEW i \in 1 .. n PROVE Byte(c[i])
    <3>1. PICK v \in 0 .. 255 : v = c[i]
      <4>1. i \in 1 .. Len(c)
        BY <1>1
      <4> QED BY <4>1, ElementOfSeq
    <3>2. Byte(v)
      BY DEF Byte
    <3> QED BY <3>1, <3>2
  <2>2. Byte(0)
    BY DEF Byte
  <2>3. Byte(x)
    BY <1>1, <1>3, <2>1
  <2>4. Byte(y)
    BY <1>1, <1>3, <2>1, <2>2
  <2>5. Byte(z)
    BY <1>1, <1>3, <2>1, <2>2
  <2> QED BY <2>3, <2>4, <2>5
<1>5. PICK u : u = Word8(x, y, z)
  OBVIOUS
<1>6. Bits3(c) = u
  BY <1>2, <1>4, <1>5, Bits3Is
<1>7. Wide(u) /\ Eights(u, x, y, z)
  BY <1>4, <1>5, Pack8
<1>8. PICK p, q, r, s : Char(p) /\ Char(q) /\ Char(r) /\ Char(s) /\ u = Word6(p, q, r, s)
  BY <1>7, Cut6
<1>9. Sixes(u, p, q, r, s)
  BY <1>8, Pack6
<1>10. (n = 1 => r = 0 /\ s = 0 /\ q % 16 = 0) /\ (n = 2 => s = 0 /\ r % 4 = 0)
  <2>1. n = 1 => y = 0 /\ z = 0
    BY <1>3
  <2>2. n = 2 => z = 0
    BY <1>3
  <2>3. Word8(x, y, z) = Word6(p, q, r, s)
    BY <1>5, <1>8
  <2>4. y = 0 /\ z = 0 <=> r = 0 /\ s = 0 /\ q % 16 = 0
    BY <1>4, <1>8, <2>3, ShortOne
  <2>5. z = 0 <=> s = 0 /\ r % 4 = 0
    BY <1>4, <1>8, <2>3, ShortTwo
  <2> QED BY <2>1, <2>2, <2>4, <2>5
<1>11. d = [i \in 1 .. n + 1 |-> (u \div 2^(24 - 6 * i)) % 64]
  BY <1>1, <1>6 DEF Chars
<1>12. /\ (u \div 2^(24 - 6 * 1)) % 64 = p /\ (u \div 2^(24 - 6 * 2)) % 64 = q
       /\ (u \div 2^(24 - 6 * 3)) % 64 = r /\ (u \div 2^(24 - 6 * 4)) % 64 = s
  BY <1>7, <1>9, SixAt
<1>13. d[1] = p /\ d[2] = q /\ (n >= 2 => d[3] = r) /\ (n >= 3 => d[4] = s)
  <2>1. 1 \in 1 .. n + 1 /\ 2 \in 1 .. n + 1 /\ (n >= 2 => 3 \in 1 .. n + 1) /\ (n >= 3 => 4 \in 1 .. n + 1)
    BY <1>1
  <2> QED BY <1>11, <1>12, <2>1, Zenon
<1>14. d \in Seq(0 .. 63) /\ Len(d) = n + 1
  <2>1. ASSUME NEW i \in 1 .. n + 1 PROVE d[i] \in 0 .. 63
    <3>1. p \in 0 .. 63 /\ q \in 0 .. 63 /\ r \in 0 .. 63 /\ s \in 0 .. 63
      BY <1>8 DEF Char
    <3>2. i = 1 \/ i = 2 \/ (i = 3 /\ n >= 2) \/ (i = 4 /\ n >= 3)
      BY <1>1
    <3> QED BY <1>13, <3>1, <3>2
  <2>2. DOMAIN d = 1 .. n + 1 /\ d = [i \in 1 .. n + 1 |-> d[i]]
    BY <1>11
  <2>3. PICK N \in Nat : N = n + 1
    BY <1>1
  <2>4. d \in [1 .. N -> 0 .. 63]
    BY <2>1, <2>2, <2>3
  <2>5. d \in Seq(0 .. 63) /\ Len(d) = N
    BY <2>4
  <2> QED BY <2>3, <2>5
<1>15. At(d, 1, 0) = p /\ At(d, 2, 0) = q /\ At(d, 3, 0) = r /\ At(d, 4, 0) = s
  <2>1. At(d, 1, 0) = d[1] /\ At(d, 2, 0) = d[2]
    BY <1>1, <1>14, AtOf
  <2>2. At(d, 3, 0) = r
    <3>1. CASE n >= 2
      BY <1>1, <1>13, <1>14, <3>1, AtOf
    <3>2. CASE n = 1
      BY <1>10, <1>14, <3>2, AtOf
    <3> QED BY <1>1, <3>1, <3>2
  <2>3. At(d, 4, 0) = s
    <3>1. CASE n = 3
      <4>1. d[4] = s /\ d \in Seq(0 .. 63) /\ 4 <= Len(d)
        BY <1>13, <1>14, <3>1
      <4> QED BY <4>1, AtOf
    <3>2. CASE n < 3
      BY <1>1, <1>10, <1>14, <3>2, AtOf
    <3> QED BY <1>1, <3>1, <3>2
  <2> QED BY <1>13, <2>1, <2>2, <2>3
<1>16. Bits4(d) = u
  BY <1>8, <1>15, Bits4Is
<1>17. Unused(d) = 0
  <2>1. /\ Len(d) = 2 => Unused(d) = q % 16
        /\ Len(d) = 3 => Unused(d) = r % 4
        /\ Len(d) = 4 => Unused(d) = 0
    BY <1>7, <1>8, <1>9, <1>16, UnusedAt
  <2> QED BY <1>1, <1>10, <1>14, <2>1
<1>18. Bytes(d) = c
  <2>1. Bytes(d) = [i \in 1 .. n |-> (u \div 2^(24 - 8 * i)) % 256]
    <3>1. Len(d) - 1 = n
      BY <1>1, <1>14
    <3> QED BY <1>16, <3>1 DEF Bytes
  <2>2. /\ (u \div 2^(24 - 8 * 1)) % 256 = x /\ (u \div 2^(24 - 8 * 2)) % 256 = y
        /\ (u \div 2^(24 - 8 * 3)) % 256 = z
    BY <1>7, EightAt
  <2>3. ASSUME NEW i \in 1 .. n PROVE Bytes(d)[i] = c[i]
    <3>1. Bytes(d)[i] = (u \div 2^(24 - 8 * i)) % 256
      BY <2>1
    <3>2. i = 1 \/ (i = 2 /\ n >= 2) \/ (i = 3 /\ n >= 3)
      BY <1>1
    <3> QED BY <1>3, <2>2, <3>1, <3>2, Zenon
  <2>4. c = [i \in 1 .. n |-> c[i]] /\ Bytes(d) = [i \in 1 .. n |-> Bytes(d)[i]]
    BY <1>1, <2>1
  <2> QED BY <2>3, <2>4
<1> QED BY <1>1, <1>14, <1>17, <1>18

\* And characters without unused bits are decoded as bytes, which are encoded as them.
LEMMA BytesOfGroup ==
    ASSUME NEW d \in Seq(0 .. 63), 2 <= Len(d), Len(d) <= 4, NEW b, b = Bytes(d)
    PROVE  b \in Seq(0 .. 255) /\ Len(b) = Len(d) - 1 /\ (Unused(d) = 0 => Chars(b) = d)
<1>1. PICK n : n = Len(d) - 1 /\ n \in Nat /\ 1 <= n /\ n <= 3 /\ Len(d) = n + 1
  OBVIOUS
<1>2. PICK p, q, r, s : p = At(d, 1, 0) /\ q = At(d, 2, 0) /\ r = At(d, 3, 0) /\ s = At(d, 4, 0)
  OBVIOUS
<1>3. /\ p = d[1] /\ q = d[2] /\ (n >= 2 => r = d[3]) /\ (n >= 3 => s = d[4])
      /\ (n < 2 => r = 0) /\ (n < 3 => s = 0)
  BY <1>1, <1>2, AtOf
<1>4. Char(p) /\ Char(q) /\ Char(r) /\ Char(s)
  <2>1. ASSUME NEW i \in 1 .. n + 1 PROVE Char(d[i])
    <3>1. PICK v \in 0 .. 63 : v = d[i]
      BY <1>1
    <3>2. Char(v)
      BY DEF Char
    <3> QED BY <3>1, <3>2
  <2>2. Char(0)
    BY DEF Char
  <2>3. Char(p) /\ Char(q)
    BY <1>1, <1>3, <2>1
  <2>4. Char(r)
    BY <1>1, <1>3, <2>1, <2>2
  <2>5. Char(s)
    BY <1>1, <1>3, <2>1, <2>2
  <2> QED BY <2>3, <2>4, <2>5
<1>5. PICK u : u = Word6(p, q, r, s)
  OBVIOUS
<1>6. Bits4(d) = u
  BY <1>2, <1>4, <1>5, Bits4Is
<1>7. Wide(u) /\ Sixes(u, p, q, r, s)
  BY <1>4, <1>5, Pack6
<1>8. PICK x, y, z : Byte(x) /\ Byte(y) /\ Byte(z) /\ u = Word8(x, y, z)
  BY <1>7, Cut8
<1>9. Eights(u, x, y, z)
  BY <1>8, Pack8
<1>10. b = [i \in 1 .. n |-> (u \div 2^(24 - 8 * i)) % 256]
  BY <1>1, <1>6 DEF Bytes
<1>11. /\ (u \div 2^(24 - 8 * 1)) % 256 = x /\ (u \div 2^(24 - 8 * 2)) % 256 = y
       /\ (u \div 2^(24 - 8 * 3)) % 256 = z
  BY <1>7, <1>9, EightAt
<1>12. b[1] = x /\ (n >= 2 => b[2] = y) /\ (n >= 3 => b[3] = z)
  <2>1. 1 \in 1 .. n /\ (n >= 2 => 2 \in 1 .. n) /\ (n >= 3 => 3 \in 1 .. n)
    BY <1>1
  <2> QED BY <1>10, <1>11, <2>1, Zenon
<1>13. b \in Seq(0 .. 255) /\ Len(b) = n
  <2>1. ASSUME NEW i \in 1 .. n PROVE b[i] \in 0 .. 255
    <3>1. x \in 0 .. 255 /\ y \in 0 .. 255 /\ z \in 0 .. 255
      BY <1>8 DEF Byte
    <3>2. i = 1 \/ (i = 2 /\ n >= 2) \/ (i = 3 /\ n >= 3)
      BY <1>1
    <3> QED BY <1>12, <3>1, <3>2
  <2>2. DOMAIN b = 1 .. n /\ b = [i \in 1 .. n |-> b[i]]
    BY <1>10
  <2>3. PICK N \in Nat : N = n
    BY <1>1
  <2>4. b \in [1 .. N -> 0 .. 255]
    BY <2>1, <2>2, <2>3
  <2>5. b \in Seq(0 .. 255) /\ Len(b) = N
    BY <2>4
  <2> QED BY <2>3, <2>5
<1>14. ASSUME Unused(d) = 0 PROVE Chars(b) = d
  <2>1. (n = 1 => y = 0 /\ z = 0) /\ (n = 2 => z = 0)
    <3>1. /\ Len(d) = 2 => Unused(d) = q % 16
          /\ Len(d) = 3 => Unused(d) = r % 4
      BY <1>4, <1>6, <1>7, UnusedAt
    <3>2. (n = 1 => q % 16 = 0 /\ r = 0 /\ s = 0) /\ (n = 2 => r % 4 = 0 /\ s = 0)
      <4>1. ASSUME n = 1 PROVE q % 16 = 0 /\ r = 0 /\ s = 0
        <5>1. Len(d) = 2 /\ r = 0 /\ s = 0
          BY <1>1, <1>3, <4>1
        <5> QED BY <1>14, <3>1, <5>1, Zenon
      <4>2. ASSUME n = 2 PROVE r % 4 = 0 /\ s = 0
        <5>1. Len(d) = 3 /\ s = 0
          BY <1>1, <1>3, <4>2
        <5> QED BY <1>14, <3>1, <5>1, Zenon
      <4> QED BY <4>1, <4>2
    <3>3. Word8(x, y, z) = Word6(p, q, r, s)
      BY <1>5, <1>8
    <3>4. y = 0 /\ z = 0 <=> r = 0 /\ s = 0 /\ q % 16 = 0
      BY <1>4, <1>8, <3>3, ShortOne
    <3>5. z = 0 <=> s = 0 /\ r % 4 = 0
      BY <1>4, <1>8, <3>3, ShortTwo
    <3> QED BY <3>2, <3>4, <3>5
  <2>2. At(b, 1, 0) = x /\ At(b, 2, 0) = y /\ At(b, 3, 0) = z
    <3>1. At(b, 1, 0) = x
      BY <1>1, <1>12, <1>13, AtOf
    <3>2. At(b, 2, 0) = y
      <4>1. CASE n >= 2
        BY <1>1, <1>12, <1>13, <4>1, AtOf
      <4>2. CASE n = 1
        BY <1>13, <2>1, <4>2, AtOf
      <4> QED BY <1>1, <4>1, <4>2
    <3>3. At(b, 3, 0) = z
      <4>1. CASE n = 3
        BY <1>1, <1>12, <1>13, <4>1, AtOf
      <4>2. CASE n < 3
        BY <1>1, <1>13, <2>1, <4>2, AtOf
      <4> QED BY <1>1, <4>1, <4>2
    <3> QED BY <3>1, <3>2, <3>3
  <2>3. Bits3(b) = u
    BY <1>8, <2>2, Bits3Is
  <2>4. Chars(b) = [i \in 1 .. n + 1 |-> (u \div 2^(24 - 6 * i)) % 64]
    BY <1>13, <2>3 DEF Chars
  <2>5. /\ (u \div 2^(24 - 6 * 1)) % 64 = p /\ (u \div 2^(24 - 6 * 2)) % 64 = q
        /\ (u \div 2^(24 - 6 * 3)) % 64 = r /\ (u \div 2^(24 - 6 * 4)) % 64 = s
    BY <1>7, SixAt
  <2>6. ASSUME NEW i \in 1 .. n + 1 PROVE Chars(b)[i] = d[i]
    <3>1. Chars(b)[i] = (u \div 2^(24 - 6 * i)) % 64
      BY <2>4
    <3>2. i = 1 \/ i = 2 \/ (i = 3 /\ n >= 2) \/ (i = 4 /\ n >= 3)
      BY <1>1
    <3> QED BY <1>3, <2>5, <3>1, <3>2, Zenon
  <2>7. d = [i \in 1 .. n + 1 |-> d[i]] /\ Chars(b) = [i \in 1 .. n + 1 |-> Chars(b)[i]]
    BY <1>1, <2>4
  <2> QED BY <2>6, <2>7
<1> QED BY <1>1, <1>13, <1>14

\* What the characters of each group are, and the bytes.
GroupsEncoded(c) == [k \in 1 .. Len(c) |-> Chars(c[k])]
GroupsDecoded(c) == [k \in 1 .. Len(c) |-> Bytes(c[k])]

LEMMA EncodeIs ==
    ASSUME NEW s \in Seq(0 .. 255)
    PROVE  b64_encode(s) = FlattenSeq(GroupsEncoded(Chunks(s, 3)))
<1>1. PICK c : c = Chunks(s, 3)
  OBVIOUS
<1>2. c \in Seq(Seq(0 .. 255))
  BY <1>1, ChunksAre DEF Sizes
<1>3. DOMAIN c = 1 .. Len(c)
  BY <1>2
<1>4. b64_encode(s) = FlattenSeq([k \in DOMAIN c |-> Chars(c[k])])
  BY <1>1, Zenon DEF b64_encode, Chars, Bits3
<1> QED BY <1>1, <1>3, <1>4 DEF GroupsEncoded

LEMMA DecodeIs ==
    ASSUME NEW s \in Seq(0 .. 64), NEW c, c = Chunks(s, 4)
    PROVE  b64_decode(s) =
             IF \/ Len(s) % 4 = 1
                \/ \E i \in DOMAIN s : s[i] = Alien
                \/ \E k \in 1 .. Len(c) : Unused(c[k]) # 0
             THEN <<>> ELSE <<FlattenSeq(GroupsDecoded(c))>>
<1>1. c \in Seq(Seq(0 .. 64))
  BY ChunksAre DEF Sizes
<1>2. DOMAIN c = 1 .. Len(c)
  BY <1>1
<1>3. b64_decode(s) =
             IF \/ Len(s) % 4 = 1
                \/ \E i \in DOMAIN s : s[i] = Alien
                \/ \E k \in DOMAIN c : Unused(c[k]) # 0
             THEN <<>> ELSE <<FlattenSeq([k \in DOMAIN c |-> Bytes(c[k])])>>
  BY Zenon DEF b64_decode, Bytes, Bits4, Unused
<1> QED BY <1>2, <1>3, Zenon DEF GroupsDecoded

LEMMA OneMore ==
    ASSUME NEW l \in Nat, 1 <= l, l <= 3
    PROVE  l + 1 \in Nat /\ 2 <= l + 1 /\ l + 1 <= 4 /\ (l = 3 => l + 1 = 4)
OBVIOUS

LEMMA TwoToFour ==
    ASSUME NEW l \in Nat, 1 <= l, l <= 4, l # 1
    PROVE  2 <= l /\ (l = 2 \/ l = 3 \/ l = 4)
OBVIOUS

LEMMA NotOne == ASSUME NEW l \in Nat, 2 <= l PROVE l # 1
OBVIOUS

\* Groups of bytes, encoded, are full groups of characters.
LEMMA EncodedGroups ==
    ASSUME NEW c \in Seq(Seq(0 .. 255)), Full(c, 3), NEW e, e = GroupsEncoded(c)
    PROVE  /\ e \in Seq(Seq(0 .. 63)) /\ Full(e, 4) /\ Len(e) = Len(c)
           /\ \A k \in 1 .. Len(c) :
                 e[k] = Chars(c[k]) /\ Len(e[k]) = Len(c[k]) + 1 /\ Len(e[k]) # 1
                   /\ Unused(e[k]) = 0 /\ Bytes(e[k]) = c[k]
<1>1. PICK m \in Nat : m = Len(c)
  OBVIOUS
<1>2. e = [k \in 1 .. m |-> Chars(c[k])]
  BY <1>1 DEF GroupsEncoded
<1>3. ASSUME NEW k \in 1 .. m
      PROVE  /\ e[k] = Chars(c[k]) /\ e[k] \in Seq(0 .. 63) /\ Len(e[k]) = Len(c[k]) + 1
             /\ Unused(e[k]) = 0 /\ Bytes(e[k]) = c[k]
             /\ 2 <= Len(e[k]) /\ Len(e[k]) <= 4 /\ Len(e[k]) \in Nat /\ (Len(c[k]) = 3 => Len(e[k]) = 4)
  <2>1. PICK g, h : g = c[k] /\ h = e[k]
    OBVIOUS
  <2>2. k \in 1 .. Len(c)
    BY <1>1
  <2>3. g \in Seq(0 .. 255) /\ 1 <= Len(g) /\ Len(g) <= 3 /\ h = Chars(g)
    BY <1>2, <2>1, <2>2 DEF Full
  <2>4. h \in Seq(0 .. 63) /\ Len(h) = Len(g) + 1 /\ Unused(h) = 0 /\ Bytes(h) = g
    BY <2>3, CharsOfGroup
  <2>5. PICK l : l = Len(g) /\ l \in Nat
    BY <2>3
  <2>6. Len(h) = l + 1 /\ 1 <= l /\ l <= 3
    BY <2>3, <2>4, <2>5
  <2>7. 2 <= Len(h) /\ Len(h) <= 4 /\ Len(h) \in Nat /\ (l = 3 => Len(h) = 4)
    BY <2>5, <2>6, OneMore, Zenon
  <2>8. h = Chars(g) /\ h \in Seq(0 .. 63) /\ Len(h) = Len(g) + 1 /\ Unused(h) = 0 /\ Bytes(h) = g
        /\ (Len(g) = 3 => Len(h) = 4)
    BY <2>3, <2>4, <2>5, <2>7
  <2> QED BY <2>1, <2>7, <2>8
<1>4. e \in [1 .. m -> Seq(0 .. 63)]
  BY <1>2, <1>3
<1>5. e \in Seq(Seq(0 .. 63)) /\ Len(e) = m
  BY <1>4
<1>6. Full(e, 4)
  <2>1. ASSUME NEW k \in 1 .. Len(e) PROVE 1 <= Len(e[k]) /\ Len(e[k]) <= 4
    <3>1. k \in 1 .. m
      BY <1>5
    <3>2. 2 <= Len(e[k]) /\ Len(e[k]) <= 4 /\ Len(e[k]) \in Nat
      BY <1>3, <3>1, Zenon
    <3> QED BY <3>2
  <2>2. ASSUME NEW k \in 1 .. Len(e) - 1 PROVE Len(e[k]) = 4
    <3>1. k \in 1 .. m /\ k \in 1 .. Len(c) - 1
      BY <1>1, <1>5
    <3>2. Len(c[k]) = 3
      BY <3>1, Zenon DEF Full
    <3> QED BY <1>3, <3>1, <3>2, Zenon
  <2> QED BY <2>1, <2>2 DEF Full
<1>7. ASSUME NEW k \in 1 .. m PROVE Len(e[k]) # 1
  <2>1. 2 <= Len(e[k]) /\ Len(e[k]) \in Nat
    BY <1>3, Zenon
  <2> QED BY <2>1, NotOne, Zenon
<1> QED BY <1>1, <1>3, <1>5, <1>6, <1>7

\* Full groups of characters, none of which is a single one, decoded, are full groups of
\* bytes; without unused bits they are encoded as they were.
LEMMA DecodedGroups ==
    ASSUME NEW c \in Seq(Seq(0 .. 63)), Full(c, 4), \A k \in 1 .. Len(c) : Len(c[k]) # 1,
           NEW b, b = GroupsDecoded(c)
    PROVE  /\ b \in Seq(Seq(0 .. 255)) /\ Full(b, 3) /\ Len(b) = Len(c)
           /\ \A k \in 1 .. Len(c) : Unused(c[k]) = 0 => Chars(b[k]) = c[k]
<1>1. PICK m \in Nat : m = Len(c)
  OBVIOUS
<1>2. b = [k \in 1 .. m |-> Bytes(c[k])]
  BY <1>1 DEF GroupsDecoded
<1>3. ASSUME NEW k \in 1 .. m
      PROVE  /\ b[k] \in Seq(0 .. 255) /\ Len(b[k]) = Len(c[k]) - 1
             /\ Unused(c[k]) = 0 => Chars(b[k]) = c[k]
             /\ 1 <= Len(b[k]) /\ Len(b[k]) <= 3 /\ Len(b[k]) \in Nat /\ (Len(c[k]) = 4 => Len(b[k]) = 3)
  <2>1. PICK g, h : g = c[k] /\ h = b[k]
    OBVIOUS
  <2>2. k \in 1 .. Len(c)
    BY <1>1
  <2>3. g \in Seq(0 .. 63) /\ 1 <= Len(g) /\ Len(g) # 1 /\ Len(g) <= 4 /\ h = Bytes(g)
    BY <1>2, <2>1, <2>2 DEF Full
  <2>4. 2 <= Len(g) /\ Len(g) \in Nat
    <3>1. Len(g) \in Nat
      BY <2>3
    <3> QED BY <2>3, <3>1, TwoToFour, Zenon
  <2>5. h \in Seq(0 .. 255) /\ Len(h) = Len(g) - 1 /\ (Unused(g) = 0 => Chars(h) = g)
    BY <2>3, <2>4, BytesOfGroup
  <2>6. PICK l : l = Len(g) /\ l \in Nat /\ 2 <= l /\ l <= 4 /\ Len(h) = l - 1
    BY <2>3, <2>4, <2>5
  <2>7. 1 <= Len(h) /\ Len(h) <= 3 /\ Len(h) \in Nat /\ (l = 4 => Len(h) = 3)
    BY <2>6
  <2>8. Len(g) = 4 => Len(h) = 3
    BY <2>6, <2>7
  <2> QED BY <2>1, <2>5, <2>7, <2>8
<1>4. b \in [1 .. m -> Seq(0 .. 255)]
  BY <1>2, <1>3
<1>5. b \in Seq(Seq(0 .. 255)) /\ Len(b) = m
  BY <1>4
<1>6. Full(b, 3)
  <2>1. ASSUME NEW k \in 1 .. Len(b) PROVE 1 <= Len(b[k]) /\ Len(b[k]) <= 3
    <3>1. k \in 1 .. m
      BY <1>5
    <3> QED BY <1>3, <3>1, Zenon
  <2>2. ASSUME NEW k \in 1 .. Len(b) - 1 PROVE Len(b[k]) = 3
    <3>1. k \in 1 .. m /\ k \in 1 .. Len(c) - 1
      BY <1>1, <1>5
    <3>2. Len(c[k]) = 4
      BY <3>1, Zenon DEF Full
    <3> QED BY <1>3, <3>1, <3>2, Zenon
  <2> QED BY <2>1, <2>2 DEF Full
<1> QED BY <1>1, <1>3, <1>5, <1>6

\* Whatever bytes are encoded are decoded again.
LEMMA B64ReadBack ==
    ASSUME NEW s \in Seq(0 .. 255), NEW e, e = b64_encode(s)
    PROVE  e \in Seq(0 .. 63) /\ b64_decode(e) = <<s>>
<1> USE DEF Sizes
<1>1. PICK c, g : c = Chunks(s, 3) /\ g = GroupsEncoded(c)
  OBVIOUS
<1>2. c \in Seq(Seq(0 .. 255)) /\ Full(c, 3) /\ Grouped(s, c, 3)
  BY <1>1, ChunksAre
<1>3. /\ g \in Seq(Seq(0 .. 63)) /\ Full(g, 4) /\ Len(g) = Len(c)
      /\ \A k \in 1 .. Len(c) : Len(g[k]) # 1 /\ Unused(g[k]) = 0 /\ Bytes(g[k]) = c[k]
  BY <1>1, <1>2, EncodedGroups
<1>4. e = FlattenSeq(g)
  BY <1>1, EncodeIs
<1>5. e \in Seq(0 .. 63) /\ Grouped(e, g, 4)
  BY <1>3, <1>4, FullLaid
<1>6. Chunks(e, 4) = g
  BY <1>3, <1>4, JoinChunks
<1>7. e \in Seq(0 .. 64) /\ \A i \in DOMAIN e : e[i] # Alien
  <2>1. \A i \in DOMAIN e : e[i] \in 0 .. 63
    BY <1>5, ElementOfSeq, LenProperties
  <2>2. 0 .. 63 \subseteq 0 .. 64 /\ Alien \notin 0 .. 63
    BY DEF Alien
  <2>3. e \in Seq(0 .. 64)
    <3>1. PICK X, Y : X = 0 .. 63 /\ Y = 0 .. 64
      OBVIOUS
    <3>2. e \in Seq(X) /\ X \subseteq Y
      BY <1>5, <2>2, <3>1
    <3>3. e \in Seq(Y)
      BY <3>2, SeqMonotonic
    <3> QED BY <3>1, <3>3
  <2> QED BY <2>1, <2>2, <2>3
<1>8. Len(e) % 4 # 1
  <2>1. CASE Len(g) = 0
    BY <1>5, <2>1 DEF Grouped
  <2>2. CASE Len(g) # 0
    <3>1. PICK m : m = Len(g) /\ m \in Nat /\ m \in 1 .. Len(g)
      BY <1>3, <2>2
    <3>2. PICK l : l = Len(g[m]) /\ l \in Nat /\ 1 <= l /\ l <= 4 /\ l # 1
      <4>1. g[m] \in Seq(0 .. 63)
        BY <1>3, <3>1
      <4>2. Len(g[m]) \in Nat /\ 1 <= Len(g[m]) /\ Len(g[m]) <= 4 /\ Len(g[m]) # 1
        BY <1>3, <3>1, <4>1 DEF Full
      <4> QED BY <4>2
    <3>3. Len(e) = 4 * (m - 1) + l
      BY <1>5, <2>2, <3>1, <3>2 DEF Grouped
    <3>4. l = 2 \/ l = 3 \/ l = 4
      BY <3>2, TwoToFour, Zenon
    <3>5. (4 * (m - 1) + 2) % 4 = 2 /\ (4 * (m - 1) + 3) % 4 = 3 /\ (4 * (m - 1) + 4) % 4 = 0
      BY <3>1
    <3> QED BY <3>3, <3>4, <3>5
  <2> QED BY <2>1, <2>2
<1>9. GroupsDecoded(g) = c
  <2>1. c = [k \in 1 .. Len(c) |-> c[k]]
    BY <1>2
  <2>2. GroupsDecoded(g) = [k \in 1 .. Len(c) |-> Bytes(g[k])]
    BY <1>3 DEF GroupsDecoded
  <2> QED BY <1>3, <2>1, <2>2
<1>10. FlattenSeq(c) = s
  BY <1>1, ChunksJoin
<1>11. b64_decode(e) = <<FlattenSeq(GroupsDecoded(g))>>
  <2>1. \A k \in 1 .. Len(g) : Unused(g[k]) = 0
    BY <1>3
  <2> QED BY <1>6, <1>7, <1>8, <2>1, DecodeIs
<1> QED BY <1>5, <1>9, <1>10, <1>11

\* What is accepted is what is written for the bytes it is decoded as.
LEMMA B64SpelledOnce ==
    ASSUME NEW t \in Seq(0 .. 64), b64_decode(t) # <<>>
    PROVE  \E b \in Seq(0 .. 255) : b64_decode(t) = <<b>> /\ b64_encode(b) = t
<1> USE DEF Sizes
<1>1. PICK c, g : c = Chunks(t, 4) /\ g = GroupsDecoded(c)
  OBVIOUS
<1>2. /\ Len(t) % 4 # 1 /\ \A i \in DOMAIN t : t[i] # Alien
      /\ \A k \in 1 .. Len(c) : Unused(c[k]) = 0
      /\ b64_decode(t) = <<FlattenSeq(g)>>
  <2>1. b64_decode(t) =
             IF \/ Len(t) % 4 = 1
                \/ \E i \in DOMAIN t : t[i] = Alien
                \/ \E k \in 1 .. Len(c) : Unused(c[k]) # 0
             THEN <<>> ELSE <<FlattenSeq(g)>>
    BY <1>1, DecodeIs
  <2> QED BY <2>1
<1>3. t \in Seq(0 .. 63)
  <2>1. ASSUME NEW i \in 1 .. Len(t) PROVE t[i] \in 0 .. 63
    <3>1. i \in DOMAIN t /\ t[i] \in 0 .. 64
      BY ElementOfSeq, LenProperties
    <3>2. t[i] # Alien
      BY <1>2, <3>1
    <3> QED BY <3>1, <3>2 DEF Alien
  <2>2. PICK l : l = Len(t) /\ l \in Nat /\ t \in [1 .. l -> 0 .. 64]
    BY LenProperties
  <2>3. t \in [1 .. l -> 0 .. 63]
    BY <2>1, <2>2
  <2>4. PICK X : X = 0 .. 63
    OBVIOUS
  <2>5. t \in [1 .. l -> X] /\ l \in Nat
    BY <2>2, <2>3, <2>4
  <2>6. t \in Seq(X)
    BY <2>5, SeqDef
  <2> QED BY <2>4, <2>6
<1>4. c \in Seq(Seq(0 .. 63)) /\ Full(c, 4) /\ Grouped(t, c, 4)
  BY <1>1, <1>3, ChunksAre
<1>5. ASSUME NEW k \in 1 .. Len(c) PROVE Len(c[k]) # 1
  <2>1. PICK m : m = Len(c) /\ m \in Nat /\ m # 0 /\ k \in 1 .. m
    <3>1. Len(c) \in Nat
      BY <1>4, LenProperties
    <3> QED BY <3>1
  <2>2. CASE k = m
    <3>1. Len(t) = 4 * (m - 1) + Len(c[m])
      BY <1>4, <2>1 DEF Grouped
    <3>2. SUFFICES ASSUME Len(c[m]) = 1 PROVE FALSE
      BY <2>2
    <3>3. Len(t) % 4 = 1
      BY <2>1, <3>1, <3>2
    <3> QED BY <1>2, <3>3
  <2>3. CASE k # m
    <3>1. k \in 1 .. Len(c) - 1
      BY <2>1, <2>3
    <3>2. Len(c[k]) = 4
      BY <1>4, <3>1, Zenon DEF Full
    <3> QED BY <3>2
  <2> QED BY <2>2, <2>3
<1>6. /\ g \in Seq(Seq(0 .. 255)) /\ Full(g, 3) /\ Len(g) = Len(c)
      /\ \A k \in 1 .. Len(c) : Chars(g[k]) = c[k]
  <2>1. /\ g \in Seq(Seq(0 .. 255)) /\ Full(g, 3) /\ Len(g) = Len(c)
        /\ \A k \in 1 .. Len(c) : Unused(c[k]) = 0 => Chars(g[k]) = c[k]
    <3>1. \A k \in 1 .. Len(c) : Len(c[k]) # 1
      BY <1>5
    <3>2. c \in Seq(Seq(0 .. 63)) /\ Full(c, 4) /\ g = GroupsDecoded(c)
      BY <1>1, <1>4
    <3> QED BY <3>1, <3>2, DecodedGroups
  <2> QED BY <1>2, <2>1
<1>7. PICK b : b = FlattenSeq(g)
  OBVIOUS
<1>8. b \in Seq(0 .. 255)
  BY <1>6, <1>7, FullLaid
<1>9. Chunks(b, 3) = g
  BY <1>6, <1>7, JoinChunks
<1>10. GroupsEncoded(g) = c
  <2>1. c = [k \in 1 .. Len(c) |-> c[k]]
    BY <1>4
  <2>2. GroupsEncoded(g) = [k \in 1 .. Len(c) |-> Chars(g[k])]
    BY <1>6 DEF GroupsEncoded
  <2> QED BY <1>6, <2>1, <2>2
<1>11. b64_encode(b) = FlattenSeq(c)
  BY <1>8, <1>9, <1>10, EncodeIs
<1>12. FlattenSeq(c) = t
  BY <1>1, ChunksJoin
<1> QED BY <1>2, <1>7, <1>8, <1>11, <1>12

-----------------------------------------------------------------------------
(* Hexadecimal, and printed shares *)

LEMMA HexOf ==
    ASSUME NEW b \in Seq(0 .. 255), NEW e, e = hex_encode(b)
    PROVE  /\ e \in Seq(0 .. 15) /\ Len(e) = 2 * Len(b)
           /\ \A k \in 1 .. Len(b) : e[2 * k - 1] = b[k] \div 16 /\ e[2 * k] = b[k] % 16
<1>1. PICK m : m = Len(b) /\ m \in Nat /\ DOMAIN b = 1 .. m
  BY LenProperties
<1>2. PICK c : c = [i \in 1 .. m |-> <<b[i] \div 16, b[i] % 16>>]
  OBVIOUS
<1>3. e = FlattenSeq(c)
  BY <1>1, <1>2 DEF hex_encode
<1>4. ASSUME NEW i \in 1 .. m
      PROVE  /\ c[i] \in Seq(0 .. 15) /\ Len(c[i]) = 2
             /\ c[i][1] = b[i] \div 16 /\ c[i][2] = b[i] % 16
  <2>1. PICK v \in 0 .. 255 : v = b[i]
    BY <1>1, ElementOfSeq
  <2>2. v \div 16 \in 0 .. 15 /\ v % 16 \in 0 .. 15
    OBVIOUS
  <2>3. PICK x, y : x = v \div 16 /\ y = v % 16
    OBVIOUS
  <2>4. c[i] = <<x, y>>
    BY <1>2, <2>1, <2>3
  <2>5. <<x, y>> \in Seq(0 .. 15) /\ Len(<<x, y>>) = 2 /\ <<x, y>>[1] = x /\ <<x, y>>[2] = y
    BY <2>2, <2>3
  <2> QED BY <2>1, <2>3, <2>4, <2>5
<1>5. c \in Seq(Seq(0 .. 15)) /\ Len(c) = m
  <2>1. c \in [1 .. m -> Seq(0 .. 15)]
    BY <1>2, <1>4
  <2> QED BY <1>1, <2>1
<1>6. Full(c, 2)
  <2>1. \A k \in 1 .. Len(c) : Len(c[k]) = 2
    BY <1>4, <1>5
  <2>2. \A k \in 1 .. Len(c) - 1 : k \in 1 .. Len(c)
    BY <1>1, <1>5
  <2>3. ASSUME NEW k \in 1 .. Len(c) PROVE 1 <= Len(c[k]) /\ Len(c[k]) <= 2
    <3>1. Len(c[k]) = 2
      BY <2>1, Zenon
    <3> QED BY <3>1
  <2>4. \A k \in 1 .. Len(c) - 1 : Len(c[k]) = 2
    BY <2>1, <2>2
  <2> QED BY <2>3, <2>4, Zenon DEF Full
<1>7. e \in Seq(0 .. 15) /\ Grouped(e, c, 2)
  BY <1>3, <1>5, <1>6, FullLaid DEF Sizes
<1>8. Len(e) = 2 * m
  <2>1. CASE m = 0
    BY <1>5, <1>7, <2>1 DEF Grouped
  <2>2. CASE m # 0
    <3>1. Len(e) = 2 * (m - 1) + Len(c[m]) /\ m \in 1 .. m
      <4>1. Len(e) = 2 * (m - 1) + Len(c[m])
        BY <1>5, <1>7, <2>2, Zenon DEF Grouped
      <4>2. m \in 1 .. m
        BY <1>1, <2>2
      <4> QED BY <4>1, <4>2
    <3>2. Len(c[m]) = 2
      BY <1>4, <3>1
    <3> QED BY <1>1, <3>1, <3>2
  <2> QED BY <2>1, <2>2
<1>9. ASSUME NEW k \in 1 .. m PROVE e[2 * k - 1] = b[k] \div 16 /\ e[2 * k] = b[k] % 16
  <2>1. k \in 1 .. Len(c) /\ 1 \in 1 .. Len(c[k]) /\ 2 \in 1 .. Len(c[k])
    BY <1>4, <1>5
  <2>2. e[2 * (k - 1) + 1] = c[k][1] /\ e[2 * (k - 1) + 2] = c[k][2]
    BY <1>7, <2>1, Zenon DEF Grouped
  <2>3. 2 * (k - 1) + 1 = 2 * k - 1 /\ 2 * (k - 1) + 2 = 2 * k
    BY <1>1
  <2> QED BY <1>4, <2>2, <2>3
<1> QED BY <1>1, <1>7, <1>8, <1>9

LEMMA HexReadBack ==
    ASSUME NEW b \in Seq(0 .. 255), NEW e, e = hex_encode(b)
    PROVE  e \in Seq(0 .. 15) /\ hex_decode(e) = <<b>>
<1>1. PICK m : m = Len(b) /\ m \in Nat
  BY LenProperties
<1>2. /\ e \in Seq(0 .. 15) /\ Len(e) = 2 * m
      /\ \A k \in 1 .. m : e[2 * k - 1] = b[k] \div 16 /\ e[2 * k] = b[k] % 16
  BY <1>1, HexOf
<1>3. Len(e) % 2 = 0 /\ Len(e) \div 2 = m
  BY <1>1, <1>2
<1>4. \A i \in DOMAIN e : e[i] \in HexDigits
  <2>1. \A i \in DOMAIN e : e[i] \in 0 .. 15
    BY <1>2, ElementOfSeq, LenProperties
  <2> QED BY <2>1 DEF HexDigits
<1>5. hex_decode(e) = <<[k \in 1 .. m |-> nibble(e[2 * k - 1]) * 16 + nibble(e[2 * k])]>>
  BY <1>3, <1>4 DEF hex_decode
<1>6. ASSUME NEW k \in 1 .. m PROVE nibble(e[2 * k - 1]) * 16 + nibble(e[2 * k]) = b[k]
  <2>1. PICK v \in 0 .. 255 : v = b[k]
    BY <1>1, ElementOfSeq
  <2>2. e[2 * k - 1] = v \div 16 /\ e[2 * k] = v % 16
    BY <1>2, <2>1
  <2>3. PICK x, y : x = v \div 16 /\ y = v % 16
    OBVIOUS
  <2>4. x \in Int /\ x < 16 /\ y \in Int /\ y < 16 /\ x * 16 + y = v
    BY <2>3
  <2>5. nibble(x) = x /\ nibble(y) = y
    BY <2>4 DEF nibble
  <2>6. nibble(e[2 * k - 1]) * 16 + nibble(e[2 * k]) = x * 16 + y
    BY <2>2, <2>3, <2>5
  <2> QED BY <2>1, <2>4, <2>6
<1>7. b = [k \in 1 .. m |-> b[k]]
  BY <1>1
<1>8. [k \in 1 .. m |-> nibble(e[2 * k - 1]) * 16 + nibble(e[2 * k])] = b
  BY <1>6, <1>7
<1> QED BY <1>2, <1>5, <1>8

LEMMA Nibbles ==
    ASSUME NEW c \in HexDigits
    PROVE  nibble(c) \in Int /\ 0 <= nibble(c) /\ nibble(c) <= 15
BY DEF HexDigits, Upper, nibble

LEMMA HexSpelledOnce ==
    ASSUME NEW t \in Seq(HexDigits \cup {NotHex}), hex_decode(t) # <<>>
    PROVE  \E b \in Seq(0 .. 255) : hex_decode(t) = <<b>> /\ hex_encode(b) = Lower(t)
<1>1. PICK l : l = Len(t) /\ l \in Nat /\ DOMAIN t = 1 .. l
  BY LenProperties
<1>2. PICK m : m = l \div 2
  OBVIOUS
<1>3. PICK b : b = [k \in 1 .. m |-> nibble(t[2 * k - 1]) * 16 + nibble(t[2 * k])]
  OBVIOUS
<1>4. /\ l % 2 = 0 /\ \A i \in 1 .. l : t[i] \in HexDigits
      /\ hex_decode(t) = <<b>>
  BY <1>1, <1>2, <1>3 DEF hex_decode
<1>5. m \in Nat /\ l = 2 * m
  BY <1>1, <1>2, <1>4
<1>6. ASSUME NEW k \in 1 .. m
      PROVE  /\ b[k] \in 0 .. 255
             /\ b[k] \div 16 = nibble(t[2 * k - 1]) /\ b[k] % 16 = nibble(t[2 * k])
  <2>1. 2 * k - 1 \in 1 .. l /\ 2 * k \in 1 .. l
    BY <1>5
  <2>2. PICK x, y : x = nibble(t[2 * k - 1]) /\ y = nibble(t[2 * k])
    OBVIOUS
  <2>3. x \in Int /\ 0 <= x /\ x <= 15 /\ y \in Int /\ 0 <= y /\ y <= 15
    BY <1>4, <2>1, <2>2, Nibbles
  <2>4. b[k] = x * 16 + y
    BY <1>3, <2>2
  <2>5. x * 16 + y \in 0 .. 255 /\ (x * 16 + y) \div 16 = x /\ (x * 16 + y) % 16 = y
    BY <2>3
  <2> QED BY <2>2, <2>4, <2>5
<1>7. b \in Seq(0 .. 255) /\ Len(b) = m
  <2>1. PICK X : X = 0 .. 255
    OBVIOUS
  <2>2. b \in [1 .. m -> X]
    BY <1>3, <1>6, <2>1
  <2>3. b \in Seq(X) /\ Len(b) = m
    BY <1>5, <2>2
  <2> QED BY <2>1, <2>3
<1>8. PICK e : e = hex_encode(b)
  OBVIOUS
<1>9. /\ e \in Seq(0 .. 15) /\ Len(e) = 2 * m
      /\ \A k \in 1 .. m : e[2 * k - 1] = b[k] \div 16 /\ e[2 * k] = b[k] % 16
  BY <1>7, <1>8, HexOf
<1>10. ASSUME NEW i \in 1 .. l PROVE e[i] = nibble(t[i])
  <2>1. PICK k : k = (i + 1) \div 2
    OBVIOUS
  <2>2. k \in 1 .. m /\ (i = 2 * k - 1 \/ i = 2 * k)
    BY <1>1, <1>5, <2>1
  <2> QED BY <1>6, <1>9, <2>2
<1>11. e = [i \in 1 .. l |-> e[i]]
  BY <1>5, <1>9, LenProperties
<1>12. e = Lower(t)
  BY <1>1, <1>10, <1>11 DEF Lower
<1> QED BY <1>4, <1>7, <1>8, <1>12

\* A printed share that is accepted says which bytes, by its checksum too.
LEMMA Accepted ==
    ASSUME NEW q, q.data \in Seq(0 .. 64), parse_share(q) # <<>>
    PROVE  \E b \in Seq(0 .. 255) :
              /\ b64_decode(q.data) = <<b>>
              /\ hex_decode(q.sum)[1] = <<q.index>> \o b
              /\ parse_share(q) = <<[index |-> q.index, data |-> b]>>
<1>1. b64_decode(q.data) # <<>>
  BY DEF parse_share
<1>2. PICK b \in Seq(0 .. 255) : b64_decode(q.data) = <<b>>
  BY <1>1, B64SpelledOnce
<1>3. b64_decode(q.data)[1] = b
  BY <1>2
<1>4. hex_decode(q.sum)[1] = <<q.index>> \o b /\ parse_share(q) = <<[index |-> q.index, data |-> b]>>
  BY <1>3 DEF parse_share, checksum
<1> QED BY <1>2, <1>4

LEMMA IndexFirst ==
    ASSUME NEW i, NEW j, NEW b \in Seq(0 .. 255), NEW d \in Seq(0 .. 255),
           <<i>> \o b = <<j>> \o d
    PROVE  i = j /\ b = d
<1>1. PICK X : X = 0 .. 255 \cup {i, j}
  OBVIOUS
<1>2. b \in Seq(X) /\ d \in Seq(X) /\ <<i>> \in Seq(X) /\ <<j>> \in Seq(X)
  <2>1. 0 .. 255 \subseteq X /\ i \in X /\ j \in X
    BY <1>1
  <2>2. b \in Seq(X) /\ d \in Seq(X)
    BY <2>1, SeqMonotonic
  <2> QED BY <2>1, <2>2
<1>3. PICK u, v : u = <<i>> /\ v = <<j>>
  OBVIOUS
<1>4. u \in Seq(X) /\ v \in Seq(X) /\ Len(u) = Len(v) /\ u \o b = v \o d
  BY <1>2, <1>3
<1>5. u = v /\ b = d
  BY <1>2, <1>4, ConcatApart
<1>6. u[1] = i /\ v[1] = j
  BY <1>3
<1> QED BY <1>5, <1>6

LEMMA FrontStays ==
    ASSUME NEW X, NEW s \in Seq(X)
    PROVE  Front(s) \in Seq(X)
<1>1. PICK n : n = Len(s) - 1 /\ n \in Int
  BY LenProperties
<1>2. \A i \in 1 .. n : s[i] \in X
  <2>1. TAKE i \in 1 .. n
  <2>2. i \in 1 .. Len(s)
    BY <1>1, LenProperties
  <2> QED BY <2>2, ElementOfSeq
<1>3. SubSeq(s, 1, n) \in Seq(X)
  BY <1>1, <1>2, SubSeqProperties
<1> QED BY <1>1, <1>3 DEF Front

\* A printed share is read back, and miscopied in one place refused or read back.
LEMMA ShareSpelledOnce ==
    ASSUME NEW d \in Seq(0 .. 255), d # <<>>, NEW share, share = [index |-> 1, data |-> d],
           NEW p, p = print_share(share)
    PROVE  /\ parse_share(p) = <<share>>
           /\ \A q \in Miscopied(p) : parse_share(q) \in {<<>>, <<share>>}
<1>1. PICK e, f, h : e = b64_encode(d) /\ f = <<1>> \o d /\ h = hex_encode(f)
  OBVIOUS
<1>2. p = [prefix |-> "lss1", index |-> 1, data |-> e, sum |-> h]
  BY <1>1 DEF print_share, checksum
<1>3. f \in Seq(0 .. 255)
  <2>1. <<1>> \in Seq(0 .. 255)
    OBVIOUS
  <2> QED BY <1>1, <2>1, ConcatProperties
<1>4. e \in Seq(0 .. 63) /\ b64_decode(e) = <<d>>
  BY <1>1, B64ReadBack
<1>5. hex_decode(h) = <<f>>
  BY <1>1, <1>3, HexReadBack
<1>6. e \in Seq(0 .. 64)
  <2>1. PICK X, Y : X = 0 .. 63 /\ Y = 0 .. 64
    OBVIOUS
  <2>2. X \subseteq Y /\ e \in Seq(X)
    BY <1>4, <2>1
  <2>3. e \in Seq(Y)
    BY <2>2, SeqMonotonic
  <2> QED BY <2>1, <2>3
<1>7. parse_share(p) = <<share>>
  <2>1. p.prefix = "lss1" /\ p.index = 1 /\ p.data = e /\ p.sum = h
    BY <1>2
  <2>2. b64_decode(p.data) = <<d>> /\ b64_decode(p.data)[1] = d
        /\ hex_decode(p.sum) = <<f>> /\ hex_decode(p.sum)[1] = f
    BY <1>4, <1>5, <2>1
  <2>3. <<d>> # <<>> /\ <<d>> # <<<<>>>> /\ <<f>> # <<>> /\ 1 \notin {0, NotU8}
    BY DEF NotU8
  <2>4. f = checksum(1, d)
    BY <1>1 DEF checksum
  <2>5. Len(f) = ChecksumLen(d)
    <3>1. PICK X, one : X = 0 .. 255 /\ one = <<1>>
      OBVIOUS
    <3>2. one \in Seq(X) /\ d \in Seq(X) /\ Len(one) = 1 /\ f = one \o d
      BY <1>1, <3>1
    <3>3. Len(f) = Len(one) + Len(d)
      BY <3>2, ConcatProperties
    <3> QED BY <3>2, <3>3 DEF ChecksumLen
  <2> QED BY <2>1, <2>2, <2>3, <2>4, <2>5 DEF parse_share
<1>8. ASSUME NEW q, q.prefix # "lss1" PROVE parse_share(q) = <<>>
  BY <1>8 DEF parse_share
<1>9. ASSUME NEW q, q.data = e, q.sum = h, q.index # 1 PROVE parse_share(q) = <<>>
  <2> SUFFICES ASSUME parse_share(q) # <<>> PROVE FALSE
    OBVIOUS
  <2>1. PICK b \in Seq(0 .. 255) : hex_decode(q.sum)[1] = <<q.index>> \o b
    BY <1>6, <1>9, Accepted
  <2>2. <<1>> \o d = <<q.index>> \o b
    BY <1>1, <1>5, <1>9, <2>1
  <2> QED BY <1>9, <2>2, IndexFirst
<1>10. ASSUME NEW q, q.data \in Seq(0 .. 64), q.sum = h, q.index = 1
       PROVE  parse_share(q) \in {<<>>, <<share>>}
  <2> SUFFICES ASSUME parse_share(q) # <<>> PROVE parse_share(q) = <<share>>
    OBVIOUS
  <2>1. PICK b \in Seq(0 .. 255) : /\ hex_decode(q.sum)[1] = <<q.index>> \o b
                                   /\ parse_share(q) = <<[index |-> q.index, data |-> b]>>
    BY <1>10, Accepted
  <2>2. <<1>> \o d = <<1>> \o b
    BY <1>1, <1>5, <1>10, <2>1
  <2>3. b = d
    BY <2>2, IndexFirst
  <2> QED BY <1>10, <2>1, <2>3
<1>11. ASSUME NEW q, q.data = e, q.index = 1
       PROVE  parse_share(q) \in {<<>>, <<share>>}
  <2> SUFFICES ASSUME parse_share(q) # <<>> PROVE parse_share(q) = <<share>>
    OBVIOUS
  <2>1. PICK b \in Seq(0 .. 255) : /\ b64_decode(q.data) = <<b>>
                                   /\ parse_share(q) = <<[index |-> q.index, data |-> b]>>
    BY <1>6, <1>11, Accepted
  <2>2. b = d
    BY <1>4, <1>11, <2>1
  <2> QED BY <1>11, <2>1, <2>2
<1>12. ASSUME NEW q \in Miscopied(p) PROVE parse_share(q) \in {<<>>, <<share>>}
  <2>1. CASE q = [p EXCEPT !.prefix = "lss2"]
    BY <1>2, <1>8, <2>1
  <2>2. CASE \E i \in {0, 2, 255, NotU8} : q = [p EXCEPT !.index = i]
    <3>1. q.data = e /\ q.sum = h /\ q.index # 1
      BY <1>2, <2>2 DEF NotU8
    <3> QED BY <1>9, <3>1
  <2>3. CASE \E i \in DOMAIN p.data, c \in {0, 1, 16, 63, 64} :
                q = [p EXCEPT !.data = ReplaceAt(@, i, c)]
    <3>1. PICK i \in DOMAIN e, c \in {0, 1, 16, 63, 64} : q = [p EXCEPT !.data = ReplaceAt(@, i, c)]
      BY <1>2, <2>3
    <3>2. q.data = [e EXCEPT ![i] = c] /\ q.sum = h /\ q.index = 1
      BY <1>2, <3>1 DEF ReplaceAt
    <3>3. [e EXCEPT ![i] = c] \in Seq(0 .. 64)
      <4>1. i \in 1 .. Len(e) /\ c \in 0 .. 64
        BY <1>6, LenProperties
      <4> QED BY <1>6, <4>1, ExceptSeq
    <3>4. q.data \in Seq(0 .. 64)
      BY <3>2, <3>3, Zenon
    <3> QED BY <1>10, <3>2, <3>4, Zenon
  <2>4. CASE q = [p EXCEPT !.data = Front(@)]
    <3>1. q.data = Front(e) /\ q.sum = h /\ q.index = 1
      BY <1>2, <2>4
    <3>2. Front(e) \in Seq(0 .. 64)
      BY <1>6, FrontStays
    <3> QED BY <1>10, <3>1, <3>2
  <2>5. CASE \E i \in DOMAIN p.sum, c \in {1, 15, 31, 32} :
                q = [p EXCEPT !.sum = ReplaceAt(@, i, c)]
    <3>1. q.data = e /\ q.index = 1
      BY <1>2, <2>5
    <3> QED BY <1>11, <3>1
  <2>6. CASE q = [p EXCEPT !.sum = Front(@)]
    <3>1. q.data = e /\ q.index = 1
      BY <1>2, <2>6
    <3> QED BY <1>11, <3>1
  <2>7. \/ q = [p EXCEPT !.prefix = "lss2"]
        \/ \E i \in {0, 2, 255, NotU8} : q = [p EXCEPT !.index = i]
        \/ \E i \in DOMAIN p.data, c \in {0, 1, 16, 63, 64} : q = [p EXCEPT !.data = ReplaceAt(@, i, c)]
        \/ q = [p EXCEPT !.data = Front(@)]
        \/ \E i \in DOMAIN p.sum, c \in {1, 15, 31, 32} : q = [p EXCEPT !.sum = ReplaceAt(@, i, c)]
        \/ q = [p EXCEPT !.sum = Front(@)]
    BY SMT DEF Miscopied
  <2> QED BY <2>1, <2>2, <2>3, <2>4, <2>5, <2>6, <2>7
<1> QED BY <1>7, <1>12

\* For texts and shares of any length: a text is accepted as base64 or hexadecimal only for
\* the bytes it is written for, and a share that was printed and miscopied in one place
\* never becomes a different share.
THEOREM AlwaysSpelledOnce == Spec => []SpelledOnce
<1>1. TextIsPieces => SpelledOnce
  <2> SUFFICES ASSUME TextIsPieces PROVE SpelledOnce
    OBVIOUS
  <2>1. ASSUME codec = "b64", b64_decode(text) # <<>>
        PROVE  b64_encode(b64_decode(text)[1]) = text
    <3>1. text \in Seq(0 .. 64)
      <4>1. PICK X : X = 0 .. 64
        OBVIOUS
      <4>2. text \in Seq(Alphabet.b64) /\ Alphabet.b64 \subseteq X
        BY <2>1, <4>1, FormatsAssumption DEF TextIsPieces, Growing, Alien
      <4>3. text \in Seq(X)
        BY <4>2, SeqMonotonic
      <4> QED BY <4>1, <4>3
    <3>2. PICK b : b64_decode(text) = <<b>> /\ b64_encode(b) = text
      BY <2>1, <3>1, B64SpelledOnce
    <3> QED BY <3>2
  <2>2. ASSUME codec = "hex", hex_decode(text) # <<>>
        PROVE  hex_encode(hex_decode(text)[1]) = Lower(text)
    <3>1. text \in Seq(HexDigits \cup {NotHex})
      <4>1. PICK X : X = HexDigits \cup {NotHex}
        BY Zenon
      <4>2. text \in Seq(Alphabet.hex) /\ Alphabet.hex \subseteq X
        BY <2>2, <4>1, FormatsAssumption DEF TextIsPieces, Growing
      <4>3. text \in Seq(X)
        BY <4>2, SeqMonotonic
      <4> QED BY <4>1, <4>3
    <3>2. PICK b : hex_decode(text) = <<b>> /\ hex_encode(b) = Lower(text)
      BY <2>2, <3>1, HexSpelledOnce
    <3> QED BY <3>2
  <2>3. ASSUME codec = "share", text # <<>>, NEW share, share = [index |-> 1, data |-> text]
        PROVE  /\ parse_share(print_share(share)) = <<share>>
               /\ \A p \in Miscopied(print_share(share)) : parse_share(p) \in {<<>>, <<share>>}
    <3>1. text \in Seq(0 .. 255)
      <4>1. PICK X : X = 0 .. 255
        OBVIOUS
      <4>2. text \in Seq(Alphabet.share) /\ Alphabet.share \subseteq X
        BY <2>3, <4>1, FormatsAssumption DEF TextIsPieces, Growing
      <4>3. text \in Seq(X)
        BY <4>2, SeqMonotonic
      <4> QED BY <4>1, <4>3
    <3> QED BY <2>3, <3>1, ShareSpelledOnce
  <2> QED BY <2>1, <2>2, <2>3 DEF SpelledOnce
<1> QED BY <1>1, TextStaysPieces, PTL

-----------------------------------------------------------------------------
(* Names in a request target *)

LEMMA BeforeNone ==
    ASSUME NEW X, NEW s \in Seq(X), NEW c, \A i \in DOMAIN s : s[i] # c
    PROVE  Before(s, c) = s
<1>1. PICK n : n = Len(s) /\ n \in Nat
  BY LenProperties
<1>2. {i \in DOMAIN s : s[i] = c} \cup {n + 1} = {n + 1}
  OBVIOUS
<1>3. Min({n + 1}) = n + 1
  <2>1. \A x \in {n + 1} : x = n + 1
    OBVIOUS
  <2>2. n + 1 \in {n + 1} /\ \A y \in {n + 1} : n + 1 <= y
    BY <1>1
  <2> QED BY <2>1, <2>2 DEF Min
<1>4. (n + 1) - 1 = n
  BY <1>1
<1>5. Before(s, c) = SubSeq(s, 1, n)
  BY <1>1, <1>2, <1>3, <1>4 DEF Before
<1>6. SubSeq(s, 1, n) = s
  BY <1>1
<1> QED BY <1>5, <1>6

\* One step of percent_decode, from the rest of the text.
DecodeStep(out, input, i) ==
    IF i > Len(input) THEN <<<<>>>>
    ELSE IF input[i] # "%"
      THEN IF out[i + 1] = <<>> THEN <<>> ELSE <<<<input[i]>> \o out[i + 1][1]>>
    ELSE IF i + 2 > Len(input) \/ ~({input[i + 1], input[i + 2]} \subseteq HexChars)
      THEN <<>>
    ELSE IF out[i + 3] = <<>> THEN <<>>
    ELSE <<<<Unescaped(<<input[i + 1], input[i + 2]>>)>> \o out[i + 3][1]>>

LEMMA DecodeNone ==
    ASSUME NEW X, NEW s \in Seq(X), \A i \in DOMAIN s : s[i] # "%"
    PROVE  percent_decode(s) = <<s>>
<1>1. PICK n : n = Len(s) /\ n \in Nat /\ DOMAIN s = 1 .. n
  BY LenProperties
<1> DEFINE f == CHOOSE out : out = [i \in 1 .. Len(s) + 1 |-> DecodeStep(out, s, i)]
<1>2. percent_decode(s) = f[1]
  BY Zenon DEF percent_decode, DecodeStep
<1> DEFINE g == [i \in 1 .. n + 1 |-> <<SubSeq(s, i, n)>>]
<1>3. ASSUME NEW out, NEW i \in 1 .. n, out[i + 1] = <<SubSeq(s, i + 1, n)>>
      PROVE  DecodeStep(out, s, i) = <<SubSeq(s, i, n)>>
  <2>1. ~(i > Len(s)) /\ s[i] # "%" /\ i \in 1 .. Len(s)
    BY <1>1
  <2>2. out[i + 1] # <<>> /\ out[i + 1][1] = SubSeq(s, i + 1, n)
    <3>1. PICK w : w = SubSeq(s, i + 1, n)
      OBVIOUS
    <3>2. <<w>> # <<>> /\ <<w>>[1] = w
      OBVIOUS
    <3> QED BY <1>3, <3>1, <3>2, Zenon
  <2>3. DecodeStep(out, s, i) = <<<<s[i]>> \o SubSeq(s, i + 1, n)>>
    BY <2>1, <2>2 DEF DecodeStep
  <2>4. <<s[i]>> \o SubSeq(s, i + 1, n) = SubSeq(s, i, n)
    <3>1. i \in 1 .. Len(s) /\ n \in i .. Len(s)
      BY <1>1
    <3> QED BY <3>1, SubSeqRecursiveFirst
  <2> QED BY <2>3, <2>4
<1>4. SubSeq(s, n + 1, n) = <<>>
  BY <1>1, SubSeqEmpty
<1>5. \A out : DecodeStep(out, s, n + 1) = <<SubSeq(s, n + 1, n)>>
  <2>1. n + 1 > Len(s)
    BY <1>1
  <2>2. TAKE out
  <2>3. DecodeStep(out, s, n + 1) = <<<<>>>>
    BY <2>1, Zenon DEF DecodeStep
  <2> QED BY <1>4, <2>3, Zenon
<1>6. g = [i \in 1 .. Len(s) + 1 |-> DecodeStep(g, s, i)]
  <2>1. ASSUME NEW i \in 1 .. n + 1 PROVE g[i] = DecodeStep(g, s, i)
    <3>1. CASE i = n + 1
      BY <1>5, <3>1
    <3>2. CASE i # n + 1
      <4>1. i \in 1 .. n /\ i + 1 \in 1 .. n + 1
        BY <1>1, <3>2
      <4>2. g[i + 1] = <<SubSeq(s, i + 1, n)>>
        BY <4>1
      <4> HIDE DEF g
      <4>3. DecodeStep(g, s, i) = <<SubSeq(s, i, n)>>
        BY <1>3, <4>1, <4>2
      <4> QED BY <4>3 DEF g
    <3> QED BY <3>1, <3>2
  <2> QED BY <1>1, <2>1
<1> HIDE DEF g
<1>7. f = [i \in 1 .. n + 1 |-> DecodeStep(f, s, i)]
  <2>1. \E out : out = [i \in 1 .. Len(s) + 1 |-> DecodeStep(out, s, i)]
    BY <1>6
  <2>2. f = [i \in 1 .. Len(s) + 1 |-> DecodeStep(f, s, i)]
    BY <2>1, Zenon
  <2> QED BY <1>1, <2>2
<1> HIDE DEF f
<1> DEFINE S == {k \in Nat : f[n + 1 - k] = <<SubSeq(s, n + 1 - k, n)>>}
<1>8. 0 \in S
  <2>1. n + 1 - 0 = n + 1 /\ n + 1 \in 1 .. n + 1
    BY <1>1
  <2>2. f[n + 1] = <<SubSeq(s, n + 1, n)>>
    BY <1>5, <1>7, <2>1
  <2> QED BY <2>1, <2>2
<1>9. ASSUME NEW k \in 0 .. n - 1, k \in S PROVE k + 1 \in S
  <2>1. PICK i : i = n + 1 - (k + 1)
    OBVIOUS
  <2>2. i \in 1 .. n /\ i \in 1 .. n + 1 /\ i + 1 = n + 1 - k /\ k + 1 \in Nat
    BY <1>1, <2>1
  <2>3. f[i + 1] = <<SubSeq(s, i + 1, n)>>
    BY <1>9, <2>2
  <2>4. f[i] = <<SubSeq(s, i, n)>>
    BY <1>3, <1>7, <2>2, <2>3
  <2> QED BY <2>1, <2>2, <2>4
<1> HIDE DEF S
<1>10. n \in S
  <2>1. \A k \in 0 .. n : k \in S
    BY <1>1, <1>8, <1>9, UpTo
  <2> QED BY <1>1, <2>1
<1>11. f[1] = <<SubSeq(s, 1, n)>>
  <2>1. n + 1 - n = 1
    BY <1>1
  <2> QED BY <1>10, <2>1 DEF S
<1>12. SubSeq(s, 1, n) = s
  BY <1>1
<1> QED BY <1>2, <1>11, <1>12

\* One step of segments, from what was read before.
Closed(read) == IF read.last = <<>> THEN read.parts ELSE Append(read.parts, read.last)
SegmentStep(before, c) ==
    IF c = "/" THEN [parts |-> Closed(before), last |-> <<>>]
    ELSE [before EXCEPT !.last = Append(@, c)]
Segments(seen, path) ==
    [i \in 0 .. Len(path) |-> IF i = 0 THEN [parts |-> <<>>, last |-> <<>>]
                              ELSE SegmentStep(seen[i - 1], path[i])]

LEMMA SegmentsAre ==
    ASSUME NEW path, NEW g, g = Segments(g, path), Len(path) \in Nat
    PROVE  segments(path) = Closed(g[Len(path)])
<1> DEFINE f == CHOOSE seen : seen = Segments(seen, path)
<1>1. segments(path) = Closed(f[Len(path)])
  BY Zenon DEF segments, Segments, SegmentStep, Closed
<1>2. f = Segments(f, path)
  BY Zenon
<1> HIDE DEF f
<1> DEFINE S == {k \in Nat : f[k] = g[k]}
<1>3. 0 \in S
  <2>1. 0 \in 0 .. Len(path)
    OBVIOUS
  <2>2. f[0] = [parts |-> <<>>, last |-> <<>>] /\ g[0] = [parts |-> <<>>, last |-> <<>>]
    BY <1>2, <2>1 DEF Segments
  <2> QED BY <2>2
<1>4. ASSUME NEW k \in 0 .. Len(path) - 1, k \in S PROVE k + 1 \in S
  <2>1. PICK b : b = k + 1
    OBVIOUS
  <2>2. b \in 0 .. Len(path) /\ b # 0 /\ b - 1 = k /\ b \in Nat
    BY <2>1
  <2>3. f[b] = SegmentStep(f[b - 1], path[b])
    BY <1>2, <2>2 DEF Segments
  <2>4. g[b] = SegmentStep(g[b - 1], path[b])
    BY <2>2 DEF Segments
  <2> QED BY <1>4, <2>1, <2>2, <2>3, <2>4
<1> HIDE DEF S
<1>5. \A k \in 0 .. Len(path) : k \in S
  BY <1>3, <1>4, UpTo
<1>6. f[Len(path)] = g[Len(path)]
  BY <1>5 DEF S
<1> QED BY <1>1, <1>6

\* A path of a word and a name without slashes has the two as its segments.
LEMMA SegmentsOfName ==
    ASSUME NEW X, NEW name \in Seq(X), name # <<>>, \A i \in DOMAIN name : name[i] # "/",
           NEW path, path = Target(name)
    PROVE  segments(path) = <<<<"a">>, name>>
<1>1. PICK n : n = Len(name) /\ n \in Nat /\ n >= 1 /\ DOMAIN name = 1 .. n
  BY LenProperties, EmptySeq
<1>2. /\ Len(path) = n + 3 /\ path[1] = "/" /\ path[2] = "a" /\ path[3] = "/"
      /\ \A j \in 1 .. n : path[j + 3] = name[j]
  <2>1. PICK Y : Y = X \cup {"/", "a"}
    OBVIOUS
  <2>2. PICK u : u = <<"/", "a", "/">>
    OBVIOUS
  <2>3. u \in Seq(Y) /\ Len(u) = 3 /\ u[1] = "/" /\ u[2] = "a" /\ u[3] = "/"
    BY <2>1, <2>2
  <2>4. X \subseteq Y
    BY <2>1
  <2>5. name \in Seq(Y)
    BY <2>4, SeqMonotonic
  <2>6. path = u \o name
    BY <2>2 DEF Target
  <2>7. Follows(path, u, name)
    BY <2>3, <2>5, <2>6, Follow
  <2>8. /\ Len(path) = 3 + n /\ \A i \in 1 .. 3 : path[i] = u[i]
        /\ \A j \in 1 .. n : path[3 + j] = name[j]
    BY <1>1, <2>3, <2>7 DEF Follows
  <2>9. 3 + n = n + 3 /\ \A j \in 1 .. n : 3 + j = j + 3
    BY <1>1
  <2>10. path[1] = u[1] /\ path[2] = u[2] /\ path[3] = u[3]
    BY <2>8
  <2> QED BY <2>3, <2>8, <2>9, <2>10
<1> DEFINE nothing == [parts |-> <<>>, last |-> <<>>]
           word == [parts |-> <<>>, last |-> <<"a">>]
           reading(k) == [parts |-> <<<<"a">>>>, last |-> SubSeq(name, 1, k)]
           g == [i \in 0 .. n + 3 |-> IF i <= 1 THEN nothing ELSE IF i = 2 THEN word ELSE reading(i - 3)]
<1>3. SubSeq(name, 1, 0) = <<>> /\ SubSeq(name, 1, n) = name
  BY <1>1, SubSeqEmpty
<1>4. SegmentStep(nothing, "/") = nothing
  BY DEF SegmentStep, Closed
<1>5. SegmentStep(nothing, "a") = word
  BY DEF SegmentStep, Closed
<1>6. SegmentStep(word, "/") = reading(0)
  BY <1>3 DEF SegmentStep, Closed
<1>7. ASSUME NEW j \in 1 .. n PROVE SegmentStep(reading(j - 1), name[j]) = reading(j)
  <2>1. name[j] # "/" /\ j \in 1 .. Len(name)
    BY <1>1
  <2>2. Append(SubSeq(name, 1, j - 1), name[j]) = SubSeq(name, 1, j)
    <3>1. 1 \in 1 .. Len(name) + 1 /\ j \in 1 .. Len(name)
      BY <1>1
    <3> QED BY <1>1, <2>1, SubSeqRecursiveSecond
  <2> QED BY <2>1, <2>2 DEF SegmentStep
<1>8. Closed(reading(n)) = <<<<"a">>, name>>
  <2>1. reading(n).last = name /\ reading(n).parts = <<<<"a">>>>
    BY <1>3
  <2>2. Append(<<<<"a">>>>, name) = <<<<"a">>, name>>
    <3>1. PICK x, u, v, Y : x = <<"a">> /\ Y = {x, name} /\ u = Append(<<x>>, name) /\ v = <<x, name>>
      OBVIOUS
    <3>2. <<x>> \in Seq(Y) /\ Len(<<x>>) = 1 /\ <<x>>[1] = x /\ name \in Y
      BY <3>1
    <3>3. u \in Seq(Y) /\ Len(u) = 2 /\ u[1] = x /\ u[2] = name
      BY <3>1, <3>2, AppendProperties
    <3>4. v \in Seq(Y) /\ Len(v) = 2 /\ v[1] = x /\ v[2] = name
      BY <3>1
    <3>5. \A i \in 1 .. Len(u) : u[i] = v[i]
      BY <3>3, <3>4
    <3>6. u = v
      BY <3>3, <3>4, <3>5, SeqEqual
    <3> QED BY <3>1, <3>6
  <2> QED BY <2>1, <2>2 DEF Closed
<1>9. /\ g[0] = nothing /\ g[1] = nothing /\ g[2] = word
      /\ \A i \in 3 .. n + 3 : g[i] = reading(i - 3)
  BY <1>1
<1>10. g = [i \in 0 .. n + 3 |-> g[i]]
  OBVIOUS
<1> HIDE DEF nothing, word, reading, g
<1>11. ASSUME NEW i \in 0 .. n + 3
       PROVE  g[i] = IF i = 0 THEN [parts |-> <<>>, last |-> <<>>] ELSE SegmentStep(g[i - 1], path[i])
  <2>1. CASE i = 0
    BY <1>9, <2>1 DEF nothing
  <2>2. CASE i = 1
    BY <1>2, <1>4, <1>9, <2>2
  <2>3. CASE i = 2
    BY <1>2, <1>5, <1>9, <2>3
  <2>4. CASE i = 3
    BY <1>1, <1>2, <1>6, <1>9, <2>4
  <2>5. CASE i >= 4
    <3>1. PICK j : j = i - 3 /\ j \in 1 .. n /\ j + 3 = i
      BY <1>1, <2>5
    <3>2. i \in 3 .. n + 3 /\ i - 1 \in 3 .. n + 3 /\ (i - 1) - 3 = j - 1 /\ i # 0
      BY <1>1, <2>5, <3>1
    <3>3. g[i] = reading(j) /\ g[i - 1] = reading(j - 1) /\ path[i] = name[j]
      BY <1>2, <1>9, <3>1, <3>2
    <3> QED BY <1>7, <3>1, <3>2, <3>3
  <2> QED BY <1>1, <2>1, <2>2, <2>3, <2>4, <2>5
<1>12. g = Segments(g, path)
  BY <1>2, <1>10, <1>11 DEF Segments
<1>13. segments(path) = Closed(g[n + 3])
  BY <1>1, <1>2, <1>12, SegmentsAre
<1>14. g[n + 3] = reading(n)
  BY <1>1, <1>9
<1> QED BY <1>8, <1>13, <1>14

LEMMA SafeChars ==
    ASSUME NEW c, c \in LowerCase \cup UpperCase \cup Numerals \cup {"_", ".", "-"}
    PROVE  c # "/" /\ c # "%" /\ c # "?"
<1>1. c \in LowerCase \cup UpperCase => c # "/" /\ c # "%" /\ c # "?"
  BY DEF LowerCase, UpperCase
<1>2. c \in Numerals => c # "/" /\ c # "%" /\ c # "?"
  BY DEF Numerals
<1>3. c \in {"_", ".", "-"} => c # "/" /\ c # "%" /\ c # "?"
  OBVIOUS
<1> QED BY <1>1, <1>2, <1>3, Zenon

LEMMA SafeNames ==
    ASSUME NEW s, slug(s) \/ secret_key(s)
    PROVE  s # <<>> /\ \A i \in DOMAIN s : s[i] # "/" /\ s[i] # "%" /\ s[i] # "?"
<1>1. s # <<>> /\ ToSet(s) \subseteq LowerCase \cup UpperCase \cup Numerals \cup {"_", ".", "-"}
  BY Zenon DEF slug, secret_key
<1>2. \A i \in DOMAIN s : s[i] \in ToSet(s)
  BY DEF ToSet
<1> QED BY <1>1, <1>2, SafeChars, Zenon

\* A name of any length that validate.rs accepts travels in the path of a request as it
\* stands: the server's segments end in that name.
THEOREM AlwaysNamesNeedNoEscape == Spec => []NamesNeedNoEscape
<1>1. TextIsPieces => NamesNeedNoEscape
  <2> SUFFICES ASSUME TextIsPieces, codec = "name", slug(text) \/ secret_key(text)
               PROVE  path_segments(Target(text)) = <<<<<<"a">>, text>>>>
    BY DEF NamesNeedNoEscape
  <2>1. PICK s, X : s = text /\ X = Alphabet.name \cup {"/", "a"} /\ s \in Seq(X)
    <3>1. text \in Seq(Alphabet.name)
      BY DEF TextIsPieces, Growing
    <3>2. PICK X : X = Alphabet.name \cup {"/", "a"}
      OBVIOUS
    <3>3. Alphabet.name \subseteq X
      BY <3>2
    <3>4. text \in Seq(X)
      BY <3>1, <3>3, SeqMonotonic
    <3> QED BY <3>2, <3>4
  <2>2. s # <<>> /\ \A i \in DOMAIN s : s[i] # "/" /\ s[i] # "%" /\ s[i] # "?"
    BY <2>1, SafeNames
  <2>3. PICK path : path = Target(s)
    OBVIOUS
  <2>4. path \in Seq(X) /\ \A i \in DOMAIN path : path[i] # "%" /\ path[i] # "?"
    <3>1. PICK u : u = <<"/", "a", "/">>
      OBVIOUS
    <3>2. u \in Seq(X) /\ Len(u) = 3 /\ \A i \in 1 .. 3 : u[i] # "%" /\ u[i] # "?"
      BY <2>1, <3>1
    <3>3. path = u \o s
      BY <2>3, <3>1 DEF Target
    <3>4. path \in Seq(X) /\ Follows(path, u, s)
      BY <2>1, <3>2, <3>3, Follow
    <3>5. ASSUME NEW i \in DOMAIN path PROVE path[i] # "%" /\ path[i] # "?"
      <4>1. i \in 1 .. Len(path) /\ DOMAIN s = 1 .. Len(s) /\ Len(s) \in Nat
        BY <2>1, <3>4, LenProperties
      <4>2. CASE i <= 3
        <5>1. i \in 1 .. Len(u) /\ i \in 1 .. 3
          BY <3>2, <4>1, <4>2
        <5>2. path[i] = u[i]
          BY <3>4, <5>1 DEF Follows
        <5> QED BY <3>2, <5>1, <5>2
      <4>3. CASE i > 3
        <5>1. PICK j : j = i - 3
          OBVIOUS
        <5>2. Len(path) = Len(u) + Len(s)
          BY <3>4 DEF Follows
        <5>3. j \in 1 .. Len(s) /\ i = Len(u) + j
          BY <3>2, <4>1, <4>3, <5>1, <5>2
        <5>4. path[i] = s[j]
          BY <3>4, <5>3 DEF Follows
        <5> QED BY <2>2, <4>1, <5>3, <5>4
      <4> QED BY <4>1, <4>2, <4>3
    <3> QED BY <3>4, <3>5
  <2>5. Before(path, "?") = path
    BY <2>4, BeforeNone
  <2>6. percent_decode(path) = <<path>>
    BY <2>4, DecodeNone
  <2>7. segments(path) = <<<<"a">>, s>>
    BY <2>1, <2>2, <2>3, SegmentsOfName
  <2>8. path_segments(path) = <<segments(path)>>
    <3>1. <<path>> # <<>> /\ <<path>>[1] = path
      OBVIOUS
    <3> QED BY <2>5, <2>6, <3>1 DEF path_segments
  <2> QED BY <2>1, <2>3, <2>7, <2>8
<1> QED BY <1>1, TextStaysPieces, PTL

-----------------------------------------------------------------------------
(* Records *)

\* What is in a field that is read in this way: a time is one that some clock was stamped
\* with, a text is anything.
Stamped(m) ==
    \E day \in Int, second \in Nat :
        second < DaySeconds /\ m = from_unix([day |-> day, second |-> second])
Blob == Seq(0 .. 255)
Fits(how, x) ==
    /\ how = "kind" => x \in {"root", "session", "machine"}
    /\ how = "time" => Stamped(x)
    /\ how = "bytes" => x \in Blob
    /\ how = "format" => x = BarrierFormat
    /\ how = "small" => x \in 0 .. 255
    /\ how = "maybe text" => x = <<>> \/ \E y : x = <<y>>
    /\ how = "maybe time" => x = <<>> \/ \E m : Stamped(m) /\ x = <<m>>
    /\ how = "sealed" => \E b \in Blob, c \in Blob : x = [nonce |-> b, ciphertext |-> c]

\* How a field of this name is written and read.
Row(name, written, read) ==
    \/ written = "text" /\ read = "kind" /\ name = "kind"
    \/ written = "text" /\ read = "text" /\ name # "kind"
    \/ written = "number" /\ read = "format" /\ name = "v"
    \/ written = "number" /\ read = "small" /\ name \notin {"kind", "v"}
    \/ /\ written = read /\ name # "kind"
       /\ read \in {"time", "bytes", "maybe text", "maybe time", "sealed"}

LEMMA Tables ==
    ASSUME NEW type \in Types
    PROVE  /\ DOMAIN Expected[type] = DOMAIN Written[type]
           /\ "type" \notin DOMAIN Written[type]
           /\ \A n \in DOMAIN Written[type] : Row(n, Written[type][n], Expected[type][n])
<1> DEFINE w == Written[type]
           e == Expected[type]
<1>1. CASE type \notin {"token.issued", "barrier"}
  <2>1. w = e /\ "kind" \notin DOMAIN w /\ "type" \notin DOMAIN w
    BY <1>1 DEF Types, Written, Expected
  <2>2. ASSUME NEW n \in DOMAIN w
        PROVE  w[n] \in {"text", "time", "sealed"}
    <3>1. CASE type = "user.created"
      BY <3>1 DEF Types, Written
    <3>2. CASE type = "token.revoked"
      BY <3>2 DEF Types, Written
    <3>3. CASE type = "project.created"
      BY <3>3 DEF Types, Written
    <3>4. CASE type = "environment.created"
      BY <3>4 DEF Types, Written
    <3>5. CASE type = "secret.set"
      BY <3>5 DEF Types, Written
    <3>6. CASE type = "secret.deleted"
      BY <3>6 DEF Types, Written
    <3>7. CASE type = "audit"
      BY <3>7 DEF Types, Written
    <3> QED BY <1>1, <3>1, <3>2, <3>3, <3>4, <3>5, <3>6, <3>7 DEF Types
  <2>3. ASSUME NEW n \in DOMAIN w
        PROVE  Row(n, w[n], e[n])
    <3> HIDE DEF w, e
    <3> QED BY <2>1, <2>2 DEF Row
  <2> QED BY <2>1, <2>3
<1>2. CASE type = "token.issued"
  <2>1. DOMAIN e = DOMAIN w /\ w["kind"] = "text" /\ e["kind"] = "kind" /\ "type" \notin DOMAIN w
    BY <1>2 DEF Types, Written, Expected
  <2>2. ASSUME NEW n \in DOMAIN w, n # "kind"
        PROVE  w[n] = e[n]
    BY <1>2, <2>2 DEF Types, Written, Expected
  <2>3. ASSUME NEW n \in DOMAIN w, n # "kind"
        PROVE  w[n] \in {"text", "time", "bytes", "maybe text", "maybe time"}
    <3>1. \/ n = "id" \/ n = "token_hash" \/ n = "user_id" \/ n = "project_id"
          \/ n = "environment_id" \/ n = "label" \/ n = "expires_at" \/ n = "created_at"
      BY <1>2, <2>3 DEF Types, Written
    <3>2. /\ w["id"] = "text" /\ w["token_hash"] = "bytes" /\ w["user_id"] = "maybe text"
          /\ w["project_id"] = "maybe text" /\ w["environment_id"] = "maybe text"
          /\ w["label"] = "maybe text" /\ w["expires_at"] = "maybe time" /\ w["created_at"] = "time"
      BY <1>2 DEF Types, Written
    <3> HIDE DEF w
    <3> QED BY <3>1, <3>2
  <2>4. ASSUME NEW n \in DOMAIN w
        PROVE  Row(n, w[n], e[n])
    <3> HIDE DEF w, e
    <3>1. CASE n = "kind"
      BY <2>1, <3>1 DEF Row
    <3>2. CASE n # "kind"
      BY <2>2, <2>3, <3>2 DEF Row
    <3> QED BY <3>1, <3>2
  <2> QED BY <2>1, <2>4
<1>3. CASE type = "barrier"
  <2>1. /\ DOMAIN e = DOMAIN w /\ "type" \notin DOMAIN w
        /\ w["v"] = "number" /\ w["threshold"] = "number" /\ w["shares"] = "number"
        /\ e["v"] = "format" /\ e["threshold"] = "small" /\ e["shares"] = "small"
    BY <1>3 DEF Types, Written, Expected
  <2>2. ASSUME NEW n \in DOMAIN w
        PROVE  /\ n # "kind"
               /\ n \notin {"v", "threshold", "shares"} => w[n] = e[n] /\ w[n] \in {"bytes", "time"}
    BY <1>3 DEF Types, Written, Expected
  <2>3. ASSUME NEW n \in DOMAIN w
        PROVE  Row(n, w[n], e[n])
    <3> HIDE DEF w, e
    <3>1. CASE n \in {"v", "threshold", "shares"}
      <4>1. n = "v" \/ n = "threshold" \/ n = "shares"
        BY <3>1
      <4> QED BY <2>1, <4>1 DEF Row
    <3>2. CASE n \notin {"v", "threshold", "shares"}
      BY <2>2, <3>2 DEF Row
    <3> QED BY <3>1, <3>2
  <2> QED BY <2>1, <2>3
<1> QED BY <1>1, <1>2, <1>3

LEMMA StampsReadBack ==
    ASSUME NEW m, Stamped(m)
    PROVE  parse_rfc3339(to_rfc3339(m)) = <<m>>
<1>1. PICK day \in Int, second \in Nat :
         second < DaySeconds /\ m = from_unix([day |-> day, second |-> second])
  BY DEF Stamped
<1> QED BY <1>1, EveryClockReadsBack, Zenon

\* A field that is as it was written is read as what it was written from.
LEMMA ReadsIntact ==
    ASSUME NEW value, NEW name, NEW written, NEW read, NEW x,
           Row(name, written, read), Fits(read, x),
           get(value, name) = <<Field(written, x)>>
    PROVE  Reader(read, value, name) = <<x>>
<1>1. ASSUME NEW s, Field(written, x) = Text(s)
      PROVE  text_field(value, name) = <<s>>
  BY <1>1 DEF text_field, Text
<1>2. ASSUME NEW n, Field(written, x) = Number(n)
      PROVE  int_field(value, name) = <<n>>
  BY <1>2 DEF int_field, Number
<1>3. CASE read = "text"
  <2>1. Field(written, x) = Text(x)
    BY <1>3 DEF Row, Field
  <2>2. Reader(read, value, name) = text_field(value, name)
    BY <1>3 DEF Reader
  <2> QED BY <2>1, <2>2, <1>1
<1>4. CASE read = "kind"
  <2>1. Field(written, x) = Text(x)
    BY <1>4 DEF Row, Field
  <2>2. Reader(read, value, name) = token_kind(value, name)
    BY <1>4 DEF Reader
  <2>3. x \in {"root", "session", "machine"}
    BY <1>4 DEF Fits
  <2>4. text_field(value, name) = <<x>>
    BY <2>1, <1>1
  <2> QED BY <2>2, <2>3, <2>4 DEF token_kind
<1>5. CASE read = "time"
  <2>1. Field(written, x) = Text(to_rfc3339(x))
    BY <1>5 DEF Row, Field
  <2>2. Reader(read, value, name) = time_field(value, name)
    BY <1>5 DEF Reader
  <2>3. parse_rfc3339(to_rfc3339(x)) = <<x>>
    BY <1>5, StampsReadBack DEF Fits
  <2>4. text_field(value, name) = <<to_rfc3339(x)>>
    BY <2>1, <1>1
  <2> QED BY <2>2, <2>3, <2>4 DEF time_field
<1>6. CASE read = "bytes"
  <2>1. Field(written, x) = Text(hex_encode(x))
    BY <1>6 DEF Row, Field
  <2>2. Reader(read, value, name) = bytes_field(value, name)
    BY <1>6 DEF Reader
  <2>3. hex_decode(hex_encode(x)) = <<x>>
    BY <1>6, HexReadBack DEF Fits, Blob
  <2>4. text_field(value, name) = <<hex_encode(x)>>
    BY <2>1, <1>1
  <2> QED BY <2>2, <2>3, <2>4 DEF bytes_field
<1>7. CASE read = "format"
  <2>1. Field(written, x) = Number(x) /\ x = BarrierFormat
    BY <1>7 DEF Row, Field, Fits
  <2>2. Reader(read, value, name) = known_format(value, name)
    BY <1>7 DEF Reader
  <2> QED BY <2>1, <2>2, <1>2 DEF known_format
<1>8. CASE read = "small"
  <2>1. Field(written, x) = Number(x) /\ x \in 0 .. 255
    BY <1>8 DEF Row, Field, Fits
  <2>2. Reader(read, value, name) = small(value, name)
    BY <1>8 DEF Reader
  <2>3. int_field(value, name) = <<x>>
    BY <2>1, <1>2
  <2> QED BY <2>1, <2>2, <2>3 DEF small
<1>9. CASE read = "maybe text"
  <2>1. Reader(read, value, name) = optional(value, name, text_field(value, name))
    BY <1>9 DEF Reader
  <2>2. CASE x = <<>>
    BY <1>9, <2>1, <2>2 DEF Row, Field, optional
  <2>3. CASE \E y : x = <<y>>
    <3>1. PICK y : x = <<y>>
      BY <2>3
    <3>2. Field(written, x) = Text(y)
      BY <1>9, <3>1 DEF Row, Field
    <3>3. text_field(value, name) = <<y>>
      BY <3>2, <1>1
    <3>4. get(value, name) \notin {<<>>, <<Null>>}
      BY <3>2 DEF Text, Null
    <3> QED BY <2>1, <3>1, <3>3, <3>4 DEF optional
  <2> QED BY <1>9, <2>2, <2>3 DEF Fits
<1>10. CASE read = "maybe time"
  <2>1. Reader(read, value, name) = optional(value, name, time_field(value, name))
    BY <1>10 DEF Reader
  <2>2. CASE x = <<>>
    BY <1>10, <2>1, <2>2 DEF Row, Field, optional
  <2>3. CASE \E m : Stamped(m) /\ x = <<m>>
    <3>1. PICK m : Stamped(m) /\ x = <<m>>
      BY <2>3
    <3>2. Field(written, x) = Text(to_rfc3339(m))
      BY <1>10, <3>1 DEF Row, Field
    <3>3. text_field(value, name) = <<to_rfc3339(m)>>
      BY <3>2, <1>1
    <3>4. time_field(value, name) = <<m>>
      BY <3>1, <3>3, StampsReadBack DEF time_field
    <3>5. get(value, name) \notin {<<>>, <<Null>>}
      BY <3>2 DEF Text, Null
    <3> QED BY <2>1, <3>1, <3>4, <3>5 DEF optional
  <2> QED BY <1>10, <2>2, <2>3 DEF Fits
<1>11. CASE read = "sealed"
  <2>1. PICK b \in Blob, c \in Blob : x = [nonce |-> b, ciphertext |-> c]
    BY <1>11 DEF Fits
  <2>2. PICK p, q : p = hex_encode(b) /\ q = hex_encode(c)
    OBVIOUS
  <2>3. hex_decode(p) = <<b>> /\ hex_decode(q) = <<c>>
    BY <2>2, HexReadBack DEF Blob
  <2>4. PICK o : o = Object([v |-> Number(SealedFormat), nonce |-> Text(p), ciphertext |-> Text(q)])
    OBVIOUS
  <2>5. Field(written, x) = o
    BY <1>11, <2>1, <2>2, <2>4 DEF Row, Field
  <2>6. Reader(read, value, name) = sealed_field(value, name)
    BY <1>11 DEF Reader
  <2>7. int_field(o, "v") = <<SealedFormat>>
    BY <2>4 DEF int_field, get, Object, Number
  <2>8. text_field(o, "nonce") = <<p>> /\ text_field(o, "ciphertext") = <<q>>
    BY <2>4 DEF text_field, get, Object, Text
  <2>9. bytes_field(o, "nonce") = <<b>> /\ bytes_field(o, "ciphertext") = <<c>>
    BY <2>3, <2>8 DEF bytes_field
  <2>10. get(value, name) = <<o>>
    BY <2>5
  <2> QED BY <2>1, <2>6, <2>7, <2>9, <2>10 DEF sealed_field
<1> QED BY <1>3, <1>4, <1>5, <1>6, <1>7, <1>8, <1>9, <1>10, <1>11 DEF Row

\* What may be found where a field should be: nothing, null, a number, or an object.
Wrong == {<<>>, <<Null>>, <<Number(256)>>, <<Object([v |-> Number(2)])>>}
Optional == {"maybe text", "maybe time"}

\* A field that is not as it was written is refused, but an optional one that is gone is none.
LEMMA ReadsSpoilt ==
    ASSUME NEW value, NEW name, NEW written, NEW read,
           Row(name, written, read), get(value, name) \in Wrong
    PROVE  Reader(read, value, name)
             = IF read \in Optional /\ get(value, name) \in {<<>>, <<Null>>} THEN <<<<>>>> ELSE <<>>
<1>1. text_field(value, name) = <<>>
  BY DEF Wrong, text_field, Null, Number, Object
<1>2. time_field(value, name) = <<>> /\ bytes_field(value, name) = <<>>
  BY <1>1 DEF time_field, bytes_field
<1>3. int_field(value, name) = <<>> \/ int_field(value, name) = <<256>>
  BY DEF Wrong, int_field, Null, Number, Object
<1>4. CASE read \in {"text", "kind", "time", "bytes"}
  BY <1>1, <1>2, <1>4 DEF Reader, token_kind, Optional
<1>5. CASE read = "format"
  BY <1>3, <1>5 DEF Reader, known_format, Optional, BarrierFormat
<1>6. CASE read = "small"
  <2>1. small(value, name) = <<>>
    <3>1. PICK g : g = int_field(value, name)
      OBVIOUS
    <3>2. g = <<>> \/ g[1] = 256
      BY <1>3, <3>1
    <3>3. 256 \notin 0 .. 255
      BY SMT
    <3> QED BY <3>1, <3>2, <3>3, Zenon DEF small
  <2> QED BY <1>6, <2>1 DEF Reader, Optional
<1>7. CASE read = "maybe text"
  BY <1>1, <1>7 DEF Reader, Optional, optional
<1>8. CASE read = "maybe time"
  BY <1>2, <1>8 DEF Reader, Optional, optional
<1>9. CASE read = "sealed"
  <2>1. sealed_field(value, name) = <<>>
    <3>1. ASSUME get(value, name) = <<Null>> \/ get(value, name) = <<Number(256)>>
          PROVE  int_field(get(value, name)[1], "v") = <<>>
      BY <3>1 DEF int_field, get, Null, Number
    <3>2. ASSUME get(value, name) = <<Object([v |-> Number(2)])>>
          PROVE  int_field(get(value, name)[1], "v") = <<2>>
      BY <3>2 DEF int_field, get, Object, Number
    <3> QED BY <3>1, <3>2 DEF sealed_field, Wrong, SealedFormat
  <2> QED BY <1>9, <2>1 DEF Reader, Optional
<1> QED BY <1>4, <1>5, <1>6, <1>7, <1>8, <1>9 DEF Row

-----------------------------------------------------------------------------
(* Records with damage *)

\* At most one thing is wrong with a field.
Damage(names) ==
    {damage \in SUBSET [name : names, how : {"gone", "null", "number", "object"}] :
        \A d \in damage, e \in damage : d.name = e.name => d = e}

LEMMA SpoiltFields ==
    ASSUME NEW fields, NEW damage \in Damage(DOMAIN fields), NEW v, v = Spoilt(Object(fields), damage)
    PROVE  /\ \A n \in DOMAIN fields : (\A d \in damage : d.name # n) => get(v, n) = <<fields[n]>>
           /\ \A d \in damage :
                /\ get(v, d.name) \in Wrong
                /\ get(v, d.name) \in {<<>>, <<Null>>} <=> d.how \in {"gone", "null"}
<1>1. PICK value : value = Object(fields) /\ value.fields = fields
  BY DEF Object
<1> DEFINE lost == {d.name : d \in {e \in damage : e.how = "gone"}}
           how(n) == CHOOSE h \in {"null", "number", "object"} : [name |-> n, how |-> h] \in damage
           put(n) == CASE how(n) = "null" -> Null
                       [] how(n) = "number" -> Number(256)
                       [] how(n) = "object" -> Object([v |-> Number(2)])
           left == [n \in DOMAIN value.fields \ lost |->
                       IF \E d \in damage : d.name = n THEN put(n) ELSE value.fields[n]]
<1>0. v = Object(left)
  BY <1>1 DEF Spoilt
<1>2. ASSUME NEW n
      PROVE  get(v, n) = IF n \in DOMAIN left THEN <<left[n]>> ELSE <<>>
  <2> HIDE DEF left
  <2> QED BY <1>0 DEF get, Object
<1>3. ASSUME NEW n \in DOMAIN fields, \A d \in damage : d.name # n
      PROVE  get(v, n) = <<fields[n]>>
  <2>1. n \notin lost
    BY <1>3
  <2>2. n \in DOMAIN left /\ left[n] = fields[n]
    BY <1>1, <1>3, <2>1
  <2> QED BY <1>2, <2>2
<1>4. ASSUME NEW d \in damage
      PROVE  /\ get(v, d.name) \in Wrong
             /\ get(v, d.name) \in {<<>>, <<Null>>} <=> d.how \in {"gone", "null"}
  <2>1. PICK n, h : n = d.name /\ h = d.how /\ d = [name |-> n, how |-> h]
    BY DEF Damage
  <2>2. n \in DOMAIN fields /\ h \in {"gone", "null", "number", "object"}
    BY <2>1 DEF Damage
  <2>3. \A e \in damage : e.name = n => e = d
    BY <2>1 DEF Damage
  <2>4. CASE h = "gone"
    <3>1. n \in lost
      BY <2>1, <2>4
    <3>2. get(v, n) = <<>>
      BY <1>2, <3>1
    <3> QED BY <2>1, <2>4, <3>2 DEF Wrong
  <2>5. CASE h # "gone"
    <3>1. n \notin lost
      BY <2>1, <2>3, <2>5
    <3>2. left[n] = put(n) /\ n \in DOMAIN left
      BY <1>1, <2>1, <2>2, <3>1
    <3>3. how(n) = h
      <4>1. [name |-> n, how |-> h] \in damage /\ h \in {"null", "number", "object"}
        BY <2>1, <2>2, <2>5
      <4>2. \A k \in {"null", "number", "object"} : [name |-> n, how |-> k] \in damage => k = h
        BY <2>1, <2>3
      <4> QED BY <4>1, <4>2
    <3>4. get(v, n) = <<put(n)>>
      BY <1>2, <3>2
    <3> HIDE DEF how
    <3>5. CASE h = "null"
      BY <2>1, <3>3, <3>4, <3>5 DEF Wrong
    <3>6. CASE h = "number"
      BY <2>1, <3>3, <3>4, <3>6 DEF Wrong, Null, Number
    <3>7. CASE h = "object"
      BY <2>1, <3>3, <3>4, <3>7 DEF Wrong, Null, Object
    <3> QED BY <2>2, <2>5, <3>5, <3>6, <3>7
  <2> QED BY <2>4, <2>5
<1> QED BY <1>3, <1>4

\* A record of any type, whatever it holds, is read back as it was written: the identifiers,
\* the times of any clock, the bytes and envelopes of any length, the counts of a byte.  With
\* some fields gone or replaced it is refused, and never taken for a different record, but
\* that optional fields that are gone or null are none.  An event is never taken for a
\* barrier, nor a barrier for an event.
THEOREM EveryRecordReadsBack ==
    ASSUME NEW type \in Types, NEW record,
           DOMAIN record = DOMAIN Written[type],
           \A n \in DOMAIN Written[type] : Fits(Expected[type][n], record[n]),
           NEW damage \in Damage(DOMAIN Written[type] \cup {"type"})
    PROVE  ReadsBack(type, record, damage)
<1> USE DEF ReadsBack
<1> DEFINE names == {d.name : d \in damage}
           none == {n \in DOMAIN record : Written[type][n] \in {"maybe text", "maybe time"}}
           harmless == names \subseteq none /\ \A d \in damage : d.how \in {"gone", "null"}
<1>1. PICK D : D = DOMAIN Written[type]
  OBVIOUS
<1>2. DOMAIN record = D /\ DOMAIN Expected[type] = D /\ "type" \notin D
  BY <1>1, Tables
<1>3. \A n \in D : Row(n, Written[type][n], Expected[type][n]) /\ Fits(Expected[type][n], record[n])
  BY <1>1, Tables
<1>4. PICK fields : fields = [n \in D \cup {"type"} |->
                                 IF n = "type" THEN Text(type) ELSE Field(Written[type][n], record[n])]
  OBVIOUS
<1>5. to_value(type, record) = Object(fields) /\ DOMAIN fields = D \cup {"type"}
  BY <1>2, <1>4 DEF to_value
<1>6. PICK v : v = Spoilt(to_value(type, record), damage)
  OBVIOUS
<1>7. v = Spoilt(Object(fields), damage) /\ damage \in Damage(DOMAIN fields)
  BY <1>1, <1>5, <1>6
<1>8. \A n \in D \cup {"type"} : n \notin names => get(v, n) = <<fields[n]>>
  BY <1>5, <1>7, SpoiltFields
<1>9. \A d \in damage : /\ get(v, d.name) \in Wrong
                        /\ get(v, d.name) \in {<<>>, <<Null>>} <=> d.how \in {"gone", "null"}
  BY <1>7, SpoiltFields
<1>10. \A d \in damage : d.name \in D \cup {"type"}
  BY <1>1 DEF Damage
<1>11. ASSUME NEW n \in D, n \notin names
       PROVE  Reader(Expected[type][n], v, n) = <<record[n]>>
  <2>1. get(v, n) = <<Field(Written[type][n], record[n])>>
    BY <1>2, <1>4, <1>8, <1>11
  <2> QED BY <1>3, <2>1, ReadsIntact
<1>12. ASSUME NEW d \in damage, d.name \in D
       PROVE  Reader(Expected[type][d.name], v, d.name)
                = IF d.name \in none /\ d.how \in {"gone", "null"} THEN <<<<>>>> ELSE <<>>
  <2>1. PICK n : n = d.name
    OBVIOUS
  <2>2. n \in none <=> Expected[type][n] \in Optional
    BY <1>2, <1>3, <1>12, <2>1 DEF Row, Optional
  <2>3. Reader(Expected[type][n], v, n)
          = IF Expected[type][n] \in Optional /\ get(v, n) \in {<<>>, <<Null>>} THEN <<<<>>>> ELSE <<>>
    BY <1>3, <1>9, <1>12, <2>1, ReadsSpoilt
  <2> HIDE DEF none
  <2> QED BY <1>9, <2>1, <2>2, <2>3
<1>13. CASE "type" \in names
  <2>1. PICK d \in damage : d.name = "type"
    BY <1>13
  <2>2. get(v, "type") \in Wrong
    BY <1>9, <2>1
  <2>3. text_field(v, "type") = <<>>
    BY <2>2 DEF Wrong, text_field, Null, Number, Object
  <2>4. from_value(v) = <<>> /\ barrier_from_bytes(v) = <<>>
    BY <2>3 DEF from_value, barrier_from_bytes
  <2>5. ~harmless
    BY <1>2, <1>13
  <2> QED BY <1>6, <2>4, <2>5 DEF ReadAs
<1>14. CASE "type" \notin names
  <2>1. get(v, "type") = <<Text(type)>>
    BY <1>4, <1>8, <1>14
  <2>2. text_field(v, "type") = <<type>>
    BY <2>1 DEF text_field, Text
  <2>3. PICK read : read = Reads(type, v)
    OBVIOUS
  <2>4. DOMAIN read = D /\ \A n \in D : read[n] = Reader(Expected[type][n], v, n)
    BY <1>2, <2>3 DEF Reads
  <2>5. ReadAs(type = "barrier", v) = IF \E n \in DOMAIN read : read[n] = <<>> THEN <<>>
                                      ELSE <<[n \in DOMAIN read |-> read[n][1]]>>
    <3>1. CASE type = "barrier"
      BY <2>2, <2>3, <3>1 DEF ReadAs, barrier_from_bytes, Complete
    <3>2. CASE type # "barrier"
      BY <2>2, <2>3, <3>2 DEF ReadAs, from_value, Complete
    <3> QED BY <3>1, <3>2
  <2>9. ReadAs(type # "barrier", v) = <<>>
    <3>1. CASE type = "barrier"
      BY <2>2, <3>1 DEF ReadAs, from_value
    <3>2. CASE type # "barrier"
      BY <2>2, <3>2 DEF ReadAs, barrier_from_bytes
    <3> QED BY <3>1, <3>2
  <2>6. \A d \in damage : d.name \in D
    BY <1>10, <1>14
  <2>7. CASE harmless
    <3>1. ASSUME NEW n \in D
          PROVE  read[n] = <<IF n \in names THEN <<>> ELSE record[n]>>
      <4>1. CASE n \notin names
        BY <1>11, <2>4, <4>1
      <4>2. CASE n \in names
        <5>1. PICK d \in damage : d.name = n
          BY <4>2
        <5>2. n \in none /\ d.how \in {"gone", "null"}
          BY <2>7, <4>2
        <5> HIDE DEF none, names
        <5> QED BY <1>12, <2>4, <4>2, <5>1, <5>2
      <4> QED BY <4>1, <4>2
    <3> HIDE DEF names, none
    <3>2. [n \in DOMAIN read |-> read[n][1]]
            = [n \in DOMAIN record |-> IF n \in names THEN <<>> ELSE record[n]]
      <4>1. ASSUME NEW n \in D
            PROVE  read[n][1] = IF n \in names THEN <<>> ELSE record[n]
        BY <3>1
      <4>2. DOMAIN read = D /\ DOMAIN record = D
        BY <1>2, <2>4
      <4> QED BY <4>1, <4>2, Zenon
    <3>3. ReadAs(type = "barrier", v) = <<[n \in DOMAIN read |-> read[n][1]]>>
      BY <2>4, <2>5, <3>1
    <3> QED BY <1>6, <2>7, <2>9, <3>2, <3>3 DEF names, none
  <2>8. CASE ~harmless
    <3>1. PICK d \in damage : d.name \notin none \/ d.how \notin {"gone", "null"}
      BY <2>8
    <3> HIDE DEF none
    <3>2. read[d.name] = <<>>
      BY <1>12, <2>4, <2>6, <3>1
    <3>3. ReadAs(type = "barrier", v) = <<>>
      BY <2>4, <2>5, <2>6, <3>2
    <3> QED BY <1>6, <2>8, <2>9, <3>3 DEF none
  <2> QED BY <2>7, <2>8
<1> QED BY <1>13, <1>14

\* The record that a run works on is a sample of its type, and its damage keeps to its fields.
Spoiling ==
    codec = "record" =>
        \E type \in Types, full \in BOOLEAN :
            /\ given = [type |-> type, record |-> Sample(type, full)]
            /\ text \in Damage(DOMAIN Written[type] \cup {"type"})

LEMMA TypesWritten == DOMAIN Written = Types
BY DEF Written

LEMMA StaysSpoilt == Spec => []Spoiling
<1>1. Init => Spoiling
  <2> SUFFICES ASSUME Init, codec = "record" PROVE Spoiling
    BY DEF Spoiling
  <2>1. PICK type \in DOMAIN Written, full \in BOOLEAN :
           given = [type |-> type, record |-> Sample(type, full)] /\ text = {}
    BY DEF Init, Growing
  <2>2. type \in Types
    BY TypesWritten
  <2>3. text \in Damage(DOMAIN Written[type] \cup {"type"})
    BY <2>1 DEF Damage
  <2> QED BY <2>1, <2>2, <2>3 DEF Spoiling
<1>2. Spoiling /\ [Next]_vars => Spoiling'
  <2> SUFFICES ASSUME Spoiling, [Next]_vars, codec' = "record" PROVE Spoiling'
    BY DEF Spoiling
  <2>1. CASE UNCHANGED vars
    BY <2>1 DEF vars, Spoiling
  <2>2. CASE NextDay
    BY <2>2 DEF NextDay
  <2>3. CASE Lengthen
    BY <2>3 DEF Lengthen, Growing
  <2>4. CASE HandIn
    BY <2>4 DEF HandIn
  <2>5. CASE Spoil
    <3>1. PICK type \in Types, full \in BOOLEAN :
             /\ given = [type |-> type, record |-> Sample(type, full)]
             /\ text \in Damage(DOMAIN Written[type] \cup {"type"})
      BY <2>5 DEF Spoil, Spoiling
    <3>2. DOMAIN given.record = DOMAIN Written[type]
      BY <3>1 DEF Sample
    <3>3. PICK n \in DOMAIN Written[type] \cup {"type"}, how \in {"gone", "null", "number", "object"} :
             /\ \A d \in text : d.name # n
             /\ text' = text \cup {[name |-> n, how |-> how]}
      BY <2>5, <3>2 DEF Spoil
    <3>4. text' \in Damage(DOMAIN Written[type] \cup {"type"})
      BY <3>1, <3>3 DEF Damage
    <3>5. given' = given
      BY <2>5 DEF Spoil
    <3> QED BY <3>1, <3>4, <3>5 DEF Spoiling
  <2> QED BY <2>1, <2>2, <2>3, <2>4, <2>5 DEF Next
<1> QED BY <1>1, <1>2, PTL DEF Spec

LEMMA SamplesFit ==
    ASSUME NEW type \in Types, NEW full \in BOOLEAN, NEW n \in DOMAIN Written[type]
    PROVE  Fits(Expected[type][n], Sample(type, full)[n])
<1>1. PICK w, h, x : w = Written[type][n] /\ h = Expected[type][n] /\ x = Sample(type, full)[n]
  OBVIOUS
<1> SUFFICES Fits(h, x)
  BY <1>1
<1>2. Row(n, w, h)
  BY <1>1, Tables
<1>3. Stamped(MinMoment) /\ Stamped(MaxMoment)
  <2>1. /\ MinMoment.day \in Int /\ MinMoment.second \in Nat /\ MinMoment.second < DaySeconds
        /\ from_unix([day |-> MinMoment.day, second |-> MinMoment.second]) = MinMoment
    BY SMT DEF from_unix, MinMoment, MaxMoment, Earlier, DaySeconds
  <2>2. /\ MaxMoment.day \in Int /\ MaxMoment.second \in Nat /\ MaxMoment.second < DaySeconds
        /\ from_unix([day |-> MaxMoment.day, second |-> MaxMoment.second]) = MaxMoment
    BY SMT DEF from_unix, MinMoment, MaxMoment, Earlier, DaySeconds
  <2> QED BY <2>1, <2>2, Zenon DEF Stamped
<1>4. PICK moment, bytes :
         /\ moment = (IF full THEN MaxMoment ELSE MinMoment)
         /\ bytes = (IF full THEN <<0, 171>> ELSE <<>>)
  OBVIOUS
<1>5. Stamped(moment) /\ bytes \in Blob /\ <<1, 2>> \in Blob
  <2>1. Stamped(moment)
    BY <1>3, <1>4
  <2>2. <<0, 171>> \in Seq(0 .. 255) /\ <<1, 2>> \in Seq(0 .. 255) /\ <<>> \in Seq(0 .. 255)
    BY SMT
  <2> QED BY <1>4, <2>1, <2>2 DEF Blob
<1>6. x = CASE n = "kind" -> IF full THEN "machine" ELSE "root"
            [] w = "text" /\ n # "kind" -> n
            [] w = "time" -> moment
            [] w = "bytes" -> bytes
            [] w = "number" -> IF n = "v" THEN BarrierFormat ELSE IF full THEN 255 ELSE 1
            [] w = "maybe text" -> IF full THEN <<n>> ELSE <<>>
            [] w = "maybe time" -> IF full THEN <<moment>> ELSE <<>>
            [] w = "sealed" -> [nonce |-> bytes, ciphertext |-> <<1, 2>>]
  BY <1>1, <1>4 DEF Sample
<1>7. CASE h \in {"text", "kind"}
  <2>1. h = "kind" => x \in {"root", "session", "machine"}
    BY <1>2, <1>6 DEF Row
  <2> QED BY <1>7, <2>1 DEF Fits
<1>8. CASE h = "time"
  <2>1. x = moment
    BY <1>2, <1>6, <1>8 DEF Row
  <2> QED BY <1>8, <2>1, <1>5 DEF Fits
<1>9. CASE h = "bytes"
  <2>1. x = bytes
    BY <1>2, <1>6, <1>9 DEF Row
  <2> QED BY <1>9, <2>1, <1>5 DEF Fits
<1>10. CASE h = "format"
  <2>1. x = BarrierFormat
    BY <1>2, <1>6, <1>10 DEF Row
  <2> QED BY <1>10, <2>1 DEF Fits
<1>11. CASE h = "small"
  <2>1. x \in 0 .. 255
    BY <1>2, <1>6, <1>11 DEF Row
  <2> QED BY <1>11, <2>1 DEF Fits
<1>12. CASE h = "maybe text"
  <2>1. x = <<n>> \/ x = <<>>
    BY <1>2, <1>6, <1>12 DEF Row
  <2> QED BY <1>12, <2>1 DEF Fits
<1>13. CASE h = "maybe time"
  <2>1. x = <<moment>> \/ x = <<>>
    BY <1>2, <1>6, <1>13 DEF Row
  <2> QED BY <1>13, <2>1, <1>5 DEF Fits
<1>14. CASE h = "sealed"
  <2>1. x = [nonce |-> bytes, ciphertext |-> <<1, 2>>]
    BY <1>2, <1>6, <1>14 DEF Row
  <2> QED BY <1>14, <2>1, <1>5 DEF Fits
<1> QED BY <1>2, <1>7, <1>8, <1>9, <1>10, <1>11, <1>12, <1>13, <1>14 DEF Row

\* A record of the store is read back as it was written, whatever is in its optional fields,
\* and with any of its fields damaged it is refused or holds less, never something else.
THEOREM AlwaysRecordsReadBack == Spec => []RecordsReadBack
<1>1. Spoiling => RecordsReadBack
  <2> SUFFICES ASSUME Spoiling, codec = "record" PROVE RecordsReadBack
    BY DEF RecordsReadBack
  <2>1. PICK type \in Types, full \in BOOLEAN :
           /\ given = [type |-> type, record |-> Sample(type, full)]
           /\ text \in Damage(DOMAIN Written[type] \cup {"type"})
    BY DEF Spoiling
  <2>2. given.type = type /\ given.record = Sample(type, full)
    BY <2>1
  <2>3. DOMAIN Sample(type, full) = DOMAIN Written[type]
    BY DEF Sample
  <2>4. \A n \in DOMAIN Written[type] : Fits(Expected[type][n], Sample(type, full)[n])
    BY SamplesFit
  <2>5. /\ given.type \in Types /\ DOMAIN given.record = DOMAIN Written[given.type]
        /\ \A n \in DOMAIN Written[given.type] : Fits(Expected[given.type][n], given.record[n])
        /\ text \in Damage(DOMAIN Written[given.type] \cup {"type"})
    BY <2>1, <2>2, <2>3, <2>4
  <2>6. ReadsBack(given.type, given.record, text)
    BY <2>5, EveryRecordReadsBack
  <2> QED BY <2>6 DEF RecordsReadBack
<1> QED BY <1>1, StaysSpoilt, PTL

-----------------------------------------------------------------------------
(* .env texts *)

\* One step of the reader of lines and of the one that undoes escapes.
Uncut(line) == IF line # <<>> /\ Last(line) = CR THEN Front(line) ELSE line
LineStep(before, c) ==
    IF c = LF THEN [whole |-> Append(before.whole, Uncut(before.rest)), rest |-> <<>>]
    ELSE [whole |-> before.whole, rest |-> Append(before.rest, c)]
Undone(c) == CASE c = "n" -> LF [] c = "r" -> CR [] c = "t" -> TAB [] OTHER -> c
UndoStep(before, c) ==
    IF before.escaped THEN [out |-> Append(before.out, Undone(c)), escaped |-> FALSE]
    ELSE IF c = BS THEN [out |-> before.out, escaped |-> TRUE]
    ELSE [out |-> Append(before.out, c), escaped |-> FALSE]

NoLines == [whole |-> <<>>, rest |-> <<>>]
NoChars == [out |-> <<>>, escaped |-> FALSE]
Step(undo, before, c) == IF undo THEN UndoStep(before, c) ELSE LineStep(before, c)
First(undo) == IF undo THEN NoChars ELSE NoLines
Steps(undo, f, s, m) ==
    f = [i \in 0 .. m |-> IF i = 0 THEN First(undo) ELSE Step(undo, f[i - 1], s[i])]

\* Either reader is a function of the text, however long it is.
LEMMA StepsExist ==
    ASSUME NEW undo, NEW s, NEW N \in Nat PROVE \E f : Steps(undo, f, s, N)
<1> DEFINE S == {m \in Nat : \E f : Steps(undo, f, s, m)}
<1>1. 0 \in S
  <2> DEFINE f == [i \in 0 .. 0 |-> First(undo)]
  <2>1. f = [i \in 0 .. 0 |-> IF i = 0 THEN First(undo) ELSE Step(undo, f[i - 1], s[i])]
    OBVIOUS
  <2> QED BY <2>1 DEF Steps
<1>2. ASSUME NEW k \in 0 .. N - 1, k \in S
      PROVE  k + 1 \in S
  <2>1. PICK f : Steps(undo, f, s, k)
    BY <1>2
  <2> DEFINE g == [i \in 0 .. k + 1 |-> IF i = k + 1 THEN Step(undo, f[k], s[k + 1]) ELSE f[i]]
  <2>2. \A i \in 0 .. k : g[i] = f[i] /\ f[i] = IF i = 0 THEN First(undo) ELSE Step(undo, f[i - 1], s[i])
    BY <2>1 DEF Steps
  <2>3. ASSUME NEW i \in 0 .. k + 1
        PROVE  g[i] = IF i = 0 THEN First(undo) ELSE Step(undo, g[i - 1], s[i])
    <3>1. CASE i = k + 1
      <4>1. g[i] = Step(undo, f[k], s[i]) /\ i - 1 = k /\ i # 0 /\ k \in 0 .. k
        BY <3>1
      <4>2. g[k] = f[k]
        BY <2>2, <4>1
      <4> QED BY <4>1, <4>2
    <3>2. CASE i # k + 1
      <4>1. i \in 0 .. k
        BY <3>2
      <4>2. CASE i = 0
        BY <2>2, <4>1, <4>2
      <4>3. CASE i # 0
        <5>1. i - 1 \in 0 .. k
          BY <4>1, <4>3
        <5>2. g[i - 1] = f[i - 1]
          BY <2>2, <5>1
        <5>3. g[i] = Step(undo, f[i - 1], s[i])
          BY <2>2, <4>1, <4>3
        <5> QED BY <4>3, <5>2, <5>3
      <4> QED BY <4>2, <4>3
    <3> QED BY <3>1, <3>2
  <2>4. Steps(undo, g, s, k + 1)
    BY <2>3 DEF Steps
  <2> QED BY <2>4
<1> HIDE DEF S
<1>3. N \in S
  BY <1>1, <1>2, UpTo
<1> QED BY <1>3 DEF S

\* What is known of a reader: where it begins and how it goes on.
LinesRead(f, s) ==
    /\ f[0] = NoLines /\ \A i \in 1 .. Len(s) : f[i] = LineStep(f[i - 1], s[i])
    /\ lines(s) = IF f[Len(s)].rest = <<>> THEN f[Len(s)].whole
                  ELSE Append(f[Len(s)].whole, f[Len(s)].rest)
CharsRead(f, s) ==
    /\ f[0] = NoChars /\ \A i \in 1 .. Len(s) : f[i] = UndoStep(f[i - 1], s[i])
    /\ unescape(s) = IF f[Len(s)].escaped THEN Append(f[Len(s)].out, BS) ELSE f[Len(s)].out

LEMMA LinesAreRead == ASSUME NEW s, Len(s) \in Nat PROVE \E f : LinesRead(f, s)
<1> DEFINE f == CHOOSE x : x = [i \in 0 .. Len(s) |-> IF i = 0 THEN NoLines ELSE LineStep(x[i - 1], s[i])]
<1>1. lines(s) = IF f[Len(s)].rest = <<>> THEN f[Len(s)].whole
                 ELSE Append(f[Len(s)].whole, f[Len(s)].rest)
  BY Zenon DEF lines, LineStep, NoLines, Uncut
<1>2. \E x : x = [i \in 0 .. Len(s) |-> IF i = 0 THEN NoLines ELSE LineStep(x[i - 1], s[i])]
  <2>1. PICK x : Steps(FALSE, x, s, Len(s))
    BY StepsExist
  <2> QED BY <2>1 DEF Steps, First, Step
<1>3. f = [i \in 0 .. Len(s) |-> IF i = 0 THEN NoLines ELSE LineStep(f[i - 1], s[i])]
  BY <1>2, Zenon
<1> HIDE DEF f
<1>4. f[0] = NoLines
  BY <1>3
<1>5. ASSUME NEW i \in 1 .. Len(s) PROVE f[i] = LineStep(f[i - 1], s[i])
  <2>1. i \in 0 .. Len(s) /\ i # 0
    OBVIOUS
  <2> QED BY <1>3, <2>1
<1>6. LinesRead(f, s)
  BY <1>1, <1>4, <1>5 DEF LinesRead
<1> QED BY <1>6

LEMMA CharsAreRead == ASSUME NEW s, Len(s) \in Nat PROVE \E f : CharsRead(f, s)
<1> DEFINE f == CHOOSE x : x = [i \in 0 .. Len(s) |-> IF i = 0 THEN NoChars ELSE UndoStep(x[i - 1], s[i])]
<1>1. unescape(s) = IF f[Len(s)].escaped THEN Append(f[Len(s)].out, BS) ELSE f[Len(s)].out
  BY Zenon DEF unescape, UndoStep, NoChars, Undone
<1>2. \E x : x = [i \in 0 .. Len(s) |-> IF i = 0 THEN NoChars ELSE UndoStep(x[i - 1], s[i])]
  <2>1. PICK x : Steps(TRUE, x, s, Len(s))
    BY StepsExist
  <2> QED BY <2>1 DEF Steps, First, Step
<1>3. f = [i \in 0 .. Len(s) |-> IF i = 0 THEN NoChars ELSE UndoStep(f[i - 1], s[i])]
  BY <1>2, Zenon
<1> HIDE DEF f
<1>4. f[0] = NoChars
  BY <1>3
<1>5. ASSUME NEW i \in 1 .. Len(s) PROVE f[i] = UndoStep(f[i - 1], s[i])
  <2>1. i \in 0 .. Len(s) /\ i # 0
    OBVIOUS
  <2> QED BY <1>3, <2>1
<1>6. CharsRead(f, s)
  BY <1>1, <1>4, <1>5 DEF CharsRead
<1> QED BY <1>6

\* A character as it stands between double quotes.
Piece(c) == IF c \in DOMAIN Escape THEN <<BS, Escape[c]>> ELSE <<c>>
Pieces(value) == [i \in DOMAIN value |-> Piece(value[i])]

LEMMA EscapeUndone ==
    ASSUME NEW c, c \in DOMAIN Escape
    PROVE  Undone(Escape[c]) = c /\ Escape[c] \in {DQ, BS, "n", "r"}
<1>1. c \in {DQ, BS, LF, CR} /\ Escape[c] = CASE c = LF -> "n" [] c = CR -> "r" [] OTHER -> c
  BY DEF Escape
<1>2. CASE c = DQ
  <2>1. Escape[c] = DQ
    BY <1>1, <1>2 DEF DQ, LF, CR
  <2> QED BY <1>2, <2>1 DEF Undone, DQ
<1>3. CASE c = BS
  <2>1. Escape[c] = BS
    BY <1>1, <1>3 DEF BS, LF, CR
  <2> QED BY <1>3, <2>1 DEF Undone, BS
<1>4. CASE c = LF
  <2>1. Escape[c] = "n"
    BY <1>1, <1>4 DEF LF, CR
  <2> QED BY <1>4, <2>1 DEF Undone
<1>5. CASE c = CR
  <2>1. Escape[c] = "r"
    BY <1>1, <1>5 DEF LF, CR
  <2> QED BY <1>5, <2>1 DEF Undone
<1> QED BY <1>1, <1>2, <1>3, <1>4, <1>5

\* What may stand behind the equals sign, and in a line.
ValueChars(C) == (C \cup {DQ, BS, "n", "r"}) \ {LF}
LineChars(C) == (C \cup {DQ, BS, "n", "r", "="}) \ {LF}

\* No piece holds a line end.
LEMMA PieceChars ==
    ASSUME NEW C, NEW c \in C, NEW X, X = ValueChars(C)
    PROVE  Piece(c) \in Seq(X)
<1>1. DQ # LF /\ BS # LF /\ "n" # LF /\ "r" # LF
  BY DEF DQ, BS, LF
<1>2. BS \in X /\ \A x \in {DQ, BS, "n", "r"} : x \in X
  BY <1>1 DEF ValueChars
<1>3. CASE c \in DOMAIN Escape
  <2>1. PICK e : e = Escape[c] /\ e \in X
    BY <1>2, <1>3, EscapeUndone
  <2>2. <<BS, e>> \in Seq(X)
    BY <1>2, <2>1
  <2> QED BY <1>3, <2>1, <2>2 DEF Piece
<1>4. CASE c \notin DOMAIN Escape
  <2>1. c # LF
    BY <1>4 DEF Escape
  <2>2. c \in X
    BY <2>1 DEF ValueChars
  <2>3. <<c>> \in Seq(X)
    BY <2>2
  <2> QED BY <1>4, <2>3 DEF Piece
<1> QED BY <1>3, <1>4

LEMMA PiecesAre ==
    ASSUME NEW C, NEW value \in Seq(C), NEW X, X = ValueChars(C)
    PROVE  Pieces(value) \in Seq(Seq(X)) /\ Len(Pieces(value)) = Len(value)
<1>1. PICK n : n = Len(value) /\ n \in Nat /\ DOMAIN value = 1 .. n
  BY LenProperties
<1>2. \A i \in 1 .. n : value[i] \in C
  BY <1>1
<1>3. \A i \in 1 .. n : Piece(value[i]) \in Seq(X)
  BY <1>2, PieceChars
<1>4. Pieces(value) = [i \in 1 .. n |-> Piece(value[i])]
  BY <1>1 DEF Pieces
<1>5. Pieces(value) \in Seq(Seq(X)) /\ Len(Pieces(value)) = n
  BY <1>1, <1>3, <1>4
<1> QED BY <1>1, <1>5

\* The escapes that dotenv_quote writes are undone, in a value of any length.
LEMMA UnescapesPieces ==
    ASSUME NEW C, NEW value \in Seq(C)
    PROVE  unescape(FlattenSeq(Pieces(value))) = value
<1>1. PICK n : n = Len(value) /\ n \in Nat /\ DOMAIN value = 1 .. n
  BY LenProperties
<1>2. PICK X : X = ValueChars(C)
  OBVIOUS
<1>3. PICK s : s = Pieces(value) /\ s \in Seq(Seq(X)) /\ Len(s) = n
  BY <1>1, <1>2, PiecesAre
<1>4. PICK flat : flat = FlattenSeq(s) /\ flat \in Seq(X)
  BY <1>3, FlattenLays
<1>5. PICK p : Laid(p, s, flat)
  BY <1>3, <1>4, FlattenLays
<1>6. PICK f : CharsRead(f, flat)
  <2>1. Len(flat) \in Nat
    BY <1>4
  <2> QED BY <2>1, CharsAreRead
<1> DEFINE sofar(k) == [out |-> SubSeq(value, 1, k), escaped |-> FALSE]
           S == {k \in Nat : f[p[k]] = sofar(k)}
<1>7. 0 \in S
  <2>1. SubSeq(value, 1, 0) = <<>>
    BY SubSeqEmpty
  <2>2. p[0] = 0 /\ f[0] = NoChars
    BY <1>5, <1>6 DEF Laid, CharsRead
  <2> QED BY <2>1, <2>2 DEF NoChars
<1>8. ASSUME NEW k \in 0 .. n - 1, k \in S PROVE k + 1 \in S
  <2>1. PICK b : b = k + 1 /\ b \in 1 .. n /\ b - 1 = k /\ b \in Nat
    BY <1>1
  <2>2. PICK c : c = value[b]
    OBVIOUS
  <2>3. s[b] = Piece(c)
    BY <1>1, <1>3, <2>1, <2>2 DEF Pieces
  <2>4. PICK q, l, w : q = p[k] /\ l = Len(s[b]) /\ w = SubSeq(value, 1, k)
    OBVIOUS
  <2>5. q \in Nat /\ p[b] = q + l /\ p[b] <= Len(flat) /\ Len(flat) \in Nat
    <3>1. k \in 0 .. Len(s) /\ b \in 1 .. Len(s) /\ b \in 0 .. Len(s)
      BY <1>1, <1>3, <2>1
    <3>2. p[k] \in Nat /\ p[b] <= Len(flat) /\ p[b] = p[b - 1] + Len(s[b])
      BY <1>5, <3>1 DEF Laid
    <3> QED BY <1>4, <2>1, <2>4, <3>2
  <2>6. \A j \in 1 .. l : flat[q + j] = s[b][j]
    <3>1. b \in 1 .. Len(s)
      BY <1>3, <2>1
    <3>2. \A j \in 1 .. Len(s[b]) : flat[p[b - 1] + j] = s[b][j]
      BY <1>5, <3>1 DEF Laid
    <3> QED BY <2>1, <2>4, <3>2
  <2>7. \A i \in 1 .. Len(flat) : f[i] = UndoStep(f[i - 1], flat[i])
    BY <1>6 DEF CharsRead
  <2>8. f[q] = [out |-> w, escaped |-> FALSE]
    BY <1>8, <2>4
  <2>9. Append(w, c) = SubSeq(value, 1, b)
    <3>1. 1 \in 1 .. Len(value) + 1 /\ b \in 1 .. Len(value)
      BY <1>1, <2>1
    <3> QED BY <1>1, <2>1, <2>2, <2>4, <3>1, SubSeqRecursiveSecond
  <2>10. CASE c \in DOMAIN Escape
    <3>1. PICK e : e = Escape[c] /\ Undone(e) = c
      BY <2>10, EscapeUndone
    <3>2. s[b] = <<BS, e>>
      BY <2>3, <2>10, <3>1 DEF Piece
    <3>3. l = 2 /\ s[b][1] = BS /\ s[b][2] = e
      BY <2>4, <3>2
    <3>4. flat[q + 1] = BS /\ flat[q + 2] = e
      BY <2>6, <3>3
    <3>5. /\ q + 1 \in 1 .. Len(flat) /\ q + 2 \in 1 .. Len(flat)
          /\ (q + 1) - 1 = q /\ (q + 2) - 1 = q + 1 /\ p[b] = q + 2
      BY <2>5, <3>3
    <3>6. f[q + 1] = [out |-> w, escaped |-> TRUE]
      <4>1. f[q + 1] = UndoStep(f[q], BS)
        BY <2>7, <3>4, <3>5
      <4> QED BY <2>8, <4>1 DEF UndoStep
    <3>7. f[q + 2] = [out |-> Append(w, c), escaped |-> FALSE]
      <4>1. f[q + 2] = UndoStep(f[q + 1], e)
        BY <2>7, <3>4, <3>5
      <4> QED BY <3>1, <3>6, <4>1 DEF UndoStep
    <3>8. f[p[b]] = sofar(b)
      BY <2>9, <3>5, <3>7
    <3> QED BY <2>1, <3>8
  <2>11. CASE c \notin DOMAIN Escape
    <3>1. s[b] = <<c>> /\ c # BS
      BY <2>3, <2>11 DEF Piece, Escape
    <3>2. l = 1 /\ s[b][1] = c
      BY <2>4, <3>1
    <3>3. flat[q + 1] = c
      BY <2>6, <3>2
    <3>4. q + 1 \in 1 .. Len(flat) /\ (q + 1) - 1 = q /\ p[b] = q + 1
      BY <2>5, <3>2
    <3>5. f[q + 1] = [out |-> Append(w, c), escaped |-> FALSE]
      <4>1. f[q + 1] = UndoStep(f[q], c)
        BY <2>7, <3>3, <3>4
      <4> QED BY <2>8, <3>1, <4>1 DEF UndoStep
    <3>6. f[p[b]] = sofar(b)
      BY <2>9, <3>4, <3>5
    <3> QED BY <2>1, <3>6
  <2> QED BY <2>10, <2>11
<1> HIDE DEF S
<1>9. n \in S
  <2>1. \A k \in 0 .. n : k \in S
    BY <1>1, <1>7, <1>8, UpTo
  <2> QED BY <1>1, <2>1
<1>10. f[Len(flat)] = [out |-> value, escaped |-> FALSE]
  <2>1. SubSeq(value, 1, n) = value
    BY <1>1
  <2>2. p[n] = Len(flat)
    BY <1>3, <1>5 DEF Laid
  <2> QED BY <1>9, <2>1, <2>2 DEF S
<1>11. unescape(flat) = value
  BY <1>6, <1>10 DEF CharsRead
<1> QED BY <1>3, <1>4, <1>11

\* A line that the reader gives back as it stands.
WholeLine(line) == (\A j \in DOMAIN line : line[j] # LF) /\ Uncut(line) = line

Ended(L) == [k \in DOMAIN L |-> L[k] \o <<LF>>]

\* Any number of such lines, each with its end, are read as these lines.
LEMMA LinesReadBack ==
    ASSUME NEW X, NEW L \in Seq(Seq(X)), LF \in X, \A k \in DOMAIN L : WholeLine(L[k])
    PROVE  lines(FlattenSeq(Ended(L))) = L
<1>1. PICK n : n = Len(L) /\ n \in Nat /\ DOMAIN L = 1 .. n /\ \A k \in 1 .. n : L[k] \in Seq(X)
  BY LenProperties
<1>2. ASSUME NEW k \in 1 .. n
      PROVE  L[k] \o <<LF>> \in Seq(X) /\ Follows(L[k] \o <<LF>>, L[k], <<LF>>)
  <2>1. PICK u, v : u = L[k] /\ v = <<LF>>
    OBVIOUS
  <2>2. u \in Seq(X) /\ v \in Seq(X)
    BY <1>1, <2>1
  <2>3. u \o v \in Seq(X) /\ Follows(u \o v, u, v)
    BY <2>2, Follow
  <2> QED BY <2>1, <2>3
<1>3. PICK s : s = Ended(L)
  OBVIOUS
<1>4. s \in Seq(Seq(X)) /\ Len(s) = n /\ \A k \in 1 .. n : s[k] = L[k] \o <<LF>>
  <2>1. s = [k \in 1 .. n |-> L[k] \o <<LF>>]
    BY <1>1, <1>3 DEF Ended
  <2>2. \A k \in 1 .. n : L[k] \o <<LF>> \in Seq(X)
    BY <1>2
  <2> QED BY <1>1, <2>1, <2>2
<1>5. PICK flat : flat = FlattenSeq(s) /\ flat \in Seq(X)
  BY <1>4, FlattenLays
<1>6. PICK p : Laid(p, s, flat)
  BY <1>4, <1>5, FlattenLays
<1>7. PICK f : LinesRead(f, flat)
  <2>1. Len(flat) \in Nat
    BY <1>5
  <2> QED BY <2>1, LinesAreRead
<1>8. \A i \in 1 .. Len(flat) : f[i] = LineStep(f[i - 1], flat[i])
  BY <1>7 DEF LinesRead
<1> DEFINE sofar(k) == [whole |-> SubSeq(L, 1, k), rest |-> <<>>]
           S == {k \in Nat : f[p[k]] = sofar(k)}
<1>9. 0 \in S
  <2>1. SubSeq(L, 1, 0) = <<>>
    BY SubSeqEmpty
  <2>2. p[0] = 0 /\ f[0] = NoLines
    BY <1>6, <1>7 DEF Laid, LinesRead
  <2> QED BY <2>1, <2>2 DEF NoLines
<1>10. ASSUME NEW k \in 0 .. n - 1, k \in S PROVE k + 1 \in S
  <2>1. PICK b : b = k + 1 /\ b \in 1 .. n /\ b - 1 = k /\ b \in Nat
    BY <1>1
  <2>2. PICK q, line, w, m : q = p[k] /\ line = L[b] /\ w = SubSeq(L, 1, k) /\ m = Len(line)
    OBVIOUS
  <2>3. line \in Seq(X) /\ m \in Nat /\ DOMAIN line = 1 .. m /\ WholeLine(line)
    <3>1. line \in Seq(X) /\ WholeLine(line)
      BY <1>1, <2>1, <2>2
    <3> QED BY <2>2, <3>1, LenProperties
  <2>4. Follows(s[b], line, <<LF>>)
    BY <1>2, <1>4, <2>1, <2>2
  <2>5. Len(s[b]) = m + 1 /\ s[b][m + 1] = LF /\ \A j \in 1 .. m : s[b][j] = line[j]
    <3>4. PICK v : v = <<LF>>
      OBVIOUS
    <3>1. v = <<LF>> /\ Len(v) = 1 /\ v[1] = LF
      BY <3>4
    <3>2. Follows(s[b], line, v)
      BY <2>4, <3>1
    <3>3. /\ Len(s[b]) = m + Len(v) /\ \A j \in 1 .. m : s[b][j] = line[j]
          /\ \A j \in 1 .. Len(v) : s[b][m + j] = v[j]
      BY <2>2, <3>2 DEF Follows
    <3> QED BY <3>1, <3>3
  <2>6. q \in Nat /\ p[b] = q + (m + 1) /\ p[b] <= Len(flat) /\ Len(flat) \in Nat
    <3>1. k \in 0 .. Len(s) /\ b \in 1 .. Len(s) /\ b \in 0 .. Len(s)
      BY <1>1, <1>4, <2>1
    <3>2. p[k] \in Nat /\ p[b] <= Len(flat) /\ p[b] = p[b - 1] + Len(s[b])
      BY <1>6, <3>1 DEF Laid
    <3> QED BY <1>5, <2>1, <2>2, <2>5, <3>2
  <2>7. \A j \in 1 .. m + 1 : flat[q + j] = s[b][j]
    <3>1. b \in 1 .. Len(s)
      BY <1>4, <2>1
    <3>2. \A j \in 1 .. Len(s[b]) : flat[p[b - 1] + j] = s[b][j]
      BY <1>6, <3>1 DEF Laid
    <3> QED BY <2>1, <2>2, <2>5, <3>2
  <2>8. f[q] = [whole |-> w, rest |-> <<>>]
    BY <1>10, <2>2
  <2> DEFINE within(j) == [whole |-> w, rest |-> SubSeq(line, 1, j)]
             T == {j \in Nat : f[q + j] = within(j)}
  <2>9. 0 \in T
    <3>1. SubSeq(line, 1, 0) = <<>> /\ q + 0 = q
      BY <2>6, SubSeqEmpty
    <3> QED BY <2>8, <3>1
  <2>10. ASSUME NEW j \in 0 .. m - 1, j \in T PROVE j + 1 \in T
    <3>1. PICK a, i : a = j + 1 /\ i = q + a
      OBVIOUS
    <3>2. /\ a \in 1 .. m /\ a \in 1 .. m + 1 /\ a \in Nat /\ a - 1 = j
          /\ i \in 1 .. Len(flat) /\ i - 1 = q + j
      BY <2>3, <2>6, <3>1
    <3>3. flat[i] = line[a] /\ line[a] # LF
      BY <2>3, <2>5, <2>7, <3>1, <3>2 DEF WholeLine
    <3>4. f[i] = LineStep(f[q + j], line[a])
      BY <1>8, <3>2, <3>3
    <3>5. f[q + j] = [whole |-> w, rest |-> SubSeq(line, 1, j)]
      BY <2>10
    <3>6. f[i] = [whole |-> w, rest |-> Append(SubSeq(line, 1, j), line[a])]
      BY <3>3, <3>4, <3>5 DEF LineStep
    <3>7. Append(SubSeq(line, 1, j), line[a]) = SubSeq(line, 1, a)
      <4>1. 1 \in 1 .. Len(line) + 1 /\ a \in 1 .. Len(line)
        BY <2>2, <2>3, <3>2
      <4> QED BY <2>3, <3>2, <4>1, SubSeqRecursiveSecond
    <3> QED BY <3>1, <3>2, <3>6, <3>7
  <2> HIDE DEF T
  <2>11. m \in T
    <3>1. \A j \in 0 .. m : j \in T
      BY <2>3, <2>9, <2>10, UpTo
    <3> QED BY <2>3, <3>1
  <2>12. f[q + m] = [whole |-> w, rest |-> line]
    <3>1. SubSeq(line, 1, m) = line
      BY <2>2, <2>3
    <3> QED BY <2>11, <3>1 DEF T
  <2>13. PICK i : i = p[b] /\ i \in 1 .. Len(flat) /\ i - 1 = q + m /\ flat[i] = LF
    <3>1. m + 1 \in 1 .. m + 1
      BY <2>3
    <3>2. flat[q + (m + 1)] = LF
      BY <2>5, <2>7, <3>1
    <3>3. q + (m + 1) \in 1 .. Len(flat) /\ (q + (m + 1)) - 1 = q + m
      BY <2>3, <2>6
    <3> QED BY <2>6, <3>2, <3>3
  <2>14. f[i] = LineStep(f[q + m], LF)
    BY <1>8, <2>13
  <2>15. f[i] = [whole |-> Append(w, line), rest |-> <<>>]
    <3>1. Uncut(line) = line
      BY <2>3 DEF WholeLine
    <3> QED BY <2>12, <2>14, <3>1 DEF LineStep
  <2>16. Append(w, line) = SubSeq(L, 1, b)
    <3>1. 1 \in 1 .. Len(L) + 1 /\ b \in 1 .. Len(L)
      BY <1>1, <2>1
    <3> QED BY <1>1, <2>1, <2>2, <3>1, SubSeqRecursiveSecond
  <2>17. f[p[b]] = sofar(b)
    BY <2>13, <2>15, <2>16
  <2> QED BY <2>1, <2>17
<1> HIDE DEF S
<1>11. n \in S
  <2>1. \A k \in 0 .. n : k \in S
    BY <1>1, <1>9, <1>10, UpTo
  <2> QED BY <1>1, <2>1
<1>12. f[Len(flat)] = [whole |-> L, rest |-> <<>>]
  <2>1. SubSeq(L, 1, n) = L
    BY <1>1
  <2>2. p[n] = Len(flat)
    BY <1>4, <1>6 DEF Laid
  <2> QED BY <1>11, <2>1, <2>2 DEF S
<1>13. lines(flat) = L
  BY <1>7, <1>12 DEF LinesRead
<1> QED BY <1>3, <1>5, <1>13

\* Sequences of one element each, end to end, are the sequence of these elements.
LEMMA FlattenOnes ==
    ASSUME NEW X, NEW t \in Seq(X), NEW s, s = [k \in DOMAIN t |-> <<t[k]>>]
    PROVE  FlattenSeq(s) = t
<1>1. PICK n : n = Len(t) /\ n \in Nat /\ DOMAIN t = 1 .. n /\ \A k \in 1 .. n : t[k] \in X
  BY LenProperties
<1>2. s \in Seq(Seq(X)) /\ Len(s) = n
  <2>1. s = [k \in 1 .. n |-> <<t[k]>>]
    BY <1>1
  <2>2. \A k \in 1 .. n : <<t[k]>> \in Seq(X)
    BY <1>1
  <2> QED BY <1>1, <2>1, <2>2
<1>3. ASSUME NEW k \in 1 .. n PROVE Len(s[k]) = 1 /\ s[k][1] = t[k]
  <2>1. s[k] = <<t[k]>>
    BY <1>1
  <2> QED BY <2>1
<1>4. PICK flat : flat = FlattenSeq(s) /\ flat \in Seq(X)
  BY <1>2, FlattenLays
<1>5. PICK p : Laid(p, s, flat)
  BY <1>2, <1>4, FlattenLays
<1> DEFINE S == {k \in Nat : p[k] = k}
<1>6. 0 \in S
  BY <1>5 DEF Laid
<1>7. ASSUME NEW k \in 0 .. n - 1, k \in S PROVE k + 1 \in S
  <2>1. PICK b : b = k + 1 /\ b \in 1 .. n /\ b - 1 = k /\ b \in Nat
    BY <1>1
  <2>2. p[b] = p[b - 1] + Len(s[b])
    BY <1>2, <1>5, <2>1 DEF Laid
  <2>3. p[b] = b
    BY <1>3, <1>7, <2>1, <2>2
  <2> QED BY <2>1, <2>3
<1> HIDE DEF S
<1>8. \A k \in 0 .. n : k \in S
  BY <1>1, <1>6, <1>7, UpTo
<1>9. Len(flat) = n
  <2>1. n \in 0 .. n
    BY <1>1
  <2>2. p[n] = n
    BY <1>8, <2>1 DEF S
  <2> QED BY <1>2, <1>5, <2>2 DEF Laid
<1>10. ASSUME NEW k \in 1 .. n PROVE flat[k] = t[k]
  <2>1. k - 1 \in 0 .. n /\ (k - 1) + 1 = k /\ k \in 1 .. Len(s)
    BY <1>1, <1>2
  <2>2. p[k - 1] = k - 1
    BY <1>8, <2>1 DEF S
  <2>3. \A j \in 1 .. Len(s[k]) : flat[p[k - 1] + j] = s[k][j]
    BY <1>5, <2>1 DEF Laid
  <2>4. flat[p[k - 1] + 1] = s[k][1]
    <3>1. 1 \in 1 .. Len(s[k])
      BY <1>3
    <3> QED BY <2>3, <3>1
  <2> QED BY <1>3, <2>1, <2>2, <2>4
<1>11. flat = t
  BY <1>1, <1>4, <1>9, <1>10, SeqEqual
<1> QED BY <1>4, <1>11

\* A sequence that lies inside another is cut out of it.
LEMMA CutOut ==
    ASSUME NEW X, NEW s \in Seq(X), NEW t \in Seq(X), NEW a \in Nat, a + Len(t) <= Len(s),
           \A j \in 1 .. Len(t) : s[a + j] = t[j]
    PROVE  SubSeq(s, a + 1, a + Len(t)) = t
<1>1. PICK n, b : n = Len(t) /\ n \in Nat /\ b = a + n /\ b \in Nat /\ b <= Len(s) /\ b - a = n
  BY LenProperties
<1>2. CASE n = 0
  <2>1. t = <<>> /\ b < a + 1
    <3>1. t = <<>>
      BY <1>1, <1>2, EmptySeq
    <3>2. b < a + 1
      BY <1>1, <1>2
    <3> QED BY <3>1, <3>2
  <2>2. SubSeq(s, a + 1, b) = <<>>
    BY <2>1, <1>1, SubSeqEmpty
  <2> QED BY <1>1, <2>1, <2>2
<1>3. CASE n # 0
  <2>1. a + 1 <= b
    BY <1>1, <1>3
  <2>2. PICK w : w = SubSeq(s, a + 1, b)
    OBVIOUS
  <2>3. w \in Seq(X) /\ Len(w) = n /\ \A j \in 1 .. n : w[j] = s[a + j]
    BY <1>1, <2>1, <2>2, SubSeqOf
  <2>4. \A j \in 1 .. n : w[j] = t[j]
    BY <1>1, <2>3
  <2>5. w = t
    BY <1>1, <2>3, <2>4, SeqEqual
  <2> QED BY <1>1, <2>2, <2>5
<1> QED BY <1>2, <1>3

LEMMA TrimSolid ==
    ASSUME NEW X, NEW s \in Seq(X), s # <<>>, s[1] \notin White, s[Len(s)] \notin White
    PROVE  trim(s) = s
<1>1. PICK n : n = Len(s) /\ n \in Nat /\ n >= 1 /\ DOMAIN s = 1 .. n
  BY LenProperties, EmptySeq
<1>2. PICK T : T = {i \in DOMAIN s : s[i] \notin White}
  OBVIOUS
<1>3. 1 \in T /\ n \in T /\ \A i \in T : i \in 1 .. n
  BY <1>1, <1>2
<1>4. Min(T) = 1
  <2>1. \A y \in T : 1 <= y
    BY <1>3
  <2>2. \A x \in T : (\A y \in T : x <= y) => x = 1
    BY <1>3
  <2> QED BY <1>3, <2>1, <2>2 DEF Min
<1>5. Max(T) = n
  <2>1. \A y \in T : n >= y
    BY <1>1, <1>3
  <2>2. \A x \in T : (\A y \in T : x >= y) => x = n
    BY <1>1, <1>3
  <2> QED BY <1>3, <2>1, <2>2 DEF Max
<1>6. trim(s) = IF T = {} THEN <<>> ELSE SubSeq(s, Min(T), Max(T))
  BY <1>2 DEF trim
<1>7. SubSeq(s, 1, n) = s
  BY <1>1
<1> QED BY <1>3, <1>4, <1>5, <1>6, <1>7

LEMMA BeforeFirst ==
    ASSUME NEW X, NEW s \in Seq(X), NEW c, NEW k \in Nat, k + 1 <= Len(s), s[k + 1] = c,
           \A j \in 1 .. k : s[j] # c
    PROVE  Before(s, c) = SubSeq(s, 1, k)
<1>1. PICK n : n = Len(s) /\ n \in Nat /\ DOMAIN s = 1 .. n
  BY LenProperties
<1>2. PICK T : T = {i \in DOMAIN s : s[i] = c} \cup {n + 1}
  OBVIOUS
<1>3. k + 1 \in T
  BY <1>1, <1>2
<1>4. ASSUME NEW y \in T PROVE y \in Int /\ k + 1 <= y
  <2>1. CASE y = n + 1
    BY <1>1, <2>1
  <2>2. CASE y # n + 1
    <3>1. y \in 1 .. n /\ s[y] = c
      BY <1>1, <1>2, <2>2
    <3>2. y \notin 1 .. k
      BY <3>1
    <3> QED BY <3>1, <3>2
  <2> QED BY <2>1, <2>2
<1>5. Min(T) = k + 1
  <2>1. \A x \in T : (\A y \in T : x <= y) => x = k + 1
    <3> SUFFICES ASSUME NEW x \in T, \A y \in T : x <= y PROVE x = k + 1
      OBVIOUS
    <3>1. x <= k + 1 /\ k + 1 <= x /\ x \in Int
      BY <1>3, <1>4
    <3> QED BY <3>1
  <2> QED BY <1>3, <1>4, <2>1 DEF Min
<1>6. (k + 1) - 1 = k
  OBVIOUS
<1>7. Before(s, c) = SubSeq(s, 1, Min(T) - 1)
  BY <1>1, <1>2 DEF Before
<1> QED BY <1>5, <1>6, <1>7

QuoteIt(value) == <<DQ>> \o FlattenSeq(Pieces(value)) \o <<DQ>>
Bare(value) == value # <<>> /\ ToSet(value) \cap (White \cup {DQ, SQ, BS, "#", "$", "="}) = {}

LEMMA QuotedOrBare ==
    ASSUME NEW value PROVE dotenv_quote(value) = IF Bare(value) THEN value ELSE QuoteIt(value)
BY Zenon DEF dotenv_quote, Bare, QuoteIt, Pieces, Piece

LEMMA NotWhite == DQ \notin White /\ "=" \notin White /\ CR \in White /\ LF \in White
BY DEF White, DQ, CR, LF, TAB

\* What stands behind the equals sign begins and ends with something visible, ends no
\* line, and is read as the value.
LEMMA QuoteReadBack ==
    ASSUME NEW C, NEW value \in Seq(C), NEW X, X = ValueChars(C),
           NEW q, q = dotenv_quote(value)
    PROVE  /\ q \in Seq(X) /\ q # <<>> /\ q[1] \notin White /\ q[Len(q)] \notin White
           /\ unquote(q) = value
<1>1. PICK n : n = Len(value) /\ n \in Nat /\ DOMAIN value = 1 .. n /\ \A i \in 1 .. n : value[i] \in C
  BY LenProperties
<1>2. CASE Bare(value)
  <2>1. q = value
    BY <1>2, QuotedOrBare
  <2>2. \A i \in 1 .. n : value[i] \notin White /\ value[i] # DQ /\ value[i] # SQ
    <3>1. \A i \in 1 .. n : value[i] \in ToSet(value)
      BY <1>1 DEF ToSet
    <3>2. \A x \in ToSet(value) : x \notin White /\ x # DQ /\ x # SQ
      BY <1>2 DEF Bare
    <3> QED BY <3>1, <3>2
  <2>3. n >= 1
    <3>1. value # <<>>
      BY <1>2 DEF Bare
    <3> QED BY <1>1, <3>1, EmptySeq
  <2>4. value \in Seq(X)
    <3>1. \A i \in 1 .. n : value[i] \in X
      BY <1>1, <2>2, NotWhite DEF ValueChars
    <3>2. PICK v : v = [i \in 1 .. n |-> value[i]]
      OBVIOUS
    <3>3. v \in Seq(X)
      BY <1>1, <3>1, <3>2
    <3>4. v = value
      BY <1>1, <3>2
    <3> QED BY <3>3, <3>4
  <2>5. 1 \in 1 .. n /\ n \in 1 .. n
    BY <1>1, <2>3
  <2>6. value[1] # DQ /\ value[1] # SQ /\ value[1] \notin White /\ value[n] \notin White
    BY <2>2, <2>5
  <2>7. unquote(value) = value
    BY <2>6, Zenon DEF unquote
  <2> QED BY <1>1, <1>2, <2>1, <2>4, <2>6, <2>7 DEF Bare
<1>3. CASE ~Bare(value)
  <2>1. q = QuoteIt(value)
    BY <1>3, QuotedOrBare
  <2>2. PICK flat : flat = FlattenSeq(Pieces(value)) /\ flat \in Seq(X)
    <3>1. Pieces(value) \in Seq(Seq(X))
      BY PiecesAre
    <3> QED BY <3>1, FlattenLays
  <2>3. PICK m : m = Len(flat) /\ m \in Nat
    BY <2>2, LenProperties
  <2>4. PICK d : d = <<DQ>>
    OBVIOUS
  <2>5. d \in Seq(X) /\ Len(d) = 1 /\ d[1] = DQ
    <3>1. DQ \in X
      BY DEF DQ, LF, ValueChars
    <3> QED BY <2>4, <3>1
  <2>6. PICK u : u = d \o flat /\ u \in Seq(X) /\ Follows(u, d, flat)
    BY <2>2, <2>5, Follow
  <2>7. q = u \o d
    BY <2>1, <2>2, <2>4, <2>6 DEF QuoteIt
  <2>8. q \in Seq(X) /\ Follows(q, u, d)
    BY <2>5, <2>6, <2>7, Follow
  <2>9. Len(u) = 1 + m /\ u[1] = DQ /\ \A j \in 1 .. m : u[1 + j] = flat[j]
    BY <2>3, <2>5, <2>6 DEF Follows
  <2>10. /\ Len(q) = (1 + m) + 1 /\ q[(1 + m) + 1] = DQ
         /\ \A i \in 1 .. 1 + m : q[i] = u[i]
    BY <2>5, <2>8, <2>9 DEF Follows
  <2>11. /\ Len(q) = m + 2 /\ Len(q) >= 2 /\ q[Len(q)] = DQ /\ q[1] = DQ /\ Len(q) - 1 = 1 + m
         /\ \A j \in 1 .. m : q[1 + j] = flat[j]
    <3>1. 1 \in 1 .. 1 + m /\ \A j \in 1 .. m : 1 + j \in 1 .. 1 + m
      BY <2>3
    <3>2. q[1] = DQ
      BY <2>9, <2>10, <3>1
    <3>3. \A j \in 1 .. m : q[1 + j] = flat[j]
      BY <2>9, <2>10, <3>1
    <3> QED BY <2>3, <2>10, <3>2, <3>3
  <2>12. SubSeq(q, 2, Len(q) - 1) = flat
    <3>1. 1 \in Nat /\ 1 + Len(flat) <= Len(q)
      BY <2>3, <2>11
    <3>2. \A j \in 1 .. Len(flat) : q[1 + j] = flat[j]
      BY <2>3, <2>11
    <3>3. SubSeq(q, 1 + 1, 1 + Len(flat)) = flat
      BY <2>2, <2>8, <3>1, <3>2, CutOut
    <3> QED BY <2>3, <2>11, <3>3
  <2>13. unquote(q) = unescape(flat)
    <3>1. Last(q) = DQ
      BY <2>11 DEF Last
    <3> QED BY <2>11, <2>12, <3>1 DEF unquote
  <2>14. unescape(flat) = value
    BY <2>2, UnescapesPieces
  <2>15. q # <<>>
    BY <2>3, <2>11
  <2> QED BY <2>8, <2>11, <2>13, <2>14, <2>15, NotWhite
<1> QED BY <1>2, <1>3

\* What the reader needs of a key; every key that validate.rs accepts is of this kind.
PlainKey(key) == key # <<>> /\ \A i \in DOMAIN key : key[i] \notin White \cup {"=", "#", Export}

LEMMA SecretKeysPlain == ASSUME NEW key, secret_key(key) PROVE PlainKey(key)
<1>1. key # <<>> /\ \A i \in DOMAIN key : key[i] \in LowerCase \cup UpperCase \cup Numerals \cup {"_", ".", "-"}
  BY DEF secret_key, ToSet
<1>2. ASSUME NEW c, c \in LowerCase \cup UpperCase \cup Numerals \cup {"_", ".", "-"}
      PROVE  c \notin White \cup {"=", "#", Export}
  <2>1. c \in LowerCase \cup UpperCase => c \notin White \cup {"=", "#", Export}
    BY DEF LowerCase, UpperCase, White, LF, CR, TAB, Export
  <2>2. c \in Numerals => c \notin White \cup {"=", "#", Export}
    BY DEF Numerals, White, LF, CR, TAB, Export
  <2>3. c \in {"_", ".", "-"} => c \notin White \cup {"=", "#", Export}
    BY DEF White, LF, CR, TAB, Export
  <2> QED BY <1>2, <2>1, <2>2, <2>3, Zenon
<1> QED BY <1>1, <1>2 DEF PlainKey

LineOf(pair) == pair.key \o <<"=">> \o dotenv_quote(pair.value)

\* The line written for a pair is one line, and is read as that pair.
LEMMA LineReadBack ==
    ASSUME NEW C, NEW pair \in [key : Seq(C), value : Seq(C)], PlainKey(pair.key),
           NEW X, X = LineChars(C),
           NEW line, line = LineOf(pair)
    PROVE  line \in Seq(X) /\ WholeLine(line) /\ read_line(line) = <<pair>>
<1>1. PICK key, value : key = pair.key /\ value = pair.value
  OBVIOUS
<1>2. key \in Seq(C) /\ value \in Seq(C) /\ PlainKey(key)
  BY <1>1
<1>3. PICK k : k = Len(key) /\ k \in Nat /\ k >= 1 /\ DOMAIN key = 1 .. k /\ \A i \in 1 .. k : key[i] \in C
  <2>1. key # <<>>
    BY <1>2 DEF PlainKey
  <2> QED BY <1>2, <2>1, LenProperties, EmptySeq
<1>4. \A i \in 1 .. k : key[i] \notin White /\ key[i] # "=" /\ key[i] # "#" /\ key[i] # Export
  BY <1>2, <1>3 DEF PlainKey
<1>5. key \in Seq(X)
  <2>1. \A i \in 1 .. k : key[i] \in X
    BY <1>3, <1>4, NotWhite DEF LineChars
  <2>2. PICK v : v = [i \in 1 .. k |-> key[i]]
    OBVIOUS
  <2>3. v \in Seq(X)
    BY <1>3, <2>1, <2>2
  <2>4. v = key
    BY <1>2, <1>3, <2>2
  <2> QED BY <2>3, <2>4
<1>6. PICK q : q = dotenv_quote(value)
  OBVIOUS
<1>7. /\ q \in Seq(X) /\ q # <<>> /\ q[1] \notin White /\ q[Len(q)] \notin White
      /\ unquote(q) = value
  <2>1. PICK Y : Y = ValueChars(C)
    OBVIOUS
  <2>2. /\ q \in Seq(Y) /\ q # <<>> /\ q[1] \notin White /\ q[Len(q)] \notin White
        /\ unquote(q) = value
    BY <1>2, <1>6, <2>1, QuoteReadBack
  <2>3. Y \subseteq X
    BY <2>1 DEF ValueChars, LineChars
  <2>4. q \in Seq(X)
    BY <2>2, <2>3, SeqMonotonic
  <2> QED BY <2>2, <2>4
<1>8. PICK m : m = Len(q) /\ m \in Nat /\ m >= 1
  BY <1>7, LenProperties, EmptySeq
<1>9. PICK e : e = <<"=">>
  OBVIOUS
<1>10. e \in Seq(X) /\ Len(e) = 1 /\ e[1] = "="
  <2>1. "=" \in X
    BY DEF LF, LineChars
  <2> QED BY <1>9, <2>1
<1>11. PICK u : u = key \o e /\ u \in Seq(X) /\ Follows(u, key, e)
  BY <1>5, <1>10, Follow
<1>12. line = u \o q
  BY <1>1, <1>6, <1>9, <1>11 DEF LineOf
<1>13. line \in Seq(X) /\ Follows(line, u, q)
  BY <1>7, <1>11, <1>12, Follow
<1>14. Len(u) = k + 1 /\ u[k + 1] = "=" /\ \A i \in 1 .. k : u[i] = key[i]
  BY <1>3, <1>10, <1>11 DEF Follows
<1>15. /\ Len(line) = (k + 1) + m /\ \A i \in 1 .. k + 1 : line[i] = u[i]
       /\ \A j \in 1 .. m : line[(k + 1) + j] = q[j]
  BY <1>8, <1>13, <1>14 DEF Follows
<1>16. /\ \A i \in 1 .. k : line[i] = key[i]
       /\ line[k + 1] = "=" /\ line[1] = key[1] /\ line[Len(line)] = q[m]
  <2>1. /\ \A i \in 1 .. k : i \in 1 .. k + 1
        /\ k + 1 \in 1 .. k + 1 /\ 1 \in 1 .. k /\ m \in 1 .. m
    BY <1>3, <1>8
  <2> QED BY <1>14, <1>15, <2>1
<1>17. line # <<>> /\ line[1] \notin White /\ line[Len(line)] \notin White
  <2>1. 1 \in 1 .. k
    BY <1>3
  <2>2. line # <<>>
    BY <1>3, <1>8, <1>15, EmptySeq
  <2> QED BY <1>4, <1>7, <1>8, <1>16, <2>1, <2>2
<1>18. WholeLine(line)
  <2>1. \A j \in DOMAIN line : line[j] # LF
    <3>1. \A j \in DOMAIN line : line[j] \in X
      BY <1>13
    <3> QED BY <3>1 DEF LineChars
  <2>2. Uncut(line) = line
    BY <1>17, NotWhite DEF Uncut, Last
  <2> QED BY <2>1, <2>2 DEF WholeLine
<1>19. trim(line) = line /\ trim(key) = key /\ trim(q) = q
  <2>1. trim(line) = line
    BY <1>13, <1>17, TrimSolid
  <2>2. key # <<>> /\ key[1] \notin White /\ key[Len(key)] \notin White
    <3>1. 1 \in 1 .. k /\ k \in 1 .. k
      BY <1>3
    <3> QED BY <1>2, <1>3, <1>4, <3>1 DEF PlainKey
  <2>3. trim(key) = key
    BY <1>5, <2>2, TrimSolid
  <2>4. trim(q) = q
    BY <1>7, TrimSolid
  <2> QED BY <2>1, <2>3, <2>4
<1>20. Before(line, "=") = key
  <2>1. k + 1 <= Len(line) /\ \A j \in 1 .. k : line[j] # "="
    BY <1>3, <1>4, <1>8, <1>15, <1>16
  <2>2. Before(line, "=") = SubSeq(line, 1, k)
    <3>1. PICK c : c = "="
      OBVIOUS
    <3>2. line \in Seq(X) /\ k \in Nat /\ line[k + 1] = c /\ \A j \in 1 .. k : line[j] # c
      BY <1>3, <1>13, <1>16, <2>1, <3>1
    <3>3. Before(line, c) = SubSeq(line, 1, k)
      BY <2>1, <3>2, BeforeFirst
    <3> QED BY <3>1, <3>3
  <2>3. 0 \in Nat /\ 0 + Len(key) <= Len(line) /\ \A j \in 1 .. Len(key) : line[0 + j] = key[j]
    BY <1>3, <1>16, <2>1
  <2>4. SubSeq(line, 0 + 1, 0 + Len(key)) = key
    BY <1>5, <1>13, <2>3, CutOut
  <2> QED BY <1>3, <2>2, <2>4
<1>21. SubSeq(line, Len(key) + 2, Len(line)) = q
  <2>4. PICK a : a = k + 1
    OBVIOUS
  <2>1. a = k + 1 /\ a \in Nat /\ a + 1 = Len(key) + 2 /\ a + Len(q) = Len(line)
    <3>1. a \in Nat /\ a + 1 = k + 2
      BY <1>3, <2>4
    <3> QED BY <1>3, <1>8, <1>15, <2>4, <3>1
  <2>2. a + Len(q) <= Len(line) /\ \A j \in 1 .. Len(q) : line[a + j] = q[j]
    BY <1>3, <1>8, <1>15, <2>1
  <2>3. SubSeq(line, a + 1, a + Len(q)) = q
    BY <1>7, <1>13, <2>1, <2>2, CutOut
  <2> QED BY <2>1, <2>3
<1>22. line[1] # Export /\ line[1] # "#" /\ key # line /\ key # <<>>
  <2>1. 1 \in 1 .. k
    BY <1>3
  <2>2. Len(key) # Len(line)
    BY <1>3, <1>8, <1>15
  <2> QED BY <1>2, <1>4, <1>16, <2>1, <2>2 DEF PlainKey
<1>23. read_line(line) = <<[key |-> key, value |-> value]>>
  BY <1>7, <1>17, <1>19, <1>20, <1>21, <1>22, Zenon DEF read_line
<1>24. pair = [key |-> key, value |-> value]
  BY <1>1
<1> QED BY <1>13, <1>18, <1>23, <1>24

\* Any number of secrets, with any keys that validate.rs accepts and any values whatever,
\* are read back by lsec import from the text that lsec export wrote: no value ends its
\* line, swallows the next one or loses an escape.
THEOREM EveryExportImports ==
    ASSUME NEW C, NEW pairs \in Seq([key : Seq(C), value : Seq(C)]),
           \A i \in DOMAIN pairs : secret_key(pairs[i].key)
    PROVE  parse_dotenv(export_text(pairs)) = pairs
<1>1. PICK n : n = Len(pairs) /\ n \in Nat /\ DOMAIN pairs = 1 .. n
  BY LenProperties
<1>2. PICK X : X = LineChars(C)
  OBVIOUS
<1>3. ASSUME NEW i \in 1 .. n
      PROVE  /\ LineOf(pairs[i]) \in Seq(X) /\ WholeLine(LineOf(pairs[i]))
             /\ read_line(LineOf(pairs[i])) = <<pairs[i]>>
  <2>1. PICK pair, line : pair = pairs[i] /\ line = LineOf(pair)
    OBVIOUS
  <2>2. pair \in [key : Seq(C), value : Seq(C)]
    <3>1. PICK R : R = [key : Seq(C), value : Seq(C)]
      OBVIOUS
    <3>2. pairs \in Seq(R)
      BY <3>1
    <3>3. pairs[i] \in R
      BY <1>1, <3>2, ElementOfSeq
    <3> QED BY <2>1, <3>1, <3>3
  <2>3. PlainKey(pair.key)
    BY <1>1, <2>1, SecretKeysPlain
  <2>4. line \in Seq(X) /\ WholeLine(line) /\ read_line(line) = <<pair>>
    BY <1>2, <2>1, <2>2, <2>3, LineReadBack
  <2> QED BY <2>1, <2>4
<1>4. PICK Y : Y = X \cup {LF}
  OBVIOUS
<1>5. PICK L : L = [i \in 1 .. n |-> LineOf(pairs[i])]
  OBVIOUS
<1>6. L \in Seq(Seq(Y)) /\ DOMAIN L = 1 .. n
  <2>1. X \subseteq Y
    BY <1>4
  <2>2. \A i \in 1 .. n : LineOf(pairs[i]) \in Seq(Y)
    BY <1>3, <2>1, SeqMonotonic
  <2> QED BY <1>1, <1>5, <2>2
<1>7. lines(FlattenSeq(Ended(L))) = L
  <2>1. LF \in Y
    BY <1>4
  <2>2. \A i \in DOMAIN L : WholeLine(L[i])
    BY <1>3, <1>5, <1>6
  <2> QED BY <1>6, <2>1, <2>2, LinesReadBack
<1>8. export_text(pairs) = FlattenSeq(Ended(L))
  <2>1. Ended(L) = [i \in 1 .. n |-> LineOf(pairs[i]) \o <<LF>>]
    BY <1>5, <1>6 DEF Ended
  <2>2. export_text(pairs) = FlattenSeq([i \in DOMAIN pairs |-> LineOf(pairs[i]) \o <<LF>>])
    BY Zenon DEF export_text, LineOf
  <2> QED BY <1>1, <2>1, <2>2
<1>9. parse_dotenv(export_text(pairs)) = FlattenSeq([k \in DOMAIN L |-> read_line(L[k])])
  BY <1>7, <1>8 DEF parse_dotenv
<1>10. [k \in DOMAIN L |-> read_line(L[k])] = [k \in DOMAIN pairs |-> <<pairs[k]>>]
  <2>1. \A k \in 1 .. n : read_line(L[k]) = <<pairs[k]>>
    BY <1>3, <1>5
  <2> QED BY <1>1, <1>6, <2>1
<1>11. FlattenSeq([k \in DOMAIN pairs |-> <<pairs[k]>>]) = pairs
  BY FlattenOnes
<1> QED BY <1>9, <1>10, <1>11

\* In every behaviour of the input machine the exported text is imported as the pairs
\* that were written.
THEOREM AlwaysExportImports == Spec => []ExportImports
<1>1. TextIsPieces => ExportImports
  <2> SUFFICES ASSUME TextIsPieces, codec = "dotenv"
               PROVE  parse_dotenv(export_text(Exported(text))) = Exported(text)
    BY DEF ExportImports
  <2>1. PICK C : C = Alphabet.dotenv \cup {"a", "f"}
    OBVIOUS
  <2>2. text \in Seq(C)
    <3>1. text \in Seq(Alphabet.dotenv)
      BY DEF TextIsPieces, Growing
    <3>2. Alphabet.dotenv \subseteq C
      BY <2>1
    <3> QED BY <3>1, <3>2, SeqMonotonic
  <2>3. PICK a, f : a = <<"a">> /\ f = <<"f">>
    OBVIOUS
  <2>4. a \in Seq(C) /\ f \in Seq(C)
    BY <2>1, <2>3
  <2>5. secret_key(a) /\ secret_key(f)
    <3>1. a # <<>> /\ f # <<>>
      BY <2>3
    <3>2. ToSet(a) = {"a"} /\ ToSet(f) = {"f"}
      <4>1. DOMAIN a = {1} /\ DOMAIN f = {1} /\ a[1] = "a" /\ f[1] = "f"
        BY <2>3
      <4> QED BY <4>1 DEF ToSet
    <3>3. {"a"} \subseteq LowerCase /\ {"f"} \subseteq LowerCase
      BY DEF LowerCase
    <3> QED BY <3>1, <3>2, <3>3 DEF secret_key
  <2>6. PICK x, y, pairs : /\ x = [key |-> a, value |-> text] /\ y = [key |-> f, value |-> f]
                           /\ pairs = <<x, y>>
    OBVIOUS
  <2>7. pairs = Exported(text)
    BY <2>3, <2>6 DEF Exported
  <2>8. pairs \in Seq([key : Seq(C), value : Seq(C)])
    <3>1. PICK R : R = [key : Seq(C), value : Seq(C)]
      OBVIOUS
    <3>2. x \in R /\ y \in R
      BY <2>2, <2>4, <2>6, <3>1
    <3>3. pairs \in Seq(R)
      BY <2>6, <3>2
    <3> QED BY <3>1, <3>3
  <2>9. \A i \in DOMAIN pairs : secret_key(pairs[i].key)
    <3>1. DOMAIN pairs = 1 .. 2 /\ pairs[1] = x /\ pairs[2] = y
      BY <2>6
    <3>2. x.key = a /\ y.key = f
      BY <2>6
    <3>3. \A i \in 1 .. 2 : i = 1 \/ i = 2
      OBVIOUS
    <3> QED BY <2>5, <3>1, <3>2, <3>3
  <2>10. parse_dotenv(export_text(pairs)) = pairs
    BY <2>8, <2>9, EveryExportImports
  <2> QED BY <2>7, <2>10
<1> QED BY <1>1, TextStaysPieces, PTL

=============================================================================
