------------------------------ MODULE Calendar ------------------------------
(***************************************************************************)
(* Timestamps (ls-core time.rs).  A moment is a day since 1970-01-01 and a   *)
(* second of that day, which is how the code takes its seconds apart before  *)
(* it writes them (div_euclid, rem_euclid); the product of the two would not *)
(* fit TLC's integers.  The written form keeps its digits.                  *)
(***************************************************************************)
EXTENDS Integers, Sequences

DaySeconds == 86400
MinMoment == [day |-> -719528, second |-> 0]              \* 0000-01-01T00:00:00Z
MaxMoment == [day |-> 2932896, second |-> DaySeconds - 1]   \* 9999-12-31T23:59:59Z
None == <<>>       \* Option: nothing, or <<x>>
Other == 10        \* a character that is no digit; digits are 0 .. 9

\* Mutant: the division rounds down
QuotientDown(a, b) == a \div b

\* Rust's `/` on signed integers rounds towards zero.
Quotient(a, b) == IF a >= 0 THEN a \div b ELSE -((-a) \div b)

Earlier(a, b) == a.day < b.day \/ (a.day = b.day /\ a.second < b.second)

\* held inside what the written form can express
from_unix(m) ==
    IF Earlier(m, MinMoment) THEN MinMoment
    ELSE IF Earlier(MaxMoment, m) THEN MaxMoment ELSE m

is_leap_year(year) == (year % 4 = 0 /\ year % 100 # 0) \/ year % 400 = 0

days_in_month(year, month) ==
    CASE month \in {1, 3, 5, 7, 8, 10, 12} -> 31
      [] month \in {4, 6, 9, 11} -> 30
      [] month = 2 -> IF is_leap_year(year) THEN 29 ELSE 28
      [] OTHER -> 0

\* the year is shifted to begin in March
days_from_civil(y, month, day) ==
    LET year == IF month <= 2 THEN y - 1 ELSE y
        era == Quotient(IF year >= 0 THEN year ELSE year - 399, 400)
        yearOfEra == year - era * 400
        dayOfYear == (153 * (month + (IF month > 2 THEN -3 ELSE 9)) + 2) \div 5 + day - 1
        dayOfEra == yearOfEra * 365 + yearOfEra \div 4 - yearOfEra \div 100 + dayOfYear
    IN era * 146097 + dayOfEra - 719468

civil_from_days(d) ==
    LET days == d + 719468
        era == Quotient(IF days >= 0 THEN days ELSE days - 146096, 146097)
        dayOfEra == days - era * 146097
        yearOfEra == (dayOfEra - dayOfEra \div 1460 + dayOfEra \div 36524
                        - dayOfEra \div 146096) \div 365
        dayOfYear == dayOfEra - (365 * yearOfEra + yearOfEra \div 4 - yearOfEra \div 100)
        shifted == (5 * dayOfYear + 2) \div 153
        month == shifted + (IF shifted < 10 THEN 3 ELSE -9)
    IN [year |-> yearOfEra + era * 400 + (IF month <= 2 THEN 1 ELSE 0), month |-> month,
        day |-> dayOfYear - (153 * shifted + 2) \div 5 + 1]

-----------------------------------------------------------------------------
(* The written form, YYYY-MM-DDTHH:MM:SSZ: its six numbers, as written. *)

Digit(n, place) == (n \div 10^place) % 10

\* a number padded to a width: a larger one is written in full, a negative one has a sign
Padded(n, width) ==
    LET places == IF n >= 10^width THEN width + 1 ELSE width
        digits == [i \in 1 .. places |-> Digit(IF n < 0 THEN -n ELSE n, places - i)]
    IN IF n < 0 THEN [digits EXCEPT ![1] = Other] ELSE digits

to_rfc3339(m) ==
    LET date == civil_from_days(m.day)
    IN <<Padded(date.year, 4), Padded(date.month, 2), Padded(date.day, 2),
         Padded(m.second \div 3600, 2), Padded((m.second % 3600) \div 60, 2),
         Padded(m.second % 60, 2)>>

\* a fixed-width run of digits; a sign is no digit
number(text) ==
    LET value[i \in 0 .. Len(text)] == IF i = 0 THEN 0 ELSE 10 * value[i - 1] + text[i]
    IN IF \E i \in DOMAIN text : text[i] = Other THEN None ELSE <<value[Len(text)]>>

parse_rfc3339(text) ==
    LET Fits == \A i \in 1 .. 6 :
                   Len(text[i]) = (IF i = 1 THEN 4 ELSE 2) /\ number(text[i]) # None
        n == [i \in 1 .. 6 |-> number(text[i])[1]]
        Valid == /\ n[2] \in 1 .. 12
                 /\ n[3] >= 1 /\ n[3] <= days_in_month(n[1], n[2])
                 /\ n[4] <= 23 /\ n[5] <= 59 /\ n[6] <= 59
    IN IF ~Fits \/ ~Valid THEN None
       ELSE <<[day |-> days_from_civil(n[1], n[2], n[3]),
               second |-> n[4] * 3600 + n[5] * 60 + n[6]]>>

=============================================================================
