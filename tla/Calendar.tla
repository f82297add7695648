------------------------------ MODULE Calendar ------------------------------
(***************************************************************************)
(* Calendar dates: canonical_date (domain/contract_models.py),             *)
(* resolve_calendar_date (domain/services/duedate_service.py) and as much  *)
(* of Python's datetime as they use.  A date is a record of year, month    *)
(* and day.  An authored value is a date or an amount of days or months    *)
(* after the base date; an amount is the sequence of its decimal digits.   *)
(*                                                                         *)
(* Definitions marked "Faulty" are no part of the specification.           *)
(***************************************************************************)
EXTENDS Naturals, Sequences, SequencesExt

Date(y, m, d) == [y |-> y, m |-> m, d |-> d]

Leap(y) == y % 4 = 0 /\ (y % 100 # 0 \/ y % 400 = 0)

\* calendar.monthrange
MonthLength(y, m) ==
  IF m = 2 THEN (IF Leap(y) THEN 29 ELSE 28) ELSE IF m \in {4, 6, 9, 11} THEN 30 ELSE 31

\* datetime.MINYEAR to datetime.MAXYEAR
Years == 1 .. 9999

IsDate(date) ==
  /\ date.y \in Years
  /\ date.m \in 1 .. 12
  /\ date.d \in 1 .. MonthLength(date.y, date.m)

MinDate == Date(1, 1, 1)
MaxDate == Date(9999, 12, 31)

\* date.toordinal
DaysBeforeYear(y) == 365 * (y - 1) + (y - 1) \div 4 - (y - 1) \div 100 + (y - 1) \div 400
DaysBeforeMonth(y, m) ==
  <<0, 31, 59, 90, 120, 151, 181, 212, 243, 273, 304, 334>>[m] + IF m > 2 /\ Leap(y) THEN 1 ELSE 0
Ordinal(date) == DaysBeforeYear(date.y) + DaysBeforeMonth(date.y, date.m) + date.d

\* date.fromordinal
FromOrdinal(n) ==
  LET y == CHOOSE k \in (n \div 366) .. (n \div 365 + 1) :
             k > 0 /\ DaysBeforeYear(k) < n /\ n <= DaysBeforeYear(k + 1)
      r == n - DaysBeforeYear(y)
      m == CHOOSE k \in 1 .. 12 :
             DaysBeforeMonth(y, k) < r /\ r <= DaysBeforeMonth(y, k) + MonthLength(y, k)
  IN  Date(y, m, r - DaysBeforeMonth(y, m))

NotAfter(a, b) == Ordinal(a) <= Ordinal(b)

-----------------------------------------------------------------------------
\* A number written in decimal, and read.
Digits(n) ==
  LET written[k \in 0 .. n] == IF k < 10 THEN <<k>> ELSE Append(written[k \div 10], k % 10)
  IN  written[n]
Amount(digits) ==
  LET value[i \in 0 .. Len(digits)] == IF i = 0 THEN 0 ELSE 10 * value[i - 1] + digits[i]
  IN  value[Len(digits)]

\* digits.lstrip("0") or "0"
Stripped(digits) ==
  IF \A i \in DOMAIN digits : digits[i] = 0 THEN <<0>>
  ELSE LET first == CHOOSE i \in DOMAIN digits :
                      digits[i] # 0 /\ \A j \in 1 .. (i - 1) : digits[j] = 0
       IN  SubSeq(digits, first, Len(digits))

\* Strings compare at the first character in which they differ.
Above(a, b) ==
  \E i \in DOMAIN a \cap DOMAIN b : a[i] > b[i] /\ \A j \in 1 .. (i - 1) : a[j] = b[j]

Limit(unit) == IF unit = "d" THEN Ordinal(MaxDate) - Ordinal(MinDate) ELSE 9999 * 12 - 1

\* canonical_date: the amounts it refuses, compared as strings.
ExceedsLimit(digits, unit) ==
  LET amount == Stripped(digits)  limit == Digits(Limit(unit))
  IN  Len(amount) > Len(limit) \/ (Len(amount) = Len(limit) /\ Above(amount, limit))

Canonical(value) ==
  IF value.unit = "date" THEN IsDate(value.date) ELSE ~ExceedsLimit(value.digits, value.unit)

-----------------------------------------------------------------------------
\* Faulty: months are counted from one.
MonthsFromOne(base, n) ==
  LET offset == base.y * 12 + base.m + n
      y == offset \div 12  m == offset % 12
  IN  Date(y, m, IF base.d < MonthLength(y, m) THEN base.d ELSE MonthLength(y, m))

\* The same day of the n-th month, or that month's last.
MonthsLater(base, n) ==
  LET offset == base.y * 12 + base.m - 1 + n
      y == offset \div 12  m == (offset % 12) + 1
  IN  Date(y, m, IF base.d < MonthLength(y, m) THEN base.d ELSE MonthLength(y, m))

RemainingMonths(base) == (9999 - base.y) * 12 + 12 - base.m

\* resolve_calendar_date: whether it raises, and what it returns.
Raises(value, bases) ==
  \/ ~Canonical(value)
  \/ value.unit # "date" /\ bases = {}
  \/ value.unit = "d" /\ \E b \in bases : Amount(value.digits) > Ordinal(MaxDate) - Ordinal(b)
  \/ value.unit = "m" /\ \E b \in bases : Amount(value.digits) > RemainingMonths(b)

ResolveDate(value, bases) ==
  CASE value.unit = "date" -> value.date
    [] value.unit = "d" -> FromOrdinal(Ordinal(CHOOSE b \in bases : TRUE) + Amount(value.digits))
    [] value.unit = "m" -> MonthsLater(CHOOSE b \in bases : TRUE, Amount(value.digits))
=============================================================================
