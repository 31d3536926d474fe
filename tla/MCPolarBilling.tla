--------------------------- MODULE MCPolarBilling ---------------------------
(* One subscription.  The annual one has a period of two months instead of
   twelve: a month 0, an anniversary, and a boundary with the next period.
   The monthly one has a period of one month, and no anniversaries.        *)
EXTENDS PolarBilling

CONSTANTS annual, monthly, h1, h2, i1, i2

(* Up to and including the claim's commit, which is all or nothing.        *)
BeforeClaim == {"exists", "claim"}
Anywhere == BeforeClaim \cup {"match", "grant", "upsert"}

OneAnnual == {annual}
OneMonthly == {monthly}
(* The days around the end and the beginning of every month, in two years
   that follow a leap year and in the leap year.                           *)
MonthEnds == {d \in Dates({2028, 2029}) : d.day >= 27 \/ d.day <= 2}

(* The last days of every month of a year.                                *)
LateDays == {d \in Dates({2028}) : d.day >= 28}

MCPeriodOf == [s \in Subs |-> IF s = annual THEN 2 ELSE 1]
=============================================================================
