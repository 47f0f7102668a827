-------------------------- MODULE MCRateAdaptation --------------------------
EXTENDS RateAdaptation
Ladder == <<45, 89, 131, 178, 221, 263, 334, 396>>
Bound == [a \in Algorithms |-> CASE a = "FDASH" -> 17 [] a = "SVAA" -> 14 [] OTHER -> 22]
Changes == [a \in Algorithms |-> IF a = "FDASH" THEN 1 ELSE 2]
=============================================================================
