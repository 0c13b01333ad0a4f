----------------------------- MODULE MCCalendar -----------------------------
EXTENDS Calendar

(* Zones behind, at and ahead of UTC whose clocks go forward or back by an *)
(* hour, at each hour of a day in the middle of the strip.                 *)
Zoned == {[before |-> b, after |-> b + s, change |-> c] :
            b \in -4..4, s \in {-1, 1}, c \in 40..56}

(* Months of four, five, three and four days.                              *)
Starts == <<0, 4, 9, 12, 16>>

(* Two days more on either side than any view shows of these months.       *)
Strip == -16..144
=============================================================================
