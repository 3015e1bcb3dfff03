------------------------------ MODULE MC_Clock ------------------------------
(* Model-checking instance of Clock: two seconds, with tv_nsec at the     *)
(* boundaries of each unit (a microsecond and a millisecond just reached  *)
(* or just missed, the last nanosecond of a second).                      *)
EXTENDS Clock

MCNsecs == {0, 999, 1000, 999999, 1000000, 999999999}
=============================================================================
