----------------------------- MODULE MCSchedule -----------------------------
(* Instance of Schedule for TLC: a day of 16 ticks whose hours 4 and 5 the   *)
(* clock change skips or repeats.                                            *)
EXTENDS Schedule

CONSTANT Hours   \* where windows may start and end

W(s, e)   == [start |-> s, end |-> e]
MCHard    == W(3, 14)
MCDefault == W(3, 14)
MCWindows == {W(s, e) : s \in Hours, e \in Hours} \ {W(s, s) : s \in Hours}
=============================================================================
