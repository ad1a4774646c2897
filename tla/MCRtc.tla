------------------------------- MODULE MCRtc -------------------------------
(* Small instances of Rtc for TLC.                                         *)
EXTENDS Rtc

\* New Year's Eve and the day after.
MCDates == <<[year |-> 20, month |-> 12, day |-> 31], [year |-> 21, month |-> 1, day |-> 1]>>
=============================================================================
