------------------------------- MODULE MCRtc -------------------------------
(* Instances of Rtc for the model checker: the time main sets; times two     *)
(* seconds before the 29 February that only the chip has (2025) and the one  *)
(* that only the civil calendar has (2028); a chip as delivered, and one     *)
(* whose hour is about to carry.                                             *)
EXTENDS Rtc

MCSetTimes  == {1734521409, 1740787198, 1835395198}
MainSetTime == {1734521409}
MCChipTimes == {0, 39598}
=============================================================================
