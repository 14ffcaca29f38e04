------------------------------ MODULE MCFiles ------------------------------
EXTENDS Files

(* January 30 and 31, and March 31: the clock can change to the same day of *)
(* another month.                                                           *)
MCMonthOf == <<"jan", "jan", "mar">>
MCMDayOf == <<30, 31, 31>>
==============================================================================
