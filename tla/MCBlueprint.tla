---------------------------- MODULE MCBlueprint ----------------------------
(* Blueprint for TLC: what its users set.                                  *)
EXTENDS Blueprint

\* Three settings, such as three schedules.
Schedules == <<"daily", "hourly", "weekly">>

\* Suspend is set and unset again.
Suspensions == <<FALSE, TRUE, FALSE>>
=============================================================================
