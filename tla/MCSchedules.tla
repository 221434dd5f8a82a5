---------------------------- MODULE MCSchedules -----------------------------
(* Model checking Schedules: repeating reminders of two ticks, two         *)
(* schedules created in the first two ticks, a clock that runs long enough *)
(* for an occurrence to be missed, and two troubles.                       *)
EXTENDS Schedules
=============================================================================
