---------------------------- MODULE MCLockSchedule ----------------------------
(* LockSchedule with two buttons and weeks of two days of four minutes: a  *)
(* window within the day, one over midnight, one that is the whole day,    *)
(* and one a message may not ask for.                                      *)
EXTENDS LockSchedule

Windows ==
    {[start_t_min |-> 1, stop_t_min |-> 3, active_day |-> {0}],
     [start_t_min |-> 3, stop_t_min |-> 1, active_day |-> {0, 1}],
     [start_t_min |-> 2, stop_t_min |-> 2, active_day |-> {1}],
     [start_t_min |-> 0, stop_t_min |-> 4, active_day |-> {0, 1}]}

=============================================================================
