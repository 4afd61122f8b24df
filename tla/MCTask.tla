------------------------------- MODULE MCTask -------------------------------
(* Small instance of the scheduler: kstart's two tasks plus one more of     *)
(* each priority, so that both ready lists can hold several tasks.          *)
EXTENDS Task

MCStart == << [func |-> userland_main,  priority |-> TASK_PRIORITY_HIGH],
              [func |-> task_idle_main, priority |-> TASK_PRIORITY_LOW],
              [func |-> userland_main,  priority |-> TASK_PRIORITY_HIGH],
              [func |-> userland_main,  priority |-> TASK_PRIORITY_LOW] >>
=============================================================================
