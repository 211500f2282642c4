--------------------------- MODULE SessionLifecycle ---------------------------
(***************************************************************************)
(* realtime/state_machine.py: the declared life of an interview session.   *)
(* CONFIGURING and PLANNING belong to the plan, which is READY before a    *)
(* session row exists; no code path in the repository stores FAILED, which *)
(* is kept because the table declares it.                                  *)
(***************************************************************************)

Statuses == {"ready", "interviewing", "paused", "completing", "completed",
             "evaluating", "failed"}

\* ALLOWED_TRANSITIONS, as the set of successors of a status.
AllowedTransitions ==
    [ s \in Statuses |->
        CASE s = "ready"        -> {"interviewing", "failed"}
          [] s = "interviewing" -> {"paused", "completing", "failed"}
          [] s = "paused"       -> {"interviewing", "completing", "failed"}
          [] s = "completing"   -> {"completed", "failed"}
          [] s = "completed"    -> {"evaluating"}
          [] s = "evaluating"   -> {"completed", "failed"}
          [] s = "failed"       -> {} ]

\* ensure_transition(current, target): raises an AppError when this is false.
CanMove(current, target) == target \in AllowedTransitions[current]
=============================================================================
