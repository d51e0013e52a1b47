----------------------------- MODULE ScmService -----------------------------
(***************************************************************************)
(* A Windows service as the service control manager (SCM) shows it to      *)
(* everybody else: the state QueryServiceStatus answers, and the state the *)
(* control under way is to lead to.  ServiceWatchdog implements it, and    *)
(* ServiceControl is built on it.                                          *)
(***************************************************************************)
VARIABLES state,  \* what QueryServiceStatus answers
          goal    \* what the control under way leads to, or "none"

scm == <<state, goal>>

State == {"STOPPED", "START_PENDING", "RUNNING", "STOP_PENDING",
          "PAUSE_PENDING", "PAUSED"}
Goal  == {"STOPPED", "RUNNING", "PAUSED"}

Init == state = "STOPPED" /\ goal = "none"

StartService ==
    /\ state = "STOPPED" /\ goal = "none"
    /\ state' = "START_PENDING"
    /\ UNCHANGED goal

Started ==
    /\ state = "START_PENDING"
    /\ state' = "RUNNING"
    /\ UNCHANGED goal

\* ControlService: one control at a time, to a service that runs or pauses.
Send(g) ==
    /\ state \in {"RUNNING", "PAUSED"} /\ goal = "none"
    /\ goal' = g
    /\ UNCHANGED state

Pending ==
    /\ goal # "none" /\ state \in {"RUNNING", "PAUSED"}
    /\ state' = IF goal = "STOPPED" THEN "STOP_PENDING" ELSE "PAUSE_PENDING"
    /\ UNCHANGED goal

\* The service reports that it stopped while the control is still under way.
StopsEarly ==
    /\ goal = "STOPPED"
    /\ state' = "STOPPED"
    /\ UNCHANGED goal

\* The control is done when the service is in the state it asked for.
Finish ==
    /\ goal # "none"
    /\ state' = goal
    /\ goal' = "none"

Next ==
    \/ StartService \/ Started
    \/ \E g \in Goal : Send(g)
    \/ Pending \/ StopsEarly \/ Finish

Spec == Init /\ [][Next]_scm

\* A start and a control come to their end.
FairSpec == Spec /\ WF_scm(Started) /\ WF_scm(Finish)
=============================================================================
