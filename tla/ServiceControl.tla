--------------------------- MODULE ServiceControl ---------------------------
(***************************************************************************)
(* The tools that install, start, stop and remove the watchdog service, of *)
(* which they see what module ScmService shows:                            *)
(*   "dialog"  InstanceConfig/InstanceConfigDlg.cpp, whose buttons call    *)
(*             KService (third/include/KService.cpp) and are enabled and   *)
(*             disabled by the results it returns                          *)
(*   "setup"   wx_kk_service.exe -install and -uninstall                   *)
(* A tool is a sequence of calls of the SCM, and between two of them the   *)
(* service moves, the other tool acts, and so does an administrator with   *)
(* the tools of Windows.  Any call may fail.                               *)
(***************************************************************************)
EXTENDS ScmService, Naturals

CONSTANTS PollLimit,  \* a tool polls at most this often, and once more
          MaxJobs,    \* bound of the model on what is asked of the tools
          MaxActs     \* bound of the model on what administrators do

ASSUME ControlAssumption == PollLimit \in Nat /\ MaxJobs \in Nat /\ MaxActs \in Nat

VARIABLES installed,  \* the entry of the service in the SCM: "no", "yes",
                      \* or "marked" for deletion
          pc, job,    \* of each tool: the call it makes next, and for what
          seen,       \* ... status.dwCurrentState as a wait last read it
          times,      \* ... how often it polled
          ok,         \* ... whether its result is 0 (TRUE for "setup")
          trouble,    \* ... since it last looked somebody else acted, a call
                      \*     of its own failed, or its polls ran out (history)
          buttons,    \* the buttons of the dialog that are enabled
          jobs, acts  \* how much was asked of the tools; acts of administrators

record == <<seen, times>>
entry  == <<scm, installed>>
shown  == <<buttons, jobs, acts>>
vars   == <<entry, pc, job, record, ok, trouble, shown>>

Tool   == {"dialog", "setup"}
Button == {"install", "uninstall", "start", "stop"}
Jobs(t) == IF t = "dialog" THEN Button \cup {"refresh"} ELSE {"install", "uninstall"}

\* Nothing is under way in the service.
Quiet == goal = "none" /\ state \in {"STOPPED", "RUNNING", "PAUSED"} /\ installed # "marked"

\* UpdateStatus: the buttons for a service of which this much was seen.
ButtonsFor(exists, s) ==
    IF ~exists THEN {"install"}
    ELSE CASE s = "RUNNING" -> {"uninstall", "stop"}
           [] s = "STOPPED" -> {"uninstall", "start"}
           [] OTHER         -> {"uninstall"}

TypeOK ==
    /\ state \in State /\ goal \in Goal \cup {"none"}
    /\ installed \in {"no", "yes", "marked"}
    /\ pc \in [Tool -> {"idle", "open", "query", "control", "sent", "poll", "delete",
                        "start", "await", "create", "describe", "return",
                        "exists", "state"}]
    /\ job \in [Tool -> Jobs("dialog")]
    /\ seen \in [Tool -> State]
    /\ times \in [Tool -> 0..PollLimit + 1]
    /\ ok \in [Tool -> BOOLEAN] /\ trouble \in [Tool -> BOOLEAN]
    /\ buttons \subseteq Button
    /\ jobs \in 0..MaxJobs /\ acts \in 0..MaxActs

CInit ==
    /\ Init
    /\ installed \in {"no", "yes"}
    /\ pc = [t \in Tool |-> "idle"]
    /\ job = [t \in Tool |-> "install"]
    /\ seen = [t \in Tool |-> "STOPPED"]
    /\ times = [t \in Tool |-> 0]
    /\ ok = [t \in Tool |-> TRUE]
    /\ trouble = [t \in Tool |-> FALSE]
    /\ buttons = ButtonsFor(installed = "yes", "STOPPED")
    /\ jobs = 0 /\ acts = 0

-----------------------------------------------------------------------------
(* How a tool goes on.                                                     *)

Go(t, from, to) == pc[t] = from /\ pc' = [pc EXCEPT ![t] = to]

\* Tool t, or for "nobody" an administrator, changed something at the SCM.
Disturb(t) ==
    trouble' = [o \in Tool |-> trouble[o] \/ (o # t /\ (o = "dialog" \/ pc[o] # "idle"))]

\* Tool t has a reason for not knowing the truth if b.
Excuse(t, b) == trouble' = [trouble EXCEPT ![t] = @ \/ b]

\* The tool returns result r.
Result(t, from, r) == Go(t, from, "return") /\ ok' = [ok EXCEPT ![t] = r]

\* The service is not in the state waited for: `lRet = GetLastError()' after
\* calls that succeeded, any value, in KService; FALSE in wx_service.
GiveUp(t, from) == \E r \in BOOLEAN : (t = "setup" => ~r) /\ Result(t, from, r)

\* What is asked of a tool.
Begin(t, j) ==
    /\ jobs < MaxJobs /\ jobs' = jobs + 1
    /\ j \in Jobs(t)
    /\ t = "dialog" /\ j # "refresh" => j \in buttons
    /\ Go(t, "idle", CASE j = "install" -> "create"
                       [] j = "refresh" -> "exists"
                       [] OTHER         -> "open")
    /\ job' = [job EXCEPT ![t] = j]
    /\ trouble' = IF j = "refresh" THEN [trouble EXCEPT ![t] = ~Quiet] ELSE trouble
    /\ UNCHANGED <<entry, record, ok, buttons, acts>>

-----------------------------------------------------------------------------
(* The calls.                                                              *)

\* OpenService.
Open(t) ==
    /\ IF installed = "no" THEN Result(t, "open", FALSE)
       ELSE /\ Go(t, "open", IF t = "setup" THEN "control" ELSE "query")
            /\ UNCHANGED ok
    /\ UNCHANGED <<entry, job, record, trouble, shown>>

\* Mutation of Query: UnInstall deletes what does not run, also if it is paused.
DeleteUnlessRunning(t) ==
    /\ IF job[t] = "start"
       THEN IF state = "STOPPED" THEN Go(t, "query", "start") /\ UNCHANGED ok
            ELSE Result(t, "query", TRUE)
       ELSE /\ Go(t, "query", IF job[t] = "stop" \/ state = "RUNNING" THEN "control" ELSE "delete")
            /\ UNCHANGED ok
    /\ UNCHANGED <<entry, job, record, trouble, shown>>

\* KService looks at the status before it does anything.
Query(t) ==
    /\ IF job[t] = "start"
       THEN IF state = "STOPPED" THEN Go(t, "query", "start") /\ UNCHANGED ok
            ELSE Result(t, "query", TRUE)
       ELSE IF job[t] = "stop" \/ state = "RUNNING"
       THEN Go(t, "query", "control") /\ UNCHANGED ok
       ELSE IF state = "STOPPED" THEN Go(t, "query", "delete") /\ UNCHANGED ok
       ELSE GiveUp(t, "query")
    /\ Excuse(t, job[t] = "uninstall" /\ state \notin {"RUNNING", "STOPPED"})
    /\ UNCHANGED <<entry, job, record, shown>>

\* ControlService(SERVICE_CONTROL_STOP), which returns when the handler did.
Stop(t) ==
    /\ Go(t, "control", "sent")
    /\ Send("STOPPED")
    /\ Disturb(t)
    /\ UNCHANGED <<installed, job, record, ok, shown>>

\* ... or is refused, with the status filled in.  UnInstall then returns 0.
StopRefused(t) ==
    /\ state \notin {"RUNNING", "PAUSED"}
    /\ IF t = "setup" /\ state = "STOPPED"
       THEN Go(t, "control", "delete") /\ UNCHANGED ok
       ELSE Result(t, "control", t = "dialog" /\ job[t] = "uninstall")
    /\ UNCHANGED <<entry, job, record, trouble, shown>>

Sent(t) ==
    /\ goal = "none"
    /\ Go(t, "sent", "poll")
    /\ seen' = [seen EXCEPT ![t] = state]
    /\ UNCHANGED <<entry, job, times, ok, trouble, shown>>

\* The end of the loop that waits for STOPPED and saw s last.
AfterPoll(t, s) ==
    IF s # "STOPPED" THEN GiveUp(t, "poll")
    ELSE IF job[t] = "uninstall" THEN Go(t, "poll", "delete") /\ UNCHANGED ok
    ELSE Result(t, "poll", TRUE)

Poll(t) ==
    /\ pc[t] = "poll"
    /\ seen' = [seen EXCEPT ![t] = state]
    /\ times' = [times EXCEPT ![t] = @ + 1]
    /\ IF state = "STOP_PENDING" /\ times[t] < PollLimit
       THEN UNCHANGED <<pc, ok, trouble>>
       ELSE AfterPoll(t, state) /\ Excuse(t, state # "STOPPED")
    /\ UNCHANGED <<entry, job, shown>>

\* DeleteService only marks the entry.
Delete(t) ==
    /\ Result(t, "delete", installed = "yes")
    /\ installed' = IF installed = "yes" THEN "marked" ELSE installed
    /\ Disturb(t)
    /\ UNCHANGED <<scm, job, record, shown>>

\* StartService of the SCM, refused if the service runs or is marked.
Start(t) ==
    /\ IF installed = "yes" /\ state = "STOPPED"
       THEN /\ Go(t, "start", "await")
            /\ StartService
            /\ Disturb(t)
            /\ UNCHANGED ok
       ELSE Result(t, "start", FALSE) /\ UNCHANGED <<scm, trouble>>
    /\ UNCHANGED <<installed, job, record, shown>>

\* Mutation of Await: it waits until the service runs.
AwaitForEver(t) ==
    /\ Result(t, "await", TRUE)
    /\ state = "RUNNING"
    /\ UNCHANGED <<entry, job, record, trouble, shown>>

\* Mutation of Await: the number of polls is counted and not looked at.
AwaitUncapped(t) ==
    /\ pc[t] = "await"
    /\ times' = [times EXCEPT ![t] = @ + 1]
    /\ IF state = "RUNNING" THEN Result(t, "await", TRUE) ELSE UNCHANGED <<pc, ok>>
    /\ UNCHANGED <<entry, job, seen, trouble, shown>>

\* Mutation of Await: any answer counts as started.
AwaitNothing(t) ==
    /\ Result(t, "await", TRUE)
    /\ UNCHANGED <<entry, job, record, trouble, shown>>

\* KService polls until the service is RUNNING.
Await(t) ==
    /\ pc[t] = "await"
    /\ times' = [times EXCEPT ![t] = @ + 1]
    /\ \/ state = "RUNNING" /\ Result(t, "await", TRUE) /\ UNCHANGED trouble
       \/ /\ state # "RUNNING" /\ times[t] < PollLimit
          /\ UNCHANGED <<pc, ok, trouble>>
       \/ /\ state # "RUNNING" /\ times[t] >= PollLimit
          /\ GiveUp(t, "await") /\ Excuse(t, TRUE)
    /\ UNCHANGED <<entry, job, seen, shown>>

\* CreateService; KService then gives the service its description.
Create(t) ==
    /\ IF installed # "no"
       THEN Result(t, "create", FALSE) /\ UNCHANGED <<installed, trouble>>
       ELSE /\ installed' = "yes"
            /\ Disturb(t)
            /\ IF t = "setup" THEN Result(t, "create", TRUE)
               ELSE Go(t, "create", "describe") /\ UNCHANGED ok
    /\ UNCHANGED <<scm, job, record, shown>>

Describe(t) ==
    /\ Result(t, "describe", TRUE)
    /\ UNCHANGED <<entry, job, record, trouble, shown>>

\* Any call may fail for a reason of its own.  A failing query ends a wait
\* with the status seen last, and Start returns 0 after one, also when it has
\* not started anything; so does UnInstall when ControlService fails, where
\* "setup" goes on with the STOPPED its record began with.
Fails(t) ==
    /\ \/ pc[t] = "poll" /\ AfterPoll(t, seen[t])
       \/ t = "setup" /\ Go(t, "control", "delete") /\ UNCHANGED ok
       \/ /\ pc[t] \in {"open", "query", "control", "delete", "start", "await", "create", "describe"}
          /\ t = "setup" => pc[t] # "control"
          /\ Result(t, pc[t], \/ pc[t] = "await"
                              \/ pc[t] = "query" /\ job[t] = "start"
                              \/ pc[t] = "control" /\ job[t] = "uninstall")
    /\ Excuse(t, TRUE)
    /\ UNCHANGED <<entry, job, record, shown>>

-----------------------------------------------------------------------------
(* The dialog.                                                             *)

\* The buttons after job j with result r.
ButtonsAfter(j, r) ==
    IF ~r THEN buttons
    ELSE CASE j = "install"   -> (buttons \cup {"uninstall", "start"}) \ {"stop"}
           [] j = "uninstall" -> {"install"}
           [] j = "start"     -> (buttons \cup {"stop"}) \ {"start"}
           [] j = "stop"      -> (buttons \cup {"start"}) \ {"stop"}

\* The tool is done; after installing, the dialog offers to start.
Return(t) ==
    /\ \/ Go(t, "return", "idle") /\ job' = [job EXCEPT ![t] = "install"]
       \/ /\ t = "dialog" /\ job[t] = "install" /\ ok[t]
          /\ Go(t, "return", "open") /\ job' = [job EXCEPT ![t] = "start"]
    /\ buttons' = IF t = "dialog" THEN ButtonsAfter(job[t], ok[t]) ELSE buttons
    /\ seen' = [seen EXCEPT ![t] = "STOPPED"]
    /\ times' = [times EXCEPT ![t] = 0]
    /\ ok' = [ok EXCEPT ![t] = TRUE]
    /\ trouble' = [trouble EXCEPT ![t] = @ /\ t = "dialog"]
    /\ UNCHANGED <<entry, jobs, acts>>

\* UpdateStatus disables every button and opens the service twice, to see
\* whether it exists ...
Exists ==
    /\ Go("dialog", "exists", IF installed = "no" THEN "idle" ELSE "state")
    /\ buttons' = IF installed = "no" THEN {"install"} ELSE {"uninstall"}
    /\ UNCHANGED <<entry, job, record, ok, trouble, jobs, acts>>

\* ... and to see its state.
ShowState ==
    /\ Go("dialog", "state", "idle")
    /\ buttons' = IF installed = "no" THEN buttons ELSE ButtonsFor(TRUE, state)
    /\ UNCHANGED <<entry, job, record, ok, trouble, jobs, acts>>

\* A call fails: no buttons, or those for whatever state the record that
\* QueryService did not fill in happens to hold (it returns 0 all the same).
ShowFails ==
    /\ \/ Go("dialog", "exists", "idle") /\ buttons' = {}
       \/ /\ Go("dialog", "state", "idle")
          /\ \E s \in State : buttons' = ButtonsFor(TRUE, s)
    /\ Excuse("dialog", TRUE)
    /\ UNCHANGED <<entry, job, record, ok, jobs, acts>>

CallSucceeds(t) ==
    \/ Open(t) \/ Query(t) \/ Stop(t) \/ StopRefused(t) \/ Sent(t) \/ Poll(t)
    \/ Delete(t) \/ Start(t) \/ Await(t) \/ Create(t) \/ Describe(t) \/ Return(t)
    \/ t = "dialog" /\ (Exists \/ ShowState)

ToolStep(t) == CallSucceeds(t) \/ Fails(t) \/ (t = "dialog" /\ ShowFails)

-----------------------------------------------------------------------------
(* Everybody else.                                                         *)

\* An administrator, or Windows when it boots and shuts down.
Administer ==
    /\ acts < MaxActs /\ acts' = acts + 1
    /\ installed = "yes"
    /\ StartService \/ \E g \in Goal : Send(g)
    /\ Disturb("nobody")
    /\ UNCHANGED <<installed, pc, job, record, ok, buttons, jobs>>

\* The service goes on by itself.
Service ==
    /\ Started \/ Pending \/ StopsEarly \/ Finish
    /\ UNCHANGED <<installed, pc, job, record, ok, trouble, shown>>

\* A marked entry goes when the service is stopped and nobody has it open; the
\* dialog has not, between its two looks.
Removed ==
    /\ installed = "marked" /\ state = "STOPPED"
    /\ \A t \in Tool : pc[t] \in {"idle", "open", "exists", "state", "create"}
    /\ installed' = "no"
    /\ UNCHANGED <<scm, pc, job, record, ok, trouble, shown>>

CNext ==
    \/ \E t \in Tool : ToolStep(t) \/ \E j \in Jobs(t) : Begin(t, j)
    \/ Administer
    \/ Service
    \/ Removed

CSpec == CInit /\ [][CNext]_vars

\* The tools run without need of a failure, and a start and a control come to
\* their end.
CFairSpec == CSpec /\ WF_vars(Service) /\ \A t \in Tool : WF_vars(CallSucceeds(t))

-----------------------------------------------------------------------------
(* Properties.                                                             *)

\* The buttons of the dialog tell what can be done (InstanceConfigDlg.cpp:
\* 234-246, 294-296, 320-323, 348-349, 373-374) as long as only the dialog acts,
\* its calls succeed and the service gets where it is sent in time.
ButtonsTellTruth ==
    pc["dialog"] = "idle" /\ ~trouble["dialog"] =>
        /\ "start" \in buttons => state = "STOPPED"
        /\ "stop" \in buttons => state = "RUNNING"
        /\ "uninstall" \in buttons <=> installed = "yes"

\* `The program must have ended before the service can be deleted' (KService.cpp:215,
\* wx_kk_service.cpp:332): a tool that nobody disturbs deletes a stopped service.
DeletesStopped ==
    [][\A t \in Tool : installed = "yes" /\ Delete(t) /\ ~trouble[t] =>
           state = "STOPPED"]_vars

\* Every job of a tool ends, whatever others do to the service meanwhile.
ToolReturns == \A t \in Tool : pc[t] # "idle" ~> pc[t] = "idle"
=============================================================================
