-------------------------- MODULE ServiceWatchdog --------------------------
(***************************************************************************)
(* The Windows service of wx_kk_up_service/wx_kk_service.cpp, which starts *)
(* the uploader (MonitorExe) whenever it finds no process of that name.    *)
(*                                                                         *)
(* Two threads of the service share bStop, bPause and the record status:   *)
(* "main" runs ServiceMain and in it Run, "control" runs ServiceHandle for *)
(* every control the service control manager (SCM) sends.  What a thread   *)
(* tells the SCM is what status holds when it calls SetServiceStatus, so   *)
(* writing status and reporting it are two steps.  The code of ServiceHan- *)
(* dle and of the ends of ServiceMain is a sequence of such steps; Run has *)
(* an action for each of its parts.  The process ends when the SCM was     *)
(* told that the service is stopped and ServiceHandle has returned, and    *)
(* takes "main" with it wherever it is.                                    *)
(***************************************************************************)
EXTENDS Naturals, Sequences

CONSTANTS MaxHand,   \* bound of the model on the starts of MonitorExe by hand
          MaxRuns    \* bound of the model on the starts of the service

ASSUME WatchdogAssumption == MaxHand \in Nat /\ MaxRuns \in Nat

VARIABLES status,   \* status.dwCurrentState, written by both threads
          told,     \* the state the SCM was told last
          bStop, bPause,
          code,     \* the steps a thread has before it
          run,      \* where "main" is in Run
          apps,     \* how many processes of the name MonitorExe there are
          runs, hand,  \* starts of the service; starts of MonitorExe by hand
          late      \* launches since the SCM was told PAUSED or STOPPED

flags == <<bStop, bPause>>
bookkeeping == <<runs, hand>>
vars == <<status, told, flags, code, run, apps, bookkeeping, late>>

Thread == {"main", "control"}
State  == {"STOPPED", "START_PENDING", "RUNNING", "STOP_PENDING",
           "PAUSE_PENDING", "PAUSED"}

\* The steps: status.dwCurrentState = s; SetServiceStatus; the flags.
Write(s)   == [op |-> "write", arg |-> s]
Report     == [op |-> "report", arg |-> "status"]
SetStop    == [op |-> "stop", arg |-> TRUE]
SetPause(b) == [op |-> "pause", arg |-> b]
Step == { Write(s) : s \in State } \cup {Report, SetStop} \cup { SetPause(b) : b \in BOOLEAN }

TypeOK ==
    /\ status \in State /\ told \in State
    /\ bStop \in BOOLEAN /\ bPause \in BOOLEAN
    /\ code \in [Thread -> Seq(Step)]
    /\ run \in {"none", "top", "pause", "held", "look", "launch", "leave", "left"}
    /\ code["main"] # << >> => run \in {"top", "left"}
    /\ apps \in Nat
    /\ runs \in 0..MaxRuns /\ hand \in 0..MaxHand
    /\ late \in 0..2

Init ==
    /\ status = "STOPPED" /\ told = "STOPPED"
    /\ bStop = FALSE /\ bPause = FALSE
    /\ code = [t \in Thread |-> << >>]
    /\ run = "none"
    /\ apps = 0
    /\ runs = 0 /\ hand = 0
    /\ late = 0

-----------------------------------------------------------------------------
(* ServiceHandle.                                                          *)

Control == {"STOP", "PAUSE", "CONTINUE", "SHUTDOWN"}

\* Mutation of Handler: STOP sets bStop before it reports STOP_PENDING.
StopFirst(control) ==
    CASE control = "STOP"     -> <<SetStop, Write("STOP_PENDING"), Report,
                                   Write("STOPPED"), Report>>
      [] control = "PAUSE"    -> <<Write("PAUSE_PENDING"), Report, SetPause(TRUE),
                                   Write("PAUSED"), Report>>
      [] control = "CONTINUE" -> <<Write("PAUSE_PENDING"), Report, SetPause(FALSE),
                                   Write("RUNNING"), Report>>
      [] control = "SHUTDOWN" -> <<SetStop, Write("STOPPED"), Report>>

\* Mutation of Handler: CONTINUE does not call ResumeService.
NoResume(control) ==
    CASE control = "STOP"     -> <<Write("STOP_PENDING"), Report, SetStop,
                                   Write("STOPPED"), Report>>
      [] control = "PAUSE"    -> <<Write("PAUSE_PENDING"), Report, SetPause(TRUE),
                                   Write("PAUSED"), Report>>
      [] control = "CONTINUE" -> <<Write("PAUSE_PENDING"), Report, Write("RUNNING"), Report>>
      [] control = "SHUTDOWN" -> <<SetStop, Write("STOPPED"), Report>>

Handler(control) ==
    CASE control = "STOP"     -> <<Write("STOP_PENDING"), Report, SetStop,
                                   Write("STOPPED"), Report>>
      [] control = "PAUSE"    -> <<Write("PAUSE_PENDING"), Report, SetPause(TRUE),
                                   Write("PAUSED"), Report>>
      [] control = "CONTINUE" -> <<Write("PAUSE_PENDING"), Report, SetPause(FALSE),
                                   Write("RUNNING"), Report>>
      [] control = "SHUTDOWN" -> <<SetStop, Write("STOPPED"), Report>>

\* The SCM sends one control at a time, and only to a service that told it
\* it is running or paused.
SendControl(control) ==
    /\ code["control"] = << >>
    /\ told \in {"RUNNING", "PAUSED"}
    /\ code' = [code EXCEPT !["control"] = Handler(control)]
    /\ UNCHANGED <<status, told, flags, run, apps, bookkeeping, late>>

Execute(t) ==
    /\ code[t] # << >>
    /\ LET s == Head(code[t]) IN
        /\ status' = IF s.op = "write" THEN s.arg ELSE status
        /\ told'   = IF s.op = "report" THEN status ELSE told
        /\ bStop'  = IF s.op = "stop" THEN s.arg ELSE bStop
        /\ bPause' = IF s.op = "pause" THEN s.arg ELSE bPause
    /\ late' = IF told' = "RUNNING" THEN 0 ELSE late
    /\ code' = [code EXCEPT ![t] = Tail(@)]
    /\ UNCHANGED <<run, apps, bookkeeping>>

-----------------------------------------------------------------------------
(* ServiceMain and Run.                                                    *)

\* The SCM starts the process; ServiceMain reports twice and calls Run.
StartService ==
    /\ run = "none"
    /\ runs < MaxRuns
    /\ runs' = runs + 1
    /\ code' = [code EXCEPT !["main"] = <<Write("START_PENDING"), Report,
                                          Write("RUNNING"), Report>>]
    /\ run' = "top"
    /\ UNCHANGED <<status, told, flags, apps, hand, late>>

At(place, next) ==
    /\ code["main"] = << >>
    /\ run = place
    /\ run' = next

\* while(true) { if(bStop) goto end;
TestStop ==
    /\ At("top", IF bStop THEN "leave" ELSE "pause")
    /\ UNCHANGED <<status, told, flags, code, apps, bookkeeping, late>>

\* while(bPause == true) { if(bStop) goto end; Sleep(1000); }
TestPause ==
    /\ \/ At("pause", IF bPause THEN "held" ELSE "look")
       \/ At("held", IF bStop THEN "leave" ELSE "pause")
    /\ UNCHANGED <<status, told, flags, code, apps, bookkeeping, late>>

\* Mutation of Look: the process is not looked for.
LookAway ==
    /\ At("look", "launch")
    /\ UNCHANGED <<status, told, flags, code, apps, bookkeeping, late>>

\* The snapshot of the processes, and the search in it.
Look ==
    /\ At("look", IF apps = 0 THEN "launch" ELSE "top")
    /\ UNCHANGED <<status, told, flags, code, apps, bookkeeping, late>>

\* Mutation of Launch: CreateProcess is called again and again.
LaunchAgain(success) ==
    /\ At("launch", "launch")
    /\ apps' = IF success THEN apps + 1 ELSE apps
    /\ late' = IF success /\ told \in {"PAUSED", "STOPPED"} /\ late < 2
               THEN late + 1 ELSE late
    /\ UNCHANGED <<status, told, flags, code, bookkeeping>>

\* CreateProcess.  bStop and bPause are not looked at again.
Launch(success) ==
    /\ At("launch", "top")
    /\ apps' = IF success THEN apps + 1 ELSE apps
    /\ late' = IF success /\ told \in {"PAUSED", "STOPPED"} /\ late < 2
               THEN late + 1 ELSE late
    /\ UNCHANGED <<status, told, flags, code, bookkeeping>>

\* Mutation of Leave: the loop goes on.
LeaveNot ==
    /\ At("leave", "pause")
    /\ code' = [code EXCEPT !["main"] = <<Write("STOPPED"), Report>>]
    /\ UNCHANGED <<status, told, flags, apps, bookkeeping, late>>

\* Run returns to ServiceMain.
Leave ==
    /\ At("leave", "left")
    /\ code' = [code EXCEPT !["main"] = <<Write("STOPPED"), Report>>]
    /\ UNCHANGED <<status, told, flags, apps, bookkeeping, late>>

\* StartServiceCtrlDispatcher returns and the process exits; bStop tells a
\* service that has stopped from one that has not reported yet.  The next
\* process starts from the initial values.
ProcessExits ==
    /\ run # "none"
    /\ runs > 0 /\ told = "STOPPED"
    /\ code["control"] = << >>
    /\ bStop \* it was not only not started yet
    /\ status' = "STOPPED"
    /\ bStop' = FALSE /\ bPause' = FALSE
    /\ code' = [t \in Thread |-> << >>]
    /\ run' = "none"
    /\ late' = 0
    /\ UNCHANGED <<told, apps, bookkeeping>>

Run == TestStop \/ TestPause \/ Look \/ Launch(TRUE) \/ Launch(FALSE) \/ Leave

-----------------------------------------------------------------------------
(* MonitorExe ends, by itself or by its user; a user starts it.            *)

AppEnds ==
    /\ apps > 0
    /\ apps' = apps - 1
    /\ UNCHANGED <<status, told, flags, code, run, bookkeeping, late>>

StartByHand ==
    /\ hand < MaxHand
    /\ hand' = hand + 1
    /\ apps' = apps + 1
    /\ UNCHANGED <<status, told, flags, code, run, runs, late>>

Next ==
    \/ \E control \in Control : SendControl(control)
    \/ \E t \in Thread : Execute(t)
    \/ StartService
    \/ Run
    \/ ProcessExits
    \/ AppEnds
    \/ StartByHand

Spec == Init /\ [][Next]_vars

\* The threads run; CreateProcess succeeds when it is tried often enough.
\* The SCM, the users and the uploader are free.
FairSpec ==
    /\ Spec
    /\ \A t \in Thread : WF_vars(Execute(t))
    /\ WF_vars(Run)
    /\ SF_vars(Launch(TRUE))

-----------------------------------------------------------------------------
(* Properties.                                                             *)

\* The service runs one uploader: more than one only after as many starts by
\* hand (between the snapshot of line 73 and CreateProcess of line 95).
OneApp == apps <= 1 + hand

\* After the SCM was told PAUSED or STOPPED, at most one launch is still made:
\* the one that was under way.  (`Each command is carried out, then the state
\* is reported to the SCM', lines 377-378, would be none.)
OneLateLaunch == late <= 1

\* The refinement mapping: the state as the SCM was told it, and the state in
\* which the handler of the control under way will end.
scmState == IF told = "STOPPED" /\ run # "none" /\ ~bStop THEN "START_PENDING" ELSE told

scmGoal == LET c == code["control"] IN
           IF c = << >> THEN "none"
           ELSE IF Len(c) = 1 THEN status
           ELSE c[Len(c) - 1].arg

S == INSTANCE ScmService WITH state <- scmState, goal <- scmGoal

\* To the SCM, whichever thread reports, this is a service as module ScmService
\* has it: a service that reported STOPPED reports nothing else until it is
\* started again, a control ends in the state it asked for, and a start in
\* RUNNING (wx_kk_service.cpp 383-422, 434-465).
ImplementsService == S!FairSpec

\* An uploader that ended is started again, unless the service is paused or
\* stopped meanwhile.
KeepsAppAlive == apps = 0 /\ told = "RUNNING" ~> apps > 0 \/ told # "RUNNING"
=============================================================================
