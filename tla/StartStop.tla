----------------------------- MODULE StartStop -----------------------------
(***************************************************************************)
(* Starting and stopping the worker threads of wx_kk_up/wx_kk_upDlg.cpp.   *)
(* A click on the menu entry (OnStartWatch) opens the watched folder when  *)
(* the threads are not running and creates a controller thread             *)
(* (ThreadStartAll), which flips threadRuning and then creates the five    *)
(* workers, or tells them to exit and joins them in order.  The workers    *)
(* look at m_ExitCode once per turn of their loops.                        *)
(*                                                                         *)
(* threadRuning, m_ExitCode, thread[] and kkConfig.hDir are shared by the  *)
(* UI thread, the controllers and the workers without a lock.  What the    *)
(* workers do in a turn is left to module Pipeline; here only the turns    *)
(* in which a worker does not look at m_ExitCode matter.  The controller   *)
(* of click c is called c, and so is the handle click c opened.            *)
(***************************************************************************)
EXTENDS Naturals, Sequences

CONSTANTS Order,      \* the workers, in the order they are created and joined
          MaxClicks,  \* bound of the model on the number of clicks
          Patient     \* TRUE: the user waits until the last click is done with

\* thread[0] to thread[4].  An instance may leave workers out.
AllWorkers == <<"last", "watcher", "process", "upload", "monitor">>

Kind == { Order[n] : n \in DOMAIN Order }

ASSUME StartStopAssumption ==
    /\ Order \in Seq({ AllWorkers[n] : n \in DOMAIN AllWorkers }) \ {<< >>}
    /\ \A m, n \in DOMAIN Order : Order[m] = Order[n] => m = n
    /\ MaxClicks \in Nat
    /\ Patient \in BOOLEAN

VARIABLES threadRuning, exitCode,  \* the globals
          thread,     \* thread[]: the controller that created the worker, 0 = none
          hDir, open, \* kkConfig.hDir and the handles that are open, 0 = invalid
          menu,       \* what the menu entry offers
          clicks,     \* how many clicks there were
          ctl, step, flip, target,  \* controllers: place in the code and locals
          worker,     \* the state of each worker
          waitsOn     \* the handle a watcher passed to ReadDirectoryChangesW

shared == <<threadRuning, exitCode, thread, hDir, open, menu>>
ctlVars == <<clicks, ctl, step, flip, target>>
vars == <<shared, ctlVars, worker, waitsOn>>

Click == 1..MaxClicks

Controlling == {"read", "write", "branch", "start", "create", "started",
                "stop", "join", "wait", "stopped"}

TypeOK ==
    /\ threadRuning \in BOOLEAN
    /\ exitCode \in {0, 1}
    /\ thread \in [Kind -> {0} \cup Click]
    /\ hDir \in {0} \cup Click
    /\ open \subseteq Click
    /\ menu \in {"start", "stop"}
    /\ clicks \in {0} \cup Click
    /\ ctl \in [Click -> {"none", "done"} \cup Controlling]
    /\ step \in [Click -> DOMAIN Order]
    /\ flip \in [Click -> BOOLEAN]
    /\ target \in [Click -> {0} \cup Click]
    /\ worker \in [Click \X Kind -> {"none", "test", "busy", "connect", "end", "exited"}]
    /\ waitsOn \in [Click -> {0} \cup Click]

Init ==
    /\ threadRuning = FALSE
    /\ exitCode = 0
    /\ thread = [k \in Kind |-> 0]
    /\ hDir = 0
    /\ open = {}
    /\ menu = "start"
    /\ clicks = 0
    /\ ctl = [c \in Click |-> "none"]
    /\ step = [c \in Click |-> 1]
    /\ flip = [c \in Click |-> FALSE]
    /\ target = [c \in Click |-> 0]
    /\ worker = [w \in Click \X Kind |-> "none"]
    /\ waitsOn = [c \in Click |-> 0]

-----------------------------------------------------------------------------
\* No controller is under way.
Settled == \A c \in Click : ctl[c] \notin Controlling

\* OnStartWatch, on the UI thread.  The folder is opened when threadRuning is
\* FALSE; if that fails there is a message box and no controller.
OnStartWatch(c) ==
    /\ c = clicks + 1
    /\ Patient => Settled
    /\ clicks' = c
    /\ \/ /\ ~threadRuning
          /\ hDir' = c /\ open' = open \cup {c}
          /\ ctl' = [ctl EXCEPT ![c] = "read"]
       \/ /\ ~threadRuning
          /\ hDir' = 0
          /\ UNCHANGED <<open, ctl>>
       \/ /\ threadRuning
          /\ ctl' = [ctl EXCEPT ![c] = "read"]
          /\ UNCHANGED <<hDir, open>>
    /\ UNCHANGED <<threadRuning, exitCode, thread, menu, step, flip, target,
                   worker, waitsOn>>

-----------------------------------------------------------------------------
(* ThreadStartAll.                                                         *)

Goto(c, from, to) ==
    /\ ctl[c] = from
    /\ ctl' = [ctl EXCEPT ![c] = to]
    /\ UNCHANGED clicks

\* threadRuning = !threadRuning: a read and a write.
ReadRuning(c) ==
    /\ Goto(c, "read", "write")
    /\ flip' = [flip EXCEPT ![c] = ~threadRuning]
    /\ UNCHANGED <<shared, step, target, worker, waitsOn>>

WriteRuning(c) ==
    /\ Goto(c, "write", "branch")
    /\ threadRuning' = flip[c]
    /\ UNCHANGED <<exitCode, thread, hDir, open, menu, step, flip, target,
                   worker, waitsOn>>

\* if(threadRuning), read again after the calls of the menu.
Branch(c) ==
    /\ Goto(c, "branch", IF threadRuning THEN "start" ELSE "stop")
    /\ UNCHANGED <<shared, step, flip, target, worker, waitsOn>>

StartSet(c) ==
    /\ Goto(c, "start", "create")
    /\ exitCode' = 0
    /\ UNCHANGED <<threadRuning, thread, hDir, open, menu, step, flip, target,
                   worker, waitsOn>>

\* Mutation of Following: one too far.
FollowingTooFar(c, again, after) ==
    IF step[c] <= Len(Order)
    THEN step' = [step EXCEPT ![c] = @ + 1] /\ ctl' = [ctl EXCEPT ![c] = again]
    ELSE step' = [step EXCEPT ![c] = 1]     /\ ctl' = [ctl EXCEPT ![c] = after]

\* The counter of the five pthread_create and of the five pthread_join.
Following(c, again, after) ==
    IF step[c] < Len(Order)
    THEN step' = [step EXCEPT ![c] = @ + 1] /\ ctl' = [ctl EXCEPT ![c] = again]
    ELSE step' = [step EXCEPT ![c] = 1]     /\ ctl' = [ctl EXCEPT ![c] = after]

CreateWorker(c) ==
    LET k == Order[step[c]] IN
    /\ ctl[c] = "create"
    /\ thread' = [thread EXCEPT ![k] = c]
    /\ worker' = [worker EXCEPT ![<<c, k>>] = "test"]
    /\ Following(c, "create", "started")
    /\ UNCHANGED <<threadRuning, exitCode, hDir, open, menu, clicks, flip,
                   target, waitsOn>>

\* Mutation of StopSet: m_ExitCode is left as it is.
StopUntold(c) ==
    /\ Goto(c, "stop", "join")
    /\ UNCHANGED <<shared, step, flip, target, worker, waitsOn>>

StopSet(c) ==
    /\ Goto(c, "stop", "join")
    /\ exitCode' = 1
    /\ UNCHANGED <<threadRuning, thread, hDir, open, menu, step, flip, target,
                   worker, waitsOn>>

\* pthread_join(thread[k]): the call reads thread[k] ...
JoinCall(c) ==
    /\ Goto(c, "join", "wait")
    /\ target' = [target EXCEPT ![c] = thread[Order[step[c]]]]
    /\ UNCHANGED <<shared, step, flip, worker, waitsOn>>

\* Mutation of JoinReturn: the join of the upload thread does not wait.
JoinAllButUpload(c) ==
    LET k == Order[step[c]] IN
    /\ ctl[c] = "wait"
    /\ target[c] # 0 /\ k # "upload" => worker[<<target[c], k>>] = "exited"
    /\ Following(c, "join", "stopped")
    /\ UNCHANGED <<shared, clicks, flip, target, worker, waitsOn>>

\* ... and returns when that worker has exited, at once if there is none.
JoinReturn(c) ==
    LET k == Order[step[c]] IN
    /\ ctl[c] = "wait"
    /\ target[c] # 0 => worker[<<target[c], k>>] = "exited"
    /\ Following(c, "join", "stopped")
    /\ UNCHANGED <<shared, clicks, flip, target, worker, waitsOn>>

\* ModifyMenu: after a start the entry offers to stop, after a stop to start.
ModifyMenu(c) ==
    /\ \/ Goto(c, "started", "done") /\ menu' = "stop"
       \/ Goto(c, "stopped", "done") /\ menu' = "start"
    /\ UNCHANGED <<threadRuning, exitCode, thread, hDir, open, step, flip,
                   target, worker, waitsOn>>

ThreadStartAll(c) ==
    \/ ReadRuning(c) \/ WriteRuning(c) \/ Branch(c)
    \/ StartSet(c) \/ CreateWorker(c)
    \/ StopSet(c) \/ JoinCall(c) \/ JoinReturn(c)
    \/ ModifyMenu(c)

-----------------------------------------------------------------------------
(* The workers.                                                            *)

Works(c, k, from, to) ==
    /\ k \in Kind
    /\ worker[<<c, k>>] = from
    /\ worker' = [worker EXCEPT ![<<c, k>>] = to]

\* Mutation of TestExitCode: the watcher does not look at m_ExitCode.
TestNotByWatcher(c, k) ==
    /\ Works(c, k, "test", IF exitCode = 0 \/ k = "watcher" THEN "busy" ELSE "exited")
    /\ waitsOn' = IF k = "watcher" THEN [waitsOn EXCEPT ![c] = hDir] ELSE waitsOn
    /\ UNCHANGED <<shared, ctlVars>>

\* if(m_ExitCode==1) goto end.  The watcher goes on with a call of
\* ReadDirectoryChangesW on the handle that is in kkConfig then.
TestExitCode(c, k) ==
    /\ Works(c, k, "test", IF exitCode = 0 THEN "busy"
                           ELSE IF k = "watcher" THEN "end" ELSE "exited")
    /\ waitsOn' = IF k = "watcher" /\ exitCode = 0
                  THEN [waitsOn EXCEPT ![c] = hDir] ELSE waitsOn
    /\ UNCHANGED <<shared, ctlVars>>

\* A turn ends.  ThreadUpload has turns without a vehicle to send as well.
EndTurn(c, k) ==
    /\ k # "watcher"
    /\ Works(c, k, "busy", "test")
    /\ UNCHANGED <<shared, ctlVars, waitsOn>>

\* ThreadUpload takes a vehicle: lines 896 to 923 try until the server is
\* there and do not look at m_ExitCode.
StartConnecting(c) ==
    /\ Works(c, "upload", "busy", "connect")
    /\ UNCHANGED <<shared, ctlVars, waitsOn>>

ServerAnswers(c) ==
    /\ Works(c, "upload", "connect", "test")
    /\ UNCHANGED <<shared, ctlVars, waitsOn>>

\* ReadDirectoryChangesW returns when a file of the folder is written ...
FolderChanges(c) ==
    /\ waitsOn[c] \in open
    /\ Works(c, "watcher", "busy", "test")
    /\ UNCHANGED <<shared, ctlVars, waitsOn>>

\* ... and with an error when its handle is not (or no longer) open.
WatchFails(c) ==
    /\ waitsOn[c] \notin open
    /\ Works(c, "watcher", "busy", "test")
    /\ UNCHANGED <<shared, ctlVars, waitsOn>>

\* Mutation of CloseDir: the handle stays open.
CloseForgotten(c) ==
    /\ Works(c, "watcher", "end", "exited")
    /\ UNCHANGED <<shared, ctlVars, waitsOn>>

\* CloseHandle(dlg->kkConfig.hDir): the handle that is in kkConfig now.
CloseDir(c) ==
    /\ Works(c, "watcher", "end", "exited")
    /\ open' = open \ {hDir}
    /\ UNCHANGED <<threadRuning, exitCode, thread, hDir, menu, ctlVars, waitsOn>>

\* ProcessMonitorThread returns when ShareModule.dll cannot be loaded.
MonitorGivesUp(c) ==
    /\ Works(c, "monitor", "test", "exited")
    /\ UNCHANGED <<shared, ctlVars, waitsOn>>

Worker(c) ==
    \/ \E k \in Kind : TestExitCode(c, k) \/ EndTurn(c, k)
    \/ StartConnecting(c)
    \/ WatchFails(c)
    \/ CloseDir(c)

Environment(c) == FolderChanges(c) \/ ServerAnswers(c)

Next == \E c \in Click :
            \/ OnStartWatch(c)
            \/ ThreadStartAll(c)
            \/ Worker(c)
            \/ Environment(c)
            \/ MonitorGivesUp(c)

Spec == Init /\ [][Next]_vars

\* Every thread runs while it can; the user need not click.
ThreadFairness ==
    \A c \in Click :
        /\ WF_vars(ThreadStartAll(c))
        /\ \A k \in Kind : WF_vars(TestExitCode(c, k)) /\ WF_vars(EndTurn(c, k))
        /\ WF_vars(WatchFails(c))
        /\ WF_vars(CloseDir(c))

\* Files keep coming and the server answers in the end.
EnvironmentFairness ==
    \A c \in Click : WF_vars(FolderChanges(c)) /\ WF_vars(ServerAnswers(c))

FairSpec == Spec /\ ThreadFairness
LiveSpec == FairSpec /\ EnvironmentFairness

-----------------------------------------------------------------------------
(* Properties.                                                             *)

Alive(c, k) == worker[<<c, k>>] \notin {"none", "exited"}

\* The threads of one kind never run twice (two ThreadUpload would send every
\* vehicle twice, two ThreadProcessWatchedFiles record it twice).
OneWorkerPerKind ==
    \A k \in Kind : \A c, d \in Click : Alive(c, k) /\ Alive(d, k) => c = d

\* When no click is being worked off, the menu entry offers to stop
\* (line 1099) exactly if the threads run, and to start (line 1115) exactly
\* if none does.  The monitor thread may have given up.
MenuTellsTruth ==
    Settled =>
        IF menu = "stop"
        THEN /\ threadRuning
             /\ \A k \in Kind \ {"monitor"} : \E c \in Click : Alive(c, k)
        ELSE /\ ~threadRuning
             /\ \A k \in Kind, c \in Click : ~Alive(c, k)

\* A watcher works on the handle that the click that started it opened, from
\* its first call until it closes the handle itself (line 638), and no handle
\* is left open when the threads are stopped.
WatcherOwnsHandle ==
    /\ \A c \in Click :
        /\ Alive(c, "watcher") => hDir = c /\ c \in open
        /\ worker[<<c, "watcher">>] = "busy" => waitsOn[c] = c
    /\ Settled /\ ~threadRuning => open = {}

\* A controller that stops the workers comes to its end (lines 1102-1115).
StopEnds == \A c \in Click : ctl[c] = "stop" ~> ctl[c] = "done"

\* Whatever the user does: once m_ExitCode stays 1, every worker exits in the
\* end, those created later included.
ExitCodeEndsAll ==
    <>[](exitCode = 1) => <>[](\A c \in Click, k \in Kind : ~Alive(c, k))
=============================================================================
