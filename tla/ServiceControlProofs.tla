------------------------- MODULE ServiceControlProofs -------------------------
(***************************************************************************)
(* Theorems about ServiceControl for any number of jobs, of polls and of   *)
(* acts of administrators.                                                 *)
(***************************************************************************)
EXTENDS ServiceControl, TLAPS

-----------------------------------------------------------------------------
(* Type correctness.  A job counts its polls from 0, and only a wait has   *)
(* polls left; the buttons follow jobs that have some.                     *)

Polls(t) ==
    /\ pc[t] \in {"poll", "await"} => times[t] <= PollLimit
    /\ pc[t] \notin {"poll", "await", "delete", "return"} => times[t] = 0

Refreshes(t) == job[t] = "refresh" => pc[t] \in {"idle", "exists", "state"}

TypeInv == TypeOK /\ \A t \in Tool : Polls(t) /\ Refreshes(t)

Place == {"idle", "open", "query", "control", "sent", "poll", "delete", "start", "await",
          "create", "describe", "return", "exists", "state"}

\* The tools are again in places, with counts and jobs, that go together.
ToolsFit ==
    /\ pc' \in [Tool -> Place]
    /\ times' \in [Tool -> 0..PollLimit + 1]
    /\ job' \in [Tool -> Jobs("dialog")]
    /\ \A u \in Tool : Polls(u)' /\ Refreshes(u)'

\* Tool t goes to p with n polls and job j; the others stay.
LEMMA ToolFrame ==
    ASSUME TypeInv, NEW t \in Tool,
           NEW p \in Place, pc' = [pc EXCEPT ![t] = p],
           NEW n \in 0..PollLimit + 1, times' = [times EXCEPT ![t] = n],
           NEW j \in Jobs("dialog"), job' = [job EXCEPT ![t] = j],
           p \in {"poll", "await"} => n <= PollLimit,
           p \notin {"poll", "await", "delete", "return"} => n = 0,
           j = "refresh" => p \in {"idle", "exists", "state"}
    PROVE  ToolsFit
<1>1. pc' \in [Tool -> Place] /\ times' \in [Tool -> 0..PollLimit + 1] /\ job' \in [Tool -> Jobs("dialog")]
  BY DEF TypeInv, TypeOK, Place
<1>2. ASSUME NEW u \in Tool PROVE Polls(u)' /\ Refreshes(u)'
  <2>1. CASE u = t
    <3>1. pc'[u] = p /\ times'[u] = n /\ job'[u] = j
      BY <2>1 DEF TypeInv, TypeOK
    <3>2. QED BY <3>1 DEF Polls, Refreshes
  <2>2. CASE u # t
    <3>1. pc'[u] = pc[u] /\ times'[u] = times[u] /\ job'[u] = job[u]
      BY <2>2 DEF TypeInv, TypeOK
    <3>2. QED BY <3>1 DEF TypeInv, Polls, Refreshes
  <2>3. QED BY <2>1, <2>2
<1>3. QED BY <1>1, <1>2 DEF ToolsFit

\* A tool that goes on with its job and its count of polls.
LEMMA GoFrame ==
    ASSUME TypeInv, NEW t \in Tool, NEW q \in Place \ {"idle", "await", "delete", "return"}, NEW p \in Place,
           Go(t, q, p), UNCHANGED <<times, job>>,
           q = "poll" => p = "delete",
           q \in {"exists", "state"} => p \in {"idle", "state"}
    PROVE  ToolsFit
<1>1. pc[t] = q /\ pc' = [pc EXCEPT ![t] = p]
  BY DEF Go
<1>2. PICK n \in 0..PollLimit + 1, j \in Jobs("dialog") : n = times[t] /\ j = job[t]
  BY DEF TypeInv, TypeOK
<1>3. times' = [times EXCEPT ![t] = n] /\ job' = [job EXCEPT ![t] = j]
  BY <1>2 DEF TypeInv, TypeOK
<1>4. /\ p \in {"poll", "await"} => n <= PollLimit
      /\ p \notin {"poll", "await", "delete", "return"} => n = 0
      /\ j = "refresh" => p \in {"idle", "exists", "state"}
  <2>1. Polls(t) /\ Refreshes(t)
    BY DEF TypeInv
  <2>2. QED BY <1>1, <1>2, <2>1, ControlAssumption DEF Polls, Refreshes, Place
<1>5. QED BY <1>1, <1>3, <1>4, ToolFrame

\* A tool that returns.
LEMMA ResultFrame ==
    ASSUME TypeInv, NEW t \in Tool, NEW q \in Place \ {"idle", "exists", "state"}, NEW r \in BOOLEAN,
           Result(t, q, r), UNCHANGED <<times, job>>
    PROVE  ToolsFit /\ ok' \in [Tool -> BOOLEAN]
<1>1. pc[t] = q /\ pc' = [pc EXCEPT ![t] = "return"] /\ ok' = [ok EXCEPT ![t] = r]
  BY DEF Result, Go
<1>2. PICK n \in 0..PollLimit + 1, j \in Jobs("dialog") : n = times[t] /\ j = job[t]
  BY DEF TypeInv, TypeOK
<1>3. times' = [times EXCEPT ![t] = n] /\ job' = [job EXCEPT ![t] = j]
  BY <1>2 DEF TypeInv, TypeOK
<1>4. j # "refresh"
  <2>1. Refreshes(t)
    BY DEF TypeInv
  <2>2. QED BY <1>1, <1>2, <2>1 DEF Refreshes, Place
<1>5. PICK p \in Place : p = "return"
  BY DEF Place
<1>6. ToolsFit
  <2>1. pc' = [pc EXCEPT ![t] = p]
    BY <1>1, <1>5
  <2>2. /\ p \in {"poll", "await"} => n <= PollLimit
        /\ p \notin {"poll", "await", "delete", "return"} => n = 0
        /\ j = "refresh" => p \in {"idle", "exists", "state"}
    BY <1>4, <1>5
  <2>3. QED BY <1>3, <2>1, <2>2, ToolFrame
<1>7. QED BY <1>1, <1>6 DEF TypeInv, TypeOK

LEMMA SameTools ==
    ASSUME TypeInv, UNCHANGED <<pc, times, job>>
    PROVE  ToolsFit
BY DEF TypeInv, TypeOK, ToolsFit, Polls, Refreshes, Place

\* What the service and its entry are is of the right type after any step.
LEMMA ScmType ==
    ASSUME TypeInv, UNCHANGED scm \/ StartService \/ (\E g \in Goal : Send(g))
                    \/ Started \/ Pending \/ StopsEarly \/ Finish
    PROVE  state' \in State /\ goal' \in Goal \cup {"none"}
BY DEF TypeInv, TypeOK, scm, StartService, Send, Started, Pending, StopsEarly, Finish, State, Goal

\* The history stays one of booleans.
LEMMA TroubleType ==
    ASSUME TypeInv, NEW t,
           UNCHANGED trouble \/ Disturb(t) \/ (t \in Tool /\ \E b \in BOOLEAN : Excuse(t, b))
    PROVE  trouble' \in [Tool -> BOOLEAN]
<1>1. trouble \in [Tool -> BOOLEAN]
  BY DEF TypeInv, TypeOK
<1>2. CASE UNCHANGED trouble
  BY <1>1, <1>2
<1>3. CASE Disturb(t)
  BY <1>1, <1>3 DEF Disturb
<1>4. ASSUME t \in Tool, NEW b \in BOOLEAN, Excuse(t, b) PROVE trouble' \in [Tool -> BOOLEAN]
  BY <1>1, <1>4 DEF Excuse
<1>5. QED BY <1>2, <1>3, <1>4

\* What is left of the type invariant when the tools fit.
LEMMA FitsType ==
    ASSUME ToolsFit, state' \in State, goal' \in Goal \cup {"none"}, installed' \in {"no", "yes", "marked"},
           seen' \in [Tool -> State], ok' \in [Tool -> BOOLEAN], trouble' \in [Tool -> BOOLEAN],
           buttons' \subseteq Button, jobs' \in 0..MaxJobs, acts' \in 0..MaxActs
    PROVE  TypeInv'
BY DEF ToolsFit, TypeInv, TypeOK, Place

-----------------------------------------------------------------------------
LEMMA BeginType ==
    ASSUME TypeInv, NEW t \in Tool, NEW j \in Jobs(t), Begin(t, j)
    PROVE  TypeInv'
<1>1. PICK p \in {"create", "exists", "open"} :
          /\ jobs < MaxJobs /\ jobs' = jobs + 1
          /\ Go(t, "idle", p)
          /\ j = "refresh" => p = "exists"
          /\ job' = [job EXCEPT ![t] = j]
          /\ trouble' = IF j = "refresh" THEN [trouble EXCEPT ![t] = ~Quiet] ELSE trouble
          /\ UNCHANGED <<entry, record, ok, buttons, acts>>
  BY Zenon DEF Begin
<1>2. /\ pc[t] = "idle" /\ pc' = [pc EXCEPT ![t] = p] /\ p \in Place
      /\ job' = [job EXCEPT ![t] = j] /\ j \in Jobs("dialog")
      /\ jobs' \in 0..MaxJobs
      /\ UNCHANGED <<entry, record, ok, buttons, acts>>
  <2>1. j \in Jobs("dialog")
    BY DEF Jobs, Button
  <2>2. jobs' \in 0..MaxJobs
    BY <1>1, ControlAssumption DEF TypeInv, TypeOK
  <2>3. QED BY <1>1, <2>1, <2>2 DEF Go, Place
<1>3. times[t] = 0 /\ times' = [times EXCEPT ![t] = 0]
  BY <1>2 DEF TypeInv, Polls, TypeOK, record
<1>4. 0 \in 0..PollLimit + 1
  BY ControlAssumption
<1>5. ToolsFit
  BY <1>1, <1>2, <1>3, <1>4, ToolFrame
<1>6. trouble' \in [Tool -> BOOLEAN]
  <2>1. trouble \in [Tool -> BOOLEAN] /\ (~Quiet) \in BOOLEAN
    BY DEF TypeInv, TypeOK, Quiet
  <2>2. QED BY <1>1, <2>1
<1>7. QED BY <1>2, <1>5, <1>6, FitsType DEF TypeInv, TypeOK, entry, scm, record

\* The buttons a refresh shows, and those a job leaves.
LEMMA ButtonsForIs ==
    ASSUME NEW s
    PROVE  /\ ButtonsFor(FALSE, s) = {"install"}
           /\ s = "RUNNING" => ButtonsFor(TRUE, s) = {"uninstall", "stop"}
           /\ s = "STOPPED" => ButtonsFor(TRUE, s) = {"uninstall", "start"}
           /\ s \notin {"RUNNING", "STOPPED"} => ButtonsFor(TRUE, s) = {"uninstall"}
BY Zenon DEF ButtonsFor

LEMMA ButtonsForType ==
    ASSUME NEW e, NEW s
    PROVE  ButtonsFor(e, s) \subseteq Button
BY Zenon DEF ButtonsFor, Button

LEMMA ButtonsAfterIs ==
    /\ \A j : ButtonsAfter(j, FALSE) = buttons
    /\ ButtonsAfter("install", TRUE) = (buttons \cup {"uninstall", "start"}) \ {"stop"}
    /\ ButtonsAfter("uninstall", TRUE) = {"install"}
    /\ ButtonsAfter("start", TRUE) = (buttons \cup {"stop"}) \ {"start"}
    /\ ButtonsAfter("stop", TRUE) = (buttons \cup {"start"}) \ {"stop"}
BY Zenon DEF ButtonsAfter

\* The calls by which a tool goes on or returns.
LEMMA CallType ==
    ASSUME TypeInv, NEW t \in Tool,
           \/ Open(t) \/ Query(t) \/ Stop(t) \/ StopRefused(t) \/ Sent(t)
           \/ Delete(t) \/ Create(t) \/ Describe(t)
    PROVE  TypeInv'
<1> USE DEF entry, record, shown
<1>1. /\ UNCHANGED <<times, job, buttons, jobs, acts>>
      /\ \/ \E q, p \in Place \ {"idle", "poll", "await", "exists", "state"} :
                 q \notin {"delete", "return"} /\ Go(t, q, p) /\ UNCHANGED ok
         \/ Sent(t)
         \/ \E q \in Place \ {"idle", "exists", "state"}, r \in BOOLEAN : Result(t, q, r)
  <2>1. CASE Open(t)
    BY <2>1 DEF Open, Place
  <2>2. CASE Query(t)
    BY <2>2 DEF Query, GiveUp, Place
  <2>3. CASE Stop(t)
    BY <2>3 DEF Stop, Place
  <2>4. CASE StopRefused(t)
    BY <2>4 DEF StopRefused, Place
  <2>5. CASE Sent(t)
    BY <2>5 DEF Sent
  <2>6. CASE Delete(t)
    BY <2>6 DEF Delete, Place
  <2>7. CASE Create(t)
    BY <2>7 DEF Create, Place
  <2>8. CASE Describe(t)
    BY <2>8 DEF Describe, Place
  <2>9. QED BY <2>1, <2>2, <2>3, <2>4, <2>5, <2>6, <2>7, <2>8
<1>2. ToolsFit /\ ok' \in [Tool -> BOOLEAN]
  <2>1. ASSUME NEW q \in Place \ {"idle", "poll", "await", "exists", "state", "delete", "return"},
               NEW p \in Place, Go(t, q, p), UNCHANGED ok
        PROVE  ToolsFit /\ ok' \in [Tool -> BOOLEAN]
    BY <1>1, <2>1, GoFrame DEF TypeInv, TypeOK
  <2>2. CASE Sent(t)
    BY <1>1, <2>1, <2>2 DEF Sent, Place
  <2>3. ASSUME NEW q \in Place \ {"idle", "exists", "state"}, NEW r \in BOOLEAN, Result(t, q, r)
        PROVE  ToolsFit /\ ok' \in [Tool -> BOOLEAN]
    BY <1>1, <2>3, ResultFrame
  <2>4. QED BY <1>1, <2>1, <2>2, <2>3
<1>3. trouble' \in [Tool -> BOOLEAN]
  <2>1. UNCHANGED trouble \/ Disturb(t) \/ \E b \in BOOLEAN : Excuse(t, b)
    BY DEF Open, Query, Stop, StopRefused, Sent, Delete, Create, Describe
  <2>2. QED BY <2>1, TroubleType
<1>4. state' \in State /\ goal' \in Goal \cup {"none"}
  <2>1. UNCHANGED scm \/ Send("STOPPED")
    BY DEF Open, Query, Stop, StopRefused, Sent, Delete, Create, Describe
  <2>2. "STOPPED" \in Goal
    BY DEF Goal
  <2>3. QED BY <2>1, <2>2, ScmType
<1>5. installed' \in {"no", "yes", "marked"}
  BY DEF Open, Query, Stop, StopRefused, Sent, Delete, Create, Describe, TypeInv, TypeOK
<1>6. seen' \in [Tool -> State]
  BY DEF Open, Query, Stop, StopRefused, Sent, Delete, Create, Describe, TypeInv, TypeOK
<1>7. QED BY <1>1, <1>2, <1>3, <1>4, <1>5, <1>6, FitsType DEF TypeInv, TypeOK

\* The calls that poll, and the one that begins to.
LEMMA WaitType ==
    ASSUME TypeInv, NEW t \in Tool, Poll(t) \/ Start(t) \/ Await(t)
    PROVE  TypeInv'
<1> USE DEF entry, record, shown
<1>1. PICK j \in Jobs("dialog") : j = job[t]
  BY DEF TypeInv, TypeOK
<1>2. CASE Poll(t) \/ Await(t)
  <2>1. /\ pc[t] \in {"poll", "await"} /\ times' = [times EXCEPT ![t] = times[t] + 1]
        /\ job' = [job EXCEPT ![t] = j]
        /\ UNCHANGED <<scm, installed, buttons, jobs, acts>> /\ seen' \in [Tool -> State]
    BY <1>1, <1>2 DEF Poll, Await, TypeInv, TypeOK
  <2>2. times[t] + 1 \in 0..PollLimit + 1 /\ j # "refresh"
    <3>1. Polls(t) /\ Refreshes(t) /\ times[t] \in 0..PollLimit + 1
      BY DEF TypeInv, TypeOK
    <3>2. QED BY <1>1, <2>1, <3>1, ControlAssumption DEF Polls, Refreshes
  <2>3. PICK n \in 0..PollLimit + 1 : n = times[t] + 1
    BY <2>2
  <2>4. PICK p \in Place :
            /\ pc' = [pc EXCEPT ![t] = p] /\ p \in {"poll", "await", "delete", "return"}
            /\ p \in {"poll", "await"} => times[t] < PollLimit
    <3>1. pc = [pc EXCEPT ![t] = pc[t]]
      BY DEF TypeInv, TypeOK
    <3>2. CASE Poll(t)
      BY <3>1, <3>2 DEF Poll, AfterPoll, GiveUp, Result, Go, Place
    <3>3. CASE Await(t)
      BY <3>1, <3>3 DEF Await, GiveUp, Result, Go, Place
    <3>4. QED BY <1>2, <3>2, <3>3
  <2>5. ToolsFit
    <3>1. p \in {"poll", "await"} => n <= PollLimit
      BY <2>3, <2>4, ControlAssumption DEF TypeInv, TypeOK
    <3>2. QED BY <2>1, <2>2, <2>3, <2>4, <3>1, ToolFrame
  <2>6. ok' \in [Tool -> BOOLEAN]
    BY <1>2 DEF Poll, AfterPoll, Await, GiveUp, Result, TypeInv, TypeOK
  <2>7. trouble' \in [Tool -> BOOLEAN]
    <3>1. UNCHANGED trouble \/ \E b \in BOOLEAN : Excuse(t, b)
      BY <1>2 DEF Poll, Await
    <3>2. QED BY <3>1, TroubleType
  <2>8. QED BY <2>1, <2>5, <2>6, <2>7, FitsType DEF TypeInv, TypeOK, scm
<1>3. CASE Start(t)
  <2>1. /\ UNCHANGED <<times, job, installed, seen, buttons, jobs, acts>>
        /\ \/ Go(t, "start", "await") /\ UNCHANGED ok /\ StartService /\ Disturb(t)
           \/ Result(t, "start", FALSE) /\ UNCHANGED <<scm, trouble>>
    BY <1>3 DEF Start
  <2>2. ToolsFit /\ ok' \in [Tool -> BOOLEAN]
    <3>1. CASE Go(t, "start", "await") /\ UNCHANGED ok
      BY <2>1, <3>1, GoFrame DEF TypeInv, TypeOK, Place
    <3>2. CASE Result(t, "start", FALSE)
      BY <2>1, <3>2, ResultFrame DEF Place
    <3>3. QED BY <2>1, <3>1, <3>2
  <2>3. trouble' \in [Tool -> BOOLEAN] /\ state' \in State /\ goal' \in Goal \cup {"none"}
    BY <2>1, TroubleType, ScmType
  <2>4. QED BY <2>1, <2>2, <2>3, FitsType DEF TypeInv, TypeOK
<1>4. QED BY <1>2, <1>3

LEMMA FailsType ==
    ASSUME TypeInv, NEW t \in Tool, Fails(t)
    PROVE  TypeInv'
<1> USE DEF entry, record, shown, scm
<1>1. /\ UNCHANGED <<state, goal, installed, seen, times, job, buttons, jobs, acts>> /\ Excuse(t, TRUE)
      /\ \/ \E q \in {"poll", "control"} : Go(t, q, "delete") /\ UNCHANGED ok
         \/ \E q \in Place \ {"idle", "exists", "state"}, r \in BOOLEAN : Result(t, q, r)
  <2>1. CASE pc[t] = "poll" /\ AfterPoll(t, seen[t])
    BY <2>1 DEF Fails, AfterPoll, GiveUp, Place
  <2>2. CASE Go(t, "control", "delete") /\ UNCHANGED ok
    BY <2>2 DEF Fails
  <2>3. CASE /\ pc[t] \in {"open", "query", "control", "delete", "start", "await", "create", "describe"}
             /\ \E r \in BOOLEAN : Result(t, pc[t], r)
    BY <2>3 DEF Fails, Place
  <2>4. QED BY <2>1, <2>2, <2>3 DEF Fails
<1>2. ToolsFit /\ ok' \in [Tool -> BOOLEAN]
  <2>1. ASSUME NEW q \in {"poll", "control"}, Go(t, q, "delete"), UNCHANGED ok
        PROVE  ToolsFit /\ ok' \in [Tool -> BOOLEAN]
    BY <1>1, <2>1, GoFrame DEF TypeInv, TypeOK, Place
  <2>2. ASSUME NEW q \in Place \ {"idle", "exists", "state"}, NEW r \in BOOLEAN, Result(t, q, r)
        PROVE  ToolsFit /\ ok' \in [Tool -> BOOLEAN]
    BY <1>1, <2>2, ResultFrame
  <2>3. QED BY <1>1, <2>1, <2>2
<1>3. trouble' \in [Tool -> BOOLEAN]
  BY <1>1, TroubleType
<1>4. QED BY <1>1, <1>2, <1>3, FitsType DEF TypeInv, TypeOK

LEMMA ReturnType ==
    ASSUME TypeInv, NEW t \in Tool, Return(t)
    PROVE  TypeInv'
<1> USE DEF entry, record, shown, scm
<1>1. /\ times' = [times EXCEPT ![t] = 0] /\ pc[t] = "return"
      /\ ok' = [ok EXCEPT ![t] = TRUE] /\ seen' = [seen EXCEPT ![t] = "STOPPED"]
      /\ trouble' = [trouble EXCEPT ![t] = @ /\ t = "dialog"]
      /\ UNCHANGED <<state, goal, installed, jobs, acts>>
  BY DEF Return, Go
<1>2. PICK p \in Place, j \in Jobs("dialog") :
          /\ pc' = [pc EXCEPT ![t] = p] /\ job' = [job EXCEPT ![t] = j]
          /\ p \in {"idle", "open"} /\ j # "refresh"
  BY DEF Return, Go, Place, Jobs, Button
<1>3. ToolsFit
  <2>1. PICK n \in 0..PollLimit + 1 : n = 0
    BY ControlAssumption
  <2>2. QED BY <1>1, <1>2, <2>1, ToolFrame
<1>4. ok' \in [Tool -> BOOLEAN] /\ seen' \in [Tool -> State]
  BY <1>1 DEF TypeInv, TypeOK, State
<1>5. trouble' \in [Tool -> BOOLEAN]
  BY <1>1 DEF TypeInv, TypeOK
<1>6. buttons' \subseteq Button
  <2>1. Refreshes(t) /\ job[t] \in Jobs("dialog") /\ ok[t] \in BOOLEAN /\ buttons \subseteq Button
    BY DEF TypeInv, TypeOK
  <2>2. job[t] \in Button
    BY <1>1, <2>1 DEF Refreshes, Jobs
  <2>3. ButtonsAfter(job[t], ok[t]) \subseteq Button
    <3>1. CASE ok[t] = FALSE
      BY <2>1, <3>1, ButtonsAfterIs
    <3>2. CASE ok[t] = TRUE
      BY <2>1, <2>2, <3>2, ButtonsAfterIs DEF Button
    <3>3. QED BY <2>1, <3>1, <3>2
  <2>4. buttons' = IF t = "dialog" THEN ButtonsAfter(job[t], ok[t]) ELSE buttons
    BY DEF Return
  <2>5. QED BY <2>1, <2>3, <2>4
<1>7. QED BY <1>1, <1>3, <1>4, <1>5, <1>6, FitsType DEF TypeInv, TypeOK

LEMMA ShowType ==
    ASSUME TypeInv, Exists \/ ShowState \/ ShowFails
    PROVE  TypeInv'
<1> USE DEF entry, record, shown, scm
<1>1. /\ UNCHANGED <<state, goal, installed, seen, times, job, ok, jobs, acts>>
      /\ \E q \in {"exists", "state"}, p \in {"idle", "state"} : Go("dialog", q, p)
      /\ UNCHANGED trouble \/ Excuse("dialog", TRUE)
  BY DEF Exists, ShowState, ShowFails
<1>2. ToolsFit
  BY <1>1, GoFrame DEF Place, Tool
<1>3. trouble' \in [Tool -> BOOLEAN]
  BY <1>1, TroubleType DEF Tool
<1>4. buttons' \subseteq Button
  <2>1. buttons \subseteq Button /\ \A s : ButtonsFor(TRUE, s) \subseteq Button
    BY ButtonsForType DEF TypeInv, TypeOK
  <2>2. QED BY <2>1 DEF Exists, ShowState, ShowFails, Button
<1>5. QED BY <1>1, <1>2, <1>3, <1>4, FitsType DEF TypeInv, TypeOK

LEMMA OthersType ==
    ASSUME TypeInv, Administer \/ Service \/ Removed \/ UNCHANGED vars
    PROVE  TypeInv'
<1> USE DEF entry, record, shown
<1>1. /\ UNCHANGED <<pc, times, job, seen, ok, buttons, jobs>>
      /\ UNCHANGED trouble \/ Disturb("nobody")
      /\ UNCHANGED scm \/ StartService \/ (\E g \in Goal : Send(g)) \/ Started \/ Pending \/ StopsEarly
            \/ Finish
      /\ UNCHANGED installed \/ installed' = "no"
  BY DEF Administer, Service, Removed, vars
<1>2. ToolsFit
  BY <1>1, SameTools
<1>3. trouble' \in [Tool -> BOOLEAN] /\ state' \in State /\ goal' \in Goal \cup {"none"}
  BY <1>1, TroubleType, ScmType
<1>4. acts' \in 0..MaxActs
  BY ControlAssumption DEF Administer, Service, Removed, vars, TypeInv, TypeOK
<1>5. QED BY <1>1, <1>2, <1>3, <1>4, FitsType DEF TypeInv, TypeOK

LEMMA TypeInvariant == CSpec => []TypeInv
<1>1. CInit => TypeInv
  <2> SUFFICES ASSUME CInit PROVE TypeInv
    OBVIOUS
  <2>1. ButtonsFor(installed = "yes", "STOPPED") \subseteq Button
    BY ButtonsForType
  <2>2. /\ state \in State /\ goal \in Goal \cup {"none"} /\ installed \in {"no", "yes", "marked"}
        /\ pc \in [Tool -> Place] /\ seen \in [Tool -> State] /\ times \in [Tool -> 0..PollLimit + 1]
        /\ job \in [Tool -> Jobs("dialog")]
        /\ buttons \subseteq Button /\ jobs \in 0..MaxJobs /\ acts \in 0..MaxActs
    BY <2>1, ControlAssumption DEF CInit, Init, State, Place, Jobs, Button
  <2>3. ok \in [Tool -> BOOLEAN] /\ trouble \in [Tool -> BOOLEAN]
    BY DEF CInit
  <2>4. \A t \in Tool : Polls(t) /\ Refreshes(t)
    BY DEF CInit, Polls, Refreshes
  <2>5. QED BY <2>2, <2>3, <2>4 DEF TypeInv, TypeOK, Place
<1>2. TypeInv /\ [CNext]_vars => TypeInv'
  BY BeginType, CallType, WaitType, FailsType, ReturnType, ShowType, OthersType
     DEF CNext, ToolStep, CallSucceeds
<1>3. QED BY <1>1, <1>2, PTL DEF CSpec

\* Type correctness of the tools; the bound of times is that of the loops of
\* KService and wx_service, which poll PollLimit times and once more.
THEOREM ControlTypeCorrect == CSpec => []TypeOK
<1>1. TypeInv => TypeOK
  BY DEF TypeInv
<1>2. QED BY <1>1, TypeInvariant, PTL

-----------------------------------------------------------------------------
(* The service as the dialog knows it while nobody interferes.             *)

\* A stopped service can only be asked to stop, and one without an entry is
\* stopped.
EntryInv ==
    /\ state = "STOPPED" => goal \in {"none", "STOPPED"}
    /\ installed = "no" => state = "STOPPED"

\* Nothing is under way, and what was deleted or never installed is stopped.
Calm ==
    /\ goal = "none" /\ state \in {"STOPPED", "RUNNING", "PAUSED"}
    /\ installed # "yes" => state = "STOPPED"

Truth ==
    /\ "start" \in buttons => state = "STOPPED"
    /\ "stop" \in buttons => state = "RUNNING"
    /\ "uninstall" \in buttons <=> installed = "yes"

\* The service is installed, in state s, and no control is under way.
Known(s) == installed = "yes" /\ state = s /\ goal = "none"

Removable == "uninstall" \in buttons

\* What the dialog knows when it is at p with job j and, at return, result r.
Knows(p, j, r) ==
    /\ p \in {"idle", "create", "open", "query", "control", "start"} => Calm /\ Truth
    /\ p \in {"create", "describe"} => j = "install"
    /\ p \in {"open", "query"} =>
          /\ j \in {"start", "stop", "uninstall"}
          /\ j = "start" => state = "STOPPED"
          /\ j = "uninstall" => installed = "yes"
    /\ p = "control" =>
          /\ j \in {"stop", "uninstall"}
          /\ j = "uninstall" => Known("RUNNING")
    /\ p = "start" => j = "start" /\ state = "STOPPED"
    /\ p = "sent" =>
          /\ j \in {"stop", "uninstall"} /\ Removable /\ installed = "yes"
          /\ IF goal = "none" THEN state = "STOPPED"
             ELSE goal = "STOPPED" /\ state \in {"RUNNING", "PAUSED", "STOP_PENDING", "STOPPED"}
    /\ p = "poll" => j \in {"stop", "uninstall"} /\ Removable /\ Known("STOPPED")
    /\ p = "delete" => j = "uninstall" /\ Known("STOPPED")
    /\ p = "await" => j = "start" /\ Removable /\ (Known("START_PENDING") \/ Known("RUNNING"))
    /\ p = "describe" => Known("STOPPED")
    /\ p = "exists" => Calm /\ installed # "marked"
    /\ p = "state" => Calm /\ installed = "yes"
    /\ p = "return" /\ ~r => Calm /\ Truth
    /\ p = "return" /\ r =>
          /\ j \in Button
          /\ j = "install" => Known("STOPPED")
          /\ j = "uninstall" => Calm /\ installed # "yes"
          /\ j = "start" => Known("RUNNING") /\ Removable
          /\ j = "stop" => Known("STOPPED") /\ Removable

DialogInv == ~trouble["dialog"] => Knows(pc["dialog"], job["dialog"], ok["dialog"])

\* A tool that is about to delete saw the service stopped.
DeleteInv == \A t \in Tool : pc[t] = "delete" /\ ~trouble[t] => state = "STOPPED"

ControlInv == EntryInv /\ DialogInv /\ DeleteInv

-----------------------------------------------------------------------------
(* Everybody else, as a tool sees them.                                    *)

LEMMA EntryStep ==
    ASSUME TypeInv, EntryInv, [CNext]_vars
    PROVE  EntryInv'
<1> USE DEF EntryInv, entry, scm
<1>1. \/ UNCHANGED <<state, goal, installed>>
      \/ UNCHANGED installed /\ (\E g \in Goal : Send(g))
      \/ UNCHANGED installed /\ StartService /\ installed = "yes"
      \/ UNCHANGED installed /\ (Started \/ Pending \/ StopsEarly \/ Finish)
      \/ UNCHANGED <<state, goal>> /\ installed' = "no" /\ state = "STOPPED"
      \/ UNCHANGED <<state, goal>> /\ installed' \in {"yes", "marked"}
  <2>1. ASSUME NEW t \in Tool, ToolStep(t) PROVE <1>1
    <3>1. CASE Stop(t)
      BY <3>1 DEF Stop, Goal
    <3>2. CASE \/ Open(t) \/ Query(t) \/ StopRefused(t) \/ Sent(t) \/ Poll(t) \/ Await(t) \/ Describe(t)
               \/ Return(t) \/ Fails(t) \/ Exists \/ ShowState \/ ShowFails
      BY <3>2 DEF Open, Query, StopRefused, Sent, Poll, Await, Describe, Return, Fails, Exists, ShowState,
                  ShowFails
    <3>3. CASE Delete(t) \/ Create(t)
      BY <3>3 DEF Delete, Create
    <3>4. CASE Start(t)
      BY <3>4 DEF Start
    <3>5. QED BY <2>1, <3>1, <3>2, <3>3, <3>4 DEF ToolStep, CallSucceeds
  <2>2. ASSUME NEW t \in Tool, NEW j \in Jobs(t), Begin(t, j) PROVE UNCHANGED <<state, goal, installed>>
    BY <2>2, Zenon DEF Begin
  <2>3. CASE Administer
    BY <2>3 DEF Administer
  <2>4. CASE Service
    BY <2>4 DEF Service
  <2>5. CASE Removed
    BY <2>5 DEF Removed
  <2>6. CASE UNCHANGED vars
    BY <2>6 DEF vars
  <2>7. QED BY <2>1, <2>2, <2>3, <2>4, <2>5, <2>6 DEF CNext
<1>2. QED BY <1>1 DEF Send, StartService, Started, Pending, StopsEarly, Finish

\* To tool t, u is somebody else: nothing of t moves, and if the service or
\* its entry does then t has a reason for not knowing.
Stranger(t) ==
    /\ pc'[t] = pc[t] /\ job'[t] = job[t] /\ ok'[t] = ok[t]
    /\ t = "dialog" => buttons' = buttons
    /\ \/ UNCHANGED <<state, goal, installed>> /\ trouble'[t] = trouble[t]
       \/ pc[t] # "idle" \/ t = "dialog" => trouble'[t]

LEMMA DisturbsOthers ==
    ASSUME NEW t \in Tool, NEW u, u # t, Disturb(u), pc[t] # "idle" \/ t = "dialog"
    PROVE  trouble'[t]
BY DEF Disturb

LEMMA StrangerStep ==
    ASSUME TypeInv, NEW t \in Tool,
           \/ \E u \in Tool \ {t} : ToolStep(u) \/ \E j \in Jobs(u) : Begin(u, j)
           \/ Administer \/ UNCHANGED vars
    PROVE  Stranger(t)
<1> USE DEF entry, scm, record, shown
<1>1. ASSUME NEW u \in Tool \ {t}, ToolStep(u) PROVE Stranger(t)
  <2>1. /\ \A p : pc' = [pc EXCEPT ![u] = p] => pc'[t] = pc[t]
        /\ \A j : job' = [job EXCEPT ![u] = j] => job'[t] = job[t]
        /\ \A r : ok' = [ok EXCEPT ![u] = r] => ok'[t] = ok[t]
        /\ \A b : trouble' = [trouble EXCEPT ![u] = b] => trouble'[t] = trouble[t]
    BY DEF TypeInv, TypeOK
  <2>2. /\ pc'[t] = pc[t] /\ job'[t] = job[t] /\ ok'[t] = ok[t]
        /\ t = "dialog" => buttons' = buttons
    <3> USE DEF Result, Go, GiveUp
    <3>1. CASE Open(u) \/ Query(u) \/ Stop(u) \/ StopRefused(u) \/ Sent(u)
      BY <2>1, <3>1 DEF Open, Query, Stop, StopRefused, Sent
    <3>2. CASE Poll(u) \/ Await(u)
      BY <2>1, <3>2 DEF Poll, AfterPoll, Await
    <3>3. CASE Delete(u) \/ Start(u) \/ Create(u) \/ Describe(u)
      BY <2>1, <3>3 DEF Delete, Start, Create, Describe
    <3>4. CASE Return(u)
      BY <2>1, <3>4 DEF Return
    <3>5. CASE Fails(u)
      BY <2>1, <3>5 DEF Fails, AfterPoll
    <3>6. CASE u = "dialog" /\ (Exists \/ ShowState \/ ShowFails)
      BY <2>1, <3>6 DEF Exists, ShowState, ShowFails
    <3>7. QED BY <1>1, <3>1, <3>2, <3>3, <3>4, <3>5, <3>6 DEF ToolStep, CallSucceeds
  <2>3. \/ UNCHANGED <<state, goal, installed>> /\ trouble'[t] = trouble[t]
        \/ Disturb(u)
    <3>1. CASE Stop(u) \/ Delete(u) \/ Start(u) \/ Create(u)
      BY <3>1 DEF Stop, Delete, Start, Create
    <3>2. CASE Open(u) \/ StopRefused(u) \/ Sent(u) \/ Describe(u)
      BY <3>2 DEF Open, StopRefused, Sent, Describe
    <3>3. CASE Query(u) \/ Poll(u) \/ Await(u) \/ Fails(u)
      BY <2>1, <3>3 DEF Query, Poll, Await, Fails, Excuse
    <3>4. CASE Return(u)
      BY <2>1, <3>4 DEF Return
    <3>5. CASE u = "dialog" /\ (Exists \/ ShowState \/ ShowFails)
      BY <2>1, <3>5 DEF Exists, ShowState, ShowFails, Excuse
    <3>6. QED BY <1>1, <3>1, <3>2, <3>3, <3>4, <3>5 DEF ToolStep, CallSucceeds
  <2>4. QED BY <2>2, <2>3, DisturbsOthers DEF Stranger
<1>2. ASSUME NEW u \in Tool \ {t}, NEW j \in Jobs(u), Begin(u, j) PROVE Stranger(t)
  <2>1. /\ \E p : Go(u, "idle", p)
        /\ job' = [job EXCEPT ![u] = j]
        /\ UNCHANGED <<state, goal, installed, ok, buttons>>
        /\ trouble' = IF j = "refresh" THEN [trouble EXCEPT ![u] = ~Quiet] ELSE trouble
    BY <1>2, Zenon DEF Begin
  <2>2. QED BY <2>1 DEF Go, Stranger, TypeInv, TypeOK
<1>3. CASE Administer
  <2>1. "nobody" # t
    BY DEF Tool
  <2>2. QED BY <1>3, <2>1, DisturbsOthers DEF Administer, Stranger
<1>4. CASE UNCHANGED vars
  BY <1>4 DEF vars, Stranger
<1>5. QED BY <1>1, <1>2, <1>3, <1>4

\* What the dialog knows stays true when nothing of it moves.
LEMMA KnowsFrame ==
    ASSUME NEW p, NEW j, NEW r, Knows(p, j, r), UNCHANGED <<state, goal, installed, buttons>>
    PROVE  Knows(p, j, r)'
BY DEF Knows, Calm, Truth, Known, Removable

\* It is right about what the service still does by itself ...
LEMMA KnowsService ==
    ASSUME TypeInv, NEW p \in Place, NEW j, NEW r \in BOOLEAN, Knows(p, j, r), Service
    PROVE  Knows(p, j, r)'
<1> USE DEF Service, Started, Pending, StopsEarly, Finish
<1>1. UNCHANGED <<installed, buttons>>
  BY DEF shown
<1>2. ~Calm /\ ~Known("STOPPED") /\ ~Known("RUNNING")
  BY DEF Calm, Known
<1>3. p \in {"sent", "await"}
  BY <1>2 DEF Knows, Place, Button
<1>4. CASE p = "sent"
  BY <1>1, <1>4 DEF Knows, Removable
<1>5. CASE p = "await"
  BY <1>1, <1>5 DEF Knows, Known, Removable
<1>6. QED BY <1>3, <1>4, <1>5

\* ... and about the entry that is removed in the end.
LEMMA KnowsRemoved ==
    ASSUME TypeInv, NEW p \in Place, NEW j, NEW r \in BOOLEAN, Knows(p, j, r), Removed
    PROVE  Knows(p, j, r)'
<1>1. installed = "marked" /\ installed' = "no" /\ state = "STOPPED" /\ UNCHANGED <<state, goal, buttons>>
  BY DEF Removed, scm, shown
<1>2. QED BY <1>1 DEF Knows, Calm, Truth, Known, Removable

-----------------------------------------------------------------------------
(* The dialog's own steps.                                                 *)

\* p, j and r are the place, the job and the result of the dialog afterwards.
After(p, j, r) == pc'["dialog"] = p /\ job'["dialog"] = j /\ ok'["dialog"] = r

LEMMA AfterResult ==
    ASSUME TypeInv, NEW q, NEW r, Result("dialog", q, r), UNCHANGED job
    PROVE  pc["dialog"] = q /\ After("return", job["dialog"], r)
BY DEF TypeInv, TypeOK, Result, Go, After, Tool

LEMMA AfterGo ==
    ASSUME TypeInv, NEW q, NEW p, Go("dialog", q, p), UNCHANGED <<job, ok>>
    PROVE  pc["dialog"] = q /\ After(p, job["dialog"], ok["dialog"])
BY DEF TypeInv, TypeOK, Go, After, Tool

LEMMA AfterExcuse ==
    ASSUME TypeInv, NEW b \in BOOLEAN, Excuse("dialog", b), ~trouble'["dialog"]
    PROVE  ~b /\ ~trouble["dialog"]
BY DEF TypeInv, TypeOK, Excuse, Tool

\* A call that changes nothing leaves the dialog with what it knew.
LEMMA DialogCalls ==
    ASSUME TypeInv, NEW j \in Jobs("dialog"), NEW r \in BOOLEAN, NEW q \in Place,
           j = job["dialog"], r = ok["dialog"], q = pc["dialog"], Knows(q, j, r),
           Open("dialog") \/ Query("dialog") \/ StopRefused("dialog") \/ Describe("dialog"),
           ~trouble'["dialog"]
    PROVE  \E p \in Place, v \in BOOLEAN : After(p, j, v) /\ Knows(p, j, v)'
<1> USE AfterResult, AfterGo, AfterExcuse DEF entry, scm, record, shown, Calm, Truth, Known, Removable, Knows,
        Place
<1>1. CASE Open("dialog")
  <2>1. UNCHANGED <<state, goal, installed, buttons, job>> /\ q = "open"
    BY <1>1 DEF Open, Go, Result
  <2>2. CASE installed = "no"
    <3>1. Result("dialog", "open", FALSE)
      BY <1>1, <2>2 DEF Open
    <3>2. After("return", j, FALSE)
      BY <2>1, <3>1
    <3>3. Knows("return", j, FALSE)'
      BY <2>1, <2>2
    <3>4. QED BY <3>2, <3>3
  <2>3. CASE installed # "no"
    <3>1. Go("dialog", "open", "query") /\ UNCHANGED ok
      BY <1>1, <2>3 DEF Open
    <3>2. After("query", j, r)
      BY <2>1, <3>1
    <3>3. Knows("query", j, r)'
      BY <2>1, <2>3
    <3>4. QED BY <3>2, <3>3
  <2>4. QED BY <2>2, <2>3
<1>2. CASE Query("dialog")
  <2>1. /\ UNCHANGED <<state, goal, installed, buttons, job>> /\ q = "query"
        /\ ~(j = "uninstall" /\ state \notin {"RUNNING", "STOPPED"})
    BY <1>2 DEF Query, Go, Result, GiveUp
  <2>2. CASE j = "start"
    <3>1. Go("dialog", "query", "start") /\ UNCHANGED ok
      BY <1>2, <2>1, <2>2 DEF Query
    <3>2. QED BY <2>1, <2>2, <3>1
  <2>3. CASE j # "start" /\ (j = "stop" \/ state = "RUNNING")
    <3>1. Go("dialog", "query", "control") /\ UNCHANGED ok
      BY <1>2, <2>3 DEF Query
    <3>2. QED BY <2>1, <2>3, <3>1
  <2>4. CASE j = "uninstall" /\ state = "STOPPED"
    <3>1. Go("dialog", "query", "delete") /\ UNCHANGED ok
      BY <1>2, <2>4 DEF Query
    <3>2. QED BY <2>1, <2>4, <3>1
  <2>5. QED BY <2>1, <2>2, <2>3, <2>4
<1>3. CASE StopRefused("dialog")
  BY <1>3 DEF StopRefused
<1>4. CASE Describe("dialog")
  BY <1>4 DEF Describe, Button
<1>5. QED BY <1>1, <1>2, <1>3, <1>4

\* A call that changes the service or its entry leaves it with the change.
LEMMA DialogChanges ==
    ASSUME TypeInv, EntryInv, NEW j \in Jobs("dialog"), NEW r \in BOOLEAN, NEW q \in Place,
           j = job["dialog"], r = ok["dialog"], q = pc["dialog"], Knows(q, j, r),
           Stop("dialog") \/ Delete("dialog") \/ Start("dialog") \/ Create("dialog")
    PROVE  \E p \in Place, v \in BOOLEAN : After(p, j, v) /\ Knows(p, j, v)'
<1> USE AfterResult, AfterGo DEF entry, scm, record, shown, Calm, Truth, Known, Removable, Knows, Place
<1>1. CASE Stop("dialog")
  BY <1>1 DEF Stop, Send
<1>2. CASE Delete("dialog")
  BY <1>2 DEF Delete, Button
<1>3. CASE Start("dialog")
  BY <1>3 DEF Start, StartService
<1>4. CASE Create("dialog")
  BY <1>4 DEF Create
<1>5. QED BY <1>1, <1>2, <1>3, <1>4

\* A wait ends with the state it waited for.
LEMMA DialogWaits ==
    ASSUME TypeInv, NEW j \in Jobs("dialog"), NEW r \in BOOLEAN, NEW q \in Place,
           j = job["dialog"], r = ok["dialog"], q = pc["dialog"], Knows(q, j, r),
           Sent("dialog") \/ Poll("dialog") \/ Await("dialog"),
           ~trouble'["dialog"]
    PROVE  \E p \in Place, v \in BOOLEAN : After(p, j, v) /\ Knows(p, j, v)'
<1> USE AfterResult, AfterGo, AfterExcuse DEF entry, scm, record, shown, Calm, Truth, Known, Removable, Knows,
        Place
<1>1. CASE Sent("dialog")
  BY <1>1 DEF Sent
<1>2. CASE Poll("dialog")
  BY <1>2 DEF Poll, AfterPoll, Button
<1>3. CASE Await("dialog")
  BY <1>3 DEF Await, After, Button
<1>4. QED BY <1>1, <1>2, <1>3

\* The buttons after a job that succeeded are true.
LEMMA DialogReturns ==
    ASSUME TypeInv, EntryInv, NEW j \in Jobs("dialog"), NEW r \in BOOLEAN, NEW q \in Place,
           j = job["dialog"], r = ok["dialog"], q = pc["dialog"], Knows(q, j, r),
           Return("dialog")
    PROVE  \E p \in Place, i \in Jobs("dialog"), v \in BOOLEAN : After(p, i, v) /\ Knows(p, i, v)'
<1>1. /\ q = "return" /\ UNCHANGED <<state, goal, installed>>
      /\ buttons' = ButtonsAfter(j, r)
  BY DEF Return, Go, entry, scm
<1>2. \/ After("idle", "install", TRUE)
      \/ r = TRUE /\ j = "install" /\ After("open", "start", TRUE)
  BY DEF Return, Go, After, TypeInv, TypeOK, Tool
<1>3. "install" \in Jobs("dialog") /\ "start" \in Jobs("dialog")
  BY DEF Jobs, Button
<1>4. (Calm /\ Truth)'
  <2> USE DEF Knows, Calm, Truth, Known, Removable
  <2>1. CASE r = FALSE
    BY <1>1, <2>1, ButtonsAfterIs
  <2>2. CASE r = TRUE /\ j = "install"
    BY <1>1, <2>2, ButtonsAfterIs
  <2>3. CASE r = TRUE /\ j = "uninstall"
    BY <1>1, <2>3, ButtonsAfterIs
  <2>4. CASE r = TRUE /\ j = "start"
    BY <1>1, <2>4, ButtonsAfterIs
  <2>5. CASE r = TRUE /\ j = "stop"
    BY <1>1, <2>5, ButtonsAfterIs
  <2>6. r = TRUE => j \in Button
    BY <1>1 DEF Knows
  <2>7. QED BY <2>1, <2>2, <2>3, <2>4, <2>5, <2>6 DEF Button
<1>5. r = TRUE /\ j = "install" => state' = "STOPPED"
  BY <1>1 DEF Knows, Known
<1>6. Knows("idle", "install", TRUE)' /\ (r = TRUE /\ j = "install" => Knows("open", "start", TRUE)')
  BY <1>4, <1>5 DEF Knows
<1>7. QED BY <1>2, <1>3, <1>6 DEF Place

\* So are those of a refresh, whatever they were before it.
LEMMA DialogLooks ==
    ASSUME TypeInv, EntryInv, NEW j \in Jobs("dialog"), NEW r \in BOOLEAN, NEW q \in Place,
           j = job["dialog"], r = ok["dialog"], q = pc["dialog"], Knows(q, j, r),
           Exists \/ ShowState
    PROVE  \E p \in Place, v \in BOOLEAN : After(p, j, v) /\ Knows(p, j, v)'
<1> USE AfterGo DEF entry, scm, record, shown, Calm, Truth, Knows, Place
<1>1. CASE Exists
  BY <1>1 DEF Exists, TypeInv, TypeOK
<1>2. CASE ShowState
  <2>1. Calm /\ installed = "yes" /\ Go("dialog", "state", "idle") /\ buttons' = ButtonsFor(TRUE, state)
        /\ UNCHANGED <<state, goal, installed, job, ok>>
    BY <1>2 DEF ShowState, Go
  <2>2. Truth'
    <3>1. CASE state = "RUNNING"
      <4>1. ButtonsFor(TRUE, state) = {"uninstall", "stop"}
        BY <3>1, ButtonsForIs
      <4>2. QED BY <2>1, <3>1, <4>1
    <3>2. CASE state = "STOPPED"
      <4>1. ButtonsFor(TRUE, state) = {"uninstall", "start"}
        BY <3>2, ButtonsForIs
      <4>2. QED BY <2>1, <3>2, <4>1
    <3>3. CASE state \notin {"RUNNING", "STOPPED"}
      <4>1. ButtonsFor(TRUE, state) = {"uninstall"}
        BY <3>3, ButtonsForIs
      <4>2. QED BY <2>1, <3>3, <4>1
    <3>4. QED BY <3>1, <3>2, <3>3
  <2>3. QED BY <2>1, <2>2
<1>3. QED BY <1>1, <1>2

\* A new job begins with the truth, or with a look at a service that is quiet.
LEMMA DialogBegins ==
    ASSUME TypeInv, EntryInv, DialogInv, NEW i \in Jobs("dialog"), Begin("dialog", i), ~trouble'["dialog"]
    PROVE  \E p \in Place, v \in BOOLEAN : After(p, i, v) /\ Knows(p, i, v)'
<1>1. PICK p \in {"create", "exists", "open"} :
          /\ i # "refresh" => i \in buttons
          /\ Go("dialog", "idle", p)
          /\ p = "exists" <=> i = "refresh"
          /\ p = "create" <=> i = "install"
          /\ job' = [job EXCEPT !["dialog"] = i]
          /\ trouble' = IF i = "refresh" THEN [trouble EXCEPT !["dialog"] = ~Quiet] ELSE trouble
          /\ UNCHANGED <<entry, record, ok, buttons, acts>>
  BY Zenon DEF Begin
<1>2. PICK v \in BOOLEAN : v = ok["dialog"]
  BY DEF TypeInv, TypeOK, Tool
<1>3. After(p, i, v) /\ pc["dialog"] = "idle" /\ UNCHANGED <<state, goal, installed, buttons>>
  BY <1>1, <1>2 DEF After, Go, TypeInv, TypeOK, Tool, entry, scm
<1>4. CASE i = "refresh"
  <2>1. Quiet
    BY <1>1, <1>4 DEF TypeInv, TypeOK, Tool
  <2>2. (Calm /\ installed # "marked")'
    BY <1>3, <2>1 DEF Quiet, Calm, EntryInv, TypeInv, TypeOK
  <2>3. QED BY <1>1, <1>3, <1>4, <2>2 DEF Knows, Place
<1>5. CASE i # "refresh"
  <2>1. ~trouble["dialog"] /\ i \in buttons
    BY <1>1, <1>5
  <2>2. Calm /\ Truth
    BY <1>3, <2>1 DEF DialogInv, Knows
  <2>3. (Calm /\ Truth)' /\ (i = "start" => state' = "STOPPED") /\ (i = "uninstall" => installed' = "yes")
    BY <1>3, <2>1, <2>2 DEF Calm, Truth
  <2>4. i \in {"install", "start", "stop", "uninstall"}
    BY <1>5 DEF Jobs, Button
  <2>5. QED BY <1>1, <1>3, <1>5, <2>3, <2>4 DEF Knows, Place
<1>6. QED BY <1>4, <1>5

LEMMA DialogStep ==
    ASSUME TypeInv, EntryInv, DialogInv, [CNext]_vars
    PROVE  DialogInv'
<1> SUFFICES ASSUME ~trouble'["dialog"] PROVE Knows(pc["dialog"], job["dialog"], ok["dialog"])'
  BY DEF DialogInv
<1>1. PICK q \in Place, j \in Jobs("dialog"), r \in BOOLEAN :
          q = pc["dialog"] /\ j = job["dialog"] /\ r = ok["dialog"]
  BY DEF TypeInv, TypeOK, Tool, Place
<1>2. "dialog" \in Tool
  BY DEF Tool
<1>3. ASSUME NEW p \in Place, NEW i \in Jobs("dialog"), NEW v \in BOOLEAN, After(p, i, v), Knows(p, i, v)'
      PROVE  Knows(pc["dialog"], job["dialog"], ok["dialog"])'
  BY <1>3 DEF After
<1>4. ASSUME Stranger("dialog") PROVE Knows(pc["dialog"], job["dialog"], ok["dialog"])'
  <2>1. /\ ~trouble["dialog"] /\ UNCHANGED <<state, goal, installed, buttons>>
        /\ pc'["dialog"] = q /\ job'["dialog"] = j /\ ok'["dialog"] = r
    BY <1>1, <1>4 DEF Stranger
  <2>2. Knows(q, j, r)
    BY <1>1, <2>1 DEF DialogInv
  <2>3. Knows(q, j, r)'
    BY <2>1, <2>2, KnowsFrame
  <2>4. QED BY <2>1, <2>3
<1>5. CASE Service \/ Removed
  <2>1. /\ ~trouble["dialog"]
        /\ pc'["dialog"] = q /\ job'["dialog"] = j /\ ok'["dialog"] = r
    BY <1>1, <1>5 DEF Service, Removed
  <2>2. Knows(q, j, r)
    BY <1>1, <2>1 DEF DialogInv
  <2>3. Knows(q, j, r)'
    BY <1>5, <2>2, KnowsService, KnowsRemoved
  <2>4. QED BY <2>1, <2>3
<1>6. ASSUME NEW i \in Jobs("dialog"), Begin("dialog", i)
      PROVE  Knows(pc["dialog"], job["dialog"], ok["dialog"])'
  <2>1. PICK p \in Place, v \in BOOLEAN : After(p, i, v) /\ Knows(p, i, v)'
    BY <1>6, DialogBegins
  <2>2. QED BY <1>3, <2>1
<1>7. CASE Fails("dialog") \/ ShowFails
  <2>1. Excuse("dialog", TRUE)
    BY <1>7 DEF Fails, ShowFails
  <2>2. QED BY <2>1, AfterExcuse
<1>8. CASE CallSucceeds("dialog")
  <2>1. ~trouble["dialog"]
    <3>1. trouble["dialog"] \in BOOLEAN
      BY <1>2 DEF TypeInv, TypeOK
    <3>2. \/ UNCHANGED trouble \/ Disturb("dialog") \/ \E b \in BOOLEAN : Excuse("dialog", b)
          \/ trouble' = [trouble EXCEPT !["dialog"] = @ /\ "dialog" = "dialog"]
      BY <1>8 DEF CallSucceeds, Open, Query, Stop, StopRefused, Sent, Poll, Delete, Start, Await, Create,
                  Describe, Return, Exists, ShowState, shown
    <3>3. QED BY <1>2, <3>1, <3>2, AfterExcuse DEF Disturb, TypeInv, TypeOK
  <2>2. Knows(q, j, r)
    BY <1>1, <2>1 DEF DialogInv
  <2>3. \E p \in Place, i \in Jobs("dialog"), v \in BOOLEAN : After(p, i, v) /\ Knows(p, i, v)'
    <3>1. CASE Open("dialog") \/ Query("dialog") \/ StopRefused("dialog") \/ Describe("dialog")
      BY <1>1, <2>2, <3>1, DialogCalls
    <3>2. CASE Stop("dialog") \/ Delete("dialog") \/ Start("dialog") \/ Create("dialog")
      BY <1>1, <2>2, <3>2, DialogChanges
    <3>3. CASE Sent("dialog") \/ Poll("dialog") \/ Await("dialog")
      BY <1>1, <2>2, <3>3, DialogWaits
    <3>4. CASE Return("dialog")
      BY <1>1, <2>2, <3>4, DialogReturns
    <3>5. CASE Exists \/ ShowState
      BY <1>1, <2>2, <3>5, DialogLooks
    <3>6. QED BY <1>8, <3>1, <3>2, <3>3, <3>4, <3>5 DEF CallSucceeds
  <2>4. QED BY <1>3, <2>3
<1>9. \/ Stranger("dialog") \/ Service \/ Removed
      \/ \E i \in Jobs("dialog") : Begin("dialog", i)
      \/ CallSucceeds("dialog") \/ Fails("dialog") \/ ShowFails
  <2>1. CASE \E t \in Tool : ToolStep(t) \/ \E i \in Jobs(t) : Begin(t, i)
    <3>1. PICK t \in Tool : ToolStep(t) \/ \E i \in Jobs(t) : Begin(t, i)
      BY <2>1
    <3>2. CASE t = "dialog"
      BY <3>1, <3>2 DEF ToolStep
    <3>3. CASE t # "dialog"
      BY <1>2, <3>1, <3>3, StrangerStep
    <3>4. QED BY <3>2, <3>3
  <2>2. CASE Administer \/ UNCHANGED vars
    BY <1>2, <2>2, StrangerStep
  <2>3. QED BY <2>1, <2>2 DEF CNext
<1>10. QED BY <1>4, <1>5, <1>6, <1>7, <1>8, <1>9

\* A tool comes to its deletion when it has just seen the service stopped.
LEMMA DeleteMine ==
    ASSUME TypeInv, NEW t \in Tool, ToolStep(t), pc'[t] = "delete", ~trouble'[t]
    PROVE  state' = "STOPPED"
<1> USE DEF entry, scm, record, shown, TypeInv, TypeOK
<1>1. \A q, p : Go(t, q, p) => p = "delete"
  BY DEF Go
<1>2. \A q, r : ~Result(t, q, r)
  BY <1>1 DEF Result
<1>3. ~Fails(t) /\ ~(t = "dialog" /\ ShowFails)
  BY DEF Fails, ShowFails, Excuse
<1>4. CASE Query(t)
  BY <1>1, <1>2, <1>4 DEF Query, GiveUp
<1>5. CASE StopRefused(t)
  BY <1>1, <1>2, <1>5 DEF StopRefused
<1>6. CASE Poll(t)
  BY <1>1, <1>2, <1>6 DEF Poll, AfterPoll, GiveUp
<1>7. /\ ~Open(t) /\ ~Stop(t) /\ ~Sent(t) /\ ~Delete(t) /\ ~Start(t) /\ ~Create(t) /\ ~Describe(t)
      /\ ~Return(t) /\ ~Await(t) /\ ~(t = "dialog" /\ (Exists \/ ShowState))
  BY <1>1, <1>2 DEF Open, Stop, Sent, Delete, Start, Create, Describe, Return, Await, GiveUp, Exists,
                    ShowState
<1>8. QED BY <1>3, <1>4, <1>5, <1>6, <1>7 DEF ToolStep, CallSucceeds

LEMMA DeleteStep ==
    ASSUME TypeInv, EntryInv, DeleteInv, [CNext]_vars
    PROVE  DeleteInv'
<1> SUFFICES ASSUME NEW t \in Tool, pc'[t] = "delete", ~trouble'[t] PROVE state' = "STOPPED"
  BY DEF DeleteInv
<1>1. CASE Stranger(t)
  BY <1>1 DEF Stranger, DeleteInv
<1>2. CASE Service
  BY <1>2 DEF Service, Started, Pending, StopsEarly, Finish, DeleteInv, EntryInv
<1>3. CASE Removed
  BY <1>3 DEF Removed
<1>4. CASE ToolStep(t)
  BY <1>4, DeleteMine
<1>5. ASSUME NEW j \in Jobs(t), Begin(t, j) PROVE FALSE
  <2>1. PICK p \in {"create", "exists", "open"} : Go(t, "idle", p)
    BY <1>5, Zenon DEF Begin
  <2>2. QED BY <2>1 DEF Go, TypeInv, TypeOK
<1>6. \/ Stranger(t) \/ Service \/ Removed \/ ToolStep(t) \/ \E j \in Jobs(t) : Begin(t, j)
  BY StrangerStep DEF CNext
<1>7. QED BY <1>1, <1>2, <1>3, <1>4, <1>5, <1>6

LEMMA ControlInvariant == CSpec => [](TypeInv /\ ControlInv)
<1>1. CInit => ControlInv
  <2> SUFFICES ASSUME CInit PROVE ControlInv
    OBVIOUS
  <2>1. EntryInv /\ DeleteInv
    BY DEF CInit, Init, EntryInv, DeleteInv
  <2>2. Calm
    BY DEF CInit, Init, Calm
  <2>3. Truth
    <3>1. installed \in {"no", "yes"} /\ state = "STOPPED"
      BY DEF CInit, Init
    <3>2. \/ installed = "no" /\ buttons = {"install"}
          \/ installed = "yes" /\ buttons = {"uninstall", "start"}
      BY <3>1, Zenon DEF CInit, ButtonsFor
    <3>3. QED BY <3>1, <3>2 DEF Truth
  <2>4. pc["dialog"] = "idle"
    BY DEF CInit, Tool
  <2>5. DialogInv
    BY <2>2, <2>3, <2>4 DEF DialogInv, Knows
  <2>6. QED BY <2>1, <2>5 DEF ControlInv
<1>2. TypeInv /\ ControlInv /\ [CNext]_vars => ControlInv'
  BY EntryStep, DialogStep, DeleteStep DEF ControlInv
<1>3. QED BY <1>1, <1>2, TypeInvariant, PTL DEF CSpec

\* The buttons of the dialog tell what can be done while nobody interferes,
\* for any number of jobs, polls and acts of administrators.
THEOREM ButtonsAreTrue == CSpec => []ButtonsTellTruth
<1>1. ControlInv => ButtonsTellTruth
  BY DEF ControlInv, DialogInv, Knows, Truth, ButtonsTellTruth
<1>2. QED BY <1>1, ControlInvariant, PTL

\* No tool that nobody disturbs deletes a service that has not stopped.
THEOREM StoppedBeforeDeleted == CSpec => DeletesStopped
<1>1. ControlInv => (\A t \in Tool : installed = "yes" /\ Delete(t) /\ ~trouble[t] => state = "STOPPED")
  BY DEF ControlInv, DeleteInv, Delete, Result, Go
<1>2. QED BY <1>1, ControlInvariant, PTL DEF DeletesStopped
=============================================================================
