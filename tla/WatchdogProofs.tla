--------------------------- MODULE WatchdogProofs ---------------------------
(***************************************************************************)
(* Theorems about ServiceWatchdog for any number of starts of the service  *)
(* and of the uploader.                                                    *)
(***************************************************************************)
EXTENDS ServiceWatchdog, SequenceTheorems, TLAPS

-----------------------------------------------------------------------------
(* The inductive invariant: what the two threads have told the SCM, set in *)
(* the flags and left in status, for every piece of code they are in.      *)

\* The code a thread can have before it.
Last           == <<Report>>
Ending(s)      == <<Write(s), Report>>
Stopping3      == <<SetStop, Write("STOPPED"), Report>>
Stopping4      == <<Report, SetStop, Write("STOPPED"), Report>>
Stopping5      == <<Write("STOP_PENDING"), Report, SetStop, Write("STOPPED"), Report>>
Turning3(b, s) == <<SetPause(b), Write(s), Report>>
Turning4(b, s) == <<Report, SetPause(b), Write(s), Report>>
Turning5(b, s) == <<Write("PAUSE_PENDING"), Report, SetPause(b), Write(s), Report>>
Starting3      == <<Report, Write("RUNNING"), Report>>
Starting4      == <<Write("START_PENDING"), Report, Write("RUNNING"), Report>>

Ctl     == code["control"]
Main    == code["main"]
Active  == told \in {"RUNNING", "PAUSED"}

\* Before a start.
Resting ==
    /\ run = "none" /\ Main = << >> /\ Ctl = << >>
    /\ told = "STOPPED" /\ ~bStop /\ ~bPause /\ late = 0

\* ServiceMain is on its way to Run: no control comes before it said RUNNING.
Starting ==
    /\ run = "top" /\ Ctl = << >> /\ ~bStop /\ ~bPause /\ late = 0
    /\ \/ Main = Starting4 /\ told = "STOPPED"
       \/ Main = Starting3 /\ told = "STOPPED" /\ status = "START_PENDING"
       \/ Main = Ending("RUNNING") /\ told = "START_PENDING"
       \/ Main = Last /\ told = "START_PENDING" /\ status = "RUNNING"

\* PAUSE (b = TRUE) or CONTINUE (b = FALSE) on its way to state s.
Turning(b, s) ==
    \/ Ctl = Turning5(b, s) /\ Active
    \/ Ctl = Turning4(b, s) /\ Active /\ status = "PAUSE_PENDING"
    \/ Ctl = Turning3(b, s) /\ told = "PAUSE_PENDING"
    \/ Ctl = Ending(s) /\ told = "PAUSE_PENDING" /\ bPause = b
    \/ Ctl = Last /\ status = s /\ told = "PAUSE_PENDING" /\ bPause = b

\* Run is in its loop and nobody has set bStop: status is ServiceHandle's.
Working ==
    /\ run \in {"top", "pause", "held", "look", "launch"} /\ Main = << >> /\ ~bStop
    /\ told = "PAUSED" => bPause
    /\ \/ Ctl = << >> /\ Active
       \/ Ctl = Stopping5 /\ Active
       \/ Ctl = Stopping4 /\ Active /\ status = "STOP_PENDING"
       \/ Ctl = Stopping3 /\ (Active \/ told = "STOP_PENDING")
       \/ Turning(TRUE, "PAUSED")
       \/ Turning(FALSE, "RUNNING")

\* bStop is set: both threads write and report STOPPED and nothing else.
Ended ==
    /\ run \in {"top", "pause", "held", "look", "launch", "leave", "left"} /\ bStop
    /\ told \in {"RUNNING", "PAUSED", "STOP_PENDING", "STOPPED"}
    /\ told = "STOPPED" => status = "STOPPED"
    /\ \/ Ctl = Ending("STOPPED")
       \/ Ctl = Last /\ status = "STOPPED"
       \/ Ctl = << >> /\ told = "STOPPED"
    /\ \/ Main = << >>
       \/ run = "left" /\ Main = Ending("STOPPED")
       \/ run = "left" /\ Main = Last /\ status = "STOPPED"

\* Run cannot come to CreateProcess unless CONTINUE lets it.
Barred ==
    \/ bPause /\ run \notin {"look", "launch"}
    \/ bStop /\ run \notin {"pause", "look", "launch"}

Resuming ==
    /\ ~bStop /\ told = "PAUSE_PENDING"
    /\ Ctl = Ending("RUNNING") \/ (Ctl = Last /\ status = "RUNNING")

LateInv == late <= 1 /\ (late = 1 => Barred \/ Resuming)

AppInv == OneApp /\ (run = "launch" => apps <= hand)

ServiceInv == (Resting \/ Starting \/ Working \/ Ended) /\ LateInv

-----------------------------------------------------------------------------
(* The pieces of code.                                                     *)

LEMMA Codes ==
    /\ Len(Last) = 1 /\ Head(Last) = Report /\ Tail(Last) = << >>
    /\ Len(Stopping3) = 3 /\ Head(Stopping3) = SetStop /\ Tail(Stopping3) = Ending("STOPPED")
    /\ Len(Stopping4) = 4 /\ Head(Stopping4) = Report /\ Tail(Stopping4) = Stopping3
    /\ Len(Stopping5) = 5 /\ Head(Stopping5) = Write("STOP_PENDING") /\ Tail(Stopping5) = Stopping4
    /\ Len(Starting3) = 3 /\ Head(Starting3) = Report /\ Tail(Starting3) = Ending("RUNNING")
    /\ Len(Starting4) = 4 /\ Head(Starting4) = Write("START_PENDING")
    /\ Tail(Starting4) = Starting3
    /\ Last # << >> /\ Starting3 # << >> /\ Starting4 # << >>
BY DEF Last, Ending, Stopping3, Stopping4, Stopping5, Starting3, Starting4

LEMMA Endings ==
    ASSUME NEW s
    PROVE  /\ Len(Ending(s)) = 2 /\ Head(Ending(s)) = Write(s) /\ Tail(Ending(s)) = Last
           /\ Ending(s) # << >>
BY DEF Ending, Last

LEMMA EndingsDiffer ==
    ASSUME NEW s, NEW u, Ending(s) = Ending(u)
    PROVE  s = u
<1>1. Head(Ending(s)) = Head(Ending(u))
  OBVIOUS
<1>2. Write(s) = Write(u)
  BY <1>1, Endings
<1>3. QED BY <1>2 DEF Write

LEMMA Turnings ==
    ASSUME NEW b, NEW s
    PROVE  /\ Len(Turning3(b, s)) = 3 /\ Head(Turning3(b, s)) = SetPause(b)
           /\ Tail(Turning3(b, s)) = Ending(s)
           /\ Len(Turning4(b, s)) = 4 /\ Head(Turning4(b, s)) = Report
           /\ Tail(Turning4(b, s)) = Turning3(b, s)
           /\ Len(Turning5(b, s)) = 5 /\ Head(Turning5(b, s)) = Write("PAUSE_PENDING")
           /\ Tail(Turning5(b, s)) = Turning4(b, s)
BY DEF Turning3, Turning4, Turning5, Ending

LEMMA Handlers ==
    ASSUME NEW c \in Control
    PROVE  Handler(c) \in {Stopping5, Stopping3, Turning5(TRUE, "PAUSED"), Turning5(FALSE, "RUNNING")}
<1>1. CASE c = "STOP"
  <2>1. Handler(c) = Stopping5
    BY <1>1 DEF Handler, Stopping5
  <2>2. QED BY <2>1
<1>2. CASE c = "PAUSE"
  <2>1. Handler(c) = Turning5(TRUE, "PAUSED")
    BY <1>2 DEF Handler, Turning5
  <2>2. QED BY <2>1
<1>3. CASE c = "CONTINUE"
  <2>1. Handler(c) = Turning5(FALSE, "RUNNING")
    BY <1>3 DEF Handler, Turning5
  <2>2. QED BY <2>1
<1>4. CASE c = "SHUTDOWN"
  <2>1. Handler(c) = Stopping3
    BY <1>4 DEF Handler, Stopping3
  <2>2. QED BY <2>1
<1>5. QED BY <1>1, <1>2, <1>3, <1>4 DEF Control

\* What a step of a thread does, by its kind.
LEMMA ExecuteEffect ==
    ASSUME TypeOK, NEW t \in Thread, Execute(t)
    PROVE  /\ code[t] # << >> /\ code'[t] = Tail(code[t])
           /\ \A u \in Thread \ {t} : code'[u] = code[u]
           /\ UNCHANGED <<run, apps, runs, hand>>
           /\ late' = IF told' = "RUNNING" THEN 0 ELSE late
           /\ Head(code[t]) = Report => told' = status /\ UNCHANGED <<status, bStop, bPause>>
           /\ \A s \in State : Head(code[t]) = Write(s) =>
                  status' = s /\ UNCHANGED <<told, bStop, bPause>>
           /\ Head(code[t]) = SetStop => bStop' = TRUE /\ UNCHANGED <<status, told, bPause>>
           /\ \A b \in BOOLEAN : Head(code[t]) = SetPause(b) =>
                  bPause' = b /\ UNCHANGED <<status, told, bStop>>
<1>1. /\ code[t] # << >> /\ code' = [code EXCEPT ![t] = Tail(@)]
      /\ UNCHANGED <<run, apps, runs, hand>>
      /\ late' = IF told' = "RUNNING" THEN 0 ELSE late
  BY DEF Execute, bookkeeping
<1>2. /\ code'[t] = Tail(code[t])
      /\ \A u \in Thread \ {t} : code'[u] = code[u]
  BY <1>1 DEF TypeOK
<1>3. /\ status' = IF Head(code[t]).op = "write" THEN Head(code[t]).arg ELSE status
      /\ told'   = IF Head(code[t]).op = "report" THEN status ELSE told
      /\ bStop'  = IF Head(code[t]).op = "stop" THEN Head(code[t]).arg ELSE bStop
      /\ bPause' = IF Head(code[t]).op = "pause" THEN Head(code[t]).arg ELSE bPause
  BY DEF Execute
<1>4. Head(code[t]) = Report => told' = status /\ UNCHANGED <<status, bStop, bPause>>
  BY <1>3 DEF Report
<1>5. \A s \in State : Head(code[t]) = Write(s) => status' = s /\ UNCHANGED <<told, bStop, bPause>>
  BY <1>3 DEF Write
<1>6. Head(code[t]) = SetStop => bStop' = TRUE /\ UNCHANGED <<status, told, bPause>>
  BY <1>3 DEF SetStop
<1>7. \A b \in BOOLEAN : Head(code[t]) = SetPause(b) => bPause' = b /\ UNCHANGED <<status, told, bStop>>
  BY <1>3 DEF SetPause
<1>8. QED BY <1>1, <1>2, <1>4, <1>5, <1>6, <1>7

-----------------------------------------------------------------------------
(* Type correctness.                                                       *)

LEMMA StepsAreSteps ==
    /\ Report \in Step /\ SetStop \in Step
    /\ \A s \in State : Write(s) \in Step
    /\ \A b \in BOOLEAN : SetPause(b) \in Step
BY DEF Step

LEMMA CodesAreCode ==
    /\ \A c \in Control : Handler(c) \in Seq(Step)
    /\ Starting4 \in Seq(Step) /\ Ending("STOPPED") \in Seq(Step)
<1>1. /\ Stopping5 \in Seq(Step) /\ Stopping3 \in Seq(Step)
      /\ Starting4 \in Seq(Step) /\ Ending("STOPPED") \in Seq(Step)
  BY StepsAreSteps DEF Stopping5, Stopping3, Starting4, Ending, State
<1>2. ASSUME NEW b \in BOOLEAN, NEW s \in State PROVE Turning5(b, s) \in Seq(Step)
  BY StepsAreSteps DEF Turning5, State
<1>3. Turning5(TRUE, "PAUSED") \in Seq(Step) /\ Turning5(FALSE, "RUNNING") \in Seq(Step)
  BY <1>2 DEF State
<1>4. QED BY <1>1, <1>3, Handlers

LEMMA TypeStep == TypeOK /\ [Next]_vars => TypeOK'
<1> SUFFICES ASSUME TypeOK, [Next]_vars PROVE TypeOK'
  OBVIOUS
<1> USE WatchdogAssumption DEF TypeOK, Thread, bookkeeping, flags
<1>1. ASSUME NEW c \in Control, SendControl(c) PROVE TypeOK'
  <2>1. Handler(c) \in Seq(Step)
    BY CodesAreCode
  <2>2. QED BY <1>1, <2>1 DEF SendControl
<1>2. ASSUME NEW t \in Thread, Execute(t) PROVE TypeOK'
  <2>1. code[t] \in Seq(Step) /\ code[t] # << >>
    BY <1>2 DEF Execute
  <2>2. Head(code[t]) \in Step /\ Tail(code[t]) \in Seq(Step)
    BY <2>1, HeadTailProperties
  <2>3. code' \in [Thread -> Seq(Step)] /\ (code'["main"] # << >> => code["main"] # << >>)
    BY <1>2, <2>2 DEF Execute
  <2>4. status' \in State /\ told' \in State /\ bStop' \in BOOLEAN /\ bPause' \in BOOLEAN
    <3>1. CASE Head(code[t]) = Report \/ Head(code[t]) = SetStop
      BY <1>2, <3>1, ExecuteEffect DEF SetStop
    <3>2. ASSUME NEW s \in State, Head(code[t]) = Write(s)
          PROVE  status' \in State /\ told' \in State /\ bStop' \in BOOLEAN /\ bPause' \in BOOLEAN
      BY <1>2, <3>2, ExecuteEffect
    <3>3. ASSUME NEW b \in BOOLEAN, Head(code[t]) = SetPause(b)
          PROVE  status' \in State /\ told' \in State /\ bStop' \in BOOLEAN /\ bPause' \in BOOLEAN
      BY <1>2, <3>3, ExecuteEffect
    <3>4. QED BY <2>2, <3>1, <3>2, <3>3 DEF Step
  <2>5. late' \in 0..2 /\ UNCHANGED <<run, apps, runs, hand>>
    BY <1>2 DEF Execute
  <2>6. QED BY <2>3, <2>4, <2>5
<1>3. CASE StartService
  BY <1>3, CodesAreCode DEF StartService, Starting4
<1>4. CASE Run
  <2>1. CASE TestStop \/ TestPause \/ Look
    BY <2>1 DEF TestStop, TestPause, Look, At
  <2>2. CASE Launch(TRUE) \/ Launch(FALSE)
    <3>1. PICK ok \in BOOLEAN : Launch(ok)
      BY <2>2
    <3>2. QED BY <3>1 DEF Launch, At
  <2>3. CASE Leave
    BY <2>3, CodesAreCode DEF Leave, At, Ending
  <2>4. QED BY <1>4, <2>1, <2>2, <2>3 DEF Run
<1>5. CASE ProcessExits
  <2>1. << >> \in Seq(Step)
    BY EmptySeq
  <2>2. code' \in [Thread -> Seq(Step)] /\ code'["main"] = << >>
    BY <1>5, <2>1 DEF ProcessExits
  <2>3. /\ status' = "STOPPED" /\ bStop' \in BOOLEAN /\ bPause' \in BOOLEAN /\ run' = "none" /\ late' = 0
        /\ UNCHANGED <<told, apps, runs, hand>>
    BY <1>5 DEF ProcessExits
  <2>4. QED BY <2>2, <2>3 DEF State
<1>6. CASE AppEnds
  BY <1>6 DEF AppEnds
<1>7. CASE StartByHand
  BY <1>7 DEF StartByHand
<1>8. CASE UNCHANGED vars
  BY <1>8 DEF vars
<1>9. QED BY <1>1, <1>2, <1>3, <1>4, <1>5, <1>6, <1>7, <1>8 DEF Next

\* Type correctness of the service.
THEOREM ServiceTypeCorrect == Spec => []TypeOK
<1>1. Init => TypeOK
  <2>1. << >> \in Seq(Step)
    BY EmptySeq
  <2>2. Init => code \in [Thread -> Seq(Step)] /\ code["main"] = << >>
    BY <2>1 DEF Init, Thread
  <2>3. Init => /\ status = "STOPPED" /\ told = "STOPPED" /\ bStop \in BOOLEAN /\ bPause \in BOOLEAN
                /\ run = "none" /\ apps = 0 /\ runs = 0 /\ hand = 0 /\ late = 0
    BY DEF Init
  <2>4. QED BY <2>2, <2>3, WatchdogAssumption DEF TypeOK, State
<1>2. QED BY <1>1, TypeStep, PTL DEF Spec

-----------------------------------------------------------------------------
(* One uploader.                                                           *)

LEMMA AppStep == TypeOK /\ AppInv /\ [Next]_vars => AppInv'
<1> SUFFICES ASSUME TypeOK, AppInv, [Next]_vars PROVE AppInv'
  OBVIOUS
<1> USE DEF TypeOK, AppInv, OneApp, bookkeeping
<1>1. CASE UNCHANGED <<run, apps, hand>>
  BY <1>1
<1>2. CASE StartService
  BY <1>2 DEF StartService
<1>3. CASE Run
  <2>1. CASE Look
    BY <2>1 DEF Look, At
  <2>2. CASE Launch(TRUE) \/ Launch(FALSE)
    BY <2>2 DEF Launch, At
  <2>3. CASE TestStop \/ TestPause \/ Leave
    BY <2>3 DEF TestStop, TestPause, Leave, At
  <2>4. QED BY <1>3, <2>1, <2>2, <2>3 DEF Run
<1>4. CASE ProcessExits
  BY <1>4 DEF ProcessExits
<1>5. CASE AppEnds
  BY <1>5 DEF AppEnds
<1>6. CASE StartByHand
  BY <1>6 DEF StartByHand
<1>7. QED
  BY <1>1, <1>2, <1>3, <1>4, <1>5, <1>6 DEF Next, SendControl, Execute, vars

\* Whatever the SCM sends and however often the service is started, it runs
\* one uploader, and one more for every start by hand.
THEOREM RunsOneApp == Spec => []OneApp
<1>1. Init => AppInv
  BY WatchdogAssumption DEF Init, AppInv, OneApp
<1>2. AppInv => OneApp
  BY DEF AppInv
<1>3. QED BY <1>1, <1>2, AppStep, ServiceTypeCorrect, PTL DEF Spec

-----------------------------------------------------------------------------
(* What the SCM is told.                                                   *)

LEMMA CtlFrame ==
    ASSUME UNCHANGED <<status, told, flags, code, run, late>>
    PROVE  (Resting' <=> Resting) /\ (Starting' <=> Starting) /\ (Working' <=> Working)
           /\ (Ended' <=> Ended) /\ (LateInv' <=> LateInv)
BY DEF flags, Resting, Starting, Working, Ended, Turning, Active, LateInv, Barred, Resuming, Ctl, Main

LEMMA SendPhase ==
    ASSUME TypeOK, ServiceInv, NEW c \in Control, SendControl(c)
    PROVE  Working /\ Ctl = << >> /\ Active /\ ServiceInv'
<1>1. /\ Ctl = << >> /\ Active /\ Ctl' = Handler(c) /\ Main' = Main
      /\ UNCHANGED <<status, told, bStop, bPause, run, late>>
  BY DEF SendControl, TypeOK, Thread, flags, Ctl, Main, Active
<1>2. Working
  <2>1. Ctl # Last /\ Ctl # Ending("STOPPED")
    BY <1>1, Codes, Endings
  <2>2. QED BY <1>1, <2>1 DEF ServiceInv, Resting, Starting, Ended, Active
<1>3. Ctl' \in {Stopping5, Stopping3, Turning5(TRUE, "PAUSED"), Turning5(FALSE, "RUNNING")}
  BY <1>1, Handlers
<1>4. Working'
  BY <1>1, <1>2, <1>3 DEF Working, Turning, Active
<1>5. LateInv'
  BY <1>1, Codes, Endings DEF ServiceInv, LateInv, Barred, Resuming, Active
<1>6. QED BY <1>1, <1>2, <1>4, <1>5 DEF ServiceInv

LEMMA CtlEffect ==
    ASSUME TypeOK, Execute("control")
    PROVE  /\ Ctl # << >> /\ Ctl' = Tail(Ctl) /\ Main' = Main /\ run' = run
           /\ late' = IF told' = "RUNNING" THEN 0 ELSE late
           /\ Head(Ctl) = Report => told' = status /\ UNCHANGED <<status, bStop, bPause>>
           /\ \A s \in State : Head(Ctl) = Write(s) => status' = s /\ UNCHANGED <<told, bStop, bPause>>
           /\ Head(Ctl) = SetStop => bStop' = TRUE /\ UNCHANGED <<status, told, bPause>>
           /\ \A b \in BOOLEAN : Head(Ctl) = SetPause(b) =>
                  bPause' = b /\ UNCHANGED <<status, told, bStop>>
<1>1. /\ Ctl # << >> /\ Ctl' = Tail(Ctl) /\ Main' = Main /\ run' = run
      /\ late' = IF told' = "RUNNING" THEN 0 ELSE late
  BY ExecuteEffect DEF Thread, Ctl, Main
<1>2. Head(Ctl) = Report => told' = status /\ UNCHANGED <<status, bStop, bPause>>
  BY ExecuteEffect DEF Thread, Ctl
<1>3. \A s \in State : Head(Ctl) = Write(s) => status' = s /\ UNCHANGED <<told, bStop, bPause>>
  BY ExecuteEffect DEF Thread, Ctl
<1>4. Head(Ctl) = SetStop => bStop' = TRUE /\ UNCHANGED <<status, told, bPause>>
  BY ExecuteEffect DEF Thread, Ctl
<1>5. \A b \in BOOLEAN : Head(Ctl) = SetPause(b) => bPause' = b /\ UNCHANGED <<status, told, bStop>>
  BY ExecuteEffect DEF Thread, Ctl
<1>6. QED BY <1>1, <1>2, <1>3, <1>4, <1>5

\* A step of ServiceHandle while nobody has set bStop.
LEMMA WorkingStep ==
    ASSUME TypeOK, Working, LateInv, Execute("control")
    PROVE  ServiceInv'
<1>1. /\ Ctl # << >> /\ Ctl' = Tail(Ctl) /\ Main' = Main /\ run' = run
      /\ late' = IF told' = "RUNNING" THEN 0 ELSE late
  BY CtlEffect
<1>2. Head(Ctl) = Report => told' = status /\ UNCHANGED <<status, bStop, bPause>>
  BY CtlEffect
<1>3. \A s \in State : Head(Ctl) = Write(s) => status' = s /\ UNCHANGED <<told, bStop, bPause>>
  BY CtlEffect
<1>4. Head(Ctl) = SetStop => bStop' = TRUE /\ UNCHANGED <<status, told, bPause>>
  BY CtlEffect
<1>5. \A b \in BOOLEAN : Head(Ctl) = SetPause(b) => bPause' = b /\ UNCHANGED <<status, told, bStop>>
  BY CtlEffect
<1>6. CASE Ctl = Stopping5 /\ Active
  <2>1. /\ Ctl' = Stopping4 /\ status' = "STOP_PENDING"
        /\ UNCHANGED <<told, bStop, bPause>>
    BY <1>1, <1>3, <1>6, Codes DEF State
  <2>2. Working'
    BY <1>1, <1>6, <2>1 DEF Working, Active
  <2>3. LateInv'
    BY <1>1, <1>6, <2>1 DEF LateInv, Barred, Resuming, Active
  <2>4. QED BY <2>2, <2>3 DEF ServiceInv
<1>7. CASE Ctl = Stopping4 /\ Active /\ status = "STOP_PENDING"
  <2>1. Ctl' = Stopping3 /\ told' = "STOP_PENDING" /\ UNCHANGED <<status, bStop, bPause>>
    BY <1>1, <1>2, <1>7, Codes
  <2>2. Working'
    BY <1>1, <2>1 DEF Working
  <2>3. LateInv'
    BY <1>1, <1>7, <2>1 DEF LateInv, Barred, Resuming, Active
  <2>4. QED BY <2>2, <2>3 DEF ServiceInv
<1>8. CASE Ctl = Stopping3 /\ (Active \/ told = "STOP_PENDING")
  <2>1. Ctl' = Ending("STOPPED") /\ bStop' = TRUE /\ UNCHANGED <<status, told, bPause>>
    BY <1>1, <1>4, <1>8, Codes
  <2>2. Ended'
    BY <1>1, <1>8, <2>1 DEF Working, Ended, Active
  <2>3. LateInv'
    BY <1>1, <1>8, <2>1 DEF LateInv, Barred, Resuming, Active
  <2>4. QED BY <2>2, <2>3 DEF ServiceInv
<1>9. ASSUME NEW b \in BOOLEAN, NEW s \in {"PAUSED", "RUNNING"}, Turning(b, s),
             \/ b = TRUE /\ s = "PAUSED"
             \/ b = FALSE /\ s = "RUNNING"
      PROVE  ServiceInv'
  <2>1. CASE Ctl = Turning5(b, s) /\ Active
    <3>1. /\ Ctl' = Turning4(b, s) /\ status' = "PAUSE_PENDING"
          /\ UNCHANGED <<told, bStop, bPause>>
      BY <1>1, <1>3, <2>1, Turnings DEF State
    <3>2. Turning(b, s)'
      BY <2>1, <3>1 DEF Turning, Active
    <3>3. Working'
      BY <1>1, <1>9, <3>1, <3>2 DEF Working
    <3>4. LateInv'
      BY <1>1, <2>1, <3>1 DEF LateInv, Barred, Resuming, Active
    <3>5. QED BY <3>3, <3>4 DEF ServiceInv
  <2>2. CASE Ctl = Turning4(b, s) /\ Active /\ status = "PAUSE_PENDING"
    <3>1. Ctl' = Turning3(b, s) /\ told' = "PAUSE_PENDING" /\ UNCHANGED <<status, bStop, bPause>>
      BY <1>1, <1>2, <2>2, Turnings
    <3>2. Turning(b, s)'
      BY <3>1 DEF Turning
    <3>3. Working'
      BY <1>1, <1>9, <3>1, <3>2 DEF Working
    <3>4. LateInv'
      BY <1>1, <2>2, <3>1 DEF LateInv, Barred, Resuming, Active
    <3>5. QED BY <3>3, <3>4 DEF ServiceInv
  <2>3. CASE Ctl = Turning3(b, s) /\ told = "PAUSE_PENDING"
    <3>1. Ctl' = Ending(s) /\ bPause' = b /\ UNCHANGED <<status, told, bStop>>
      BY <1>1, <1>5, <2>3, Turnings
    <3>2. Turning(b, s)'
      BY <2>3, <3>1 DEF Turning
    <3>3. Working'
      BY <1>1, <1>9, <2>3, <3>1, <3>2 DEF Working
    <3>4. ~Resuming
      BY <2>3, Turnings, Endings, Codes DEF Resuming
    <3>5. LateInv'
      BY <1>1, <1>9, <2>3, <3>1, <3>4 DEF LateInv, Barred, Resuming, Working
    <3>6. QED BY <3>3, <3>5 DEF ServiceInv
  <2>4. CASE Ctl = Ending(s) /\ told = "PAUSE_PENDING" /\ bPause = b
    <3>1. Ctl' = Last /\ status' = s /\ UNCHANGED <<told, bStop, bPause>>
      BY <1>1, <1>3, <2>4, Endings DEF State
    <3>2. Turning(b, s)'
      BY <2>4, <3>1 DEF Turning
    <3>3. Working'
      BY <1>1, <1>9, <2>4, <3>1, <3>2 DEF Working
    <3>4. s = "PAUSED" => ~Resuming
      BY <2>4, Endings, EndingsDiffer, Codes DEF Resuming
    <3>5. LateInv'
      BY <1>1, <1>9, <2>4, <3>1, <3>4 DEF LateInv, Barred, Resuming
    <3>6. QED BY <3>3, <3>5 DEF ServiceInv
  <2>5. CASE Ctl = Last /\ status = s /\ told = "PAUSE_PENDING" /\ bPause = b
    <3>1. Ctl' = << >> /\ told' = s /\ UNCHANGED <<status, bStop, bPause>>
      BY <1>1, <1>2, <2>5, Codes
    <3>2. Working'
      BY <1>1, <1>9, <2>5, <3>1 DEF Working, Active
    <3>3. s = "PAUSED" => ~Resuming
      BY <2>5, Endings, Codes DEF Resuming
    <3>4. LateInv'
      BY <1>1, <1>9, <2>5, <3>1, <3>3 DEF LateInv, Barred
    <3>5. QED BY <3>2, <3>4 DEF ServiceInv
  <2>6. QED BY <1>9, <2>1, <2>2, <2>3, <2>4, <2>5 DEF Turning
<1>10. Turning(TRUE, "PAUSED") => ServiceInv'
  BY <1>9
<1>11. Turning(FALSE, "RUNNING") => ServiceInv'
  BY <1>9
<1>12. QED BY <1>1, <1>6, <1>7, <1>8, <1>10, <1>11 DEF Working

\* A step of either thread after bStop was set.
LEMMA EndedStep ==
    ASSUME TypeOK, Ended, LateInv, NEW t \in Thread, Execute(t)
    PROVE  ServiceInv'
<1>1. /\ code[t] # << >> /\ code'[t] = Tail(code[t]) /\ run' = run
      /\ \A u \in Thread \ {t} : code'[u] = code[u]
      /\ late' = IF told' = "RUNNING" THEN 0 ELSE late
      /\ Head(code[t]) = Report => told' = status /\ UNCHANGED <<status, bStop, bPause>>
      /\ Head(code[t]) = Write("STOPPED") => status' = "STOPPED" /\ UNCHANGED <<told, bStop, bPause>>
  BY ExecuteEffect DEF State
<1>2. code[t] = Ending("STOPPED") \/ (code[t] = Last /\ status = "STOPPED")
  BY <1>1 DEF Ended, Ctl, Main, Thread
<1>3. /\ status' = "STOPPED" /\ UNCHANGED <<bStop, bPause>>
      /\ \/ code'[t] = Last /\ told' = told
         \/ code'[t] = << >> /\ told' = "STOPPED"
  BY <1>1, <1>2, Codes, Endings
<1>4. Ended'
  <2>1. CASE t = "control"
    BY <1>1, <1>3, <2>1 DEF Ended, Ctl, Main, Thread
  <2>2. CASE t = "main"
    BY <1>1, <1>2, <1>3, <2>2, Codes, Endings DEF Ended, Ctl, Main, Thread
  <2>3. QED BY <2>1, <2>2 DEF Thread
<1>5. LateInv'
  BY <1>1, <1>3 DEF Ended, LateInv, Barred, Resuming
<1>6. QED BY <1>4, <1>5 DEF ServiceInv

\* A step of ServiceMain on its way to Run.
LEMMA StartingStep ==
    ASSUME TypeOK, Starting, Execute("main")
    PROVE  ServiceInv'
<1>1. /\ Main' = Tail(Main) /\ Ctl' = Ctl /\ run' = run
      /\ late' = IF told' = "RUNNING" THEN 0 ELSE late
      /\ Head(Main) = Report => told' = status /\ UNCHANGED <<status, bStop, bPause>>
  BY ExecuteEffect DEF Thread, Ctl, Main
<1>2. \A s \in State : Head(Main) = Write(s) => status' = s /\ UNCHANGED <<told, bStop, bPause>>
  BY ExecuteEffect DEF Thread, Main
<1>3. CASE Main = Starting4 /\ told = "STOPPED"
  <2>1. Main' = Starting3 /\ status' = "START_PENDING" /\ UNCHANGED <<told, bStop, bPause>>
    BY <1>1, <1>2, <1>3, Codes DEF State
  <2>2. QED BY <1>1, <1>3, <2>1 DEF Starting, ServiceInv, LateInv
<1>4. CASE Main = Starting3 /\ told = "STOPPED" /\ status = "START_PENDING"
  <2>1. Main' = Ending("RUNNING") /\ told' = "START_PENDING" /\ UNCHANGED <<status, bStop, bPause>>
    BY <1>1, <1>4, Codes
  <2>2. QED BY <1>1, <2>1 DEF Starting, ServiceInv, LateInv
<1>5. CASE Main = Ending("RUNNING") /\ told = "START_PENDING"
  <2>1. Main' = Last /\ status' = "RUNNING" /\ UNCHANGED <<told, bStop, bPause>>
    BY <1>1, <1>2, <1>5, Endings DEF State
  <2>2. QED BY <1>1, <1>5, <2>1 DEF Starting, ServiceInv, LateInv
<1>6. CASE Main = Last /\ told = "START_PENDING" /\ status = "RUNNING"
  <2>1. Main' = << >> /\ told' = "RUNNING" /\ UNCHANGED <<status, bStop, bPause>>
    BY <1>1, <1>6, Codes
  <2>2. QED BY <1>1, <2>1 DEF Starting, Working, Active, ServiceInv, LateInv
<1>7. QED BY <1>3, <1>4, <1>5, <1>6 DEF Starting

\* A step of Run.
LEMMA RunStep ==
    ASSUME TypeOK, ServiceInv, Run
    PROVE  ServiceInv'
<1>1. Main = << >> /\ UNCHANGED <<status, told, bStop, bPause, Ctl>>
  BY DEF Run, TestStop, TestPause, Look, Launch, Leave, At, flags, Ctl, Main, TypeOK, Thread
<1>2. Working \/ Ended
  <2>1. ~Starting
    BY <1>1, Codes, Endings DEF Starting
  <2>2. ~Resting
    BY DEF Resting, Run, TestStop, TestPause, Look, Launch, Leave, At
  <2>3. QED BY <2>1, <2>2 DEF ServiceInv
<1>3. CASE Leave
  <2>1. run = "leave" /\ run' = "left" /\ Main' = Ending("STOPPED") /\ late' = late
    BY <1>3 DEF Leave, At, Main, TypeOK, Thread, Ending
  <2>2. Ended'
    BY <1>1, <1>2, <2>1 DEF Working, Ended
  <2>3. LateInv'
    BY <1>1, <2>1 DEF ServiceInv, LateInv, Barred, Resuming
  <2>4. QED BY <2>2, <2>3 DEF ServiceInv
<1>4. ASSUME ~Leave PROVE ServiceInv'
  <2>1. /\ Main' = << >>
        /\ \/ run = "top" /\ run' = (IF bStop THEN "leave" ELSE "pause")
           \/ run = "pause" /\ run' = (IF bPause THEN "held" ELSE "look")
           \/ run = "held" /\ run' = (IF bStop THEN "leave" ELSE "pause")
           \/ run = "look" /\ run' \in {"launch", "top"}
           \/ run = "launch" /\ run' = "top"
    BY <1>1, <1>4 DEF Run, TestStop, TestPause, Look, Launch, At, Main
  <2>2. \/ late' = late
        \/ /\ run = "launch" /\ run' = "top" /\ late' = late + 1
           /\ told \in {"PAUSED", "STOPPED"}
    BY <1>4 DEF Run, TestStop, TestPause, Look, Launch, At
  <2>3. Working' \/ Ended'
    <3>1. CASE Working
      BY <1>1, <2>1, <3>1 DEF Working, Turning, Active
    <3>2. CASE Ended
      BY <1>1, <2>1, <3>2 DEF Ended
    <3>3. QED BY <1>2, <3>1, <3>2
  <2>4. CASE late' = late
    BY <1>1, <2>1, <2>3, <2>4 DEF ServiceInv, LateInv, Barred, Resuming
  <2>5. CASE run = "launch" /\ run' = "top" /\ late' = late + 1 /\ told \in {"PAUSED", "STOPPED"}
    <3>1. late = 0
      BY <2>5 DEF TypeOK, ServiceInv, LateInv, Barred, Resuming
    <3>2. bPause \/ bStop
      BY <1>2, <2>5 DEF Working, Ended, Active, Turning
    <3>3. QED BY <1>1, <2>3, <2>5, <3>1, <3>2 DEF ServiceInv, LateInv, Barred
  <2>6. QED BY <2>2, <2>4, <2>5
<1>5. QED BY <1>3, <1>4

LEMMA ServiceStep == TypeOK /\ ServiceInv /\ [Next]_vars => ServiceInv'
<1> SUFFICES ASSUME TypeOK, ServiceInv, [Next]_vars PROVE ServiceInv'
  OBVIOUS
<1>1. ASSUME NEW t \in Thread, Execute(t) PROVE ServiceInv'
  <2>1. code[t] # << >>
    BY <1>1 DEF Execute
  <2>2. CASE Ended
    BY <1>1, <2>2, EndedStep DEF ServiceInv
  <2>3. CASE Working
    BY <1>1, <2>1, <2>3, WorkingStep DEF ServiceInv, Working, Main, Thread
  <2>4. CASE Starting
    BY <1>1, <2>1, <2>4, StartingStep DEF Starting, Ctl, Thread
  <2>5. ~Resting
    BY <2>1 DEF Resting, Ctl, Main, Thread
  <2>6. QED BY <2>2, <2>3, <2>4, <2>5 DEF ServiceInv
<1>2. CASE StartService
  <2>1. Resting
    BY <1>2 DEF StartService, ServiceInv, Starting, Working, Ended
  <2>2. /\ run' = "top" /\ Main' = Starting4 /\ Ctl' = Ctl
        /\ UNCHANGED <<status, told, bStop, bPause, late>>
    BY <1>2 DEF StartService, flags, Main, Ctl, Starting4, TypeOK, Thread
  <2>3. QED BY <2>1, <2>2 DEF Resting, Starting, ServiceInv, LateInv
<1>3. CASE ProcessExits
  <2>1. Resting'
    BY <1>3 DEF ProcessExits, Resting, Ctl, Main, Thread
  <2>2. QED BY <2>1 DEF ServiceInv, Resting, LateInv
<1>4. CASE AppEnds \/ StartByHand \/ UNCHANGED vars
  BY <1>4, CtlFrame DEF AppEnds, StartByHand, vars, ServiceInv
<1>5. QED BY <1>1, <1>2, <1>3, <1>4, SendPhase, RunStep DEF Next

LEMMA ServiceInvariant == Spec => [](TypeOK /\ ServiceInv)
<1>1. Init => ServiceInv
  BY DEF Init, ServiceInv, Resting, LateInv, Ctl, Main, Thread
<1>2. QED BY <1>1, ServiceStep, ServiceTypeCorrect, PTL DEF Spec

\* After the SCM was told that the service is paused or stopped, at most the
\* one launch is made that was under way.
THEOREM LaunchesOnceMore == Spec => []OneLateLaunch
<1>1. ServiceInv => OneLateLaunch
  BY DEF ServiceInv, LateInv, OneLateLaunch
<1>2. QED BY <1>1, ServiceInvariant, PTL

-----------------------------------------------------------------------------
(* The service is one of module ScmService.                                *)

LEMMA LongGoal ==
    ASSUME NEW n \in {3, 4, 5}, Len(Ctl) = n
    PROVE  scmGoal = Ctl[n - 1].arg
<1>1. Ctl # << >> /\ Len(Ctl) # 1
  OBVIOUS
<1>2. QED BY <1>1 DEF scmGoal, Ctl

\* What the control under way leads to, by the code that is left of it.
GoalTable ==
    /\ Ctl = << >> => scmGoal = "none"
    /\ Ctl = Last => scmGoal = status
    /\ \A s \in State : Ctl = Ending(s) => scmGoal = s
    /\ Ctl \in {Stopping3, Stopping4, Stopping5} => scmGoal = "STOPPED"
    /\ \A b \in BOOLEAN, s \in State :
           Ctl \in {Turning3(b, s), Turning4(b, s), Turning5(b, s)} => scmGoal = s

LEMMA GoalOf == GoalTable
<1>1. Ctl = << >> => scmGoal = "none"
  BY DEF scmGoal, Ctl
<1>2. Ctl = Last => scmGoal = status
  BY DEF scmGoal, Ctl, Last
<1>3. ASSUME NEW s \in State, Ctl = Ending(s) PROVE scmGoal = s
  BY <1>3 DEF scmGoal, Ctl, Ending, Write
<1>4. Ctl \in {Stopping3, Stopping4, Stopping5} => scmGoal = "STOPPED"
  <2>1. Stopping3[2] = Write("STOPPED") /\ Len(Stopping3) = 3
    BY DEF Stopping3
  <2>2. Stopping4[3] = Write("STOPPED") /\ Len(Stopping4) = 4
    BY DEF Stopping4
  <2>3. Stopping5[4] = Write("STOPPED") /\ Len(Stopping5) = 5
    BY DEF Stopping5
  <2>4. QED BY <2>1, <2>2, <2>3, LongGoal DEF Write
<1>5. ASSUME NEW b \in BOOLEAN, NEW s \in State,
             Ctl \in {Turning3(b, s), Turning4(b, s), Turning5(b, s)}
      PROVE  scmGoal = s
  <2>1. Turning3(b, s)[2] = Write(s) /\ Len(Turning3(b, s)) = 3
    BY DEF Turning3
  <2>2. Turning4(b, s)[3] = Write(s) /\ Len(Turning4(b, s)) = 4
    BY DEF Turning4
  <2>3. Turning5(b, s)[4] = Write(s) /\ Len(Turning5(b, s)) = 5
    BY DEF Turning5
  <2>4. QED BY <1>5, <2>1, <2>2, <2>3, LongGoal DEF Write
<1>6. QED BY <1>1, <1>2, <1>3, <1>4, <1>5 DEF GoalTable

LEMMA StateOf ==
    ASSUME run = "none" \/ bStop \/ told # "STOPPED"
    PROVE  scmState = told
BY DEF scmState

\* A step of ServiceHandle before bStop is set.
LEMMA ScmWorkingStep ==
    ASSUME TypeOK, Working, Execute("control")
    PROVE  [S!Next]_S!scm
<1>1. /\ Ctl # << >> /\ Ctl' = Tail(Ctl) /\ run' = run
      /\ told # "STOPPED" /\ scmState = told
  <2>1. told # "STOPPED"
    BY CtlEffect DEF Working, Active, Turning
  <2>2. QED BY <2>1, CtlEffect, StateOf
<1>2. GoalTable /\ GoalTable'
  BY GoalOf, PTL
\* A step that reports nothing and leaves the goal alone is a stutter.
<1>3. ASSUME told' = told, scmGoal' = scmGoal PROVE UNCHANGED S!scm
  BY <1>1, <1>3 DEF S!scm, scmState
<1>4. CASE Ctl = Stopping5
  <2>1. Ctl' = Stopping4 /\ told' = told
    BY <1>1, <1>4, Codes, CtlEffect DEF State
  <2>2. scmGoal' = scmGoal
    BY <1>2, <1>4, <2>1 DEF GoalTable
  <2>3. QED BY <1>3, <2>1, <2>2
<1>5. CASE Ctl = Stopping4 /\ Active /\ status = "STOP_PENDING"
  <2>1. Ctl' = Stopping3 /\ told' = "STOP_PENDING"
    BY <1>1, <1>5, Codes, CtlEffect
  <2>2. scmGoal = "STOPPED" /\ scmGoal' = "STOPPED" /\ scmState' = "STOP_PENDING"
    BY <1>2, <1>5, <2>1 DEF GoalTable, scmState
  <2>3. S!Pending
    BY <1>1, <1>5, <2>2 DEF S!Pending, Active
  <2>4. QED BY <2>3 DEF S!Next
<1>6. CASE Ctl = Stopping3
  <2>1. Ctl' = Ending("STOPPED") /\ told' = told
    BY <1>1, <1>6, Codes, CtlEffect
  <2>2. scmGoal' = scmGoal
    BY <1>2, <1>6, <2>1 DEF GoalTable, State
  <2>3. QED BY <1>3, <2>1, <2>2
<1>7. ASSUME NEW b \in BOOLEAN, NEW s \in {"PAUSED", "RUNNING"}, Turning(b, s)
      PROVE  [S!Next]_S!scm
  <2>0. s \in State
    BY DEF State
  <2>1. CASE Ctl = Turning5(b, s)
    <3>1. Ctl' = Turning4(b, s) /\ told' = told
      BY <1>1, <2>1, Turnings, CtlEffect DEF State
    <3>2. scmGoal' = scmGoal
      BY <1>2, <2>0, <2>1, <3>1 DEF GoalTable
    <3>3. QED BY <1>3, <3>1, <3>2
  <2>2. CASE Ctl = Turning4(b, s) /\ Active /\ status = "PAUSE_PENDING"
    <3>1. Ctl' = Turning3(b, s) /\ told' = "PAUSE_PENDING"
      BY <1>1, <2>2, Turnings, CtlEffect
    <3>2. scmGoal = s /\ scmGoal' = s /\ scmState' = "PAUSE_PENDING"
      BY <1>2, <2>0, <2>2, <3>1 DEF GoalTable, scmState
    <3>3. S!Pending
      BY <1>1, <2>2, <3>2 DEF S!Pending, Active
    <3>4. QED BY <3>3 DEF S!Next
  <2>3. CASE Ctl = Turning3(b, s)
    <3>1. Ctl' = Ending(s) /\ told' = told
      BY <1>1, <2>3, Turnings, CtlEffect
    <3>2. scmGoal' = scmGoal
      BY <1>2, <2>0, <2>3, <3>1 DEF GoalTable
    <3>3. QED BY <1>3, <3>1, <3>2
  <2>4. CASE Ctl = Ending(s)
    <3>1. Ctl' = Last /\ status' = s /\ told' = told
      BY <1>1, <2>0, <2>4, Endings, CtlEffect
    <3>2. scmGoal' = scmGoal
      BY <1>2, <2>0, <2>4, <3>1 DEF GoalTable
    <3>3. QED BY <1>3, <3>1, <3>2
  <2>5. CASE Ctl = Last /\ status = s
    <3>1. Ctl' = << >> /\ told' = s
      BY <1>1, <2>5, Codes, CtlEffect
    <3>2. scmGoal = s /\ scmGoal' = "none" /\ scmState' = s
      BY <1>2, <2>5, <3>1 DEF GoalTable, scmState
    <3>3. S!Finish
      BY <3>2 DEF S!Finish
    <3>4. QED BY <3>3 DEF S!Next
  <2>6. QED BY <1>7, <2>1, <2>2, <2>3, <2>4, <2>5 DEF Turning
<1>8. Turning(TRUE, "PAUSED") => [S!Next]_S!scm
  BY <1>7
<1>9. Turning(FALSE, "RUNNING") => [S!Next]_S!scm
  BY <1>7
<1>10. QED BY <1>1, <1>4, <1>5, <1>6, <1>8, <1>9 DEF Working

\* A step of either thread after bStop was set: STOPPED is reported early by
\* ServiceMain, and again by ServiceHandle at its end.
LEMMA ScmEndedStep ==
    ASSUME TypeOK, Ended, NEW t \in Thread, Execute(t)
    PROVE  [S!Next]_S!scm
<1>1. /\ code[t] # << >> /\ code'[t] = Tail(code[t])
      /\ \A u \in Thread \ {t} : code'[u] = code[u]
      /\ Head(code[t]) = Report => told' = status /\ UNCHANGED <<status, bStop, bPause>>
      /\ Head(code[t]) = Write("STOPPED") => status' = "STOPPED" /\ UNCHANGED <<told, bStop, bPause>>
  BY ExecuteEffect DEF State
<1>2. code[t] = Ending("STOPPED") \/ (code[t] = Last /\ status = "STOPPED")
  BY <1>1 DEF Ended, Ctl, Main, Thread
<1>3. bStop' = bStop /\ scmState = told /\ scmState' = told'
  BY <1>1, <1>2, Codes, Endings DEF Ended, scmState
<1>4. GoalTable /\ GoalTable'
  BY GoalOf, PTL
<1>5. scmGoal = (IF Ctl = << >> THEN "none" ELSE "STOPPED")
  BY <1>4, Codes, Endings DEF Ended, GoalTable, State
<1>6. CASE code[t] = Ending("STOPPED")
  <2>1. code'[t] = Last /\ status' = "STOPPED" /\ told' = told
    BY <1>1, <1>6, Endings
  <2>2. scmGoal' = scmGoal
    <3>1. CASE t = "control"
      BY <1>4, <1>5, <1>6, <2>1, <3>1, Endings DEF GoalTable, Ctl
    <3>2. CASE t = "main"
      <4>1. Ctl' = Ctl
        BY <1>1, <3>2 DEF Ctl, Thread
      <4>2. scmGoal' = (IF Ctl = << >> THEN "none" ELSE "STOPPED")
        BY <1>4, <2>1, <4>1, Codes, Endings DEF Ended, GoalTable, State
      <4>3. QED BY <1>5, <4>2
    <3>3. QED BY <3>1, <3>2 DEF Thread
  <2>3. QED BY <1>3, <2>1, <2>2 DEF S!scm
<1>7. CASE code[t] = Last /\ status = "STOPPED"
  <2>1. code'[t] = << >> /\ status' = "STOPPED" /\ told' = "STOPPED"
    BY <1>1, <1>7, Codes
  <2>2. CASE t = "control"
    <3>1. scmGoal = "STOPPED" /\ scmGoal' = "none"
      BY <1>4, <1>7, <2>1, <2>2 DEF GoalTable, Ctl
    <3>2. S!Finish
      BY <1>3, <2>1, <3>1 DEF S!Finish
    <3>3. QED BY <3>2 DEF S!Next
  <2>3. CASE t = "main"
    <3>1. Ctl' = Ctl
      BY <1>1, <2>3 DEF Ctl, Thread
    <3>2. scmGoal' = scmGoal
      BY <1>4, <1>5, <2>1, <3>1, Codes, Endings DEF Ended, GoalTable, State
    <3>3. CASE Ctl = << >>
      BY <1>3, <2>1, <3>2, <3>3, Codes, Endings DEF Ended, S!scm
    <3>4. CASE Ctl # << >>
      <4>1. S!StopsEarly
        BY <1>3, <1>5, <2>1, <3>2, <3>4 DEF S!StopsEarly
      <4>2. QED BY <4>1 DEF S!Next
    <3>5. QED BY <3>3, <3>4
  <2>4. QED BY <2>2, <2>3 DEF Thread
<1>8. QED BY <1>2, <1>6, <1>7

\* A step of ServiceMain on its way to Run.
LEMMA ScmStartingStep ==
    ASSUME TypeOK, Starting, Execute("main")
    PROVE  [S!Next]_S!scm
<1>1. /\ Ctl' = Ctl /\ run' = run
      /\ Head(Main) = Report => told' = status /\ UNCHANGED <<status, bStop, bPause>>
  BY ExecuteEffect DEF Thread, Ctl, Main
<1>2. \A s \in State : Head(Main) = Write(s) => status' = s /\ UNCHANGED <<told, bStop, bPause>>
  BY ExecuteEffect DEF Thread, Main
<1>3. scmGoal = "none" /\ scmGoal' = "none"
  <2>1. GoalTable /\ GoalTable'
    BY GoalOf, PTL
  <2>2. QED BY <1>1, <2>1 DEF GoalTable, Starting
<1>4. CASE Main = Starting4 /\ told = "STOPPED"
  <2>1. told' = "STOPPED" /\ ~bStop'
    BY <1>2, <1>4, Codes DEF State, Starting
  <2>2. QED BY <1>1, <1>3, <1>4, <2>1 DEF Starting, scmState, S!scm
<1>5. CASE Main = Starting3 /\ told = "STOPPED" /\ status = "START_PENDING"
  <2>1. told' = "START_PENDING"
    BY <1>1, <1>5, Codes
  <2>2. QED BY <1>3, <1>5, <2>1 DEF Starting, scmState, S!scm
<1>6. CASE Main = Ending("RUNNING") /\ told = "START_PENDING"
  <2>1. told' = told
    BY <1>2, <1>6, Endings DEF State
  <2>2. QED BY <1>3, <1>6, <2>1 DEF scmState, S!scm
<1>7. CASE Main = Last /\ told = "START_PENDING" /\ status = "RUNNING"
  <2>1. told' = "RUNNING"
    BY <1>1, <1>7, Codes
  <2>2. S!Started
    BY <1>3, <1>7, <2>1 DEF S!Started, scmState
  <2>3. QED BY <2>2 DEF S!Next
<1>8. QED BY <1>4, <1>5, <1>6, <1>7 DEF Starting

LEMMA ScmStep == TypeOK /\ ServiceInv /\ [Next]_vars => [S!Next]_S!scm
<1> SUFFICES ASSUME TypeOK, ServiceInv, [Next]_vars PROVE [S!Next]_S!scm
  OBVIOUS
<1>0. GoalTable /\ GoalTable'
  BY GoalOf, PTL
<1>1. ASSUME NEW c \in Control, SendControl(c) PROVE [S!Next]_S!scm
  <2>1. Working /\ Ctl = << >> /\ Active
    BY <1>1, SendPhase
  <2>2. scmGoal = "none" /\ scmState \in {"RUNNING", "PAUSED"} /\ scmState' = scmState
    BY <1>0, <1>1, <2>1 DEF GoalTable, Active, scmState, SendControl, flags
  <2>3. Ctl' = Handler(c)
    BY <1>1 DEF SendControl, Ctl, TypeOK, Thread
  <2>4. scmGoal' \in S!Goal
    <3>1. Ctl' \in {Stopping5, Stopping3} => scmGoal' = "STOPPED"
      BY <1>0 DEF GoalTable
    <3>2. ASSUME NEW b \in BOOLEAN, NEW s \in State, Ctl' = Turning5(b, s) PROVE scmGoal' = s
      BY <1>0, <3>2 DEF GoalTable
    <3>3. Ctl' = Turning5(TRUE, "PAUSED") => scmGoal' = "PAUSED"
      BY <3>2 DEF State
    <3>4. Ctl' = Turning5(FALSE, "RUNNING") => scmGoal' = "RUNNING"
      BY <3>2 DEF State
    <3>5. QED BY <2>3, <3>1, <3>3, <3>4, Handlers DEF S!Goal
  <2>5. S!Send(scmGoal')
    BY <2>2 DEF S!Send
  <2>6. QED BY <2>4, <2>5 DEF S!Next
<1>2. ASSUME NEW t \in Thread, Execute(t) PROVE [S!Next]_S!scm
  <2>1. code[t] # << >>
    BY <1>2 DEF Execute
  <2>2. CASE Ended
    BY <1>2, <2>2, ScmEndedStep
  <2>3. CASE Working
    BY <1>2, <2>1, <2>3, ScmWorkingStep DEF Working, Main, Thread
  <2>4. CASE Starting
    BY <1>2, <2>1, <2>4, ScmStartingStep DEF Starting, Ctl, Thread
  <2>5. ~Resting
    BY <2>1 DEF Resting, Ctl, Main, Thread
  <2>6. QED BY <2>2, <2>3, <2>4, <2>5 DEF ServiceInv
<1>3. CASE StartService
  <2>1. Resting
    BY <1>3 DEF StartService, ServiceInv, Starting, Working, Ended
  <2>2. /\ Ctl' = << >> /\ told' = told /\ run' = "top" /\ bStop' = bStop
    BY <1>3, <2>1 DEF StartService, Ctl, Resting, TypeOK, Thread, flags
  <2>3. /\ scmGoal = "none" /\ scmGoal' = "none"
        /\ scmState = "STOPPED" /\ scmState' = "START_PENDING"
    BY <1>0, <2>1, <2>2 DEF GoalTable, Resting, scmState
  <2>4. S!StartService
    BY <2>3 DEF S!StartService
  <2>5. QED BY <2>4 DEF S!Next
<1>4. CASE ProcessExits
  <2>1. /\ Ctl = << >> /\ Ctl' = << >> /\ told' = told /\ told = "STOPPED" /\ bStop /\ run' = "none"
    BY <1>4 DEF ProcessExits, Ctl, Thread
  <2>2. scmGoal = "none" /\ scmGoal' = "none" /\ scmState = "STOPPED" /\ scmState' = "STOPPED"
    BY <1>0, <2>1 DEF GoalTable, scmState
  <2>3. QED BY <2>2 DEF S!scm
<1>5. CASE Run
  <2>1. /\ UNCHANGED <<status, told, bStop, Ctl>>
        /\ run # "none" /\ run' # "none"
    BY <1>5 DEF Run, TestStop, TestPause, Look, Launch, Leave, At, flags, Ctl, TypeOK, Thread
  <2>2. scmGoal' = scmGoal
    BY <2>1 DEF scmGoal, Ctl
  <2>3. QED BY <2>1, <2>2 DEF scmState, S!scm
<1>6. CASE AppEnds \/ StartByHand \/ UNCHANGED vars
  BY <1>6 DEF AppEnds, StartByHand, vars, flags, S!scm, scmState, scmGoal
<1>7. QED BY <1>1, <1>2, <1>3, <1>4, <1>5, <1>6 DEF Next

\* To the SCM this is a service as module ScmService has it: whichever of its
\* two threads reports, each report is one a well-behaved service may make.
THEOREM ReportsAsService == Spec => S!Spec
<1>1. Init => S!Init
  BY GoalOf DEF Init, S!Init, scmState, GoalTable, Ctl, Thread
<1>2. QED BY <1>1, ScmStep, ServiceInvariant, PTL DEF Spec, S!Spec
=============================================================================
