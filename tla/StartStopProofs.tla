-------------------------- MODULE StartStopProofs ---------------------------
(***************************************************************************)
(* Theorems about StartStop for any number of clicks of a patient user and *)
(* any choice of workers.                                                  *)
(***************************************************************************)
EXTENDS StartStop, SequenceTheorems, TLAPS

-----------------------------------------------------------------------------
(* The inductive invariant: the workers that live are those of one click g *)
(* and what the controller has still to do about them.                     *)

NoneAlive  == \A d \in Click, k \in Kind : ~Alive(d, k)
OnlyOf(g)  == \A d \in Click, k \in Kind : d # g => ~Alive(d, k)

\* A worker of click g that has not been told to exit.
Up(g, k) ==
    /\ worker[<<g, k>>] \in {"test", "busy", "connect"} \/ (k = "monitor" /\ worker[<<g, k>>] = "exited")
    /\ k = "watcher" /\ worker[<<g, k>>] = "busy" => waitsOn[g] = g

\* The workers K of click g are up, and nothing else lives.
Live(g, K) ==
    /\ exitCode = 0 /\ hDir = g /\ open = {g}
    /\ OnlyOf(g)
    /\ \A k \in K : thread[k] = g /\ Up(g, k)
    /\ \A k \in Kind \ K : ~Alive(g, k)

\* The workers of click g were told to exit; the watcher closes the folder.
Dying(g) ==
    /\ exitCode = 1
    /\ OnlyOf(g)
    /\ \A k \in Kind : thread[k] = g
    /\ IF Alive(g, "watcher") THEN hDir = g /\ open = {g} ELSE open = {}
    /\ worker[<<g, "watcher">>] = "busy" => waitsOn[g] = g

\* The kinds the controller of click c is done with.
Before(c) == { Order[m] : m \in 1..(step[c] - 1) }

Off   == Settled /\ ~threadRuning /\ menu = "start" /\ NoneAlive /\ open = {}
On(g) == Settled /\ threadRuning /\ menu = "stop" /\ Live(g, Kind)

\* The controller of click c starts the workers ...
Opening(c) ==
    /\ NoneAlive /\ hDir = c /\ open = {c}
    /\ \/ ctl[c] = "read" /\ ~threadRuning
       \/ ctl[c] = "write" /\ flip[c]
       \/ ctl[c] \in {"branch", "start"} /\ threadRuning
Creating(c) == ctl[c] = "create" /\ threadRuning /\ Live(c, Before(c))
Created(c)  == ctl[c] = "started" /\ threadRuning /\ Live(c, Kind)

\* ... or stops those of click g.
Closing(g, c) ==
    /\ Live(g, Kind)
    /\ \/ ctl[c] = "read" /\ threadRuning
       \/ ctl[c] = "write" /\ ~flip[c]
       \/ ctl[c] \in {"branch", "stop"} /\ ~threadRuning
Joining(g, c) ==
    /\ Dying(g) /\ ~threadRuning
    /\ ctl[c] = "join" \/ (ctl[c] = "wait" /\ target[c] = g)
    /\ \A k \in Before(c) : worker[<<g, k>>] = "exited"
Joined(c) == ctl[c] = "stopped" /\ ~threadRuning /\ NoneAlive /\ open = {}

\* Only the last click has a controller, and its counter starts at 1.
Alone == \A d \in Click : d # clicks => ctl[d] \notin Controlling
Reset == \A d \in Click : ctl[d] \notin {"create", "join", "wait"} => step[d] = 1

Phase ==
    \/ Off
    \/ \E g \in Click : On(g)
    \/ \E c \in Click : c = clicks /\ (Opening(c) \/ Creating(c) \/ Created(c) \/ Joined(c))
    \/ \E c, g \in Click : c = clicks /\ (Closing(g, c) \/ Joining(g, c))

StartStopInv == Alone /\ Reset /\ Phase

-----------------------------------------------------------------------------
(* Type correctness.                                                       *)

LEMMA OrderFacts ==
    /\ Len(Order) \in Nat /\ Len(Order) > 0
    /\ DOMAIN Order = 1..Len(Order)
    /\ \A n \in DOMAIN Order : Order[n] \in Kind
    /\ \A k \in Kind : \E n \in DOMAIN Order : Order[n] = k
<1>1. Order # << >> /\ Len(Order) \in Nat /\ DOMAIN Order = 1..Len(Order)
  BY StartStopAssumption, LenProperties
<1>2. Len(Order) # 0
  BY <1>1, StartStopAssumption, EmptySeq
<1>3. QED BY <1>1, <1>2 DEF Kind

\* The counter of pthread_create and pthread_join stays within thread[].
LEMMA FollowingType ==
    ASSUME TypeOK, NEW c \in Click, NEW a \in Controlling, NEW b \in Controlling, Following(c, a, b)
    PROVE  /\ step' \in [Click -> DOMAIN Order]
           /\ ctl' \in [Click -> {"none", "done"} \cup Controlling]
<1>1. step \in [Click -> 1..Len(Order)] /\ 1 \in 1..Len(Order) /\ DOMAIN Order = 1..Len(Order)
  BY OrderFacts DEF TypeOK
<1>2. CASE step[c] < Len(Order)
  <2>1. step[c] + 1 \in 1..Len(Order)
    BY <1>1, <1>2, OrderFacts
  <2>2. step' = [step EXCEPT ![c] = step[c] + 1] /\ ctl' = [ctl EXCEPT ![c] = a]
    BY <1>2 DEF Following
  <2>3. QED BY <1>1, <2>1, <2>2 DEF TypeOK
<1>3. CASE ~(step[c] < Len(Order))
  <2>1. step' = [step EXCEPT ![c] = 1] /\ ctl' = [ctl EXCEPT ![c] = b]
    BY <1>3 DEF Following
  <2>2. QED BY <1>1, <2>1 DEF TypeOK
<1>4. QED BY <1>2, <1>3

LEMMA TypeStep == TypeOK /\ [Next]_vars => TypeOK'
<1> SUFFICES ASSUME TypeOK, [Next]_vars PROVE TypeOK'
  OBVIOUS
<1> USE OrderFacts DEF TypeOK, shared, ctlVars
<1>1. ASSUME NEW c \in Click, OnStartWatch(c) PROVE TypeOK'
  BY <1>1 DEF OnStartWatch, Controlling
<1>2. ASSUME NEW c \in Click, ReadRuning(c) \/ WriteRuning(c) \/ Branch(c) \/ StartSet(c) \/ StopSet(c)
      PROVE  TypeOK'
  <2>1. CASE ReadRuning(c)
    BY <2>1 DEF ReadRuning, Goto, Controlling
  <2>2. CASE WriteRuning(c)
    BY <2>2 DEF WriteRuning, Goto, Controlling
  <2>3. CASE Branch(c)
    BY <2>3 DEF Branch, Goto, Controlling
  <2>4. CASE StartSet(c) \/ StopSet(c)
    BY <2>4 DEF StartSet, StopSet, Goto, Controlling
  <2>5. QED BY <1>2, <2>1, <2>2, <2>3, <2>4
<1>3. ASSUME NEW c \in Click, CreateWorker(c) PROVE TypeOK'
  <2>1. step[c] \in DOMAIN Order /\ Order[step[c]] \in Kind
    OBVIOUS
  <2>2. step' \in [Click -> DOMAIN Order] /\ ctl' \in [Click -> {"none", "done"} \cup Controlling]
    BY <1>3, FollowingType DEF CreateWorker, Controlling
  <2>3. /\ thread' \in [Kind -> {0} \cup Click]
        /\ worker' \in [Click \X Kind -> {"none", "test", "busy", "connect", "end", "exited"}]
    BY <1>3, <2>1 DEF CreateWorker
  <2>4. QED BY <1>3, <2>2, <2>3 DEF CreateWorker
<1>4. ASSUME NEW c \in Click, JoinCall(c) PROVE TypeOK'
  BY <1>4 DEF JoinCall, Goto, Controlling
<1>5. ASSUME NEW c \in Click, JoinReturn(c) PROVE TypeOK'
  <2>1. step' \in [Click -> DOMAIN Order] /\ ctl' \in [Click -> {"none", "done"} \cup Controlling]
    BY <1>5, FollowingType DEF JoinReturn, Controlling
  <2>2. QED BY <1>5, <2>1 DEF JoinReturn
<1>6. ASSUME NEW c \in Click, ModifyMenu(c) PROVE TypeOK'
  BY <1>6 DEF ModifyMenu, Goto
<1>7. ASSUME NEW c \in Click, NEW k \in Kind, TestExitCode(c, k) \/ EndTurn(c, k) PROVE TypeOK'
  <2>1. CASE TestExitCode(c, k)
    <3> DEFINE v == IF exitCode = 0 THEN "busy" ELSE IF k = "watcher" THEN "end" ELSE "exited"
    <3>1. worker' = [worker EXCEPT ![<<c, k>>] = v]
      BY <2>1 DEF TestExitCode, Works
    <3>2. v \in {"busy", "end", "exited"}
      OBVIOUS
    <3> HIDE DEF v
    <3>3. worker' \in [Click \X Kind -> {"none", "test", "busy", "connect", "end", "exited"}]
      BY <3>1, <3>2
    <3>4. waitsOn' = [waitsOn EXCEPT ![c] = hDir] \/ waitsOn' = waitsOn
      BY <2>1 DEF TestExitCode
    <3>5. waitsOn' \in [Click -> {0} \cup Click]
      BY <3>4
    <3>6. UNCHANGED <<shared, ctlVars>>
      BY <2>1 DEF TestExitCode
    <3>7. QED BY <3>3, <3>5, <3>6
  <2>2. CASE EndTurn(c, k)
    <3>1. worker' \in [Click \X Kind -> {"none", "test", "busy", "connect", "end", "exited"}]
      BY <2>2 DEF EndTurn, Works
    <3>2. UNCHANGED <<shared, ctlVars, waitsOn>>
      BY <2>2 DEF EndTurn
    <3>3. QED BY <3>1, <3>2
  <2>3. QED BY <1>7, <2>1, <2>2
<1>8. ASSUME NEW c \in Click,
             StartConnecting(c) \/ ServerAnswers(c) \/ FolderChanges(c) \/ WatchFails(c) \/ CloseDir(c)
             \/ MonitorGivesUp(c)
      PROVE  TypeOK'
  BY <1>8 DEF StartConnecting, ServerAnswers, FolderChanges, WatchFails, CloseDir, MonitorGivesUp, Works
<1>9. CASE UNCHANGED vars
  BY <1>9 DEF vars
<1>10. QED
  BY <1>1, <1>2, <1>3, <1>4, <1>5, <1>6, <1>7, <1>8, <1>9 DEF Next, ThreadStartAll, Worker, Environment

\* Type correctness of starting and stopping.
THEOREM StartStopTypeCorrect == Spec => []TypeOK
<1>1. Init => TypeOK
  <2> SUFFICES ASSUME Init PROVE TypeOK
    OBVIOUS
  <2>1. 1 \in DOMAIN Order
    BY OrderFacts
  <2>2. /\ thread \in [Kind -> {0} \cup Click]
        /\ ctl \in [Click -> {"none", "done"} \cup Controlling]
        /\ step \in [Click -> DOMAIN Order]
        /\ target \in [Click -> {0} \cup Click]
        /\ waitsOn \in [Click -> {0} \cup Click]
        /\ worker \in [Click \X Kind -> {"none", "test", "busy", "connect", "end", "exited"}]
    BY <2>1 DEF Init
  <2>3. flip \in [Click -> BOOLEAN] /\ threadRuning \in BOOLEAN
    BY DEF Init
  <2>4. QED BY <2>2, <2>3 DEF Init, TypeOK
<1>2. QED BY <1>1, TypeStep, PTL DEF Spec

-----------------------------------------------------------------------------
(* The workers.                                                            *)

\* What a step of worker k of click d comes to; v is its next state.
WorkerMove(d, k, v) ==
    /\ Alive(d, k)
    /\ worker' = [worker EXCEPT ![<<d, k>>] = v]
    /\ UNCHANGED <<threadRuning, exitCode, thread, hDir, menu, ctlVars>>
    /\ \/ v \in {"test", "connect"} /\ worker[<<d, k>>] # "end" /\ UNCHANGED <<open, waitsOn>>
       \/ /\ v = "busy" /\ exitCode = 0 /\ UNCHANGED open
          /\ waitsOn' = IF k = "watcher" THEN [waitsOn EXCEPT ![d] = hDir] ELSE waitsOn
       \/ v = "end" /\ k = "watcher" /\ exitCode = 1 /\ UNCHANGED <<open, waitsOn>>
       \/ /\ v = "exited" /\ k # "watcher" /\ (exitCode = 1 \/ k = "monitor")
          /\ UNCHANGED <<open, waitsOn>>
       \/ /\ v = "exited" /\ k = "watcher" /\ worker[<<d, k>>] = "end"
          /\ open' = open \ {hDir} /\ UNCHANGED waitsOn

LEMMA WorkerEffect ==
    ASSUME TypeOK, NEW d \in Click, Worker(d) \/ Environment(d) \/ MonitorGivesUp(d)
    PROVE  \E k \in Kind, v \in {"test", "busy", "connect", "end", "exited"} : WorkerMove(d, k, v)
<1> USE DEF Alive, Works, shared
<1>1. ASSUME NEW k \in Kind, TestExitCode(d, k)
      PROVE  \E v \in {"test", "busy", "connect", "end", "exited"} : WorkerMove(d, k, v)
  <2> DEFINE v == IF exitCode = 0 THEN "busy" ELSE IF k = "watcher" THEN "end" ELSE "exited"
  <2>1. exitCode \in {0, 1}
    BY DEF TypeOK
  <2>2. /\ worker[<<d, k>>] = "test" /\ worker' = [worker EXCEPT ![<<d, k>>] = v]
        /\ waitsOn' = (IF k = "watcher" /\ exitCode = 0 THEN [waitsOn EXCEPT ![d] = hDir] ELSE waitsOn)
        /\ UNCHANGED <<threadRuning, exitCode, thread, hDir, open, menu, ctlVars>>
    BY <1>1 DEF TestExitCode
  <2>3. CASE exitCode = 0
    <3>1. v = "busy"
      BY <2>3
    <3>2. WorkerMove(d, k, "busy")
      BY <2>2, <2>3, <3>1 DEF WorkerMove
    <3>3. QED BY <3>2
  <2>4. CASE exitCode # 0 /\ k = "watcher"
    BY <2>1, <2>2, <2>4 DEF WorkerMove
  <2>5. CASE exitCode # 0 /\ k # "watcher"
    BY <2>1, <2>2, <2>5 DEF WorkerMove
  <2>6. QED BY <2>3, <2>4, <2>5
<1>2. ASSUME NEW k \in Kind, EndTurn(d, k) PROVE WorkerMove(d, k, "test")
  BY <1>2 DEF EndTurn, WorkerMove
<1>3. ASSUME StartConnecting(d) PROVE "upload" \in Kind /\ WorkerMove(d, "upload", "connect")
  BY <1>3 DEF StartConnecting, WorkerMove
<1>4. ASSUME ServerAnswers(d) PROVE "upload" \in Kind /\ WorkerMove(d, "upload", "test")
  BY <1>4 DEF ServerAnswers, WorkerMove
<1>5. ASSUME FolderChanges(d) \/ WatchFails(d)
      PROVE  "watcher" \in Kind /\ WorkerMove(d, "watcher", "test")
  BY <1>5 DEF FolderChanges, WatchFails, WorkerMove
<1>6. ASSUME CloseDir(d) PROVE "watcher" \in Kind /\ WorkerMove(d, "watcher", "exited")
  BY <1>6 DEF CloseDir, WorkerMove
<1>7. ASSUME MonitorGivesUp(d) PROVE "monitor" \in Kind /\ WorkerMove(d, "monitor", "exited")
  BY <1>7 DEF MonitorGivesUp, WorkerMove
<1>8. QED BY <1>1, <1>2, <1>3, <1>4, <1>5, <1>6, <1>7 DEF Worker, Environment

\* The effect on the workers, one by one.
LEMMA MoveOne ==
    ASSUME TypeOK, NEW d \in Click, NEW k \in Kind, NEW v, WorkerMove(d, k, v)
    PROVE  /\ worker'[<<d, k>>] = v
           /\ \A e \in Click, j \in Kind : e # d \/ j # k => worker'[<<e, j>>] = worker[<<e, j>>]
           /\ \A e \in Click, j \in Kind : worker[<<e, j>>] = "exited" => worker'[<<e, j>>] = "exited"
           /\ \A e \in Click, j \in Kind : ~Alive(e, j) => ~Alive(e, j)'
<1>1. worker \in [Click \X Kind -> {"none", "test", "busy", "connect", "end", "exited"}]
  BY DEF TypeOK
<1>2. worker' = [worker EXCEPT ![<<d, k>>] = v] /\ Alive(d, k)
  BY DEF WorkerMove
<1>3. worker'[<<d, k>>] = v
  BY <1>1, <1>2
<1>4. ASSUME NEW e \in Click, NEW j \in Kind, e # d \/ j # k PROVE worker'[<<e, j>>] = worker[<<e, j>>]
  <2>1. <<e, j>> # <<d, k>> /\ <<e, j>> \in Click \X Kind
    BY <1>4
  <2>2. QED BY <1>1, <1>2, <2>1
<1>5. worker[<<d, k>>] # "exited"
  BY <1>2 DEF Alive
<1>6. \A e \in Click, j \in Kind : worker[<<e, j>>] = "exited" => worker'[<<e, j>>] = "exited"
  BY <1>4, <1>5
<1>7. \A e \in Click, j \in Kind : ~Alive(e, j) => ~Alive(e, j)'
  <2> SUFFICES ASSUME NEW e \in Click, NEW j \in Kind, ~Alive(e, j) PROVE ~Alive(e, j)'
    OBVIOUS
  <2>1. e # d \/ j # k
    BY <1>2
  <2>2. worker'[<<e, j>>] = worker[<<e, j>>]
    BY <1>4, <2>1
  <2>3. QED BY <2>2 DEF Alive
<1>8. QED BY <1>3, <1>4, <1>6, <1>7

LEMMA LiveStep ==
    ASSUME TypeOK, NEW d \in Click, NEW k \in Kind,
           NEW v \in {"test", "busy", "connect", "end", "exited"}, WorkerMove(d, k, v),
           NEW g \in Click, NEW K \in SUBSET Kind, Live(g, K)
    PROVE  Live(g, K)'
<1>1. d = g /\ k \in K /\ Up(g, k) /\ exitCode = 0
  BY DEF WorkerMove, Live, OnlyOf
<1>2. v \in {"test", "busy", "connect"} \/ (v = "exited" /\ k = "monitor")
  BY <1>1 DEF WorkerMove, Up
<1>3. UNCHANGED <<exitCode, hDir, open, thread>>
  BY <1>1 DEF WorkerMove, Up
<1>4. waitsOn' = (IF v = "busy" /\ k = "watcher" THEN [waitsOn EXCEPT ![g] = g] ELSE waitsOn)
  BY <1>1 DEF WorkerMove, Live, Up
<1>5. waitsOn' = waitsOn \/ waitsOn'[g] = g
  BY <1>4 DEF TypeOK
<1>6. /\ worker'[<<g, k>>] = v
      /\ \A j \in Kind : j # k => worker'[<<g, j>>] = worker[<<g, j>>]
  <2>1. worker'[<<d, k>>] = v
    BY MoveOne
  <2>2. \A e \in Click, j \in Kind : e # d \/ j # k => worker'[<<e, j>>] = worker[<<e, j>>]
    BY MoveOne
  <2>3. QED BY <1>1, <2>1, <2>2
<1>7. \A j \in K : Up(g, j)'
  <2> SUFFICES ASSUME NEW j \in K PROVE Up(g, j)'
    OBVIOUS
  <2>1. CASE j = k
    <3>1. worker'[<<g, j>>] = v
      BY <1>6, <2>1
    <3>2. v = "busy" /\ j = "watcher" => waitsOn'[g] = g
      BY <1>4, <2>1 DEF TypeOK
    <3>3. QED BY <1>2, <2>1, <3>1, <3>2 DEF Up
  <2>2. CASE j # k
    <3>1. worker'[<<g, j>>] = worker[<<g, j>>]
      BY <1>6, <2>2
    <3>2. Up(g, j)
      BY DEF Live
    <3>3. QED BY <1>5, <3>1, <3>2 DEF Up
  <2>3. QED BY <2>1, <2>2
<1>8. OnlyOf(g)' /\ (\A j \in Kind \ K : ~Alive(g, j)')
  BY MoveOne DEF Live, OnlyOf
<1>9. QED BY <1>3, <1>7, <1>8 DEF Live

LEMMA DyingStep ==
    ASSUME TypeOK, "watcher" \in Kind, NEW d \in Click, NEW k \in Kind,
           NEW v \in {"test", "busy", "connect", "end", "exited"}, WorkerMove(d, k, v),
           NEW g \in Click, Dying(g)
    PROVE  Dying(g)'
<1>1. d = g /\ exitCode = 1
  BY DEF WorkerMove, Dying, OnlyOf
<1>2. UNCHANGED <<exitCode, hDir, thread, waitsOn>> /\ v # "busy"
  BY <1>1 DEF WorkerMove
<1>3. OnlyOf(g)'
  BY MoveOne DEF Dying, OnlyOf
<1>4. /\ worker'[<<g, k>>] = v
      /\ \A j \in Kind : j # k => worker'[<<g, j>>] = worker[<<g, j>>]
  <2>1. worker'[<<d, k>>] = v
    BY MoveOne
  <2>2. \A e \in Click, j \in Kind : e # d \/ j # k => worker'[<<e, j>>] = worker[<<e, j>>]
    BY MoveOne
  <2>3. QED BY <1>1, <2>1, <2>2
<1>5. worker'[<<g, "watcher">>] = "busy" => worker[<<g, "watcher">>] = "busy"
  <2>1. CASE k = "watcher"
    BY <1>2, <1>4, <2>1
  <2>2. CASE k # "watcher"
    BY <1>4, <2>2
  <2>3. QED BY <2>1, <2>2
<1>6. IF Alive(g, "watcher")' THEN hDir' = g /\ open' = {g} ELSE open' = {}
  <2>1. CASE k = "watcher"
    <3>1. Alive(g, "watcher")' <=> v # "exited"
      <4>1. worker'[<<g, "watcher">>] = v
        BY <1>4, <2>1
      <4>2. QED BY <4>1 DEF Alive
    <3>2. hDir = g /\ open = {g} /\ hDir' = g
      BY <1>1, <1>2, <2>1 DEF WorkerMove, Dying
    <3>3. open' = IF v = "exited" THEN open \ {hDir} ELSE open
      BY <1>1, <2>1 DEF WorkerMove
    <3>4. QED BY <3>1, <3>2, <3>3
  <2>2. CASE k # "watcher"
    <3>1. worker'[<<g, "watcher">>] = worker[<<g, "watcher">>]
      BY <1>4, <2>2
    <3>2. Alive(g, "watcher")' <=> Alive(g, "watcher")
      BY <3>1 DEF Alive
    <3>3. open' = open /\ hDir' = hDir
      BY <1>1, <1>2, <2>2 DEF WorkerMove
    <3>4. QED BY <3>2, <3>3 DEF Dying
  <2>3. QED BY <2>1, <2>2
<1>7. QED BY <1>2, <1>3, <1>5, <1>6 DEF Dying

LEMMA BeforeIsKinds ==
    ASSUME TypeOK, NEW c \in Click
    PROVE  Before(c) \subseteq Kind
<1>1. step[c] \in 1..Len(Order) /\ Len(Order) \in Nat
  BY OrderFacts DEF TypeOK
<1>2. \A m \in 1..(step[c] - 1) : m \in DOMAIN Order
  BY <1>1, OrderFacts
<1>3. QED BY <1>2, OrderFacts DEF Before

LEMMA WorkersStep ==
    ASSUME TypeOK, "watcher" \in Kind, StartStopInv,
           NEW d \in Click, Worker(d) \/ Environment(d) \/ MonitorGivesUp(d)
    PROVE  StartStopInv'
<1>1. PICK k \in Kind, v \in {"test", "busy", "connect", "end", "exited"} : WorkerMove(d, k, v)
  BY WorkerEffect
<1>2. Alive(d, k) /\ UNCHANGED <<threadRuning, exitCode, thread, hDir, menu, clicks, ctl, step, flip, target>>
  BY <1>1 DEF WorkerMove, ctlVars
<1>3. Alone' /\ Reset'
  BY <1>2 DEF StartStopInv, Alone, Reset
<1>4. ~NoneAlive
  BY <1>2 DEF NoneAlive
<1>5. ASSUME NEW g \in Click, On(g) PROVE On(g)'
  <2>1. Live(g, Kind)'
    BY <1>1, <1>5, LiveStep DEF On
  <2>2. QED BY <1>2, <1>5, <2>1 DEF On, Settled
<1>6. ASSUME NEW c \in Click, Creating(c) PROVE Creating(c)'
  <2>1. Before(c) \subseteq Kind
    BY BeforeIsKinds
  <2>2. Before(c)' = Before(c)
    BY <1>2 DEF Before
  <2>3. Live(c, Before(c))'
    <3> DEFINE K == Before(c)
    <3>1. K' = K /\ K \in SUBSET Kind
      BY <2>1, <2>2
    <3> HIDE DEF K
    <3>2. PICK L \in SUBSET Kind : L = K
      BY <3>1
    <3>3. Live(c, L)
      BY <1>6, <3>2 DEF Creating, K
    <3>4. Live(c, L)'
      BY <1>1, <3>3, LiveStep
    <3>5. QED BY <3>1, <3>2, <3>4 DEF Live, K
  <2>4. QED BY <1>2, <1>6, <2>3 DEF Creating
<1>7. ASSUME NEW c \in Click, Created(c) PROVE Created(c)'
  <2>1. Live(c, Kind)'
    BY <1>1, <1>7, LiveStep DEF Created
  <2>2. QED BY <1>2, <1>7, <2>1 DEF Created
<1>8. ASSUME NEW g \in Click, NEW c \in Click, Closing(g, c) PROVE Closing(g, c)'
  <2>1. Live(g, Kind)'
    BY <1>1, <1>8, LiveStep DEF Closing
  <2>2. QED BY <1>2, <1>8, <2>1 DEF Closing
<1>9. ASSUME NEW g \in Click, NEW c \in Click, Joining(g, c) PROVE Joining(g, c)'
  <2>1. Dying(g)'
    BY <1>1, <1>9, DyingStep DEF Joining
  <2>2. Before(c)' = Before(c) /\ Before(c) \subseteq Kind
    <3>1. Before(c) \subseteq Kind
      BY BeforeIsKinds
    <3>2. QED BY <1>2, <3>1 DEF Before
  <2>3. \A j \in Before(c) : worker'[<<g, j>>] = "exited"
    BY <1>1, <1>9, <2>2, MoveOne DEF Joining
  <2>4. QED BY <1>2, <1>9, <2>1, <2>2, <2>3 DEF Joining
<1>10. Phase'
  BY <1>2, <1>4, <1>5, <1>6, <1>7, <1>8, <1>9 DEF StartStopInv, Phase, Off, Opening, Joined
<1>11. QED BY <1>3, <1>10 DEF StartStopInv

-----------------------------------------------------------------------------
(* The controllers and the clicks.                                         *)

\* While the workers rest, what is said of them stays.
LEMMA RestFrame ==
    ASSUME UNCHANGED <<worker, waitsOn>>
    PROVE  /\ NoneAlive' <=> NoneAlive
           /\ \A g : OnlyOf(g)' <=> OnlyOf(g)
           /\ \A g, k : (Up(g, k)' <=> Up(g, k)) /\ (Alive(g, k)' <=> Alive(g, k))
BY DEF NoneAlive, OnlyOf, Up, Alive

LEMMA LiveFrame ==
    ASSUME UNCHANGED <<worker, waitsOn, exitCode, hDir, open, thread>>, NEW g
    PROVE  Live(g, Kind)' <=> Live(g, Kind)
BY RestFrame DEF Live

\* The controller at work is that of the last click.
LEMMA ControllerOf ==
    ASSUME StartStopInv, NEW c \in Click, ctl[c] \in Controlling
    PROVE  /\ c = clicks
           /\ \/ Opening(c) \/ Creating(c) \/ Created(c) \/ Joined(c)
              \/ \E g \in Click : Closing(g, c) \/ Joining(g, c)
<1>1. c = clicks
  BY DEF StartStopInv, Alone
<1>2. ~Off /\ \A g \in Click : ~On(g)
  BY DEF Off, On, Settled
<1>3. QED BY <1>1, <1>2 DEF StartStopInv, Phase

\* A controller that goes on leaves the others alone.
LEMMA AloneStep ==
    ASSUME TypeOK, StartStopInv, NEW c \in Click, ctl[c] \in Controlling, clicks' = clicks,
           NEW to \in {"done"} \cup Controlling, ctl' = [ctl EXCEPT ![c] = to]
    PROVE  Alone' /\ ctl'[c] = to /\ (to = "done" => Settled')
<1>1. \A d \in Click : ctl'[d] = IF d = c THEN to ELSE ctl[d]
  BY DEF TypeOK
<1>2. QED BY <1>1, ControllerOf DEF StartStopInv, Alone, Settled, Controlling

LEMMA GotoStep ==
    ASSUME TypeOK, StartStopInv, NEW c \in Click, NEW from \in Controlling,
           NEW to \in {"done"} \cup Controlling, Goto(c, from, to), step' = step,
           to \in {"create", "join", "wait"} \/ from \notin {"create", "join", "wait"}
    PROVE  /\ Alone' /\ Reset' /\ ctl[c] = from /\ ctl'[c] = to /\ clicks' = clicks
           /\ to = "done" => Settled'
<1>1. ctl[c] = from /\ ctl' = [ctl EXCEPT ![c] = to] /\ clicks' = clicks
  BY DEF Goto
<1>2. Alone' /\ ctl'[c] = to /\ (to = "done" => Settled')
  BY <1>1, AloneStep
<1>3. \A d \in Click : ctl'[d] = IF d = c THEN to ELSE ctl[d]
  BY <1>1 DEF TypeOK
<1>4. Reset'
  BY <1>1, <1>3 DEF StartStopInv, Reset
<1>5. QED BY <1>1, <1>2, <1>4

\* The flip of threadRuning: three steps before the controller knows what to do.
LEMMA FlipStep ==
    ASSUME TypeOK, StartStopInv, NEW c \in Click, ReadRuning(c) \/ WriteRuning(c) \/ Branch(c)
    PROVE  StartStopInv'
<1>1. UNCHANGED <<exitCode, thread, hDir, open, menu, step, target, worker, waitsOn>>
  BY DEF ReadRuning, WriteRuning, Branch, shared
<1>2. /\ Alone' /\ Reset' /\ clicks' = clicks /\ ctl[c] \in {"read", "write", "branch"}
      /\ \/ ctl[c] = "read" /\ ctl'[c] = "write" /\ flip'[c] = ~threadRuning
         \/ ctl[c] = "write" /\ ctl'[c] = "branch" /\ threadRuning' = flip[c]
         \/ /\ ctl[c] = "branch" /\ ctl'[c] = (IF threadRuning THEN "start" ELSE "stop")
            /\ threadRuning' = threadRuning
  <2>1. CASE ReadRuning(c)
    <3>1. /\ Goto(c, "read", "write") /\ flip' = [flip EXCEPT ![c] = ~threadRuning]
      BY <2>1 DEF ReadRuning
    <3>2. flip'[c] = ~threadRuning
      BY <3>1 DEF TypeOK
    <3>3. QED BY <1>1, <3>1, <3>2, GotoStep DEF Controlling
  <2>2. CASE WriteRuning(c)
    <3>1. Goto(c, "write", "branch") /\ threadRuning' = flip[c]
      BY <2>2 DEF WriteRuning
    <3>2. QED BY <1>1, <3>1, GotoStep DEF Controlling
  <2>3. CASE Branch(c)
    <3>1. Goto(c, "branch", IF threadRuning THEN "start" ELSE "stop") /\ threadRuning' = threadRuning
      BY <2>3 DEF Branch, shared
    <3>2. QED BY <1>1, <3>1, GotoStep DEF Controlling
  <2>4. QED BY <2>1, <2>2, <2>3
<1>3. c = clicks /\ (Opening(c) \/ \E g \in Click : Closing(g, c))
  BY <1>2, ControllerOf DEF Controlling, Creating, Created, Joined, Joining
<1>4. flip[c] \in BOOLEAN
  BY DEF TypeOK
<1>5. Opening(c) => Opening(c)'
  BY <1>1, <1>2, <1>4, RestFrame DEF Opening
<1>6. \A g \in Click : Closing(g, c) => Closing(g, c)'
  BY <1>1, <1>2, <1>4, LiveFrame DEF Closing
<1>7. Phase'
  BY <1>2, <1>3, <1>5, <1>6 DEF Phase
<1>8. QED BY <1>2, <1>7 DEF StartStopInv

LEMMA StartSetStep ==
    ASSUME TypeOK, StartStopInv, NEW c \in Click, StartSet(c)
    PROVE  StartStopInv'
<1>1. /\ Goto(c, "start", "create") /\ exitCode' = 0
      /\ UNCHANGED <<threadRuning, thread, hDir, open, step, worker, waitsOn>>
  BY DEF StartSet
<1>2. Alone' /\ Reset' /\ ctl[c] = "start" /\ ctl'[c] = "create" /\ clicks' = clicks
  BY <1>1, GotoStep DEF Controlling
<1>3. c = clicks /\ Opening(c)
  BY <1>2, ControllerOf DEF Controlling, Creating, Created, Joined, Joining, Closing
<1>4. step[c] = 1
  BY <1>2 DEF StartStopInv, Reset
<1>5. Before(c)' = {}
  BY <1>1, <1>4 DEF Before
<1>6. Creating(c)'
  BY <1>1, <1>2, <1>3, <1>5, RestFrame DEF Opening, Creating, Live, NoneAlive, OnlyOf
<1>7. Phase'
  BY <1>2, <1>3, <1>6 DEF Phase
<1>8. QED BY <1>2, <1>7 DEF StartStopInv

LEMMA StopSetStep ==
    ASSUME TypeOK, "watcher" \in Kind, StartStopInv, NEW c \in Click, StopSet(c)
    PROVE  StartStopInv'
<1>1. /\ Goto(c, "stop", "join") /\ exitCode' = 1
      /\ UNCHANGED <<threadRuning, thread, hDir, open, step, worker, waitsOn>>
  BY DEF StopSet
<1>2. Alone' /\ Reset' /\ ctl[c] = "stop" /\ ctl'[c] = "join" /\ clicks' = clicks
  BY <1>1, GotoStep DEF Controlling
<1>3. c = clicks
  BY <1>2, ControllerOf DEF Controlling
<1>4. PICK g \in Click : Closing(g, c)
  BY <1>2, ControllerOf DEF Controlling, Opening, Creating, Created, Joined, Joining
<1>5. step[c] = 1
  BY <1>2 DEF StartStopInv, Reset
<1>6. Before(c)' = {}
  BY <1>1, <1>5 DEF Before
<1>7. Alive(g, "watcher") /\ Up(g, "watcher")
  BY <1>4 DEF Closing, Live, Up, Alive
<1>8. Dying(g)'
  BY <1>1, <1>4, <1>7, RestFrame DEF Closing, Live, Dying, Up
<1>9. Joining(g, c)'
  BY <1>1, <1>2, <1>4, <1>6, <1>8 DEF Joining, Closing
<1>10. Phase'
  BY <1>2, <1>3, <1>9 DEF Phase
<1>11. QED BY <1>2, <1>10 DEF StartStopInv

LEMMA JoinCallStep ==
    ASSUME TypeOK, StartStopInv, NEW c \in Click, JoinCall(c)
    PROVE  StartStopInv'
<1>1. /\ Goto(c, "join", "wait") /\ target' = [target EXCEPT ![c] = thread[Order[step[c]]]]
      /\ UNCHANGED <<threadRuning, exitCode, thread, hDir, open, step, worker, waitsOn>>
  BY DEF JoinCall, shared
<1>2. Alone' /\ Reset' /\ ctl[c] = "join" /\ ctl'[c] = "wait" /\ clicks' = clicks
  BY <1>1, GotoStep DEF Controlling
<1>3. c = clicks
  BY <1>2, ControllerOf DEF Controlling
<1>4. PICK g \in Click : Joining(g, c)
  BY <1>2, ControllerOf DEF Controlling, Opening, Creating, Created, Joined, Closing
<1>5. target'[c] = g
  <2>1. Order[step[c]] \in Kind
    BY OrderFacts DEF TypeOK
  <2>2. QED BY <1>1, <1>4, <2>1 DEF TypeOK, Joining, Dying
<1>6. Dying(g)' /\ Before(c)' = Before(c)
  BY <1>1, <1>4, RestFrame DEF Joining, Dying, Before
<1>7. Joining(g, c)'
  BY <1>1, <1>2, <1>4, <1>5, <1>6 DEF Joining
<1>8. Phase'
  BY <1>2, <1>3, <1>7 DEF Phase
<1>9. QED BY <1>2, <1>8 DEF StartStopInv

LEMMA ModifyMenuStep ==
    ASSUME TypeOK, StartStopInv, NEW c \in Click, ModifyMenu(c)
    PROVE  StartStopInv'
<1>1. UNCHANGED <<threadRuning, exitCode, thread, hDir, open, step, worker, waitsOn>>
  BY DEF ModifyMenu
<1>2. /\ Alone' /\ Reset' /\ clicks' = clicks /\ Settled'
      /\ \/ ctl[c] = "started" /\ menu' = "stop"
         \/ ctl[c] = "stopped" /\ menu' = "start"
  BY <1>1, GotoStep DEF ModifyMenu, Controlling
<1>3. (Created(c) /\ menu' = "stop") \/ (Joined(c) /\ menu' = "start")
  <2>1. \/ Opening(c) \/ Creating(c) \/ Created(c) \/ Joined(c)
        \/ \E g \in Click : Closing(g, c) \/ Joining(g, c)
    BY <1>2, ControllerOf DEF Controlling
  <2>2. CASE ctl[c] = "started" /\ menu' = "stop"
    <3>1. Created(c)
      BY <2>1, <2>2 DEF Opening, Creating, Joined, Closing, Joining
    <3>2. QED BY <2>2, <3>1
  <2>3. CASE ctl[c] = "stopped" /\ menu' = "start"
    <3>1. Joined(c)
      BY <2>1, <2>3 DEF Opening, Creating, Created, Closing, Joining
    <3>2. QED BY <2>3, <3>1
  <2>4. QED BY <1>2, <2>2, <2>3
<1>4. CASE Created(c) /\ menu' = "stop"
  BY <1>1, <1>2, <1>4, LiveFrame DEF Created, On, Phase, StartStopInv
<1>5. CASE Joined(c) /\ menu' = "start"
  BY <1>1, <1>2, <1>5, RestFrame DEF Joined, Off, Phase, StartStopInv
<1>6. QED BY <1>3, <1>4, <1>5

\* Following: on to the next worker, or out of the loop after the last.
LEMMA FollowingStep ==
    ASSUME TypeOK, StartStopInv, NEW c \in Click, ctl[c] \in Controlling, clicks' = clicks,
           NEW a \in {"create", "join"}, NEW b \in {"started", "stopped"}, Following(c, a, b)
    PROVE  /\ Alone' /\ Reset'
           /\ \/ ctl'[c] = a /\ Before(c)' = Before(c) \cup {Order[step[c]]}
              \/ ctl'[c] = b /\ Kind = Before(c) \cup {Order[step[c]]}
<1>1. /\ step \in [Click -> 1..Len(Order)] /\ Len(Order) \in Nat /\ DOMAIN Order = 1..Len(Order)
      /\ step[c] \in 1..Len(Order)
  BY OrderFacts DEF TypeOK
<1>2. CASE step[c] < Len(Order)
  <2>1. step' = [step EXCEPT ![c] = step[c] + 1] /\ ctl' = [ctl EXCEPT ![c] = a]
    BY <1>2 DEF Following
  <2>2. Alone' /\ ctl'[c] = a
    BY <2>1, AloneStep DEF Controlling
  <2>3. \A d \in Click : d # c => ctl'[d] = ctl[d] /\ step'[d] = step[d]
    BY <1>1, <2>1 DEF TypeOK
  <2>4. Reset'
    BY <2>2, <2>3 DEF Reset, StartStopInv
  <2>5. step'[c] - 1 = step[c]
    BY <1>1, <2>1
  <2>6. 1..(step'[c] - 1) = 1..(step[c] - 1) \cup {step[c]}
    BY <1>1, <2>5
  <2>7. Before(c)' = Before(c) \cup {Order[step[c]]}
    BY <2>6 DEF Before
  <2>8. QED BY <2>2, <2>4, <2>7
<1>3. CASE ~(step[c] < Len(Order))
  <2>1. step' = [step EXCEPT ![c] = 1] /\ ctl' = [ctl EXCEPT ![c] = b]
    BY <1>3 DEF Following
  <2>2. Alone' /\ ctl'[c] = b
    BY <2>1, AloneStep DEF Controlling
  <2>3. \A d \in Click : d # c => ctl'[d] = ctl[d] /\ step'[d] = step[d]
    BY <1>1, <2>1 DEF TypeOK
  <2>4. step'[c] = 1
    BY <1>1, <2>1
  <2>5. Reset'
    BY <2>2, <2>3, <2>4 DEF Reset, StartStopInv
  <2>6. 1..Len(Order) = 1..(step[c] - 1) \cup {step[c]}
    BY <1>1, <1>3
  <2>7. Kind = Before(c) \cup {Order[step[c]]}
    BY <1>1, <2>6 DEF Before, Kind
  <2>8. QED BY <2>2, <2>5, <2>7
<1>4. QED BY <1>2, <1>3

\* The worker created is not one of those created before.
LEMMA OrderIsInjective ==
    ASSUME TypeOK, NEW c \in Click
    PROVE  Order[step[c]] \in Kind \ Before(c)
<1>1. step[c] \in 1..Len(Order) /\ Len(Order) \in Nat /\ DOMAIN Order = 1..Len(Order)
  BY OrderFacts DEF TypeOK
<1>2. \A m \in 1..(step[c] - 1) : m \in DOMAIN Order /\ m # step[c]
  BY <1>1
<1>3. \A m \in 1..(step[c] - 1) : Order[m] # Order[step[c]]
  BY <1>1, <1>2, StartStopAssumption
<1>4. QED BY <1>1, <1>3, OrderFacts DEF Before

LEMMA CreateWorkerStep ==
    ASSUME TypeOK, StartStopInv, NEW c \in Click, CreateWorker(c)
    PROVE  StartStopInv'
<1> DEFINE B == Before(c)
<1>1. PICK k \in Kind : k = Order[step[c]] /\ k \notin B
  BY OrderIsInjective
<1>2. /\ ctl[c] = "create" /\ clicks' = clicks /\ Following(c, "create", "started")
      /\ thread' = [thread EXCEPT ![k] = c] /\ worker' = [worker EXCEPT ![<<c, k>>] = "test"]
      /\ UNCHANGED <<threadRuning, exitCode, hDir, open, waitsOn>>
  BY <1>1 DEF CreateWorker
<1>3. c = clicks /\ Creating(c)
  BY <1>2, ControllerOf DEF Controlling, Opening, Created, Joined, Closing, Joining
<1>4. /\ Alone' /\ Reset'
      /\ \/ ctl'[c] = "create" /\ B' = B \cup {k}
         \/ ctl'[c] = "started" /\ Kind = B \cup {k}
  BY <1>1, <1>2, FollowingStep DEF Controlling
<1> HIDE DEF B
<1>5. B \subseteq Kind
  BY BeforeIsKinds DEF B
<1>6. /\ worker'[<<c, k>>] = "test" /\ thread'[k] = c
      /\ \A j \in Kind : j # k => worker'[<<c, j>>] = worker[<<c, j>>] /\ thread'[j] = thread[j]
      /\ \A d \in Click, j \in Kind : d # c => worker'[<<d, j>>] = worker[<<d, j>>]
  BY <1>2 DEF TypeOK
<1>7. OnlyOf(c)'
  BY <1>3, <1>6 DEF Creating, Live, OnlyOf, Alive
<1>8. Up(c, k)'
  BY <1>6 DEF Up
<1>9. \A j \in B : thread'[j] = c /\ Up(c, j)'
  <2> SUFFICES ASSUME NEW j \in B PROVE thread'[j] = c /\ Up(c, j)'
    OBVIOUS
  <2>1. j # k /\ j \in Kind /\ thread[j] = c /\ Up(c, j)
    BY <1>1, <1>3, <1>5 DEF Creating, Live, B
  <2>2. QED BY <1>2, <1>6, <2>1 DEF Up
<1>10. \A j \in Kind \ (B \cup {k}) : ~Alive(c, j)'
  <2> SUFFICES ASSUME NEW j \in Kind \ (B \cup {k}) PROVE ~Alive(c, j)'
    OBVIOUS
  <2>1. ~Alive(c, j)
    BY <1>3 DEF Creating, Live, B
  <2>2. QED BY <1>6, <2>1 DEF Alive
<1>11. \A K : K = B \cup {k} =>
          /\ exitCode' = 0 /\ hDir' = c /\ open' = {c} /\ OnlyOf(c)'
          /\ \A j \in K : thread'[j] = c /\ Up(c, j)'
          /\ \A j \in Kind \ K : ~Alive(c, j)'
  BY <1>2, <1>3, <1>6, <1>7, <1>8, <1>9, <1>10 DEF Creating, Live
<1>12. CASE ctl'[c] = "create" /\ B' = B \cup {k}
  <2>1. Creating(c)'
    BY <1>2, <1>3, <1>11, <1>12 DEF Creating, Live, B
  <2>2. QED BY <1>2, <1>3, <1>4, <2>1 DEF Phase, StartStopInv
<1>13. CASE ctl'[c] = "started" /\ Kind = B \cup {k}
  <2>1. Created(c)'
    BY <1>2, <1>3, <1>11, <1>13 DEF Creating, Created, Live
  <2>2. QED BY <1>2, <1>3, <1>4, <2>1 DEF Phase, StartStopInv
<1>14. QED BY <1>4, <1>12, <1>13

LEMMA JoinReturnStep ==
    ASSUME TypeOK, "watcher" \in Kind, StartStopInv, NEW c \in Click, JoinReturn(c)
    PROVE  StartStopInv'
<1>1. PICK k \in Kind : k = Order[step[c]]
  BY OrderIsInjective
<1>2. /\ ctl[c] = "wait" /\ clicks' = clicks /\ Following(c, "join", "stopped")
      /\ target[c] # 0 => worker[<<target[c], k>>] = "exited"
      /\ UNCHANGED <<threadRuning, exitCode, thread, hDir, open, target, worker, waitsOn>>
  BY <1>1 DEF JoinReturn, shared
<1>3. c = clicks
  BY <1>2, ControllerOf DEF Controlling
<1>4. PICK g \in Click : Joining(g, c)
  BY <1>2, ControllerOf DEF Controlling, Opening, Creating, Created, Joined, Closing
<1>5. worker[<<g, k>>] = "exited"
  <2>1. target[c] = g /\ g # 0
    BY <1>2, <1>4, StartStopAssumption DEF Joining, Click
  <2>2. QED BY <1>2, <2>1
<1>6. /\ Alone' /\ Reset'
      /\ \/ ctl'[c] = "join" /\ Before(c)' = Before(c) \cup {k}
         \/ ctl'[c] = "stopped" /\ Kind = Before(c) \cup {k}
  BY <1>1, <1>2, FollowingStep DEF Controlling
<1>7. \A j \in Before(c) \cup {k} : worker[<<g, j>>] = "exited"
  BY <1>4, <1>5 DEF Joining
<1>8. CASE ctl'[c] = "join" /\ Before(c)' = Before(c) \cup {k}
  <2>1. Dying(g)'
    BY <1>2, <1>4, RestFrame DEF Joining, Dying
  <2>2. Joining(g, c)'
    BY <1>2, <1>4, <1>7, <1>8, <2>1 DEF Joining
  <2>3. QED BY <1>2, <1>3, <1>6, <2>2 DEF Phase, StartStopInv
<1>9. CASE ctl'[c] = "stopped" /\ Kind = Before(c) \cup {k}
  <2>1. NoneAlive /\ open = {}
    BY <1>4, <1>7, <1>9 DEF Joining, Dying, OnlyOf, NoneAlive, Alive
  <2>2. Joined(c)'
    BY <1>2, <1>4, <1>9, <2>1, RestFrame DEF Joined, Joining
  <2>3. QED BY <1>2, <1>3, <1>6, <2>2 DEF Phase, StartStopInv
<1>10. QED BY <1>6, <1>8, <1>9

LEMMA ClickStep ==
    ASSUME TypeOK, Patient, StartStopInv, NEW c \in Click, OnStartWatch(c)
    PROVE  StartStopInv'
<1>1. /\ Settled /\ clicks' = c
      /\ UNCHANGED <<threadRuning, exitCode, thread, menu, step, flip, worker, waitsOn>>
      /\ \/ /\ ~threadRuning /\ hDir' = c /\ open' = open \cup {c}
            /\ ctl' = [ctl EXCEPT ![c] = "read"]
         \/ ~threadRuning /\ hDir' = 0 /\ UNCHANGED <<open, ctl>>
         \/ threadRuning /\ ctl' = [ctl EXCEPT ![c] = "read"] /\ UNCHANGED <<hDir, open>>
  BY DEF OnStartWatch
<1>2. \A d \in Click : ctl'[d] = ctl[d] \/ (d = c /\ ctl'[d] = "read")
  BY <1>1 DEF TypeOK
<1>3. ctl' = [ctl EXCEPT ![c] = "read"] => ctl'[c] = "read"
  BY DEF TypeOK
<1>4. Alone' /\ Reset'
  <2>1. Alone'
    BY <1>1, <1>2 DEF Alone, Settled
  <2>2. ctl[c] \notin {"create", "join", "wait"}
    BY <1>1 DEF Settled, Controlling
  <2>3. Reset'
    BY <1>1, <1>2, <2>2 DEF StartStopInv, Reset
  <2>4. QED BY <2>1, <2>3
<1>5. \A d, g \in Click : ~Closing(g, d) /\ ~Joining(g, d) /\ ~Opening(d) /\ ~Creating(d)
                          /\ ~Created(d) /\ ~Joined(d)
  BY <1>1 DEF Settled, Controlling, Closing, Joining, Opening, Creating, Created, Joined
<1>6. CASE Off
  <2>1. CASE hDir' = c
    <3>1. Opening(c)' \/ Off'
      BY <1>1, <1>3, <1>6, <2>1, RestFrame DEF Off, Opening, Settled
    <3>2. QED BY <1>1, <1>4, <3>1 DEF Phase, StartStopInv
  <2>2. CASE hDir' # c
    <3>1. Off'
      BY <1>1, <1>6, <2>2, RestFrame DEF Off, Settled
    <3>2. QED BY <1>4, <3>1 DEF Phase, StartStopInv
  <2>3. QED BY <2>1, <2>2
<1>7. ASSUME NEW g \in Click, On(g) PROVE StartStopInv'
  <2>1. Closing(g, c)'
    BY <1>1, <1>3, <1>7, LiveFrame DEF On, Closing
  <2>2. QED BY <1>1, <1>4, <2>1 DEF Phase, StartStopInv
<1>8. QED BY <1>5, <1>6, <1>7 DEF StartStopInv, Phase

LEMMA StartStopStep ==
    ASSUME Patient, "watcher" \in Kind, TypeOK, StartStopInv, [Next]_vars
    PROVE  StartStopInv'
<1>1. ASSUME NEW c \in Click, ThreadStartAll(c) PROVE StartStopInv'
  BY <1>1, FlipStep, StartSetStep, CreateWorkerStep, StopSetStep, JoinCallStep, JoinReturnStep,
     ModifyMenuStep DEF ThreadStartAll
<1>2. CASE UNCHANGED vars
  <2>1. /\ UNCHANGED <<threadRuning, exitCode, thread, hDir, open, menu, clicks, ctl, step, flip,
                       target, worker, waitsOn>>
    BY <1>2 DEF vars, shared, ctlVars
  <2>2. Alone' /\ Reset' /\ (Settled' <=> Settled) /\ (NoneAlive' <=> NoneAlive)
    BY <2>1 DEF StartStopInv, Alone, Reset, Settled, NoneAlive, Alive
  <2>3. ASSUME NEW g \in Click, On(g) PROVE On(g)'
    BY <2>1, <2>2, <2>3, LiveFrame DEF On
  <2>4. ASSUME NEW c \in Click, Opening(c) PROVE Opening(c)'
    BY <2>1, <2>2, <2>4 DEF Opening
  <2>5. ASSUME NEW c \in Click, Creating(c) PROVE Creating(c)'
    BY <2>1, <2>5 DEF Creating, Live, OnlyOf, Up, Alive, Before
  <2>6. ASSUME NEW c \in Click, Created(c) PROVE Created(c)'
    BY <2>1, <2>6, LiveFrame DEF Created
  <2>7. ASSUME NEW g \in Click, NEW c \in Click, Closing(g, c) PROVE Closing(g, c)'
    BY <2>1, <2>7, LiveFrame DEF Closing
  <2>8. ASSUME NEW g \in Click, NEW c \in Click, Joining(g, c) PROVE Joining(g, c)'
    BY <2>1, <2>8 DEF Joining, Dying, OnlyOf, Alive, Before
  <2>9. Phase'
    BY <2>1, <2>2, <2>3, <2>4, <2>5, <2>6, <2>7, <2>8 DEF StartStopInv, Phase, Off, Joined
  <2>10. QED BY <2>2, <2>9 DEF StartStopInv
<1>3. QED BY <1>1, <1>2, WorkersStep, ClickStep DEF Next

LEMMA StartStopInvariant ==
    ASSUME Patient, "watcher" \in Kind
    PROVE  Spec => [](TypeOK /\ StartStopInv)
<1>1. Init => StartStopInv
  BY DEF Init, StartStopInv, Alone, Reset, Phase, Off, Settled, Controlling, NoneAlive, Alive
<1>2. TypeOK /\ StartStopInv /\ [Next]_vars => StartStopInv'
  BY StartStopStep
<1>3. QED BY <1>1, <1>2, StartStopTypeCorrect, PTL DEF Spec

-----------------------------------------------------------------------------
(* The safety properties.                                                  *)

\* In every phase the workers that live are those of one click.
LEMMA WorkersOfPhase ==
    ASSUME StartStopInv
    PROVE  \/ NoneAlive
           \/ \E g \in Click : Live(g, Kind) \/ Live(g, Before(g)) \/ Dying(g)
<1>1. Phase
  BY DEF StartStopInv
<1>2. CASE Off
  BY <1>2 DEF Off
<1>3. ASSUME NEW g \in Click, On(g) PROVE Live(g, Kind)
  BY <1>3 DEF On
<1>4. ASSUME NEW c \in Click, Opening(c) \/ Joined(c) PROVE NoneAlive
  BY <1>4 DEF Opening, Joined
<1>5. ASSUME NEW c \in Click, Creating(c) PROVE Live(c, Before(c))
  BY <1>5 DEF Creating
<1>6. ASSUME NEW c \in Click, Created(c) PROVE Live(c, Kind)
  BY <1>6 DEF Created
<1>7. ASSUME NEW c \in Click, NEW g \in Click, Closing(g, c) PROVE Live(g, Kind)
  BY <1>7 DEF Closing
<1>8. ASSUME NEW c \in Click, NEW g \in Click, Joining(g, c) PROVE Dying(g)
  BY <1>8 DEF Joining
<1>9. QED BY <1>1, <1>2, <1>3, <1>4, <1>5, <1>6, <1>7, <1>8 DEF Phase

\* Between two clicks the program is off or on.
LEMMA SettledPhase ==
    ASSUME StartStopInv, Settled
    PROVE  Off \/ \E g \in Click : On(g)
<1>1. \A c, g \in Click : ~Closing(g, c) /\ ~Joining(g, c) /\ ~Opening(c) /\ ~Creating(c)
                          /\ ~Created(c) /\ ~Joined(c)
  BY DEF Settled, Controlling, Closing, Joining, Opening, Creating, Created, Joined
<1>2. Phase
  BY DEF StartStopInv
<1>3. QED BY <1>1, <1>2 DEF Phase

\* No click ever starts a second worker of a kind while one runs, for any
\* number of clicks of a user who waits for the last one (the joins of
\* ThreadStartAll make the next start wait for every worker).
THEOREM WorkersAreSingle ==
    ASSUME Patient, "watcher" \in Kind
    PROVE  Spec => []OneWorkerPerKind
<1>1. StartStopInv => OneWorkerPerKind
  <2> SUFFICES ASSUME StartStopInv PROVE OneWorkerPerKind
    OBVIOUS
  <2>1. CASE NoneAlive
    BY <2>1 DEF NoneAlive, OneWorkerPerKind
  <2>2. ASSUME NEW g \in Click, Live(g, Kind) \/ Live(g, Before(g)) \/ Dying(g) PROVE OneWorkerPerKind
    <3>1. OnlyOf(g)
      BY <2>2 DEF Live, Dying
    <3>2. QED BY <3>1 DEF OnlyOf, OneWorkerPerKind
  <2>3. QED BY <2>1, <2>2, WorkersOfPhase
<1>2. QED BY <1>1, StartStopInvariant, PTL

\* Between two clicks the menu entry offers to stop what runs and to start
\* what does not, for any number of clicks of a patient user (ModifyMenu).
THEOREM MenuIsTruthful ==
    ASSUME Patient, "watcher" \in Kind
    PROVE  Spec => []MenuTellsTruth
<1>1. StartStopInv => MenuTellsTruth
  <2> SUFFICES ASSUME StartStopInv, Settled PROVE MenuTellsTruth
    BY DEF MenuTellsTruth
  <2>1. CASE Off
    BY <2>1 DEF Off, NoneAlive, MenuTellsTruth
  <2>2. ASSUME NEW g \in Click, On(g) PROVE MenuTellsTruth
    <3>1. \A k \in Kind \ {"monitor"} : Alive(g, k)
      BY <2>2 DEF On, Live, Up, Alive
    <3>2. QED BY <2>2, <3>1 DEF On, MenuTellsTruth
  <2>3. QED BY <2>1, <2>2, SettledPhase
<1>2. QED BY <1>1, StartStopInvariant, PTL

\* The watcher of a click works on the handle of that click until it closes
\* it, and none stays open when the threads are stopped (kkConfig.hDir).
THEOREM HandleIsOwned ==
    ASSUME Patient, "watcher" \in Kind
    PROVE  Spec => []WatcherOwnsHandle
<1>1. TypeOK /\ StartStopInv => WatcherOwnsHandle
  <2> SUFFICES ASSUME TypeOK, StartStopInv PROVE WatcherOwnsHandle
    OBVIOUS
  <2> DEFINE Owns(c) == /\ Alive(c, "watcher") => hDir = c /\ c \in open
                        /\ worker[<<c, "watcher">>] = "busy" => waitsOn[c] = c
  <2>1. ASSUME NEW c \in Click PROVE Owns(c)
    <3>1. worker[<<c, "watcher">>] = "busy" => Alive(c, "watcher")
      BY DEF Alive
    <3>2. CASE NoneAlive
      BY <3>1, <3>2 DEF NoneAlive
    <3>3. ASSUME NEW g \in Click, NEW K, Live(g, K) PROVE Owns(c)
      <4>1. Alive(c, "watcher") => c = g /\ "watcher" \in K
        BY <3>3 DEF Live, OnlyOf
      <4>2. QED BY <3>1, <3>3, <4>1 DEF Live, Up
    <3>4. ASSUME NEW g \in Click, Dying(g) PROVE Owns(c)
      <4>1. Alive(c, "watcher") => c = g
        BY <3>4 DEF Dying, OnlyOf
      <4>2. QED BY <3>1, <3>4, <4>1 DEF Dying
    <3>5. QED BY <3>2, <3>3, <3>4, WorkersOfPhase
  <2>2. Settled /\ ~threadRuning => open = {}
    BY SettledPhase DEF Off, On
  <2>3. QED BY <2>1, <2>2 DEF WatcherOwnsHandle
<1>2. QED BY <1>1, StartStopInvariant, PTL
=============================================================================
