----------------------------- MODULE ZlogProofs -----------------------------
(***************************************************************************)
(* Theorems about Zlog for every set of threads, limit and bound: what the *)
(* two locks of the log guarantee.                                         *)
(***************************************************************************)
EXTENDS Zlog, TLAPS

Places == {"out", "enter", "first", "create", "dead"} \cup Inside

\* The part of TypeOK the locks need.
LockTypeOK ==
    /\ readers \subseteq Thread
    /\ writer \in Thread \cup {None}
    /\ env \in {"live", "finished"}
    /\ lock_mutex \in Thread \cup {None}
    /\ refused \in BOOLEAN
    /\ pc \in [Thread -> Places]

\* zlog_env_lock: a writer is alone, a thread at work holds the lock, and
\* zlog_fini left nobody at work.
EnvInv ==
    /\ writer # None => readers = {}
    /\ \A t \in Thread : pc[t] \in Inside \cup {"first"} => t \in readers \/ writer = t
    /\ FiniWaits

\* lock_mutex: a thread that rotates is the owner, and the owner rotates.
MutexInv ==
    /\ \A t \in Thread : pc[t] \in Rotating => lock_mutex = t
    /\ MutexIsOwned

LockInv == LockTypeOK /\ EnvInv /\ MutexInv

\* No two threads rotate at once: the remark of rotater.c 648.
RotatesAlone == \A t, u \in Thread : pc[t] \in Rotating /\ pc[u] \in Rotating => t = u

LEMMA NoneIsNoThread == None \notin Thread
BY ZlogAssumption DEF None

USE DEF Inside, Rotating, Places

LEMMA InitLockInv == Init => LockInv
<1> SUFFICES ASSUME Init PROVE LockInv
  OBVIOUS
<1>1. LockTypeOK
  BY DEF Init, LockTypeOK
<1>2. EnvInv
  BY DEF Init, EnvInv, FiniWaits
<1>3. MutexInv
  BY DEF Init, MutexInv, MutexIsOwned
<1>4. QED BY <1>1, <1>2, <1>3 DEF LockInv

\* Steps of t that take no lock and give none back.
LEMMA MovesInside ==
    ASSUME LockInv, NEW t \in Thread, NEW place \in Inside,
           pc[t] \in Inside, Go(t, place),
           place \in Rotating <=> pc[t] \in Rotating,
           UNCHANGED <<lock_mutex, refused, lock, env>>
    PROVE  LockInv'
<1> USE DEF Go, lock
<1>1. LockTypeOK'
  BY DEF LockInv, LockTypeOK
<1>2. EnvInv'
  BY DEF LockInv, LockTypeOK, EnvInv, FiniWaits
<1>3. MutexInv'
  BY DEF LockInv, LockTypeOK, MutexInv, MutexIsOwned
<1>4. QED BY <1>1, <1>2, <1>3 DEF LockInv

\* The end of a message of a thread that does not rotate.
LEMMA LeavesLock ==
    ASSUME LockInv, NEW t \in Thread, pc[t] \in Inside \ Rotating, Leave(t),
           UNCHANGED <<lock_mutex, refused, env>>
    PROVE  LockInv'
<1> USE DEF Go, Leave
<1>1. LockTypeOK'
  BY DEF LockInv, LockTypeOK
<1>2. EnvInv'
  BY DEF LockInv, LockTypeOK, EnvInv, FiniWaits
<1>3. MutexInv'
  BY DEF LockInv, LockTypeOK, MutexInv, MutexIsOwned
<1>4. QED BY <1>1, <1>2, <1>3 DEF LockInv

LEMMA EnterLockInv ==
    ASSUME LockInv, NEW t \in Thread, Log(t) \/ Enter(t) \/ Upgrade(t) \/ Create(t)
    PROVE  LockInv'
<1> USE DEF Go, lock
<1>1. CASE Log(t)
  BY <1>1 DEF Log, LockInv, LockTypeOK, EnvInv, FiniWaits, MutexInv, MutexIsOwned
<1>2. CASE Enter(t)
  BY <1>2 DEF Enter, LockInv, LockTypeOK, EnvInv, FiniWaits, MutexInv, MutexIsOwned
<1>3. CASE Upgrade(t)
  BY <1>3 DEF Upgrade, LockInv, LockTypeOK, EnvInv, FiniWaits, MutexInv, MutexIsOwned
<1>4. CASE Create(t)
  BY <1>4, NoneIsNoThread
     DEF Create, LockInv, LockTypeOK, EnvInv, FiniWaits, MutexInv, MutexIsOwned
<1>5. QED BY <1>1, <1>2, <1>3, <1>4

LEMMA OutputLockInv ==
    ASSUME LockInv, NEW t \in Thread, Load(t) \/ Write(t) \/ Size(t)
    PROVE  LockInv'
<1>1. CASE Load(t)
  <2>1. Go(t, "write") /\ pc[t] = "load" BY <1>1 DEF Load
  <2>2. UNCHANGED <<lock_mutex, refused, lock, env>> BY <1>1 DEF Load
  <2>3. QED BY <2>1, <2>2, MovesInside
<1>2. CASE Write(t)
  <2>1. pc[t] = "write" /\ UNCHANGED <<lock_mutex, refused, env>> BY <1>2 DEF Write
  <2>2. (Go(t, "size") /\ UNCHANGED lock) \/ Leave(t) BY <1>2 DEF Write
  <2>3. QED BY <2>1, <2>2, MovesInside, LeavesLock
<1>3. CASE Size(t)
  <2>1. pc[t] = "size" /\ UNCHANGED <<lock_mutex, refused, env>> BY <1>3 DEF Size
  <2>2. (Go(t, "trylock") /\ UNCHANGED lock) \/ Leave(t) BY <1>3 DEF Size
  <2>3. QED BY <2>1, <2>2, MovesInside, LeavesLock
<1>4. QED BY <1>1, <1>2, <1>3

LEMMA MutexLockInv ==
    ASSUME LockInv, NEW t \in Thread, TryLock(t) \/ Unlock(t)
    PROVE  LockInv'
<1>1. CASE TryLock(t)
  <2>1. pc[t] = "trylock" /\ env' = env BY <1>1 DEF TryLock
  <2>2. CASE Leave(t) /\ UNCHANGED <<lock_mutex, refused>>
    BY <2>1, <2>2, LeavesLock
  <2>3. CASE lock_mutex = None /\ lock_mutex' = t /\ Go(t, "list") /\ UNCHANGED <<refused, lock>>
    BY <2>1, <2>3, NoneIsNoThread
       DEF Go, lock, LockInv, LockTypeOK, EnvInv, FiniWaits, MutexInv, MutexIsOwned
  <2>4. CASE lock_mutex = None /\ lock_mutex' = t /\ refused' = TRUE /\ Leave(t)
    BY <2>1, <2>4, NoneIsNoThread
       DEF Go, Leave, LockInv, LockTypeOK, EnvInv, FiniWaits, MutexInv, MutexIsOwned
  <2>5. QED BY <1>1, <2>2, <2>3, <2>4 DEF TryLock
<1>2. CASE Unlock(t)
  BY <1>2, NoneIsNoThread
     DEF Unlock, Go, Leave, LockInv, LockTypeOK, EnvInv, FiniWaits, MutexInv, MutexIsOwned
<1>3. QED BY <1>1, <1>2

LEMMA RotateLockInv ==
    ASSUME LockInv, NEW t \in Thread, List(t) \/ Roll(t) \/ Close(t) \/ Open(t)
    PROVE  LockInv'
<1>1. pc[t] \in {"list", "roll", "close", "open"}
  BY DEF List, Roll, Close, Open
<1>2. UNCHANGED <<lock_mutex, refused, lock, env>>
  BY DEF List, Roll, Close, Open
<1>3. PICK place \in Rotating : Go(t, place)
  BY DEF List, Roll, Close, Open
<1>4. QED BY <1>1, <1>2, <1>3, MovesInside

LEMMA EndLockInv ==
    ASSUME LockInv, Fini \/ Restart
    PROVE  LockInv'
<1>1. CASE Fini
  BY <1>1, NoneIsNoThread
     DEF Fini, lock, local, LockInv, LockTypeOK, EnvInv, FiniWaits, MutexInv, MutexIsOwned
<1>2. CASE Restart
  BY <1>2 DEF Restart, LockInv, LockTypeOK, EnvInv, FiniWaits, MutexInv, MutexIsOwned
<1>3. QED BY <1>1, <1>2

LEMMA NextLockInv == LockInv /\ [Next]_vars => LockInv'
<1> SUFFICES ASSUME LockInv, [Next]_vars PROVE LockInv'
  OBVIOUS
<1>1. ASSUME NEW t \in Thread, Log(t) \/ Step(t) PROVE LockInv'
  BY <1>1, EnterLockInv, OutputLockInv, MutexLockInv, RotateLockInv DEF Step
<1>2. CASE Fini \/ Restart
  BY <1>2, EndLockInv
<1>3. CASE UNCHANGED vars
  BY <1>3 DEF vars, lock, local, LockInv, LockTypeOK, EnvInv, FiniWaits, MutexInv, MutexIsOwned
<1>4. QED BY <1>1, <1>2, <1>3 DEF Next

LEMMA LockInvariant == Spec => []LockInv
BY InitLockInv, NextLockInv, PTL DEF Spec

\* zlog_fini never frees what a thread works with: whoever writes or rotates
\* holds zlog_env_lock (zlog.c 340, 765, 783).
THEOREM FiniWaitsForAll == Spec => []FiniWaits
<1>1. LockInv => FiniWaits
  BY DEF LockInv, EnvInv
<1>2. QED BY <1>1, LockInvariant, PTL

\* lock_mutex is owned by a thread that rotates, as long as LockFile was not
\* refused (rotater.c 578-582).
THEOREM MutexOwner == Spec => []MutexIsOwned
<1>1. LockInv => MutexIsOwned
  BY DEF LockInv, MutexInv
<1>2. QED BY <1>1, LockInvariant, PTL

\* No two threads are in the rotation, whatever LockFile answers: `just one
\* thread in one process ... run code here' (rotater.c 648).
THEOREM OneRotates == Spec => []RotatesAlone
<1>1. LockInv => RotatesAlone
  BY DEF LockInv, MutexInv, RotatesAlone
<1>2. QED BY <1>1, LockInvariant, PTL
=============================================================================
