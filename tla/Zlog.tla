------------------------------- MODULE Zlog --------------------------------
(***************************************************************************)
(* Logging with zlog (zlog/zlog.c, rule.c, rotater.c) as wx_kk_up uses it: *)
(* every thread calls dzlog_* (vdzlog); a rule writes the message to a     *)
(* file and rotates the file when it has grown to its limit ("2M" in       *)
(* logcfg.conf); ExitInstance calls zlog_fini.  The program dies and is    *)
(* started again with the files it left.                                   *)
(*                                                                         *)
(* One rule is modelled.  The names of its files are numbers: 0 is the     *)
(* file itself (debug.log), k + 1 is the archive debug.log.k.  So a roll   *)
(* gives the file at place p of the sorted list, the file itself at place  *)
(* 0, the name p + 1.  A message is the number of calls of WriteFile       *)
(* before it, those that failed included, and has length 1.  zlog_reload   *)
(* is left out: the program does not call it and reload_conf_period is 0.  *)
(***************************************************************************)
EXTENDS Integers, SequencesExt

CONSTANTS Thread,     \* the threads that log
          MaxSize,    \* archive_max_size
          MaxCounts,  \* archive_max_count is one of these, 0 = no limit
          Faults,     \* "crash", "rename", "open", "locked"
          MaxMessages, MaxFaults   \* bounds of the model

ASSUME ZlogAssumption ==
    /\ "none" \notin Thread
    /\ MaxSize \in Nat \ {0}
    /\ MaxCounts \subseteq Nat
    /\ Faults \subseteq {"crash", "rename", "open", "locked"}
    /\ MaxMessages \in Nat
    /\ MaxFaults \in Nat

VARIABLES files,      \* the files on the disk, by name
          max_count,  \* archive_max_count of the rule
          static_fd,  \* the name of the file the handle of the rule is open
                      \* on, or Closed, or Invalid
          lock_mutex, \* the thread that has locked lock_mutex of the rotater
          refused,    \* LockFile failed in this process (history)
          readers, writer,  \* who holds zlog_env_lock
          env,        \* "live", or "finished" by zlog_fini
          recorded,   \* the threads that have a zlog_thread_t
          pc, handle, \* threads: place in the code, value of static_fd read
          list,       \* threads: the files still to roll
          written,    \* how many messages were given to WriteFile (history)
          missing,    \* those that did not get into the file (history)
          late,       \* threads: how many the thread lost although the file was
                      \* open, since it was opened last (history)
          faults      \* how many faults have happened

lock   == <<readers, writer>>
local  == <<pc, handle, list>>
history == <<written, missing, late>>
vars == <<files, max_count, static_fd, lock_mutex, refused, lock, env, recorded,
          local, history, faults>>

Closed  == -2     \* the value of a handle that was closed
Invalid == -1     \* what a failed open leaves
Shut    == {Closed, Invalid}
None    == "none"

Rotating == {"list", "roll", "close", "open", "unlock"}
Inside   == {"load", "write", "size", "trylock"} \cup Rotating

TypeOK ==
    /\ DOMAIN files \subseteq Nat
    /\ \A n \in DOMAIN files : files[n] \in Seq(Nat)
    /\ max_count \in MaxCounts
    /\ static_fd \in Shut \cup DOMAIN files
    /\ lock_mutex \in Thread \cup {None}
    /\ refused \in BOOLEAN
    /\ readers \subseteq Thread
    /\ writer \in Thread \cup {None}
    /\ env \in {"live", "finished"}
    /\ recorded \subseteq Thread
    /\ pc \in [Thread -> {"out", "enter", "first", "create", "dead"} \cup Inside]
    /\ handle \in [Thread -> {None, "valid", "stale", "invalid"}]
    /\ list \in [Thread -> Seq(Nat)]
    /\ written \in Nat
    /\ missing \subseteq 0..(written - 1)
    /\ late \in [Thread -> Nat]
    /\ faults \in 0..MaxFaults

Init ==
    /\ files = [n \in {0} |-> << >>]
    /\ max_count \in MaxCounts
    /\ static_fd = 0
    /\ lock_mutex = None /\ refused = FALSE
    /\ readers = {} /\ writer = None /\ env = "live" /\ recorded = {}
    /\ pc = [t \in Thread |-> "out"]
    /\ handle = [t \in Thread |-> None]
    /\ list = [t \in Thread |-> << >>]
    /\ written = 0 /\ missing = {} /\ late = [t \in Thread |-> 0]
    /\ faults = 0

Go(t, place) == pc' = [pc EXCEPT ![t] = place]

Fault(f) == f \in Faults /\ faults < MaxFaults /\ faults' = faults + 1

\* The end of vdzlog: whichever lock t holds is given back.
Leave(t) ==
    /\ Go(t, "out")
    /\ readers' = readers \ {t}
    /\ writer' = IF writer = t THEN None ELSE writer

-----------------------------------------------------------------------------
(* vdzlog.                                                                 *)

\* Before the lock the default category is asked for its levels; zlog_fini
\* leaves NULL there, and the process dies of it.
Log(t) ==
    /\ pc[t] = "out"
    /\ written < MaxMessages
    /\ Go(t, IF env = "live" THEN "enter" ELSE "dead")
    /\ UNCHANGED <<files, max_count, static_fd, lock_mutex, refused, lock, env,
                   recorded, handle, list, history, faults>>

\* Under the read lock the default category is looked at again, and then
\* whether this is the first message of the thread.
Enter(t) ==
    /\ pc[t] = "enter"
    /\ writer = None
    /\ IF env = "live"
       THEN /\ readers' = readers \cup {t}
            /\ Go(t, IF t \in recorded THEN "load" ELSE "first")
       ELSE /\ Go(t, "out")
            /\ UNCHANGED readers
    /\ UNCHANGED <<files, max_count, static_fd, lock_mutex, refused, writer, env,
                   recorded, handle, list, history, faults>>

\* Mutation of Upgrade: the read lock is kept.
UpgradeKeepsLock(t) ==
    /\ pc[t] = "first"
    /\ Go(t, "create")
    /\ UNCHANGED <<files, max_count, static_fd, lock_mutex, refused, lock, env,
                   recorded, handle, list, history, faults>>

\* The first message of a thread: the read lock is given back ...
Upgrade(t) ==
    /\ pc[t] = "first"
    /\ readers' = readers \ {t}
    /\ Go(t, "create")
    /\ UNCHANGED <<files, max_count, static_fd, lock_mutex, refused, writer, env,
                   recorded, handle, list, history, faults>>

\* ... and the write lock taken, for the rest of this message.  Nothing is
\* looked at again: after zlog_fini the process dies of zlog_env_conf = NULL.
Create(t) ==
    /\ pc[t] = "create"
    /\ readers = {} /\ writer = None
    /\ writer' = t
    /\ IF env = "live" THEN recorded' = recorded \cup {t} /\ Go(t, "load")
                       ELSE UNCHANGED recorded /\ Go(t, "dead")
    /\ UNCHANGED <<files, max_count, static_fd, lock_mutex, refused, readers, env,
                   handle, list, history, faults>>

-----------------------------------------------------------------------------
(* zlog_rule_output_static_file_rotate.                                    *)

\* Mutation of Load: each writer keeps a copy of static_fd, which no roll renews.
LoadCopy(t) ==
    /\ pc[t] = "load"
    /\ handle' = [handle EXCEPT ![t] = IF DOMAIN files = {0} THEN "valid" ELSE "stale"]
    /\ Go(t, "write")
    /\ UNCHANGED <<files, max_count, static_fd, lock_mutex, refused, lock, env,
                   recorded, list, history, faults>>

\* The value of static_fd is read: of a handle that is open, of one that a
\* roll has closed and not opened again yet, or -1 ...
Load(t) ==
    /\ pc[t] = "load"
    /\ handle' = [handle EXCEPT ![t] = CASE static_fd = Closed  -> "stale"
                                         [] static_fd = Invalid -> "invalid"
                                         [] OTHER               -> "valid"]
    /\ Go(t, "write")
    /\ UNCHANGED <<files, max_count, static_fd, lock_mutex, refused, lock, env,
                   recorded, list, history, faults>>

\* The message of t is in no file of the rule.
Lose(t) ==
    /\ missing' = missing \cup {written}
    /\ late' = [late EXCEPT ![t] = IF static_fd \in Shut THEN @ ELSE @ + 1]
    /\ UNCHANGED files

\* ... and WriteFile called with it.  Another thread may have closed the
\* handle in between.  The value of a closed handle is worth nothing, or was
\* given to the reopened file, or to any other file of the process: then the
\* message is lost, and nobody notices.
Write(t) ==
    /\ pc[t] = "write"
    /\ handle' = [handle EXCEPT ![t] = None]
    /\ written' = written + 1
    /\ \/ /\ handle[t] \in {"valid", "stale"} /\ static_fd \notin Shut
          /\ files' = [files EXCEPT ![static_fd] = Append(@, written)]
          /\ Go(t, "size")
          /\ UNCHANGED <<lock, missing, late>>
       \/ /\ handle[t] = "stale"
          /\ Lose(t)
          /\ Go(t, "size")
          /\ UNCHANGED lock
       \/ /\ handle[t] \in {"stale", "invalid"}
          /\ Lose(t)
          /\ Leave(t)
    /\ UNCHANGED <<max_count, static_fd, lock_mutex, refused, env, recorded, list, faults>>

\* stat fails while the file is being rotated: the message is done.
Size(t) ==
    /\ pc[t] = "size"
    /\ IF 0 \in DOMAIN files /\ ~(Len(files[0]) + 1 < MaxSize)
       THEN Go(t, "trylock") /\ UNCHANGED lock
       ELSE Leave(t)
    /\ UNCHANGED <<files, max_count, static_fd, lock_mutex, refused, env, recorded,
                   handle, list, history, faults>>

-----------------------------------------------------------------------------
(* zlog_rotater_rotate.                                                    *)

\* Mutation of TryLock: the result of pthread_mutex_trylock is not looked at.
LockAnyway(t) ==
    /\ pc[t] = "trylock"
    /\ lock_mutex' = t
    /\ Go(t, "list")
    /\ UNCHANGED <<files, max_count, static_fd, refused, lock, env, recorded,
                   handle, list, history, faults>>

\* LockFile fails when another process of the same folder rotates; the
\* thread goes away without unlocking lock_mutex.
TryLock(t) ==
    /\ pc[t] = "trylock"
    /\ \/ /\ lock_mutex # None
          /\ Leave(t)
          /\ UNCHANGED <<lock_mutex, refused, faults>>
       \/ /\ lock_mutex = None
          /\ lock_mutex' = t
          /\ Go(t, "list")
          /\ UNCHANGED <<refused, lock, faults>>
       \/ /\ lock_mutex = None
          /\ Fault("locked")
          /\ lock_mutex' = t
          /\ refused' = TRUE
          /\ Leave(t)
    /\ UNCHANGED <<files, max_count, static_fd, env, recorded, handle, list, history>>

\* The file that has k files before it in the order of their numbers.
At(k) == CHOOSE n \in DOMAIN files : Cardinality({m \in DOMAIN files : m < n}) = k

\* Mutation of Listed: the comparison of zlog_file_cmp is turned round.
NewestLast ==
    LET size == Cardinality(DOMAIN files)
    IN  [k \in 1..size |-> IF k = 1 THEN At(0) ELSE At(size - k + 1)]

\* The file of the rule and its archives in the order of their numbers.
Listed == [k \in 1..Cardinality(DOMAIN files) |-> At(k - 1)]

\* Mutation of List: nobody unlocks when there is nothing to do.
ListOrReturn(t) ==
    /\ pc[t] = "list"
    /\ IF 0 \in DOMAIN files /\ Len(files[0]) + 1 > MaxSize
       THEN /\ list' = [list EXCEPT ![t] = Listed]
            /\ Go(t, "roll")
            /\ UNCHANGED lock
       ELSE Leave(t) /\ UNCHANGED list
    /\ UNCHANGED <<files, max_count, static_fd, lock_mutex, refused, env,
                   recorded, handle, history, faults>>

\* The size is looked at again, for another thread may have rotated; then
\* the archives are listed.
List(t) ==
    /\ pc[t] = "list"
    /\ IF 0 \in DOMAIN files /\ Len(files[0]) + 1 > MaxSize
       THEN /\ list' = [list EXCEPT ![t] = Listed]
            /\ Go(t, "roll")
       ELSE Go(t, "unlock") /\ UNCHANGED list
    /\ UNCHANGED <<files, max_count, static_fd, lock_mutex, refused, lock, env,
                   recorded, handle, history, faults>>

\* The roll takes the list from its end: the file to roll, and its place.
Old(t)   == Last(list[t])
Place(t) == Len(list[t]) - 1

\* Mutation of TooOld: one archive more is kept.
TooOldByOne(p) == max_count > 0 /\ p > max_count

\* Mutation of TooOld: one archive less is kept.
TooOldEarly(p) == max_count > 0 /\ p + 1 >= max_count

\* The file at place p is removed instead of renamed.
TooOld(p) == max_count > 0 /\ p >= max_count

Removed(old) == [n \in DOMAIN files \ {old} |-> files[n]]
Renamed(old, new) == [n \in (DOMAIN files \ {old}) \cup {new} |->
                         IF n = new THEN files[old] ELSE files[n]]

\* zlog_rotater_roll_files, one file.  A handle stays on the file it was
\* opened on.  rename fails under Windows when the new name is taken; it and
\* unlink fail when another program holds the file, and the roll ends there.
Roll(t) ==
    /\ pc[t] = "roll"
    /\ LET old == Old(t)
           new == Place(t) + 1
           can == /\ old \in DOMAIN files
                  /\ TooOld(Place(t)) \/ new = old \/ new \notin DOMAIN files
       IN \/ /\ can
             /\ IF TooOld(Place(t))
                THEN /\ files' = Removed(old)
                     /\ static_fd' = IF static_fd = old THEN Closed ELSE static_fd
                ELSE /\ files' = Renamed(old, new)
                     /\ static_fd' = IF static_fd = old THEN new ELSE static_fd
             /\ list' = [list EXCEPT ![t] = Front(@)]
             /\ Go(t, IF Place(t) = 0 THEN "close" ELSE "roll")
             /\ UNCHANGED faults
          \/ /\ IF can THEN Fault("rename") ELSE UNCHANGED faults
             /\ list' = [list EXCEPT ![t] = << >>]
             /\ Go(t, "close")
             /\ UNCHANGED <<files, static_fd>>
    /\ UNCHANGED <<max_count, lock_mutex, refused, lock, env, recorded, handle, history>>

\* Mutation of Close: the handle of the rule is kept.
KeepHandle(t) ==
    /\ pc[t] = "close"
    /\ Go(t, "unlock")
    /\ UNCHANGED <<files, max_count, static_fd, lock_mutex, refused, lock, env,
                   recorded, handle, list, history, faults>>

\* Whether the roll succeeded or not, the file is closed (a -1 is closed
\* without effect); static_fd has the old value still ...
Close(t) ==
    /\ pc[t] = "close"
    /\ static_fd' = IF static_fd = Invalid THEN Invalid ELSE Closed
    /\ handle' = [u \in Thread |-> IF handle[u] = "valid" THEN "stale" ELSE handle[u]]
    /\ Go(t, "open")
    /\ UNCHANGED <<files, max_count, lock_mutex, refused, lock, env, recorded,
                   list, history, faults>>

\* Mutation of Open: the file is not created.
OpenExisting(t) ==
    /\ pc[t] = "open"
    /\ static_fd' = 0
    /\ late' = [u \in Thread |-> 0]
    /\ Go(t, "unlock")
    /\ UNCHANGED <<files, max_count, lock_mutex, refused, lock, env, recorded, handle,
                   list, written, missing, faults>>

\* ... and opened again under its name, created if need be.
Open(t) ==
    /\ pc[t] = "open"
    /\ \/ /\ files' = [n \in DOMAIN files \cup {0} |->
                          IF n \in DOMAIN files THEN files[n] ELSE << >>]
          /\ static_fd' = 0
          /\ late' = [u \in Thread |-> 0]
          /\ UNCHANGED faults
       \/ /\ Fault("open")
          /\ static_fd' = Invalid
          /\ UNCHANGED <<files, late>>
    /\ Go(t, "unlock")
    /\ UNCHANGED <<max_count, lock_mutex, refused, lock, env, recorded, handle,
                   list, written, missing>>

Unlock(t) ==
    /\ pc[t] = "unlock"
    /\ lock_mutex' = None
    /\ Leave(t)
    /\ UNCHANGED <<files, max_count, static_fd, refused, env, recorded, handle,
                   list, history, faults>>

-----------------------------------------------------------------------------
\* Mutation of Fini: zlog_fini does not take the lock.
FiniUnlocked ==
    /\ env = "live"
    /\ env' = "finished"
    /\ UNCHANGED <<files, max_count, static_fd, lock_mutex, refused, lock, recorded,
                   local, history, faults>>

\* zlog_fini, once nobody holds the lock.  (Its wait is no step of its own.)
Fini ==
    /\ env = "live"
    /\ readers = {} /\ writer = None
    /\ env' = "finished"
    /\ UNCHANGED <<files, max_count, static_fd, lock_mutex, refused, lock, recorded,
                   local, history, faults>>

\* The process dies, or ends, and is started again: zlog_rule_new opens the
\* file, and creates it if it is not there.
Restart ==
    /\ \/ Fault("crash")
       \/ env = "finished" /\ faults < MaxFaults /\ faults' = faults + 1
    /\ files' = [n \in DOMAIN files \cup {0} |->
                    IF n \in DOMAIN files THEN files[n] ELSE << >>]
    /\ static_fd' = 0
    /\ lock_mutex' = None /\ refused' = FALSE
    /\ readers' = {} /\ writer' = None /\ env' = "live" /\ recorded' = {}
    /\ pc' = [t \in Thread |-> "out"]
    /\ handle' = [t \in Thread |-> None]
    /\ list' = [t \in Thread |-> << >>]
    /\ late' = [t \in Thread |-> 0]
    /\ UNCHANGED <<max_count, written, missing>>

Step(t) ==
    \/ Enter(t) \/ Upgrade(t) \/ Create(t) \/ Load(t) \/ Write(t) \/ Size(t)
    \/ TryLock(t) \/ List(t) \/ Roll(t) \/ Close(t) \/ Open(t) \/ Unlock(t)

Next ==
    \/ \E t \in Thread : Log(t) \/ Step(t)
    \/ Fini
    \/ Restart

Spec == Init /\ [][Next]_vars

\* A thread in vdzlog runs while it can, and gets zlog_env_lock in the end (a
\* rwlock of pthreads-win32 lets no new reader in before a waiting writer).
\* Nothing obliges a thread to log, the program to end or a fault to happen.
Fairness == \A t \in Thread : WF_vars(Step(t)) /\ SF_vars(Enter(t) \/ Create(t))

FairSpec == Spec /\ Fairness

-----------------------------------------------------------------------------
(* Safety.                                                                 *)

\* All messages on the disk.
Messages == UNION {Range(files[n]) : n \in DOMAIN files}

\* The archives and the file hold every message since the oldest they have but
\* the missing, each in its place: an older archive has older messages.
\* Without a limit on the archives that is every message ever.  And so although
\* other threads write all through a roll, a roll may stop half way and the
\* process may die in it (rotater.c 353-430, 633-694).
LogKept ==
    /\ \E first \in 0..written :
           /\ Messages = (first..(written - 1)) \ missing
           /\ max_count = 0 => first = 0
    /\ \A m, n \in DOMAIN files : \A i \in DOMAIN files[m], j \in DOMAIN files[n] :
           m > n \/ (m = n /\ i < j) => files[m][i] < files[n][j]

\* "It is safe to reopen the fd of file" (rotater.c 648): no, a writer takes no
\* lock of the rotater and can lose messages to a handle closed under it.  But
\* once the file is open again that is one message of each thread at most, the
\* one it was about to write.
OneLateMessage == \A t \in Thread : late[t] <= 1

\* To whoever reads the files, a step of the program adds the next message or
\* loses it, drops oldest ones, or does nothing; and the last archive_max_count times
\* archive_max_size messages stay (lines 370-379), for an archive is made only
\* of a file that had grown to its limit (lines 657-662).
L == INSTANCE MessageLog WITH log <- Messages, next <- written, keep <- max_count * MaxSize
ImplementsLog == L!Spec

\* No more than archive_max_count archives are left behind (line 370),
\* however often a roll was broken off.
AtMostMaxCount == max_count > 0 => Cardinality(DOMAIN files \ {0}) <= max_count

\* A file is renamed to a name that is free, or its own (lines 380-409): a
\* roll broken off leaves a hole in the numbers, and one is all there is.
\* Otherwise every roll to come would fail at the same file.
RenameFindsRoom ==
    \A t \in Thread : pc[t] = "roll" =>
        TooOld(Place(t)) \/ Old(t) = Place(t) + 1 \/ Place(t) + 1 \notin DOMAIN files

\* lock_mutex is locked by a thread that rotates, unless LockFile was refused
\* once (lines 578-582): then nobody can rotate any more.
MutexIsOwned ==
    lock_mutex # None => refused \/ pc[lock_mutex] \in Rotating

\* When nobody rotates the rule writes to the file of its name and not to an
\* archive (lines 674-685), unless it could not be opened again.
WritesToItsFile ==
    (\A t \in Thread : pc[t] \notin Rotating) =>
        static_fd = 0 \/ (static_fd = Invalid /\ faults > 0)

\* zlog_fini frees nothing a thread works with (zlog.c 340, 765, 783): who is
\* late is refused, or dies at once.
FiniWaits == env = "finished" => \A t \in Thread : pc[t] \notin Inside

\* Liveness.  Nobody who logs waits for ever: not for a rotation (line 569
\* tries the mutex), and not for the write lock of a first message, before
\* which the read lock of the thread itself is given back (zlog.c 781-783).
LogReturns ==
    \A t \in Thread :
        pc[t] # "out" ~> pc[t] = "out" \/ \E u \in Thread : pc[u] = "dead"
=============================================================================
