--------------------------- MODULE ZlogFileProofs ---------------------------
(***************************************************************************)
(* Theorems about the files of Zlog for every set of threads, limit and    *)
(* bound: what the rotation does with the archives.                        *)
(***************************************************************************)
EXTENDS ZlogProofs, FiniteSetTheorems, SequenceTheorems

-----------------------------------------------------------------------------
(* Type correctness.                                                       *)

\* A roll always has a file to roll.
FileTypeOK ==
    /\ TypeOK
    /\ files \in [DOMAIN files -> Seq(Nat)]
    /\ \A t \in Thread : pc[t] = "roll" => list[t] # << >>

\* Front and Last of SequencesExt.
LEMMA FrontLast ==
    ASSUME NEW S, NEW s \in Seq(S), s # << >>
    PROVE  /\ Len(s) \in Nat /\ Len(s) > 0
           /\ Last(s) \in S
           /\ Front(s) \in Seq(S)
           /\ Len(Front(s)) = Len(s) - 1
           /\ \A i \in 1..(Len(s) - 1) : Front(s)[i] = s[i]
           /\ Len(s) > 1 => Front(s) # << >>
<1>1. Len(s) \in Nat /\ DOMAIN s = 1..Len(s) /\ Len(s) > 0
  BY LenProperties, EmptySeq
<1>2. s[Len(s)] \in S
  BY <1>1, ElementOfSeq
<1>3. \A i \in 1..(Len(s) - 1) : s[i] \in S
  BY <1>1, ElementOfSeq
<1>4. Front(s) = [i \in 1..(Len(s) - 1) |-> s[i]]
  BY DEF Front
<1>5. Len(s) - 1 \in Nat
  BY <1>1
<1>6. Front(s) \in [1..(Len(s) - 1) -> S]
  BY <1>3, <1>4
<1>7. Front(s) \in Seq(S) /\ Len(Front(s)) = Len(s) - 1
  BY <1>5, <1>6
<1>8. Len(s) > 1 => Front(s) # << >>
  BY <1>1, <1>7, EmptySeq
<1>9. QED BY <1>1, <1>2, <1>4, <1>7, <1>8 DEF Last

-----------------------------------------------------------------------------
(* The names of the archives: 1 to n with a hole at h, which a roll that   *)
(* was broken off leaves.  (A hole at n + 1 is none.)                      *)

Archived(n, h) ==
    n \in Nat /\ h \in 1..(n + 1) /\ DOMAIN files \ {0} = (1..(n + 1)) \ {h}

\* The name at place p of the list.
Name(h, p) == IF p < h THEN p ELSE p + 1

\* How many archives that is.
LEMMA ArchiveCount ==
    ASSUME NEW n, NEW h, Archived(n, h)
    PROVE  /\ IsFiniteSet(DOMAIN files) /\ Cardinality(DOMAIN files \ {0}) = n
           /\ 0 \in DOMAIN files => Cardinality(DOMAIN files) = n + 1
<1>1. n \in Nat /\ h \in 1..(n + 1) /\ DOMAIN files \ {0} = (1..(n + 1)) \ {h}
  BY DEF Archived
<1>2. IsFiniteSet(1..(n + 1)) /\ Cardinality(1..(n + 1)) = n + 1
  BY <1>1, FS_Interval
<1>3. IsFiniteSet(DOMAIN files \ {0}) /\ Cardinality(DOMAIN files \ {0}) = n
  <2>1. PICK S : S = 1..(n + 1)
    OBVIOUS
  <2>2. IsFiniteSet(S) /\ Cardinality(S) = n + 1 /\ h \in S
    BY <1>1, <1>2, <2>1
  <2>3. IsFiniteSet(S \ {h}) /\ Cardinality(S \ {h}) = Cardinality(S) - 1
    BY <2>2, FS_RemoveElement
  <2>4. DOMAIN files \ {0} = S \ {h} /\ Cardinality(S) - 1 = n
    BY <1>1, <2>1, <2>2
  <2>5. QED BY <2>3, <2>4
<1>4. CASE 0 \in DOMAIN files
  <2>1. DOMAIN files = (DOMAIN files \ {0}) \cup {0}
    BY <1>4
  <2>2. IsFiniteSet(DOMAIN files) /\ Cardinality(DOMAIN files) = n + 1
    BY <1>1, <1>3, <2>1, FS_AddElement
  <2>3. QED BY <1>3, <2>2
<1>5. CASE 0 \notin DOMAIN files
  <2>1. DOMAIN files = DOMAIN files \ {0}
    BY <1>5
  <2>2. QED BY <1>3, <1>5, <2>1
<1>6. QED BY <1>4, <1>5

\* How many files come before the file x.
LEMMA Rank ==
    ASSUME NEW n, NEW h, Archived(n, h), 0 \in DOMAIN files, NEW x \in DOMAIN files
    PROVE  /\ x \in 0..(n + 1) /\ x # h
           /\ Cardinality({m \in DOMAIN files : m < x}) = IF x < h THEN x ELSE x - 1
<1>1. n \in Nat /\ h \in 1..(n + 1) /\ DOMAIN files = (0..(n + 1)) \ {h}
  <2>1. n \in Nat /\ h \in 1..(n + 1) /\ DOMAIN files \ {0} = (1..(n + 1)) \ {h}
    BY DEF Archived
  <2>2. 0..(n + 1) = 1..(n + 1) \cup {0} /\ h # 0
    BY <2>1
  <2>3. DOMAIN files = (DOMAIN files \ {0}) \cup {0}
    OBVIOUS
  <2>4. QED BY <2>1, <2>2, <2>3
<1>2. x \in 0..(n + 1) /\ x # h
  BY <1>1
<1>3. {m \in DOMAIN files : m < x} = (0..(x - 1)) \ {h}
  BY <1>1, <1>2
<1>4. IsFiniteSet(0..(x - 1)) /\ Cardinality(0..(x - 1)) = x
  <2>1. 0 \in Int /\ x - 1 \in Int
    BY <1>1, <1>2
  <2>2. IsFiniteSet(0..(x - 1)) /\ Cardinality(0..(x - 1)) = IF 0 > x - 1 THEN 0 ELSE x - 1 - 0 + 1
    BY <2>1, FS_Interval
  <2>3. QED BY <1>1, <1>2, <2>2
<1>5. Cardinality((0..(x - 1)) \ {h}) = IF h \in 0..(x - 1) THEN x - 1 ELSE x
  BY <1>4, FS_RemoveElement
<1>6. QED BY <1>1, <1>2, <1>3, <1>5

\* What the rotation lists.
LEMMA ListedIs ==
    ASSUME NEW n, NEW h, Archived(n, h), 0 \in DOMAIN files
    PROVE  /\ Listed \in Seq(Nat) /\ Len(Listed) = n + 1
           /\ \A k \in 1..(n + 1) : Listed[k] = Name(h, k - 1)
<1>1. n \in Nat /\ h \in 1..(n + 1) /\ DOMAIN files \ {0} = (1..(n + 1)) \ {h}
  BY DEF Archived
<1>2. ASSUME NEW k \in 0..n PROVE At(k) = Name(h, k)
  <2> DEFINE x == Name(h, k)
  <2>1. x \in DOMAIN files /\ (IF x < h THEN x ELSE x - 1) = k
    BY <1>1 DEF Name
  <2>2. Cardinality({m \in DOMAIN files : m < x}) = k
    BY <2>1, Rank
  <2>3. ASSUME NEW y \in DOMAIN files, Cardinality({m \in DOMAIN files : m < y}) = k PROVE y = x
    <3>1. y \in 0..(n + 1) /\ y # h /\ (IF y < h THEN y ELSE y - 1) = k
      BY <2>3, Rank
    <3>2. x \in 0..(n + 1) /\ x # h
      BY <2>1, Rank
    <3>3. QED BY <1>1, <3>1, <3>2, <2>1
  <2> HIDE DEF x
  <2>4. QED BY <2>1, <2>2, <2>3 DEF At, x
<1>3. Listed = [k \in 1..(n + 1) |-> At(k - 1)]
  BY ArchiveCount DEF Listed
<1>4. \A k \in 1..(n + 1) : Listed[k] = Name(h, k - 1) /\ Listed[k] \in Nat
  BY <1>1, <1>2, <1>3 DEF Name
<1>5. Listed \in [1..(n + 1) -> Nat]
  BY <1>3, <1>4
<1>6. Listed \in Seq(Nat) /\ Len(Listed) = n + 1
  BY <1>1, <1>5
<1>7. QED BY <1>4, <1>6

-----------------------------------------------------------------------------
(* The inductive invariant.                                                *)

\* Thread t has still to roll the files up to its place, which is not beyond
\* the hole; a place that is to be removed is the last of all.
Rolling(t, n, h) ==
    /\ 0 \in DOMAIN files
    /\ Place(t) \in 0..n /\ h <= Place(t) + 1
    /\ \A i \in 1..Len(list[t]) : list[t][i] = Name(h, i - 1)
    /\ max_count > 0 => n < max_count \/ (n = max_count /\ Place(t) = n)

FileInv ==
    \E n, h :
        /\ Archived(n, h)
        /\ max_count > 0 => n <= max_count
        /\ \A t \in Thread : pc[t] = "roll" => Rolling(t, n, h)

\* Unless the file is being rolled, closed and opened again, it is open under
\* its own name, or could not be opened.
FdInv ==
    /\ \A t \in Thread : pc[t] = "open" => static_fd \in Shut
    /\ (\A t \in Thread : pc[t] \notin {"roll", "close", "open"}) =>
           static_fd = 0 \/ (static_fd = Invalid /\ faults > 0)

USE DEF Inside, Rotating, Places, Shut, Closed, Invalid, history

Handles == {None, "valid", "stale", "invalid"}

HistoryType ==
    /\ written \in Nat
    /\ missing \subseteq 0..(written - 1)
    /\ late \in [Thread -> Nat]

\* What a step is to a thread that neither rolls nor begins to.
NotRolled == \A t \in Thread : pc'[t] = "roll" => pc[t] = "roll" /\ list'[t] = list[t]

LEMMA FaultType ==
    ASSUME TypeOK, UNCHANGED faults \/ (\E f : Fault(f)) \/ (faults < MaxFaults /\ faults' = faults + 1)
    PROVE  faults' \in 0..MaxFaults
BY ZlogAssumption DEF TypeOK, Fault

LEMMA RestType ==
    ASSUME FileTypeOK, LockTypeOK', NotRolled, UNCHANGED max_count,
           files' \in [DOMAIN files' -> Seq(Nat)], DOMAIN files' \subseteq Nat,
           static_fd' \in Shut \cup DOMAIN files',
           handle' \in [Thread -> Handles], recorded' \subseteq Thread,
           list' \in [Thread -> Seq(Nat)], HistoryType', faults' \in 0..MaxFaults
    PROVE  FileTypeOK'
BY DEF FileTypeOK, TypeOK, LockTypeOK, NotRolled, Handles, HistoryType

LEMMA RestTypeIs == FileTypeOK => HistoryType /\ handle \in [Thread -> Handles]
BY DEF FileTypeOK, TypeOK, Handles, HistoryType

\* The steps that touch no file and no list.
LEMMA VdzlogType ==
    ASSUME FileTypeOK, LockTypeOK', NEW t \in Thread,
           \/ Log(t) \/ Enter(t) \/ Upgrade(t) \/ Create(t) \/ Load(t) \/ Size(t)
           \/ TryLock(t) \/ Unlock(t)
    PROVE  FileTypeOK' /\ NotRolled /\ UNCHANGED <<files, max_count, static_fd, list>>
<1>1. UNCHANGED <<files, max_count, static_fd, list, history>>
  BY DEF Log, Enter, Upgrade, Create, Load, Size, TryLock, Unlock
<1>2. NotRolled
  BY <1>1 DEF Log, Enter, Upgrade, Create, Load, Size, TryLock, Unlock, Leave, Go, NotRolled, FileTypeOK, TypeOK
<1>3. recorded' \subseteq Thread /\ handle' \in [Thread -> Handles]
  <2>1. recorded' = recorded \/ recorded' = recorded \cup {t}
    BY DEF Log, Enter, Upgrade, Create, Load, Size, TryLock, Unlock
  <2>2. handle' = handle \/ \E v \in Handles : handle' = [handle EXCEPT ![t] = v]
    BY DEF Log, Enter, Upgrade, Create, Load, Size, TryLock, Unlock, Handles
  <2>3. QED BY <2>1, <2>2, RestTypeIs DEF FileTypeOK, TypeOK
<1>4. faults' \in 0..MaxFaults
  <2>1. UNCHANGED faults \/ \E f : Fault(f)
    BY DEF Log, Enter, Upgrade, Create, Load, Size, TryLock, Unlock
  <2>2. QED BY <2>1, FaultType DEF FileTypeOK
<1>5. HistoryType'
  BY <1>1, RestTypeIs DEF HistoryType
<1>6. QED BY <1>1, <1>2, <1>3, <1>4, <1>5, RestType DEF FileTypeOK, TypeOK

LEMMA WriteType ==
    ASSUME FileTypeOK, LockTypeOK', NEW t \in Thread, Write(t)
    PROVE  FileTypeOK' /\ NotRolled /\ DOMAIN files' = DOMAIN files /\ UNCHANGED <<max_count, static_fd, list>>
<1>1. UNCHANGED <<max_count, static_fd, list, recorded, faults>>
  BY DEF Write
<1>2. NotRolled
  BY <1>1 DEF Write, Leave, Go, NotRolled, FileTypeOK, TypeOK
<1>3. handle' \in [Thread -> Handles]
  BY RestTypeIs DEF Write, Handles
<1>4. CASE /\ static_fd \notin Shut /\ written' = written + 1 /\ UNCHANGED <<missing, late>>
           /\ files' = [files EXCEPT ![static_fd] = Append(@, written)]
  <2>1. static_fd \in DOMAIN files /\ files \in [DOMAIN files -> Seq(Nat)] /\ written \in Nat
    BY <1>4 DEF FileTypeOK, TypeOK
  <2>2. Append(files[static_fd], written) \in Seq(Nat)
    BY <2>1, AppendProperties
  <2>3. files' \in [DOMAIN files -> Seq(Nat)] /\ DOMAIN files' = DOMAIN files
    BY <1>4, <2>1, <2>2
  <2>4. HistoryType'
    BY <1>4, RestTypeIs DEF HistoryType
  <2>5. QED BY <1>1, <1>2, <1>3, <2>3, <2>4, RestType DEF FileTypeOK, TypeOK
<1>5. CASE Lose(t) /\ written' = written + 1
  <2>1. HistoryType'
    BY <1>5, RestTypeIs DEF Lose, HistoryType
  <2>2. UNCHANGED files
    BY <1>5 DEF Lose
  <2>3. QED BY <1>1, <1>2, <1>3, <2>1, <2>2, RestType DEF FileTypeOK, TypeOK
<1>6. QED BY <1>4, <1>5 DEF Write

\* The rotation: what List, Close and Open do to files and list.
LEMMA ListType ==
    ASSUME FileTypeOK, LockTypeOK', FileInv, NEW t \in Thread, List(t)
    PROVE  /\ FileTypeOK' /\ UNCHANGED <<files, max_count, static_fd>>
           /\ \/ NotRolled
              \/ /\ 0 \in DOMAIN files
                 /\ pc' = [pc EXCEPT ![t] = "roll"] /\ list' = [list EXCEPT ![t] = Listed]
<1>1. UNCHANGED <<files, max_count, static_fd, recorded, handle, history, faults>>
  BY DEF List
<1>2. CASE Go(t, "unlock") /\ UNCHANGED list
  <2>1. NotRolled
    BY <1>2 DEF Go, NotRolled, FileTypeOK, TypeOK
  <2>2. HistoryType'
    BY <1>1, RestTypeIs DEF HistoryType
  <2>3. QED BY <1>1, <1>2, <2>1, <2>2, RestType, RestTypeIs DEF FileTypeOK, TypeOK
<1>3. CASE 0 \in DOMAIN files /\ list' = [list EXCEPT ![t] = Listed] /\ Go(t, "roll")
  <2>1. PICK n, h : Archived(n, h)
    BY DEF FileInv
  <2>2. Listed \in Seq(Nat) /\ Len(Listed) = n + 1 /\ n \in Nat
    BY <1>3, <2>1, ListedIs DEF Archived
  <2>3. Listed # << >>
    BY <2>2
  <2>4. list' \in [Thread -> Seq(Nat)] /\ (\A u \in Thread : pc'[u] = "roll" => list'[u] # << >>)
    BY <1>3, <2>2, <2>3 DEF Go, FileTypeOK, TypeOK
  <2>5. FileTypeOK'
    BY <1>1, <2>4 DEF FileTypeOK, TypeOK, LockTypeOK
  <2>6. QED BY <1>1, <1>3, <2>5 DEF Go
<1>4. QED BY <1>2, <1>3 DEF List

LEMMA CloseOpenType ==
    ASSUME FileTypeOK, LockTypeOK', NEW t \in Thread, Close(t) \/ Open(t)
    PROVE  /\ FileTypeOK' /\ NotRolled /\ UNCHANGED <<max_count, list>>
           /\ DOMAIN files' \in {DOMAIN files, DOMAIN files \cup {0}}
<1>1. UNCHANGED <<max_count, list, recorded>> /\ HistoryType'
  BY RestTypeIs DEF Close, Open, HistoryType
<1>2. NotRolled
  BY <1>1 DEF Close, Open, Go, NotRolled, FileTypeOK, TypeOK
<1>3. handle' \in [Thread -> Handles]
  BY RestTypeIs DEF Close, Open, Handles
<1>4. faults' \in 0..MaxFaults
  <2>1. UNCHANGED faults \/ \E f : Fault(f)
    BY DEF Close, Open
  <2>2. QED BY <2>1, FaultType DEF FileTypeOK
<1>5. CASE files' = files /\ static_fd' \in Shut
  BY <1>1, <1>2, <1>3, <1>4, <1>5, RestType DEF FileTypeOK, TypeOK
<1>6. CASE /\ files' = [n \in DOMAIN files \cup {0} |-> IF n \in DOMAIN files THEN files[n] ELSE << >>]
           /\ static_fd' = 0
  <2>1. << >> \in Seq(Nat) /\ \A n \in DOMAIN files : files[n] \in Seq(Nat)
    BY DEF FileTypeOK, TypeOK
  <2>2. files' \in [DOMAIN files \cup {0} -> Seq(Nat)] /\ DOMAIN files' = DOMAIN files \cup {0}
    BY <1>6, <2>1
  <2>3. recorded' \subseteq Thread /\ list' \in [Thread -> Seq(Nat)] /\ DOMAIN files' \subseteq Nat
    BY <1>1, <2>2 DEF FileTypeOK, TypeOK
  <2>4. static_fd' \in DOMAIN files'
    BY <1>6, <2>2
  <2>5. QED BY <1>1, <1>2, <1>3, <1>4, <2>2, <2>3, <2>4, RestType
<1>7. QED BY <1>5, <1>6 DEF Close, Open

LEMMA EndType ==
    ASSUME FileTypeOK, LockTypeOK', Fini \/ Restart \/ UNCHANGED vars
    PROVE  /\ FileTypeOK' /\ NotRolled /\ UNCHANGED max_count
           /\ DOMAIN files' \in {DOMAIN files, DOMAIN files \cup {0}}
<1>1. CASE Fini \/ UNCHANGED vars
  <2>1. UNCHANGED <<files, max_count, static_fd, recorded, pc, handle, list, history, faults>>
    BY <1>1 DEF Fini, vars, local
  <2>2. NotRolled
    BY <2>1 DEF NotRolled
  <2>3. HistoryType'
    BY <2>1, RestTypeIs DEF HistoryType
  <2>4. QED BY <2>1, <2>2, <2>3, RestType, RestTypeIs DEF FileTypeOK, TypeOK
<1>2. CASE Restart
  <2>1. << >> \in Seq(Nat) /\ \A n \in DOMAIN files : files[n] \in Seq(Nat)
    BY DEF FileTypeOK, TypeOK
  <2>2. files' \in [DOMAIN files \cup {0} -> Seq(Nat)] /\ DOMAIN files' = DOMAIN files \cup {0}
    BY <1>2, <2>1 DEF Restart
  <2>3. NotRolled
    BY <1>2 DEF Restart, NotRolled
  <2>4. faults' \in 0..MaxFaults
    BY <1>2, FaultType DEF Restart, FileTypeOK
  <2>5. list' \in [Thread -> Seq(Nat)] /\ handle' \in [Thread -> Handles]
    BY <1>2, <2>1 DEF Restart, Handles
  <2>6. recorded' = {} /\ static_fd' = 0 /\ UNCHANGED max_count /\ HistoryType'
    BY <1>2, RestTypeIs DEF Restart, HistoryType
  <2>7. QED BY <2>2, <2>3, <2>4, <2>5, <2>6, RestType DEF FileTypeOK, TypeOK
<1>3. QED BY <1>1, <1>2

\* The rolling itself: one file is removed, or renamed to the place after its
\* own, or the roll is given up.
LEMMA RollType ==
    ASSUME FileTypeOK, LockTypeOK', NEW t \in Thread, Roll(t)
    PROVE  FileTypeOK'
<1> DEFINE old == Old(t)
           p   == Place(t)
           new == p + 1
<1>1. /\ pc[t] = "roll"
      /\ UNCHANGED <<max_count, recorded, handle, history>>
  BY DEF Roll
<1>2. list[t] \in Seq(Nat) /\ list[t] # << >>
  BY <1>1 DEF FileTypeOK, TypeOK
<1>3. /\ old \in Nat /\ p \in Nat /\ Front(list[t]) \in Seq(Nat)
      /\ p # 0 => Front(list[t]) # << >>
  <2>1. PICK s \in Seq(Nat) : s = list[t] /\ s # << >>
    BY <1>2
  <2>2. /\ Len(s) \in Nat /\ Len(s) > 0 /\ Last(s) \in Nat /\ Front(s) \in Seq(Nat)
        /\ Len(s) > 1 => Front(s) # << >>
    BY <2>1, FrontLast
  <2>3. old = Last(s) /\ p = Len(s) - 1 /\ Front(list[t]) = Front(s)
    BY <2>1 DEF Old, Place
  <2>4. old \in Nat /\ Front(list[t]) \in Seq(Nat)
    BY <2>2, <2>3, Zenon
  <2>5. p \in Nat
    BY <2>2, <2>3
  <2>6. CASE p = 0
    BY <2>4, <2>5, <2>6
  <2>7. CASE p > 0
    <3>1. Len(s) > 1
      BY <2>2, <2>3, <2>7
    <3>2. QED BY <2>2, <2>3, <2>4, <2>5, <3>1
  <2>8. QED BY <2>5, <2>6, <2>7
<1>4. \/ list' = [list EXCEPT ![t] = Front(@)] /\ pc' = [pc EXCEPT ![t] = IF p = 0 THEN "close" ELSE "roll"]
      \/ list' = [list EXCEPT ![t] = << >>] /\ pc' = [pc EXCEPT ![t] = "close"]
  BY DEF Roll, Go
<1>5. list' \in [Thread -> Seq(Nat)] /\ \A u \in Thread : pc'[u] = "roll" => list'[u] # << >>
  <2>1. << >> \in Seq(Nat)
    OBVIOUS
  <2>2. list \in [Thread -> Seq(Nat)] /\ pc \in [Thread -> Places] /\ \A u \in Thread : pc[u] = "roll" => list[u] # << >>
    BY DEF FileTypeOK, TypeOK
  <2> HIDE DEF p
  <2>3. QED BY <1>3, <1>4, <2>1, <2>2
<1>6. faults' \in 0..MaxFaults
  <2>1. UNCHANGED faults \/ \E f : Fault(f)
    BY DEF Roll
  <2>2. QED BY <2>1, FaultType DEF FileTypeOK
<1>7. /\ files' \in [DOMAIN files' -> Seq(Nat)] /\ DOMAIN files' \subseteq Nat
      /\ static_fd' \in Shut \cup DOMAIN files'
  <2>1. /\ DOMAIN files \subseteq Nat /\ (\A n \in DOMAIN files : files[n] \in Seq(Nat))
        /\ static_fd \in Shut \cup DOMAIN files /\ files \in [DOMAIN files -> Seq(Nat)]
    BY DEF FileTypeOK, TypeOK
  <2> HIDE DEF old, p
  <2>2. CASE /\ files' = Removed(old)
             /\ static_fd' = IF static_fd = old THEN Closed ELSE static_fd
    BY <1>3, <2>1, <2>2 DEF Removed
  <2>3. CASE /\ old \in DOMAIN files /\ files' = Renamed(old, new)
             /\ static_fd' = IF static_fd = old THEN new ELSE static_fd
    <3>1. DOMAIN files' = (DOMAIN files \ {old}) \cup {new}
      BY <2>3 DEF Renamed
    <3>2. \A n \in DOMAIN files' : files'[n] \in Seq(Nat)
      BY <2>1, <2>3, <3>1 DEF Renamed
    <3>3. files' \in [DOMAIN files' -> Seq(Nat)]
      BY <2>3, <3>2 DEF Renamed
    <3>4. QED BY <1>3, <2>1, <2>3, <3>1, <3>3
  <2>4. CASE UNCHANGED <<files, static_fd>>
    BY <2>1, <2>4
  <2>5. QED BY <2>2, <2>3, <2>4 DEF Roll, old, p
<1>8. QED BY <1>1, <1>5, <1>6, <1>7 DEF FileTypeOK, TypeOK, LockTypeOK

-----------------------------------------------------------------------------
(* What each step does to the names of the archives.                       *)

\* The archives do not change when only the file itself may be created.
LEMMA SameArchives ==
    ASSUME FileInv, NotRolled, UNCHANGED max_count,
           DOMAIN files' \in {DOMAIN files, DOMAIN files \cup {0}}
    PROVE  FileInv'
<1>1. PICK n, h : /\ Archived(n, h)
                  /\ max_count > 0 => n <= max_count
                  /\ \A t \in Thread : pc[t] = "roll" => Rolling(t, n, h)
  BY DEF FileInv
<1>2. Archived(n, h)'
  BY <1>1 DEF Archived
<1>3. ASSUME NEW t \in Thread, pc'[t] = "roll" PROVE Rolling(t, n, h)'
  BY <1>1, <1>3 DEF NotRolled, Rolling, Place, Name
<1>4. QED BY <1>1, <1>2, <1>3 DEF FileInv

\* A thread that rotates is alone with it.
LEMMA Others ==
    ASSUME LockInv, NEW t \in Thread, pc[t] \in Rotating,
           NEW u \in Thread, u # t
    PROVE  pc[u] \notin Rotating
BY DEF LockInv, MutexInv

\* The listing puts the thread at the end of the list.
LEMMA ListFileInv ==
    ASSUME LockInv, FileTypeOK, FileInv, NEW t \in Thread, pc[t] = "list",
           0 \in DOMAIN files, UNCHANGED <<files, max_count>>,
           pc' = [pc EXCEPT ![t] = "roll"], list' = [list EXCEPT ![t] = Listed]
    PROVE  FileInv'
<1>1. PICK n, h : /\ Archived(n, h)
                  /\ max_count > 0 => n <= max_count
                  /\ \A u \in Thread : pc[u] = "roll" => Rolling(u, n, h)
  BY DEF FileInv
<1>2. n \in Nat /\ h \in 1..(n + 1) /\ max_count \in Nat
  BY <1>1, ZlogAssumption DEF Archived, FileTypeOK, TypeOK
<1>3. /\ Len(Listed) = n + 1
      /\ \A k \in 1..(n + 1) : Listed[k] = Name(h, k - 1)
  BY <1>1, ListedIs
<1>4. list'[t] = Listed
  BY DEF FileTypeOK, TypeOK
<1>5. Archived(n, h)'
  BY <1>1 DEF Archived
<1>6. Rolling(t, n, h)'
  <2>1. Place(t)' = n
    BY <1>2, <1>3, <1>4 DEF Place
  <2>2. \A i \in 1..Len(list'[t]) : list'[t][i] = Name(h, i - 1)
    BY <1>3, <1>4
  <2>3. QED BY <1>1, <1>2, <2>1, <2>2 DEF Rolling, Name
<1>7. \A u \in Thread : pc'[u] = "roll" => u = t
  BY Others DEF FileTypeOK, TypeOK
<1>8. QED BY <1>1, <1>5, <1>6, <1>7 DEF FileInv

\* There is room for the file that is rolled, and what rolling it means.
LEMMA RollHasRoom ==
    ASSUME FileTypeOK, NEW t \in Thread, pc[t] = "roll", NEW n, NEW h,
           Archived(n, h), Rolling(t, n, h)
    PROVE  /\ n \in Nat /\ h \in 1..(n + 1) /\ Place(t) \in 0..n
           /\ Old(t) = Name(h, Place(t)) /\ Old(t) \in DOMAIN files
           /\ Place(t) >= h => Old(t) = Place(t) + 1
           /\ Place(t) < h => h = Place(t) + 1 /\ Old(t) = Place(t) /\ Place(t) + 1 \notin DOMAIN files
           /\ DOMAIN files = (0..(n + 1)) \ {h}
<1>1. /\ n \in Nat /\ h \in 1..(n + 1) /\ DOMAIN files \ {0} = (1..(n + 1)) \ {h}
      /\ 0 \in DOMAIN files /\ Place(t) \in 0..n /\ h <= Place(t) + 1
      /\ \A i \in 1..Len(list[t]) : list[t][i] = Name(h, i - 1)
  BY DEF Archived, Rolling
<1>2. DOMAIN files = (0..(n + 1)) \ {h}
  <2>1. 0..(n + 1) = 1..(n + 1) \cup {0}
    BY <1>1
  <2>2. DOMAIN files = (DOMAIN files \ {0}) \cup {0}
    BY <1>1
  <2>3. h # 0
    BY <1>1
  <2>4. QED BY <1>1, <2>1, <2>2, <2>3
<1>3. list[t] \in Seq(Nat) /\ list[t] # << >>
  BY DEF FileTypeOK, TypeOK
<1>4. Len(list[t]) \in Nat /\ Len(list[t]) > 0
  BY <1>3, FrontLast
<1>5. Old(t) = Name(h, Place(t))
  BY <1>1, <1>4 DEF Old, Place, Last
<1>6. QED BY <1>1, <1>2, <1>5 DEF Name

\* The thread has one file less to roll.
LEMMA RollingOn ==
    ASSUME FileTypeOK, NEW t \in Thread, pc[t] = "roll", NEW n, NEW h,
           Archived(n, h), Rolling(t, n, h),
           list' = [list EXCEPT ![t] = Front(@)],
           NEW m \in Nat, NEW g \in 1..(m + 1),
           0 \in DOMAIN files', 1 <= Place(t), Place(t) <= m + 1, g <= Place(t),
           \A q \in 0..(Place(t) - 1) : Name(g, q) = Name(h, q),
           max_count' > 0 => m < max_count' \/ (m = max_count' /\ Place(t) = m + 1)
    PROVE  Rolling(t, m, g)'
<1>1. PICK s \in Seq(Nat) : s = list[t] /\ s # << >>
  BY DEF FileTypeOK, TypeOK
<1>2. /\ Len(s) \in Nat /\ Len(Front(s)) = Len(s) - 1
      /\ \A i \in 1..(Len(s) - 1) : Front(s)[i] = s[i]
  BY <1>1, FrontLast
<1>3. list'[t] = Front(s)
  BY <1>1 DEF FileTypeOK, TypeOK
<1>4. Place(t) = Len(s) - 1 /\ Place(t)' = Len(s) - 2
  <2>1. Place(t) = Len(s) - 1
    BY <1>1 DEF Place
  <2>2. Place(t)' = Len(Front(s)) - 1
    BY <1>3 DEF Place
  <2>3. QED BY <1>2, <2>1, <2>2
<1>5. ASSUME NEW i \in 1..Len(list'[t]) PROVE list'[t][i] = Name(g, i - 1)
  <2>1. i \in 1..(Len(s) - 1)
    BY <1>2, <1>3
  <2>2. list'[t][i] = s[i]
    BY <1>2, <1>3, <2>1
  <2>3. s[i] = Name(h, i - 1)
    <3>1. i \in 1..Len(s)
      BY <1>2, <2>1
    <3>2. \A j \in 1..Len(s) : s[j] = Name(h, j - 1)
      BY <1>1 DEF Rolling
    <3>3. QED BY <3>1, <3>2
  <2>4. i - 1 \in 0..(Place(t) - 1)
    BY <1>2, <1>4, <2>1
  <2>5. QED BY <2>2, <2>3, <2>4
<1>6. Place(t)' \in 0..m /\ g <= Place(t)' + 1 /\ (Place(t) = m + 1 => Place(t)' = m)
  BY <1>2, <1>4
<1>7. QED BY <1>5, <1>6 DEF Rolling, Name

\* The roll moves the hole down, or takes the last archive away.
LEMMA RollFileInv ==
    ASSUME LockInv, FileTypeOK, FileInv, NEW t \in Thread, Roll(t)
    PROVE  FileInv'
<1> DEFINE p == Place(t)
<1>1. pc[t] = "roll" /\ UNCHANGED max_count /\ max_count \in Nat
  BY ZlogAssumption DEF Roll, FileTypeOK, TypeOK
<1>2. PICK n, h : /\ Archived(n, h)
                  /\ max_count > 0 => n <= max_count
                  /\ \A u \in Thread : pc[u] = "roll" => Rolling(u, n, h)
  BY DEF FileInv
<1>3. /\ n \in Nat /\ h \in 1..(n + 1) /\ p \in 0..n
      /\ Old(t) = Name(h, p) /\ Old(t) \in DOMAIN files
      /\ p >= h => Old(t) = p + 1
      /\ p < h => h = p + 1 /\ Old(t) = p /\ p + 1 \notin DOMAIN files
      /\ DOMAIN files = (0..(n + 1)) \ {h}
  BY <1>1, <1>2, RollHasRoom
<1>4. max_count > 0 => n < max_count \/ (n = max_count /\ p = n)
  BY <1>1, <1>2 DEF Rolling
<1>5. \A u \in Thread : pc'[u] = "roll" => u = t
  BY <1>1, Others DEF Roll, Go, FileTypeOK, TypeOK
<1> DEFINE Rolls(m, g) == pc'[t] = "roll" => Rolling(t, m, g)'
<1> HIDE DEF p
<1>6. ASSUME NEW m \in Nat, NEW g \in 1..(m + 1),
             DOMAIN files' \ {0} = (1..(m + 1)) \ {g},
             max_count > 0 => m <= max_count, Rolls(m, g)
      PROVE  FileInv'
  <2>1. Archived(m, g)'
    BY <1>6 DEF Archived
  <2>2. QED BY <1>1, <1>5, <1>6, <2>1 DEF FileInv
<1>7. ASSUME NEW m \in Nat, NEW g \in 1..(m + 1), list' = [list EXCEPT ![t] = Front(@)],
             0 \in DOMAIN files', 1 <= p, p <= m + 1, g <= p,
             \A q \in 0..(p - 1) : Name(g, q) = Name(h, q),
             max_count > 0 => m < max_count \/ (m = max_count /\ p = m + 1)
      PROVE  Rolling(t, m, g)'
  <2>1. max_count' > 0 => m < max_count' \/ (m = max_count' /\ p = m + 1)
    BY <1>1, <1>7
  <2>2. Rolling(t, n, h)
    BY <1>1, <1>2
  <2>3. QED BY <1>1, <1>2, <1>7, <2>1, <2>2, RollingOn DEF p
<1>8. CASE UNCHANGED files /\ list' = [list EXCEPT ![t] = << >>] /\ Go(t, "close")
  <2>1. Rolls(n, h)
    BY <1>8 DEF Go, FileTypeOK, TypeOK
  <2>2. DOMAIN files' \ {0} = (1..(n + 1)) \ {h}
    BY <1>2, <1>8 DEF Archived
  <2>3. QED BY <1>2, <1>3, <1>6, <2>1, <2>2
<1>9. CASE /\ TooOld(p) /\ files' = Removed(Old(t)) /\ list' = [list EXCEPT ![t] = Front(@)]
  <2>1. max_count > 0 /\ p = n /\ n = max_count /\ n - 1 \in Nat
    BY <1>1, <1>3, <1>4, <1>9 DEF TooOld
  <2>2. DOMAIN files' = DOMAIN files \ {Old(t)}
    BY <1>9 DEF Removed
  <2>3. 0 \in DOMAIN files'
    BY <1>3, <2>1, <2>2
  <2>4. PICK m \in Nat : m = n - 1
    BY <2>1
  <2>5. CASE h = n + 1
    <3>1. DOMAIN files' \ {0} = (1..(m + 1)) \ {n}
      BY <1>3, <2>1, <2>2, <2>4, <2>5
    <3>2. n \in 1..(m + 1) /\ \A q \in 0..(p - 1) : Name(n, q) = Name(h, q)
      BY <1>3, <2>1, <2>4, <2>5 DEF Name
    <3>3. 1 <= p /\ p <= m + 1 /\ n <= p /\ m < max_count /\ m <= max_count
      BY <1>1, <1>3, <2>1, <2>4
    <3>4. Rolling(t, m, n)'
      BY <1>7, <1>9, <2>3, <3>2, <3>3
    <3>5. QED BY <1>6, <3>1, <3>2, <3>3, <3>4
  <2>6. CASE h <= n
    <3>1. DOMAIN files' \ {0} = (1..(m + 1)) \ {h}
      BY <1>3, <2>1, <2>2, <2>4, <2>6
    <3>2. h \in 1..(m + 1)
      BY <1>3, <2>4, <2>6
    <3>3. 1 <= p /\ p <= m + 1 /\ h <= p /\ m < max_count /\ m <= max_count
      BY <1>1, <1>3, <2>1, <2>4, <2>6
    <3>4. Rolling(t, m, h)'
      BY <1>7, <1>9, <2>3, <3>2, <3>3
    <3>5. QED BY <1>6, <3>1, <3>2, <3>3, <3>4
  <2>7. QED BY <1>3, <2>5, <2>6
<1>10. CASE /\ ~TooOld(p) /\ files' = Renamed(Old(t), p + 1)
           /\ list' = [list EXCEPT ![t] = Front(@)]
           /\ Go(t, IF p = 0 THEN "close" ELSE "roll")
  <2>1. max_count > 0 => n < max_count /\ n + 1 <= max_count
    BY <1>1, <1>3, <1>4, <1>10 DEF TooOld
  <2>2. DOMAIN files' = (DOMAIN files \ {Old(t)}) \cup {p + 1}
    BY <1>10 DEF Renamed
  <2>3. CASE p >= h
    <3>1. DOMAIN files' = DOMAIN files /\ 1 <= p /\ p <= n + 1 /\ h <= p
      BY <1>3, <2>2, <2>3
    <3>2. 0 \in DOMAIN files' /\ DOMAIN files' \ {0} = (1..(n + 1)) \ {h}
      BY <1>2, <1>3, <3>1 DEF Archived
    <3>3. Rolling(t, n, h)'
      BY <1>3, <1>7, <1>10, <2>1, <3>1, <3>2
    <3>4. QED BY <1>2, <1>3, <1>6, <3>2, <3>3
  <2>4. CASE p < h /\ 1 <= p
    <3>1. h = p + 1 /\ Old(t) = p /\ p <= n + 1
      BY <1>3, <2>4
    <3>2. PICK g : g = p
      OBVIOUS
    <3>3. g \in 1..(n + 1) /\ g <= p
      BY <1>3, <2>4, <3>1, <3>2
    <3>4. 0 \in DOMAIN files' /\ DOMAIN files' \ {0} = (1..(n + 1)) \ {g}
      BY <1>3, <2>2, <3>1, <3>2, <3>3
    <3>5. \A q \in 0..(p - 1) : Name(g, q) = Name(h, q)
      BY <1>3, <3>1, <3>2 DEF Name
    <3>6. Rolling(t, n, g)'
      BY <1>3, <1>7, <1>10, <2>1, <2>4, <3>1, <3>3, <3>4, <3>5
    <3>7. QED BY <1>2, <1>3, <1>6, <3>3, <3>4, <3>6
  <2>5. CASE p = 0
    <3>1. h = 1 /\ Old(t) = 0
      BY <1>3, <2>5
    <3>2. PICK m \in Nat : m = n + 1
      BY <1>3
    <3>3. DOMAIN files' \ {0} = (1..(m + 1)) \ {n + 2} /\ n + 2 \in 1..(m + 1)
      BY <1>3, <2>2, <2>5, <3>1, <3>2
    <3>4. Rolls(m, n + 2)
      BY <1>10, <2>5 DEF Go, FileTypeOK, TypeOK
    <3>5. QED BY <1>6, <2>1, <3>2, <3>3, <3>4
  <2>6. QED BY <1>3, <2>3, <2>4, <2>5
<1>11. QED BY <1>8, <1>9, <1>10 DEF Roll, p

-----------------------------------------------------------------------------
(* The handle of the rule.                                                 *)

LEMMA FdStep ==
    ASSUME LockInv, FileTypeOK, FdInv, NEW t \in Thread, Log(t) \/ Step(t)
    PROVE  FdInv'
<1> DEFINE Reopening == {"roll", "close", "open"}
<1>1. faults \in Nat /\ pc \in [Thread -> Places]
  BY ZlogAssumption DEF FileTypeOK, TypeOK
<1>2. CASE Log(t) \/ Enter(t) \/ Upgrade(t) \/ Create(t) \/ Load(t) \/ Write(t) \/ Size(t) \/ TryLock(t) \/ Unlock(t)
  <2>1. UNCHANGED static_fd /\ pc[t] \notin Reopening
    BY <1>2 DEF Log, Enter, Upgrade, Create, Load, Write, Size, TryLock, Unlock
  <2>2. PICK place \in Places \ Reopening : pc' = [pc EXCEPT ![t] = place]
    BY <1>2 DEF Log, Enter, Upgrade, Create, Load, Write, Size, TryLock, Unlock, Leave, Go
  <2>3. faults' = faults \/ faults' = faults + 1
    BY <1>2 DEF Log, Enter, Upgrade, Create, Load, Write, Size, TryLock, Unlock, Fault
  <2>4. faults > 0 => faults' > 0
    BY <1>1, <2>3
  <2>5. QED BY <1>1, <2>1, <2>2, <2>4 DEF FdInv
<1>3. CASE List(t)
  <2>1. UNCHANGED <<static_fd, faults>> /\ pc[t] = "list"
    BY <1>3 DEF List
  <2>2. PICK place \in {"roll", "unlock"} : pc' = [pc EXCEPT ![t] = place]
    BY <1>3 DEF List, Go
  <2>3. QED BY <1>1, <2>1, <2>2 DEF FdInv
<1>4. CASE Roll(t)
  <2>1. pc[t] = "roll" /\ \E place \in {"roll", "close"} : pc' = [pc EXCEPT ![t] = place]
    BY <1>4 DEF Roll, Go
  <2>2. \A u \in Thread : pc'[u] # "open"
    BY <1>1, <2>1, Others
  <2>3. pc'[t] \in Reopening
    BY <1>1, <2>1
  <2>4. QED BY <2>2, <2>3 DEF FdInv
<1>5. CASE Close(t)
  BY <1>1, <1>5 DEF Close, Go, FdInv
<1>6. CASE Open(t)
  <2>1. pc[t] = "open" /\ pc' = [pc EXCEPT ![t] = "unlock"]
    BY <1>6 DEF Open, Go, FdInv
  <2>2. \A u \in Thread : pc'[u] # "open"
    BY <1>1, <2>1, Others
  <2>3. static_fd' = 0 \/ (static_fd' = Invalid /\ faults' > 0)
    BY <1>1, <1>6, <2>1 DEF Open, Fault
  <2>4. QED BY <2>2, <2>3 DEF FdInv
<1>7. QED BY <1>2, <1>3, <1>4, <1>5, <1>6 DEF Step

-----------------------------------------------------------------------------
(* The messages.                                                           *)

\* The handle is open on the newest file there is, so what is written is the
\* newest message.
NewestInv == static_fd \notin Shut => \A n \in DOMAIN files : n >= static_fd

\* What LogKept says with `first' named.
Since(first) ==
    first \in 0..written /\ Messages = (first..(written - 1)) \ missing /\ (max_count = 0 => first = 0)

Sorted ==
    \A m, n \in DOMAIN files : \A i \in DOMAIN files[m], j \in DOMAIN files[n] :
        m > n \/ (m = n /\ i < j) => files[m][i] < files[n][j]

LEMMA LogKeptIs == LogKept <=> Sorted /\ \E first : Since(first)
BY DEF LogKept, Sorted, Since

\* A message is a number, at a place of a file.
LEMMA MessageType ==
    ASSUME FileTypeOK
    PROVE  /\ \A n \in DOMAIN files : n \in Nat /\ Len(files[n]) \in Nat /\ DOMAIN files[n] = 1..Len(files[n])
           /\ \A n \in DOMAIN files : \A i \in DOMAIN files[n] : files[n][i] \in Messages /\ files[n][i] \in Nat
           /\ \A x \in Messages : \E n \in DOMAIN files : \E i \in DOMAIN files[n] : x = files[n][i]
           /\ Messages \subseteq Nat
<1>1. ASSUME NEW n \in DOMAIN files
      PROVE  /\ n \in Nat /\ Len(files[n]) \in Nat /\ DOMAIN files[n] = 1..Len(files[n])
             /\ \A i \in DOMAIN files[n] : files[n][i] \in Nat
  <2>1. n \in Nat /\ files[n] \in Seq(Nat)
    BY DEF FileTypeOK, TypeOK
  <2>2. QED BY <2>1, LenProperties, ElementOfSeq
<1>2. \A n \in DOMAIN files : \A i \in DOMAIN files[n] : files[n][i] \in Messages
  BY DEF Messages, Range
<1>3. \A x \in Messages : \E n \in DOMAIN files : \E i \in DOMAIN files[n] : x = files[n][i]
  BY DEF Messages, Range
<1>4. QED BY <1>1, <1>2, <1>3

\* The files keep their messages and their order under new names.
LEMMA MovedKept ==
    ASSUME FileTypeOK, LogKept, UNCHANGED <<written, missing, max_count>>,
           NEW g \in [DOMAIN files' -> DOMAIN files],
           \A n \in DOMAIN files' : files'[n] = files[g[n]],
           \A n \in DOMAIN files : \E m \in DOMAIN files' : g[m] = n,
           \A m, n \in DOMAIN files' : m > n => g[m] > g[n]
    PROVE  LogKept' /\ Messages' = Messages
<1>1. Messages' = Messages
  BY DEF Messages, Range
<1>2. Sorted'
  <2> SUFFICES ASSUME NEW m \in DOMAIN files', NEW n \in DOMAIN files',
                      NEW i \in DOMAIN files'[m], NEW j \in DOMAIN files'[n],
                      m > n \/ (m = n /\ i < j)
               PROVE  files'[m][i] < files'[n][j]
    BY DEF Sorted
  <2>1. g[m] \in DOMAIN files /\ g[n] \in DOMAIN files /\ (g[m] > g[n] \/ (g[m] = g[n] /\ i < j))
    OBVIOUS
  <2>2. i \in DOMAIN files[g[m]] /\ j \in DOMAIN files[g[n]]
    OBVIOUS
  <2>3. files[g[m]][i] < files[g[n]][j]
    BY <2>1, <2>2, LogKeptIs DEF Sorted
  <2>4. QED BY <2>3
<1>3. PICK first : Since(first)
  BY LogKeptIs
<1>4. Since(first)'
  BY <1>1, <1>3 DEF Since
<1>5. QED BY <1>1, <1>2, <1>4 DEF LogKept, Sorted, Since

\* A message is written to the newest file.
LEMMA WrittenKept ==
    ASSUME FileTypeOK, LogKept, NewestInv, static_fd \notin Shut,
           files' = [files EXCEPT ![static_fd] = Append(@, written)],
           written' = written + 1, UNCHANGED <<missing, max_count>>
    PROVE  LogKept' /\ Messages' = Messages \cup {written}
<1>1. PICK fd, s : fd = static_fd /\ s = files[fd]
  OBVIOUS
<1>2. fd \in DOMAIN files /\ s \in Seq(Nat) /\ written \in Nat /\ \A n \in DOMAIN files : n >= fd
  BY <1>1 DEF FileTypeOK, TypeOK, NewestInv
<1>3. Len(s) \in Nat /\ DOMAIN s = 1..Len(s)
  BY <1>2, LenProperties
<1>4. /\ DOMAIN Append(s, written) = 1..(Len(s) + 1)
      /\ \A i \in 1..Len(s) : Append(s, written)[i] = s[i]
      /\ Append(s, written)[Len(s) + 1] = written
  BY <1>2, <1>3, AppendProperties
<1>5. DOMAIN files' = DOMAIN files /\ files'[fd] = Append(s, written)
      /\ \A n \in DOMAIN files : n # fd => files'[n] = files[n]
  BY <1>1, <1>2
<1>6. ASSUME NEW n \in DOMAIN files, NEW i \in DOMAIN files'[n]
      PROVE  \/ i \in DOMAIN files[n] /\ files'[n][i] = files[n][i] /\ (n = fd => i <= Len(s))
             \/ n = fd /\ i = Len(s) + 1 /\ files'[n][i] = written
  <2>1. CASE n = fd
    BY <1>1, <1>3, <1>4, <1>5, <2>1
  <2>2. CASE n # fd
    BY <1>5, <2>2
  <2>3. QED BY <2>1, <2>2
<1>7. PICK first : Since(first)
  BY LogKeptIs
<1>8. /\ first \in 0..written /\ Messages = (first..(written - 1)) \ missing /\ (max_count = 0 => first = 0)
      /\ missing \subseteq 0..(written - 1)
  BY <1>7 DEF Since, FileTypeOK, TypeOK
<1>9. Messages' = Messages \cup {written}
  <2>1. ASSUME NEW x \in Messages' PROVE x \in Messages \cup {written}
    <3>1. PICK n \in DOMAIN files : \E i \in DOMAIN files'[n] : x = files'[n][i]
      BY <1>5, <2>1 DEF Messages, Range
    <3>2. PICK i \in DOMAIN files'[n] : x = files'[n][i]
      BY <3>1
    <3>3. QED BY <1>6, <3>2, MessageType
  <2>2. ASSUME NEW x \in Messages PROVE x \in Messages'
    <3>1. PICK n \in DOMAIN files : \E i \in DOMAIN files[n] : x = files[n][i]
      BY MessageType
    <3>2. PICK i \in DOMAIN files[n] : x = files[n][i]
      BY <3>1
    <3>3. i \in DOMAIN files'[n] /\ files'[n][i] = x
      BY <1>1, <1>3, <1>4, <1>5, <3>2
    <3>4. QED BY <1>5, <3>3 DEF Messages, Range
  <2>3. written \in Messages'
    <3>1. Len(s) + 1 \in DOMAIN files'[fd] /\ files'[fd][Len(s) + 1] = written
      BY <1>3, <1>4, <1>5
    <3>2. QED BY <1>2, <1>5, <3>1 DEF Messages, Range
  <2>4. QED BY <2>1, <2>2, <2>3
<1>10. Since(first)'
  <2>1. Messages' = (first..written) \ missing
    BY <1>2, <1>8, <1>9
  <2>2. QED BY <1>2, <1>8, <2>1 DEF Since
<1>11. Sorted'
  <2> SUFFICES ASSUME NEW m \in DOMAIN files, NEW n \in DOMAIN files,
                      NEW i \in DOMAIN files'[m], NEW j \in DOMAIN files'[n],
                      m > n \/ (m = n /\ i < j)
               PROVE  files'[m][i] < files'[n][j]
    BY <1>5 DEF Sorted
  <2>1. m \in Nat /\ n \in Nat /\ fd \in Nat
    BY <1>2, MessageType
  <2>2. CASE m = fd /\ i = Len(s) + 1
    <3>1. n = fd /\ Len(s) + 1 < j
      BY <1>2, <2>1, <2>2
    <3>2. j \in 1..(Len(s) + 1)
      BY <1>4, <1>5, <3>1
    <3>3. QED BY <1>3, <3>1, <3>2
  <2>3. CASE i \in DOMAIN files[m] /\ files'[m][i] = files[m][i]
    <3>1. CASE n = fd /\ files'[n][j] = written
      <4>1. files[m][i] \in Messages
        BY <2>3, MessageType
      <4>2. QED BY <1>2, <1>8, <2>3, <3>1, <4>1
    <3>2. CASE j \in DOMAIN files[n] /\ files'[n][j] = files[n][j]
      BY <2>3, <3>2, LogKeptIs DEF Sorted
    <3>3. QED BY <1>6, <3>1, <3>2
  <2>4. QED BY <1>6, <2>2, <2>3
<1>12. QED BY <1>9, <1>10, <1>11 DEF LogKept, Sorted, Since

\* A message is lost.
LEMMA LostKept ==
    ASSUME FileTypeOK, LogKept, UNCHANGED <<files, max_count>>,
           written' = written + 1, missing' = missing \cup {written}
    PROVE  LogKept' /\ Messages' = Messages
<1>1. Messages' = Messages /\ Sorted'
  BY LogKeptIs DEF Messages, Sorted
<1>2. PICK first : Since(first)
  BY LogKeptIs
<1>3. /\ first \in 0..written /\ Messages = (first..(written - 1)) \ missing /\ (max_count = 0 => first = 0)
      /\ written \in Nat
  BY <1>2 DEF Since, FileTypeOK, TypeOK
<1>4. (first..written) \ (missing \cup {written}) = (first..(written - 1)) \ missing
  BY <1>3
<1>5. Since(first)'
  BY <1>1, <1>3, <1>4 DEF Since
<1>6. QED BY <1>1, <1>5 DEF LogKept, Sorted, Since

\* The oldest file is taken away.
LEMMA RemovedKept ==
    ASSUME FileTypeOK, LogKept, max_count # 0, UNCHANGED <<written, missing, max_count>>,
           NEW old \in DOMAIN files, files' = Removed(old),
           \A n \in DOMAIN files : n <= old
    PROVE  LogKept'
<1>1. DOMAIN files' = DOMAIN files \ {old} /\ \A n \in DOMAIN files' : files'[n] = files[n]
  BY DEF Removed
<1>2. Sorted'
  BY <1>1, LogKeptIs DEF Sorted
<1>3. PICK first : Since(first)
  BY LogKeptIs
<1>4. first \in 0..written /\ Messages = (first..(written - 1)) \ missing /\ written \in Nat
  BY <1>3 DEF Since, FileTypeOK, TypeOK
<1>5. PICK s : s = files[old]
  OBVIOUS
<1>6. Len(s) \in Nat /\ DOMAIN s = 1..Len(s) /\ old \in Nat
  BY <1>5, MessageType
<1>7. ASSUME NEW n \in DOMAIN files', NEW i \in DOMAIN files'[n], NEW j \in DOMAIN s
      PROVE  s[j] < files'[n][i]
  <2>1. old > n /\ n \in DOMAIN files
    BY <1>1, MessageType
  <2>2. QED BY <1>1, <1>5, <2>1, LogKeptIs DEF Sorted
<1>8. \A x \in Messages' : x \in Messages
  BY <1>1 DEF Messages, Range
<1>9. \A x \in Messages : x \in Messages' \/ \E j \in DOMAIN s : x = s[j]
  <2> SUFFICES ASSUME NEW x \in Messages, x \notin Messages' PROVE \E j \in DOMAIN s : x = s[j]
    OBVIOUS
  <2>1. PICK n \in DOMAIN files : \E i \in DOMAIN files[n] : x = files[n][i]
    BY MessageType
  <2>2. n \notin DOMAIN files'
    BY <1>1, <2>1 DEF Messages, Range
  <2>3. QED BY <1>1, <1>5, <2>1, <2>2
<1>10. \A x \in Messages' : \A j \in DOMAIN s : s[j] < x
  <2> SUFFICES ASSUME NEW x \in Messages', NEW j \in DOMAIN s PROVE s[j] < x
    OBVIOUS
  <2>1. PICK n \in DOMAIN files' : \E i \in DOMAIN files'[n] : x = files'[n][i]
    BY DEF Messages, Range
  <2>2. QED BY <1>7, <2>1
<1>11. CASE Len(s) = 0
  <2>1. DOMAIN s = {}
    BY <1>6, <1>11
  <2>2. Messages' = Messages
    BY <1>8, <1>9, <2>1
  <2>3. Since(first)'
    BY <1>3, <2>2 DEF Since
  <2>4. QED BY <1>2, <2>3 DEF LogKept, Sorted, Since
<1>12. CASE Len(s) > 0
  <2>1. PICK last : last = s[Len(s)]
    OBVIOUS
  <2>2. Len(s) \in DOMAIN s /\ last \in Messages /\ last \in Nat
    BY <1>5, <1>6, <1>12, <2>1, MessageType
  <2>3. \A j \in DOMAIN s : s[j] \in Nat /\ s[j] <= last
    <3> SUFFICES ASSUME NEW j \in DOMAIN s PROVE s[j] \in Nat /\ s[j] <= last
      OBVIOUS
    <3>1. s[j] \in Nat
      BY <1>5, MessageType
    <3>2. CASE j = Len(s)
      BY <2>1, <2>2, <3>1, <3>2
    <3>3. CASE j < Len(s)
      <4>1. s[j] < last
        BY <1>5, <2>1, <2>2, <3>3, LogKeptIs DEF Sorted
      <4>2. QED BY <2>2, <3>1, <4>1
    <3>4. QED BY <1>6, <3>2, <3>3
  <2>4. Messages' = ((last + 1)..(written - 1)) \ missing
    <3>1. ASSUME NEW x \in Messages' PROVE x \in ((last + 1)..(written - 1)) \ missing
      <4>1. x \in (first..(written - 1)) \ missing /\ last < x
        BY <1>4, <1>8, <1>10, <2>1, <2>2
      <4>2. QED BY <1>4, <2>2, <4>1
    <3>2. ASSUME NEW x \in ((last + 1)..(written - 1)) \ missing PROVE x \in Messages'
      <4>1. last \in first..(written - 1)
        BY <1>4, <2>2
      <4>2. x \in Messages /\ x > last
        BY <1>4, <2>2, <4>1
      <4>3. x \in Nat
        BY <2>2, <4>2
      <4>4. QED BY <1>9, <2>2, <2>3, <4>2, <4>3
    <3>3. QED BY <3>1, <3>2
  <2>5. last + 1 \in 0..written
    BY <1>4, <2>2
  <2>6. Since(last + 1)'
    BY <2>4, <2>5 DEF Since
  <2>7. QED BY <1>2, <2>6 DEF LogKept, Sorted, Since
<1>13. QED BY <1>6, <1>11, <1>12

\* The file of the rule is opened, and created when it is not there.
LEMMA OpenedKept ==
    ASSUME FileTypeOK, LogKept, UNCHANGED <<written, missing, max_count>>,
           files' = [n \in DOMAIN files \cup {0} |-> IF n \in DOMAIN files THEN files[n] ELSE << >>]
    PROVE  LogKept' /\ Messages' = Messages
<1>1. /\ DOMAIN files' = DOMAIN files \cup {0}
      /\ \A n \in DOMAIN files : files'[n] = files[n]
      /\ \A n \in DOMAIN files' : n \notin DOMAIN files => files'[n] = << >>
  OBVIOUS
<1>2. \A n \in DOMAIN files' : \A i \in DOMAIN files'[n] : n \in DOMAIN files /\ i \in DOMAIN files[n]
  BY <1>1
<1>3. Sorted'
  BY <1>1, <1>2, LogKeptIs DEF Sorted
<1>4. Messages' = Messages
  <2>1. \A x \in Messages : x \in Messages'
    BY <1>1 DEF Messages, Range
  <2>2. ASSUME NEW x \in Messages' PROVE x \in Messages
    <3>1. PICK n \in DOMAIN files' : x \in Range(files'[n])
      BY <2>2, Zenon DEF Messages
    <3>2. PICK i \in DOMAIN files'[n] : x = files'[n][i]
      BY <3>1, Zenon DEF Range
    <3>3. n \in DOMAIN files /\ i \in DOMAIN files[n] /\ x = files[n][i]
      BY <1>1, <1>2, <3>2
    <3>4. QED BY <3>3, MessageType
  <2>3. QED BY <2>1, <2>2
<1>5. PICK first : Since(first)
  BY LogKeptIs
<1>6. Since(first)'
  BY <1>4, <1>5 DEF Since
<1>7. QED BY <1>3, <1>4, <1>6 DEF LogKept, Sorted, Since

KeptInv == LogKept /\ NewestInv

\* What a step is to the messages, and the step that takes some away.
SameMessages == UNCHANGED <<Messages, written>>
NextMessage  == Messages' = Messages \cup {written} /\ written' = written + 1
LostMessage  == UNCHANGED Messages /\ written' = written + 1
Removal(t)   ==
    /\ pc[t] = "roll" /\ TooOld(Place(t)) /\ files' = Removed(Old(t))
    /\ UNCHANGED <<written, missing>>

\* The file that is rolled is the oldest when it is too old to be kept, and
\* else it has the next name for itself.
LEMMA RollKept ==
    ASSUME FileTypeOK, FileInv, KeptInv, NEW t \in Thread, Roll(t)
    PROVE  KeptInv' /\ (SameMessages \/ Removal(t))
<1> DEFINE p   == Place(t)
           old == Old(t)
           new == p + 1
<1>1. pc[t] = "roll" /\ UNCHANGED <<written, missing, max_count>> /\ max_count \in Nat
  BY ZlogAssumption DEF Roll, FileTypeOK, TypeOK
<1>2. PICK n, h : Archived(n, h) /\ Rolling(t, n, h)
  BY <1>1 DEF FileInv
<1>3. /\ n \in Nat /\ h \in 1..(n + 1) /\ p \in 0..n
      /\ old = Name(h, p) /\ old \in DOMAIN files
      /\ p >= h => old = p + 1
      /\ p < h => h = p + 1 /\ old = p /\ p + 1 \notin DOMAIN files
      /\ DOMAIN files = (0..(n + 1)) \ {h}
  BY <1>1, <1>2, RollHasRoom
<1>4. max_count > 0 => n < max_count \/ (n = max_count /\ p = n)
  BY <1>2 DEF Rolling
<1>5. static_fd \in Shut \cup DOMAIN files /\ (static_fd \notin Shut => \A m \in DOMAIN files : m >= static_fd)
  BY DEF KeptInv, NewestInv, FileTypeOK, TypeOK
<1> HIDE DEF p, old
<1>6. CASE UNCHANGED <<files, static_fd>>
  <2>1. LogKept' /\ SameMessages
    BY <1>1, <1>6 DEF KeptInv, LogKept, Messages, SameMessages
  <2>2. QED BY <1>6, <2>1 DEF KeptInv, NewestInv
<1>7. CASE /\ TooOld(p) /\ files' = Removed(old)
           /\ static_fd' = IF static_fd = old THEN Closed ELSE static_fd
  <2>1. max_count # 0 /\ p = n
    BY <1>1, <1>3, <1>4, <1>7 DEF TooOld
  <2>2. \A m \in DOMAIN files : m <= old
    BY <1>3, <2>1
  <2>3. LogKept'
    BY <1>1, <1>3, <1>7, <2>1, <2>2, RemovedKept DEF KeptInv
  <2>4. DOMAIN files' \subseteq DOMAIN files
    BY <1>7 DEF Removed
  <2>5. Removal(t)
    BY <1>1, <1>7 DEF Removal, p, old
  <2>6. NewestInv'
    BY <1>5, <1>7, <2>4 DEF NewestInv
  <2>7. QED BY <2>3, <2>5, <2>6 DEF KeptInv
<1>8. CASE /\ files' = Renamed(old, new)
           /\ static_fd' = IF static_fd = old THEN new ELSE static_fd
  <2>1. /\ DOMAIN files' = (DOMAIN files \ {old}) \cup {new}
        /\ \A m \in DOMAIN files' : files'[m] = IF m = new THEN files[old] ELSE files[m]
    BY <1>8 DEF Renamed
  <2>2. new = old \/ (new = old + 1 /\ new \notin DOMAIN files)
    BY <1>3
  <2>3. PICK g : g = [m \in DOMAIN files' |-> IF m = new THEN old ELSE m]
    OBVIOUS
  <2>4. \A m \in DOMAIN files' : g[m] = IF m = new THEN old ELSE m
    BY <2>3
  <2>5. g \in [DOMAIN files' -> DOMAIN files]
    BY <1>3, <2>1, <2>3
  <2>6. \A m \in DOMAIN files' : files'[m] = files[g[m]]
    BY <2>1, <2>4
  <2>7. ASSUME NEW m \in DOMAIN files PROVE \E k \in DOMAIN files' : g[k] = m
    <3>1. CASE m = old
      BY <2>1, <2>4, <3>1
    <3>2. CASE m # old
      <4>1. m \in DOMAIN files' /\ m # new
        BY <2>1, <2>2, <3>2
      <4>2. QED BY <2>4, <4>1
    <3>3. QED BY <3>1, <3>2
  <2>8. DOMAIN files' \subseteq Nat /\ new \in Nat /\ old \in Nat /\ \A m \in DOMAIN files' : m = new \/ (m \in DOMAIN files /\ m # old)
    BY <1>3, <2>1
  <2>9. \A k, m \in DOMAIN files' : k > m => g[k] > g[m]
    BY <2>2, <2>4, <2>8
  <2>10. LogKept' /\ SameMessages
    BY <1>1, <2>5, <2>6, <2>7, <2>9, MovedKept DEF KeptInv, SameMessages
  <2>11. NewestInv'
    <3>1. CASE static_fd = old
      BY <1>3, <1>5, <1>8, <2>2, <2>8, <3>1 DEF NewestInv
    <3>2. CASE static_fd # old
      BY <1>3, <1>5, <1>8, <2>2, <2>8, <3>2 DEF NewestInv
    <3>3. QED BY <3>1, <3>2
  <2>12. QED BY <2>10, <2>11 DEF KeptInv
<1>9. QED BY <1>6, <1>7, <1>8 DEF Roll, p, old

LEMMA OpenKept ==
    ASSUME FileTypeOK, KeptInv, UNCHANGED <<written, missing, max_count>>, static_fd' = 0,
           files' = [n \in DOMAIN files \cup {0} |-> IF n \in DOMAIN files THEN files[n] ELSE << >>]
    PROVE  KeptInv' /\ SameMessages
<1>1. LogKept' /\ SameMessages
  BY OpenedKept DEF KeptInv, SameMessages
<1>2. DOMAIN files' = DOMAIN files \cup {0}
  OBVIOUS
<1>3. \A n \in DOMAIN files' : n >= 0
  BY <1>2 DEF FileTypeOK, TypeOK
<1>4. QED BY <1>1, <1>3 DEF KeptInv, NewestInv

LEMMA SameKept ==
    ASSUME KeptInv, UNCHANGED <<files, written, missing, max_count>>, static_fd' \in {static_fd} \cup Shut
    PROVE  KeptInv' /\ SameMessages
<1>1. LogKept' /\ SameMessages
  BY DEF KeptInv, LogKept, Messages, SameMessages
<1>2. QED BY <1>1 DEF KeptInv, NewestInv

LEMMA NextKept ==
    ASSUME FileTypeOK, FileInv, KeptInv, [Next]_vars
    PROVE  KeptInv' /\ (SameMessages \/ NextMessage \/ LostMessage \/ \E t \in Thread : Removal(t))
<1>1. ASSUME NEW t \in Thread,
             \/ Log(t) \/ Enter(t) \/ Upgrade(t) \/ Create(t) \/ Load(t) \/ Size(t)
             \/ TryLock(t) \/ Unlock(t) \/ List(t) \/ Close(t)
      PROVE  KeptInv' /\ SameMessages
  <2>1. UNCHANGED <<files, written, missing, max_count>> /\ static_fd' \in {static_fd} \cup Shut
    BY <1>1 DEF Log, Enter, Upgrade, Create, Load, Size, TryLock, Unlock, List, Close
  <2>2. QED BY <2>1, SameKept
<1>2. ASSUME NEW t \in Thread, Write(t) PROVE KeptInv' /\ (NextMessage \/ LostMessage)
  <2>1. UNCHANGED <<max_count, static_fd>> /\ written' = written + 1
    BY <1>2 DEF Write
  <2>2. CASE Lose(t)
    <3>1. UNCHANGED files /\ missing' = missing \cup {written}
      BY <2>2 DEF Lose
    <3>2. LogKept' /\ LostMessage
      BY <2>1, <3>1, LostKept DEF KeptInv, LostMessage
    <3>3. QED BY <2>1, <3>1, <3>2 DEF KeptInv, NewestInv
  <2>3. CASE /\ static_fd \notin Shut /\ UNCHANGED missing
             /\ files' = [files EXCEPT ![static_fd] = Append(@, written)]
    <3>1. LogKept' /\ NextMessage
      BY <2>1, <2>3, WrittenKept DEF KeptInv, NextMessage
    <3>2. DOMAIN files' = DOMAIN files
      BY <2>3
    <3>3. QED BY <2>1, <3>1, <3>2 DEF KeptInv, NewestInv
  <2>4. QED BY <1>2, <2>2, <2>3 DEF Write
<1>3. ASSUME NEW t \in Thread, Open(t) PROVE KeptInv' /\ SameMessages
  <2>1. UNCHANGED <<written, missing, max_count>>
    BY <1>3 DEF Open
  <2>2. CASE UNCHANGED files /\ static_fd' = Invalid
    BY <2>1, <2>2, SameKept
  <2>3. CASE ~(UNCHANGED files /\ static_fd' = Invalid)
    BY <1>3, <2>1, <2>3, OpenKept DEF Open
  <2>4. QED BY <2>2, <2>3
<1>4. CASE Fini \/ UNCHANGED vars
  BY <1>4, SameKept DEF Fini, vars
<1>5. CASE Restart
  BY <1>5, OpenKept DEF Restart
<1>6. QED BY <1>1, <1>2, <1>3, <1>4, <1>5, RollKept DEF Next, Step

-----------------------------------------------------------------------------
(* The age of the archives: the k-th begins k limits before the file does, *)
(* so what is removed is older than the last archive_max_count limits.     *)

\* The inverse of Name, and the length of k files that grew to the limit.
Nth(h, k) == IF k < h THEN k ELSE k - 1
Span(k)   == k * MaxSize

\* The first message of a file, and of the file of the rule.
Start(n) == IF Len(files[n]) = 0 THEN written ELSE files[n][1]
Newest   == IF 0 \in DOMAIN files THEN Start(0) ELSE written

Spans   == \A n \in DOMAIN files : Start(n) + Len(files[n]) <= written
Grown   == \A t \in Thread : pc[t] = "roll" => 0 \in DOMAIN files /\ Len(files[0]) >= MaxSize
Aged(h) == \A k \in DOMAIN files \ {0} : Len(files[k]) > 0 /\ Start(k) + Span(Nth(h, k)) <= Newest
AgeInv  == Spans /\ Grown /\ \A n, h : Archived(n, h) => Aged(h)

LEMMA SpanIs ==
    /\ MaxSize \in Nat /\ MaxSize > 0 /\ Span(0) = 0
    /\ \A k \in Nat : Span(k) \in Nat /\ Span(k + 1) = Span(k) + MaxSize
BY ZlogAssumption DEF Span

LEMMA StartType ==
    ASSUME FileTypeOK
    PROVE  /\ written \in Nat /\ Newest \in Nat
           /\ \A n \in DOMAIN files : n \in Nat /\ Len(files[n]) \in Nat /\ Start(n) \in Nat
<1>1. written \in Nat
  BY DEF FileTypeOK, TypeOK
<1>2. ASSUME NEW n \in DOMAIN files PROVE n \in Nat /\ Len(files[n]) \in Nat /\ Start(n) \in Nat
  <2>1. n \in Nat /\ Len(files[n]) \in Nat /\ DOMAIN files[n] = 1..Len(files[n])
    BY MessageType
  <2>2. Len(files[n]) # 0 => files[n][1] \in Nat
    BY <2>1, MessageType
  <2>3. QED BY <1>1, <2>1, <2>2 DEF Start
<1>3. QED BY <1>1, <1>2 DEF Newest

\* An interval has one hole at most.
LEMMA OneHole ==
    ASSUME NEW n \in Nat, NEW h \in 1..(n + 1), NEW m \in Nat, NEW g \in 1..(m + 1),
           (1..(n + 1)) \ {h} = (1..(m + 1)) \ {g}
    PROVE  n = m /\ h = g
<1>1. ASSUME NEW k \in Nat, NEW f \in 1..(k + 1) PROVE Cardinality((1..(k + 1)) \ {f}) = k
  <2>1. PICK S : S = 1..(k + 1)
    OBVIOUS
  <2>2. IsFiniteSet(S) /\ Cardinality(S) = k + 1 /\ f \in S
    BY <2>1, FS_Interval
  <2>3. Cardinality(S \ {f}) = Cardinality(S) - 1
    BY <2>2, FS_RemoveElement
  <2>4. QED BY <2>1, <2>2, <2>3
<1>2. n = m
  BY <1>1
<1>3. h = g
  BY <1>2
<1>4. QED BY <1>2, <1>3

LEMMA AgeAll ==
    ASSUME NEW m, NEW g, Archived(m, g)', Aged(g)'
    PROVE  \A i, f : Archived(i, f)' => Aged(f)'
<1> SUFFICES ASSUME NEW i, NEW f, Archived(i, f)' PROVE Aged(f)'
  OBVIOUS
<1>1. /\ i \in Nat /\ f \in 1..(i + 1) /\ m \in Nat /\ g \in 1..(m + 1)
      /\ (1..(i + 1)) \ {f} = (1..(m + 1)) \ {g}
  BY DEF Archived
<1>2. f = g
  BY <1>1, OneHole
<1>3. QED BY <1>2

\* Every archive was one before, with its number and its first message.
LEMMA AgeFrame ==
    ASSUME FileTypeOK, FileTypeOK', AgeInv, Spans', Grown', Newest' >= Newest,
           NEW n, NEW h, Archived(n, h), NEW m, NEW g, Archived(m, g)',
           \A k \in DOMAIN files' \ {0} : \E j \in DOMAIN files \ {0} :
               Start(k)' = Start(j) /\ Len(files'[k]) >= Len(files[j]) /\ Nth(g, k) = Nth(h, j)
    PROVE  AgeInv'
<1>1. Aged(h)
  BY DEF AgeInv
<1>2. ASSUME NEW k \in DOMAIN files' \ {0}
      PROVE  Len(files'[k]) > 0 /\ Start(k)' + Span(Nth(g, k)) <= Newest'
  <2>1. PICK j \in DOMAIN files \ {0} :
            Start(k)' = Start(j) /\ Len(files'[k]) >= Len(files[j]) /\ Nth(g, k) = Nth(h, j)
    OBVIOUS
  <2>2. Len(files[j]) > 0 /\ Start(j) + Span(Nth(h, j)) <= Newest
    BY <1>1 DEF Aged
  <2>3. Start(j) \in Nat /\ Len(files[j]) \in Nat /\ Newest \in Nat /\ j \in Nat
    BY StartType
  <2>4. Len(files'[k]) \in Nat /\ Newest' \in Nat
    <3>1. /\ \A i \in DOMAIN files' : files'[i] \in Seq(Nat)
          /\ written' \in Nat
      BY DEF FileTypeOK, TypeOK
    <3>2. Len(files'[k]) \in Nat
      BY <3>1, LenProperties
    <3>3. 0 \in DOMAIN files' => Start(0)' \in Nat
      BY <3>1, LenProperties, ElementOfSeq DEF Start
    <3>4. QED BY <3>1, <3>2, <3>3 DEF Newest
  <2>5. Span(Nth(h, j)) \in Nat
    <3>1. h \in Nat /\ h >= 1
      BY DEF Archived
    <3>2. Nth(h, j) \in Nat
      BY <2>3, <3>1 DEF Nth
    <3>3. QED BY <3>2, SpanIs
  <2>6. PICK x : x = Span(Nth(h, j)) /\ x \in Nat /\ x = Span(Nth(g, k))
    BY <2>1, <2>5
  <2>7. Start(k)' + x <= Newest'
    BY <2>1, <2>2, <2>3, <2>4, <2>6
  <2>8. QED BY <2>1, <2>2, <2>3, <2>4, <2>6, <2>7
<1>3. Aged(g)'
  BY <1>2 DEF Aged
<1>4. QED BY <1>3, AgeAll DEF AgeInv

\* The files stay, and at most the number of the next message grows.
LEMMA AgeSame ==
    ASSUME FileTypeOK, FileTypeOK', FileInv, AgeInv, UNCHANGED files,
           written' \in {written, written + 1}, Grown'
    PROVE  AgeInv'
<1>1. written \in Nat
  BY StartType
<1>2. ASSUME NEW k \in DOMAIN files
      PROVE  /\ Start(k)' = IF Len(files[k]) = 0 THEN written' ELSE Start(k)
             /\ Start(k) \in Nat /\ Len(files[k]) \in Nat /\ Start(k) + Len(files[k]) <= written
  BY StartType DEF Start, AgeInv, Spans
<1>3. Spans'
  BY <1>1, <1>2 DEF Spans
<1>4. Newest' >= Newest
  <2>1. CASE 0 \in DOMAIN files
    BY <1>1, <1>2, <2>1 DEF Newest
  <2>2. CASE 0 \notin DOMAIN files
    BY <1>1, <2>2 DEF Newest
  <2>3. QED BY <2>1, <2>2
<1>5. PICK n, h : Archived(n, h)
  BY DEF FileInv
<1>6. Archived(n, h)'
  BY <1>5 DEF Archived
<1>7. ASSUME NEW k \in DOMAIN files' \ {0} PROVE Start(k)' = Start(k) /\ Len(files'[k]) >= Len(files[k])
  <2>1. Len(files[k]) > 0
    BY <1>5 DEF AgeInv, Aged
  <2>2. QED BY <1>2, <2>1
<1>8. QED BY <1>3, <1>4, <1>5, <1>6, <1>7, AgeFrame

LEMMA AgeWrite ==
    ASSUME FileTypeOK, FileTypeOK', FileInv, AgeInv, NotRolled, static_fd \notin Shut,
           files' = [files EXCEPT ![static_fd] = Append(@, written)], written' = written + 1
    PROVE  AgeInv'
<1>1. PICK fd, s : fd = static_fd /\ s = files[fd]
  OBVIOUS
<1>2. fd \in DOMAIN files /\ s \in Seq(Nat) /\ written \in Nat /\ DOMAIN files' = DOMAIN files
  BY <1>1 DEF FileTypeOK, TypeOK
<1>3. /\ Len(s) \in Nat
      /\ Len(Append(s, written)) = Len(s) + 1
      /\ \A i \in 1..Len(s) : Append(s, written)[i] = s[i]
      /\ Append(s, written)[Len(s) + 1] = written
  BY <1>2, AppendProperties, LenProperties
<1>4. files'[fd] = Append(s, written) /\ \A k \in DOMAIN files : k # fd => files'[k] = files[k]
  BY <1>1, <1>2
<1>5. Start(fd)' = Start(fd)
  <2>1. CASE Len(s) = 0
    BY <1>1, <1>3, <1>4, <2>1 DEF Start
  <2>2. CASE Len(s) # 0
    <3>1. 1 \in 1..Len(s) /\ Len(s) + 1 # 0
      BY <1>3, <2>2
    <3>2. QED BY <1>1, <1>3, <1>4, <2>2, <3>1 DEF Start
  <2>3. QED BY <2>1, <2>2
<1>6. ASSUME NEW k \in DOMAIN files
      PROVE  /\ Start(k)' = IF k # fd /\ Len(files[k]) = 0 THEN written + 1 ELSE Start(k)
             /\ Len(files'[k]) = IF k = fd THEN Len(files[k]) + 1 ELSE Len(files[k])
  <2>1. CASE k = fd
    BY <1>1, <1>3, <1>4, <1>5, <2>1
  <2>2. CASE k # fd
    BY <1>4, <2>2 DEF Start
  <2>3. QED BY <2>1, <2>2
<1>7. ASSUME NEW k \in DOMAIN files PROVE Start(k)' + Len(files'[k]) <= written'
  <2>1. Start(k) + Len(files[k]) <= written /\ Start(k) \in Nat /\ Len(files[k]) \in Nat
    BY StartType DEF AgeInv, Spans
  <2>2. QED BY <1>2, <1>6, <2>1
<1>8. Spans'
  BY <1>2, <1>7 DEF Spans
<1>9. Grown'
  <2> SUFFICES ASSUME NEW t \in Thread, pc'[t] = "roll"
               PROVE  0 \in DOMAIN files' /\ Len(files'[0]) >= MaxSize
    BY DEF Grown
  <2>1. 0 \in DOMAIN files /\ Len(files[0]) >= MaxSize
    BY DEF NotRolled, AgeInv, Grown
  <2>2. Len(files[0]) \in Nat /\ Len(files'[0]) >= Len(files[0])
    BY <1>6, <2>1, StartType
  <2>3. QED BY <1>2, <1>6, <2>1, <2>2, SpanIs
<1>10. Newest' >= Newest
  <2>1. CASE 0 \in DOMAIN files
    <3>1. Newest = Start(0) /\ Newest' = Start(0)' /\ Start(0) \in Nat
      BY <1>2, <2>1, StartType DEF Newest
    <3>2. Start(0) <= written
      BY <1>2, <2>1, StartType DEF AgeInv, Spans
    <3>3. QED BY <1>2, <1>6, <2>1, <3>1, <3>2
  <2>2. CASE 0 \notin DOMAIN files
    BY <1>2, <2>2 DEF Newest
  <2>3. QED BY <2>1, <2>2
<1>11. PICK n, h : Archived(n, h)
  BY DEF FileInv
<1>12. Archived(n, h)'
  BY <1>2, <1>11 DEF Archived
<1>13. ASSUME NEW k \in DOMAIN files \ {0} PROVE Start(k)' = Start(k) /\ Len(files'[k]) >= Len(files[k])
  <2>1. Len(files[k]) > 0 /\ Len(files[k]) \in Nat
    BY <1>11, StartType DEF AgeInv, Aged
  <2>2. QED BY <1>6, <2>1
<1>14. QED BY <1>2, <1>8, <1>9, <1>10, <1>11, <1>12, <1>13, AgeFrame

LEMMA AgeOpen ==
    ASSUME FileTypeOK, FileTypeOK', FileInv, AgeInv, NotRolled, UNCHANGED written,
           files' = [n \in DOMAIN files \cup {0} |-> IF n \in DOMAIN files THEN files[n] ELSE << >>]
    PROVE  AgeInv'
<1>1. /\ DOMAIN files' = DOMAIN files \cup {0}
      /\ \A k \in DOMAIN files : files'[k] = files[k]
      /\ 0 \notin DOMAIN files => files'[0] = << >>
  OBVIOUS
<1>2. /\ \A k \in DOMAIN files : Start(k)' = Start(k)
      /\ 0 \notin DOMAIN files => Start(0)' = written /\ Len(files'[0]) = 0
  BY <1>1, LenProperties DEF Start
<1>3. written \in Nat
  BY StartType
<1>4. Spans'
  BY <1>1, <1>2, <1>3 DEF AgeInv, Spans
<1>5. Grown'
  BY <1>1 DEF NotRolled, AgeInv, Grown
<1>6. Newest' = Newest
  BY <1>1, <1>2 DEF Newest
<1>7. Newest' >= Newest
  BY <1>6, StartType
<1>8. PICK n, h : Archived(n, h)
  BY DEF FileInv
<1>9. Archived(n, h)' /\ DOMAIN files' \ {0} = DOMAIN files \ {0}
  BY <1>1, <1>8 DEF Archived
<1>10. ASSUME NEW k \in DOMAIN files \ {0} PROVE Start(k)' = Start(k) /\ Len(files'[k]) >= Len(files[k])
  <2>1. Len(files[k]) \in Nat
    BY StartType
  <2>2. QED BY <1>1, <1>2, <2>1
<1>11. QED BY <1>4, <1>5, <1>7, <1>8, <1>9, <1>10, AgeFrame

\* Rolling an archive gives it the place after its own; rolling the file makes
\* it the first archive, a whole limit old.
LEMMA AgeRoll ==
    ASSUME LockInv, FileTypeOK, FileTypeOK', FileInv, AgeInv, NEW t \in Thread, Roll(t)
    PROVE  AgeInv'
<1> DEFINE p   == Place(t)
           old == Old(t)
<1>1. pc[t] = "roll" /\ UNCHANGED <<written, max_count>> /\ max_count \in Nat /\ written \in Nat
  BY ZlogAssumption DEF Roll, FileTypeOK, TypeOK
<1>2. PICK n, h : Archived(n, h) /\ Rolling(t, n, h)
  BY <1>1 DEF FileInv
<1>3. /\ n \in Nat /\ h \in 1..(n + 1) /\ p \in 0..n
      /\ old = Name(h, p) /\ old \in DOMAIN files
      /\ p >= h => old = p + 1
      /\ p < h => h = p + 1 /\ old = p /\ p + 1 \notin DOMAIN files
      /\ DOMAIN files = (0..(n + 1)) \ {h}
  BY <1>1, <1>2, RollHasRoom
<1>4. max_count > 0 => n < max_count \/ (n = max_count /\ p = n)
  BY <1>2 DEF Rolling
<1>5. /\ 0 \in DOMAIN files /\ Len(files[0]) >= MaxSize
      /\ Spans /\ Aged(h) /\ Newest = Start(0)
  BY <1>1, <1>2 DEF AgeInv, Grown, Newest
<1>6. \A u \in Thread : pc'[u] = "roll" => u = t
  BY <1>1, Others DEF Roll, Go, FileTypeOK, TypeOK
<1> HIDE DEF p, old
<1>7. ASSUME NEW m, NEW g, Archived(m, g)', 0 \in DOMAIN files', files'[0] = files[0],
             \A k \in DOMAIN files' \ {0} : \E j \in DOMAIN files \ {0} :
                 files'[k] = files[j] /\ Nth(g, k) = Nth(h, j)
      PROVE  AgeInv'
  <2>1. ASSUME NEW k, NEW j, files'[k] = files[j] PROVE Start(k)' = Start(j)
    BY <1>1, <2>1 DEF Start
  <2>2. Start(0)' = Start(0) /\ Newest' = Newest
    BY <1>5, <1>7, <2>1 DEF Newest
  <2>3. Spans'
    <3> SUFFICES ASSUME NEW k \in DOMAIN files' PROVE Start(k)' + Len(files'[k]) <= written
      BY <1>1 DEF Spans
    <3>1. PICK j \in DOMAIN files : files'[k] = files[j]
      BY <1>5, <1>7
    <3>2. Start(j) + Len(files[j]) <= written
      BY <1>5 DEF Spans
    <3>3. QED BY <2>1, <3>1, <3>2
  <2>4. Grown'
    BY <1>5, <1>6, <1>7 DEF Grown
  <2>5. Newest' >= Newest
    BY <2>2, StartType
  <2>6. ASSUME NEW k \in DOMAIN files' \ {0}
        PROVE  \E j \in DOMAIN files \ {0} :
                   Start(k)' = Start(j) /\ Len(files'[k]) >= Len(files[j]) /\ Nth(g, k) = Nth(h, j)
    <3>1. PICK j \in DOMAIN files \ {0} : files'[k] = files[j] /\ Nth(g, k) = Nth(h, j)
      BY <1>7
    <3>2. Start(k)' = Start(j) /\ Len(files[j]) \in Nat
      BY <2>1, <3>1, StartType
    <3>3. QED BY <3>1, <3>2
  <2>7. QED BY <1>2, <1>7, <2>3, <2>4, <2>5, <2>6, AgeFrame
<1>8. CASE UNCHANGED files
  <2>1. Grown'
    BY <1>5, <1>6, <1>8 DEF Grown
  <2>2. QED BY <1>1, <1>8, <2>1, AgeSame
<1>9. CASE TooOld(p) /\ files' = Removed(old)
  <2>1. max_count > 0 /\ p = n /\ n = max_count
    BY <1>1, <1>3, <1>4, <1>9 DEF TooOld
  <2>2. DOMAIN files' = DOMAIN files \ {old} /\ \A k \in DOMAIN files' : files'[k] = files[k]
    BY <1>9 DEF Removed
  <2>3. old # 0 /\ 0 \in DOMAIN files' /\ files'[0] = files[0]
    BY <1>1, <1>3, <1>5, <2>1, <2>2
  <2>4. PICK m \in Nat : m = n - 1
    BY <1>1, <2>1
  <2>5. CASE h = n + 1
    <3>1. DOMAIN files' \ {0} = (1..(m + 1)) \ {n} /\ n \in 1..(m + 1)
      BY <1>3, <2>1, <2>2, <2>4, <2>5
    <3>2. Archived(m, n)'
      BY <2>4, <3>1 DEF Archived
    <3>3. \A k \in DOMAIN files' \ {0} : k \in DOMAIN files \ {0} /\ files'[k] = files[k] /\ Nth(n, k) = Nth(h, k)
      BY <1>3, <2>2, <2>4, <2>5, <3>1 DEF Nth
    <3>4. QED BY <1>7, <2>3, <3>2, <3>3
  <2>6. CASE h <= n
    <3>1. DOMAIN files' \ {0} = (1..(m + 1)) \ {h} /\ h \in 1..(m + 1)
      BY <1>3, <2>1, <2>2, <2>4, <2>6
    <3>2. Archived(m, h)'
      BY <2>4, <3>1 DEF Archived
    <3>3. \A k \in DOMAIN files' \ {0} : k \in DOMAIN files \ {0} /\ files'[k] = files[k]
      BY <2>2
    <3>4. QED BY <1>7, <2>3, <3>2, <3>3
  <2>7. QED BY <1>3, <2>5, <2>6
<1>10. CASE files' = Renamed(old, p + 1) /\ Go(t, IF p = 0 THEN "close" ELSE "roll")
  <2>1. /\ DOMAIN files' = (DOMAIN files \ {old}) \cup {p + 1}
        /\ \A k \in DOMAIN files' : files'[k] = IF k = p + 1 THEN files[old] ELSE files[k]
    BY <1>10 DEF Renamed
  <2>2. CASE p >= h
    <3>1. DOMAIN files' = DOMAIN files /\ \A k \in DOMAIN files' : files'[k] = files[k]
      BY <1>3, <2>1, <2>2
    <3>2. Archived(n, h)'
      BY <1>2, <3>1 DEF Archived
    <3>3. QED BY <1>5, <1>7, <3>1, <3>2
  <2>3. CASE p < h /\ 1 <= p
    <3>1. h = p + 1 /\ old = p /\ p \in 1..(n + 1)
      BY <1>3, <2>3
    <3>2. PICK g : g = p
      OBVIOUS
    <3>3. DOMAIN files' \ {0} = (1..(n + 1)) \ {g} /\ 0 \in DOMAIN files' /\ files'[0] = files[0]
      BY <1>3, <1>5, <2>1, <3>1, <3>2
    <3>4. Archived(n, g)'
      BY <1>3, <3>1, <3>2, <3>3 DEF Archived
    <3>5. ASSUME NEW k \in DOMAIN files' \ {0}
          PROVE  \E j \in DOMAIN files \ {0} : files'[k] = files[j] /\ Nth(g, k) = Nth(h, j)
      <4>1. CASE k = g + 1
        <5>1. g \in DOMAIN files \ {0} /\ files'[k] = files[g]
          BY <1>3, <2>1, <3>1, <3>2, <4>1
        <5>2. Nth(g, k) = g /\ Nth(h, g) = g
          BY <1>3, <3>1, <3>2, <4>1 DEF Nth
        <5>3. QED BY <5>1, <5>2
      <4>2. CASE k # g + 1
        <5>1. k \in DOMAIN files \ {0} /\ files'[k] = files[k]
          BY <2>1, <3>2, <4>2
        <5>2. k # g /\ k \in Nat
          BY <1>3, <3>3
        <5>3. Nth(g, k) = Nth(h, k)
          BY <1>3, <3>1, <3>2, <4>2, <5>2 DEF Nth
        <5>4. QED BY <5>1, <5>3
      <4>3. QED BY <4>1, <4>2
    <3>6. QED BY <1>7, <3>3, <3>4, <3>5
  <2>4. CASE p = 0
    <3>1. h = 1 /\ old = 0
      BY <1>3, <2>4
    <3>2. /\ DOMAIN files' = 1..(n + 1)
          /\ files'[1] = files[0]
          /\ \A k \in 2..(n + 1) : k \in DOMAIN files \ {0} /\ files'[k] = files[k]
      BY <1>3, <2>1, <2>4, <3>1
    <3>3. /\ Start(1)' = Start(0)
          /\ \A k \in 2..(n + 1) : Start(k)' = Start(k)
          /\ Newest' = written
      BY <1>1, <3>2 DEF Start, Newest
    <3>4. PICK m \in Nat, g \in Nat : m = n + 1 /\ g = n + 2
      BY <1>3
    <3>5. DOMAIN files' \ {0} = (1..(m + 1)) \ {g}
      BY <1>3, <3>2, <3>4
    <3>6. Archived(m, g)'
      <4>1. g \in 1..(m + 1)
        BY <1>3, <3>4
      <4>2. QED BY <3>4, <3>5, <4>1 DEF Archived
    <3>7. /\ Start(0) \in Nat /\ Len(files[0]) \in Nat /\ Start(0) + Len(files[0]) <= written
          /\ Start(0) + MaxSize <= written /\ Len(files[0]) > 0
      <4>1. Start(0) \in Nat /\ Len(files[0]) \in Nat /\ Start(0) + Len(files[0]) <= written
        BY <1>5, StartType DEF Spans
      <4>2. PICK b \in Nat, l \in Nat : b = Start(0) /\ l = Len(files[0])
        BY <4>1
      <4>3. MaxSize \in Nat /\ MaxSize > 0 /\ l >= MaxSize /\ b + l <= written
        BY <1>5, <4>1, <4>2, SpanIs
      <4>4. b + MaxSize <= written /\ l > 0
        BY <1>1, <4>3
      <4>5. QED BY <4>1, <4>2, <4>4
    <3>8. ASSUME NEW k \in 2..(n + 1)
          PROVE  /\ Len(files'[k]) > 0 /\ Start(k)' + Span(k) <= written
                 /\ Start(k)' + Len(files'[k]) <= written
      <4>1. k \in DOMAIN files \ {0} /\ files'[k] = files[k] /\ Start(k)' = Start(k)
        BY <3>2, <3>3
      <4>2. Len(files[k]) > 0 /\ Start(k) + Span(Nth(h, k)) <= Start(0)
        BY <1>5, <4>1 DEF Aged
      <4>3. PICK i \in Nat : i = k - 1
        OBVIOUS
      <4>4. Nth(h, k) = i
        BY <3>1, <4>3 DEF Nth
      <4>5. Span(i) \in Nat /\ Span(k) = Span(i) + MaxSize /\ MaxSize \in Nat
        <5>1. k = i + 1
          BY <4>3
        <5>2. QED BY <5>1, SpanIs
      <4>6. Start(k) \in Nat
        BY <4>1, StartType
      <4>7. Start(k) + Span(k) <= written
        BY <1>1, <3>7, <4>2, <4>4, <4>5, <4>6
      <4>8. Start(k) + Len(files[k]) <= written
        BY <1>5, <4>1 DEF Spans
      <4>9. QED BY <4>1, <4>2, <4>7, <4>8
    <3>9. Spans'
      BY <1>1, <3>2, <3>3, <3>7, <3>8 DEF Spans
    <3>10. Grown'
      <4>1. pc'[t] = "close"
        BY <1>10, <2>4 DEF Go, FileTypeOK, TypeOK
      <4>2. QED BY <1>6, <4>1 DEF Grown
    <3>11. ASSUME NEW k \in DOMAIN files' \ {0}
           PROVE  Len(files'[k]) > 0 /\ Start(k)' + Span(Nth(g, k)) <= Newest'
      <4>1. k \in 1..(n + 1) /\ Nth(g, k) = k
        BY <1>3, <3>2, <3>4 DEF Nth
      <4>2. CASE k = 1
        <5>1. Span(1) = MaxSize
          <6>1. Span(0 + 1) = Span(0) + MaxSize /\ Span(0) = 0 /\ MaxSize \in Nat
            BY SpanIs
          <6>2. QED BY <6>1
        <5>2. QED BY <3>2, <3>3, <3>7, <4>1, <4>2, <5>1
      <4>3. CASE k # 1
        BY <3>3, <3>8, <4>1, <4>3
      <4>4. QED BY <4>2, <4>3
    <3>12. Aged(g)'
      BY <3>11 DEF Aged
    <3>13. QED BY <3>6, <3>9, <3>10, <3>12, AgeAll DEF AgeInv
  <2>5. QED BY <1>3, <2>2, <2>3, <2>4
<1>11. QED BY <1>8, <1>9, <1>10 DEF Roll, p, old

-----------------------------------------------------------------------------
(* The invariant holds in every state.                                     *)

ZlogInv == LockInv /\ FileTypeOK /\ FileInv /\ FdInv /\ KeptInv

LEMMA InitZlogInv == Init => ZlogInv
<1> SUFFICES ASSUME Init PROVE ZlogInv
  OBVIOUS
<1>1. LockInv
  BY InitLockInv
<1>2. FileTypeOK
  <2>1. << >> \in Seq(Nat) /\ 0 \in Nat
    OBVIOUS
  <2>2. DOMAIN files = {0} /\ files \in [DOMAIN files -> Seq(Nat)]
    BY <2>1 DEF Init
  <2>3. LockTypeOK
    BY <1>1 DEF LockInv
  <2>4. list \in [Thread -> Seq(Nat)] /\ handle \in [Thread -> Handles]
    BY <2>1 DEF Init, Handles
  <2>5. max_count \in MaxCounts /\ static_fd = 0 /\ recorded = {} /\ faults = 0
    BY DEF Init
  <2>6. 0 \in 0..MaxFaults
    BY ZlogAssumption
  <2>7. \A t \in Thread : pc[t] # "roll"
    BY DEF Init
  <2>8. HistoryType
    BY DEF Init, HistoryType
  <2>9. QED BY <2>1, <2>2, <2>3, <2>4, <2>5, <2>6, <2>7, <2>8
           DEF FileTypeOK, TypeOK, LockTypeOK, Handles, HistoryType
<1>3. FileInv
  <2>1. DOMAIN files = {0}
    BY DEF Init
  <2>2. Archived(0, 1)
    BY <2>1 DEF Archived
  <2>3. max_count > 0 => 0 <= max_count
    BY ZlogAssumption DEF Init
  <2>4. \A t \in Thread : pc[t] # "roll"
    BY DEF Init
  <2>5. QED BY <2>2, <2>3, <2>4 DEF FileInv
<1>4. FdInv
  BY DEF Init, FdInv
<1>5. KeptInv
  <2>1. files = [n \in {0} |-> << >>] /\ written = 0 /\ missing = {} /\ static_fd = 0
    BY DEF Init
  <2>2. Messages = {} /\ Sorted
    BY <2>1 DEF Messages, Range, Sorted
  <2>3. Since(0)
    BY <2>1, <2>2 DEF Since
  <2>4. NewestInv
    BY <2>1 DEF NewestInv
  <2>5. QED BY <2>2, <2>3, <2>4, LogKeptIs DEF KeptInv
<1>6. QED BY <1>1, <1>2, <1>3, <1>4, <1>5 DEF ZlogInv

LEMMA NextZlogInv == ZlogInv /\ [Next]_vars => ZlogInv'
<1> SUFFICES ASSUME ZlogInv, [Next]_vars PROVE ZlogInv'
  OBVIOUS
<1> USE DEF ZlogInv
<1>1. LockInv'
  BY NextLockInv
<1>2. LockTypeOK'
  BY <1>1 DEF LockInv
<1>3. ASSUME NEW t \in Thread, Log(t) \/ Step(t) PROVE FileTypeOK' /\ FileInv'
  <2>1. CASE \/ Log(t) \/ Enter(t) \/ Upgrade(t) \/ Create(t) \/ Load(t) \/ Size(t)
             \/ TryLock(t) \/ Unlock(t)
    <3>1. FileTypeOK' /\ NotRolled /\ UNCHANGED <<files, max_count>>
      BY <1>2, <2>1, VdzlogType
    <3>2. QED BY <3>1, SameArchives
  <2>2. CASE Write(t)
    BY <1>2, <2>2, WriteType, SameArchives
  <2>3. CASE List(t)
    <3>1. /\ FileTypeOK' /\ UNCHANGED <<files, max_count>>
          /\ \/ NotRolled
             \/ /\ 0 \in DOMAIN files
                /\ pc' = [pc EXCEPT ![t] = "roll"] /\ list' = [list EXCEPT ![t] = Listed]
      BY <1>2, <2>3, ListType
    <3>2. pc[t] = "list"
      BY <2>3 DEF List
    <3>3. QED BY <3>1, <3>2, SameArchives, ListFileInv
  <2>4. CASE Roll(t)
    BY <1>2, <2>4, RollType, RollFileInv
  <2>5. CASE Close(t) \/ Open(t)
    BY <1>2, <2>5, CloseOpenType, SameArchives
  <2>6. QED BY <1>3, <2>1, <2>2, <2>3, <2>4, <2>5 DEF Step
<1>4. CASE \E t \in Thread : Log(t) \/ Step(t)
  BY <1>1, <1>3, <1>4, FdStep, NextKept
<1>5. CASE Fini \/ Restart \/ UNCHANGED vars
  <2>1. FileTypeOK' /\ FileInv'
    BY <1>2, <1>5, EndType, SameArchives
  <2>2. FdInv'
    BY <1>5 DEF Fini, Restart, vars, local, FdInv
  <2>3. QED BY <1>1, <2>1, <2>2, NextKept
<1>6. QED BY <1>4, <1>5 DEF Next

LEMMA ZlogInvariant == Spec => []ZlogInv
BY InitZlogInv, NextZlogInv, PTL DEF Spec

LEMMA InitAge == Init => AgeInv
<1> SUFFICES ASSUME Init PROVE AgeInv
  OBVIOUS
<1>1. files = [n \in {0} |-> << >>] /\ written = 0 /\ \A t \in Thread : pc[t] # "roll"
  BY DEF Init
<1>2. DOMAIN files = {0} /\ files[0] = << >> /\ Len(<< >>) = 0
  BY <1>1, LenProperties
<1>3. Spans
  BY <1>1, <1>2 DEF Spans, Start
<1>4. Grown
  BY <1>1 DEF Grown
<1>5. \A h : Aged(h)
  BY <1>2 DEF Aged
<1>6. QED BY <1>3, <1>4, <1>5 DEF AgeInv

LEMMA NextAge ==
    ASSUME ZlogInv, AgeInv, [Next]_vars
    PROVE  AgeInv'
<1>1. ZlogInv'
  BY NextZlogInv
<1>2. LockInv /\ FileTypeOK /\ FileInv /\ FileTypeOK' /\ LockTypeOK'
  BY <1>1 DEF ZlogInv, LockInv
<1>3. ASSUME NotRolled, UNCHANGED files, written' \in {written, written + 1} PROVE AgeInv'
  <2>1. Grown'
    BY <1>3 DEF NotRolled, AgeInv, Grown
  <2>2. QED BY <1>2, <1>3, <2>1, AgeSame
<1>4. ASSUME NEW t \in Thread,
             \/ Log(t) \/ Enter(t) \/ Upgrade(t) \/ Create(t) \/ Load(t) \/ Size(t)
             \/ TryLock(t) \/ Unlock(t)
      PROVE  AgeInv'
  <2>1. NotRolled
    BY <1>2, <1>4, VdzlogType
  <2>2. UNCHANGED <<files, written>>
    BY <1>4 DEF Log, Enter, Upgrade, Create, Load, Size, TryLock, Unlock
  <2>3. QED BY <1>3, <2>1, <2>2
<1>5. ASSUME NEW t \in Thread, Write(t) PROVE AgeInv'
  <2>1. NotRolled
    BY <1>2, <1>5, WriteType
  <2>2. written' = written + 1
    BY <1>5 DEF Write
  <2>3. CASE UNCHANGED files
    BY <1>3, <2>1, <2>2, <2>3
  <2>4. CASE static_fd \notin Shut /\ files' = [files EXCEPT ![static_fd] = Append(@, written)]
    BY <1>2, <2>1, <2>2, <2>4, AgeWrite
  <2>5. QED BY <1>5, <2>3, <2>4 DEF Write, Lose
<1>6. ASSUME NEW t \in Thread, List(t) PROVE AgeInv'
  <2>1. UNCHANGED <<files, written>>
    BY <1>6 DEF List
  <2>2. CASE 0 \in DOMAIN files /\ Len(files[0]) + 1 > MaxSize
    <3>1. Len(files[0]) >= MaxSize
      BY <1>2, <2>2, StartType, SpanIs
    <3>2. Grown'
      BY <2>1, <2>2, <3>1 DEF Grown
    <3>3. QED BY <1>2, <2>1, <3>2, AgeSame
  <2>3. CASE ~(0 \in DOMAIN files /\ Len(files[0]) + 1 > MaxSize)
    <3>1. pc' = [pc EXCEPT ![t] = "unlock"] /\ UNCHANGED list
      BY <1>6, <2>3 DEF List, Go
    <3>2. pc \in [Thread -> Places]
      BY <1>2 DEF LockInv, LockTypeOK
    <3>3. NotRolled
      BY <3>1, <3>2 DEF NotRolled
    <3>4. QED BY <1>3, <2>1, <3>3
  <2>4. QED BY <2>2, <2>3
<1>7. ASSUME NEW t \in Thread, Close(t) \/ Open(t) PROVE AgeInv'
  <2>1. NotRolled /\ UNCHANGED written
    BY <1>2, <1>7, CloseOpenType DEF Close, Open
  <2>2. CASE UNCHANGED files
    BY <1>3, <2>1, <2>2
  <2>3. CASE files' = [n \in DOMAIN files \cup {0} |-> IF n \in DOMAIN files THEN files[n] ELSE << >>]
    BY <1>2, <2>1, <2>3, AgeOpen
  <2>4. QED BY <1>7, <2>2, <2>3 DEF Close, Open
<1>8. CASE Fini \/ UNCHANGED vars
  <2>1. NotRolled /\ UNCHANGED <<files, written>>
    BY <1>2, <1>8, EndType DEF Fini, vars
  <2>2. QED BY <1>3, <2>1
<1>9. CASE Restart
  <2>1. NotRolled
    BY <1>2, <1>9, EndType
  <2>2. QED BY <1>2, <1>9, <2>1, AgeOpen DEF Restart
<1>10. ASSUME NEW t \in Thread, Roll(t) PROVE AgeInv'
  BY <1>2, <1>10, AgeRoll
<1>11. QED BY <1>4, <1>5, <1>6, <1>7, <1>8, <1>9, <1>10 DEF Next, Step

LEMMA AgeInvariant == Spec => []AgeInv
<1>1. Init => AgeInv
  BY InitAge
<1>2. ZlogInv /\ AgeInv /\ [Next]_vars => AgeInv'
  BY NextAge
<1>3. QED BY <1>1, <1>2, ZlogInvariant, PTL DEF Spec

\* What is removed is the oldest, and archive_max_count files that had grown
\* to the limit are left.
LEMMA RemovalDrops ==
    ASSUME ZlogInv, ZlogInv', AgeInv, NEW t \in Thread, Removal(t), UNCHANGED max_count
    PROVE  UNCHANGED Messages \/ L!DropOldest
<1> DEFINE p   == Place(t)
           old == Old(t)
<1>1. /\ pc[t] = "roll" /\ TooOld(p) /\ files' = Removed(old)
      /\ UNCHANGED <<written, missing, max_count>> /\ FileTypeOK /\ max_count \in Nat /\ written \in Nat
  BY ZlogAssumption DEF Removal, ZlogInv, FileTypeOK, TypeOK
<1>2. PICK n, h : Archived(n, h) /\ Rolling(t, n, h)
  BY <1>1 DEF ZlogInv, FileInv
<1>3. /\ n \in Nat /\ h \in 1..(n + 1) /\ p \in 0..n /\ old = Name(h, p)
      /\ DOMAIN files = (0..(n + 1)) \ {h}
  BY <1>1, <1>2, RollHasRoom
<1>4. max_count > 0 => n < max_count \/ (n = max_count /\ p = n)
  BY <1>2 DEF Rolling
<1> HIDE DEF p, old
<1>5. n = max_count /\ n > 0 /\ p = n
  BY <1>1, <1>3, <1>4 DEF TooOld
<1>6. PICK i \in Nat : n = i + 1
  BY <1>3, <1>5
<1>7. PICK last : last = Name(h, i)
  OBVIOUS
<1>8. /\ last \in DOMAIN files' /\ files'[last] = files[last] /\ last \in DOMAIN files
      /\ last # 0 => Nth(h, last) = i
      /\ last = 0 => i = 0
  <2>1. last \in DOMAIN files /\ last # old
    BY <1>3, <1>5, <1>6, <1>7 DEF Name
  <2>2. last # 0 => Nth(h, last) = i
    BY <1>3, <1>6, <1>7 DEF Name, Nth
  <2>3. last = 0 => i = 0
    BY <1>3, <1>6, <1>7 DEF Name
  <2>4. QED BY <1>1, <2>1, <2>2, <2>3 DEF Removed
<1>9. /\ Start(last) \in Nat /\ Len(files[last]) \in Nat /\ Len(files[last]) > 0
      /\ Start(last) + Span(n) <= written
  <2>1. 0 \in DOMAIN files /\ Len(files[0]) >= MaxSize /\ Start(0) + Len(files[0]) <= written
    BY <1>1 DEF AgeInv, Grown, Spans
  <2>2. PICK b \in Nat, l \in Nat : b = Start(0) /\ l = Len(files[0])
    BY <1>1, <2>1, StartType
  <2>3. MaxSize \in Nat /\ MaxSize > 0 /\ Span(i) \in Nat /\ Span(n) = Span(i) + MaxSize /\ Span(0) = 0
    BY <1>6, SpanIs
  <2>4. l > 0 /\ b + MaxSize <= written
    BY <1>1, <2>1, <2>2, <2>3
  <2>5. Start(last) \in Nat /\ Len(files[last]) \in Nat
    BY <1>1, <1>8, StartType
  <2>6. CASE last = 0
    <3>1. Span(n) = MaxSize
      BY <1>8, <2>3, <2>6
    <3>2. QED BY <2>2, <2>4, <2>5, <2>6, <3>1
  <2>7. CASE last # 0
    <3>1. Len(files[last]) > 0 /\ Start(last) + Span(i) <= b
      BY <1>2, <1>8, <2>1, <2>2, <2>7 DEF AgeInv, Aged, Newest
    <3>2. QED BY <1>1, <2>3, <2>4, <2>5, <3>1
  <2>8. QED BY <2>6, <2>7
<1>10. Start(last) \in Messages'
  <2>1. Start(last) = files'[last][1] /\ 1 \in DOMAIN files'[last]
    <3>1. DOMAIN files[last] = 1..Len(files[last])
      BY <1>1, <1>8, MessageType
    <3>2. 1 \in DOMAIN files[last] /\ Start(last) = files[last][1]
      BY <1>9, <3>1 DEF Start
    <3>3. QED BY <1>8, <3>2
  <2>2. QED BY <1>8, <2>1 DEF Messages, Range
<1>11. PICK from : from \in 0..written /\ Messages = (from..(written - 1)) \ missing
  BY LogKeptIs DEF ZlogInv, KeptInv, Since
<1>12. PICK first : first \in 0..written /\ Messages' = (first..(written - 1)) \ missing
  <2>1. PICK first \in 0..written' : Messages' = (first..(written' - 1)) \ missing'
    BY DEF ZlogInv, KeptInv, LogKept
  <2>2. QED BY <1>1, <2>1
<1>13. Messages' \subseteq Messages
  BY <1>1 DEF Messages, Removed, Range
<1>14. first + Span(n) <= written
  <2>1. first <= Start(last)
    BY <1>9, <1>10, <1>12
  <2>2. Span(n) \in Nat
    BY <1>3, SpanIs
  <2>3. QED BY <1>1, <1>9, <1>12, <2>1, <2>2
<1>15. CASE first <= from
  <2>1. Messages' = Messages
    BY <1>1, <1>11, <1>12, <1>13, <1>15
  <2>2. QED BY <2>1
<1>16. CASE first > from
  <2>1. Messages' = {m \in Messages : m >= first}
    BY <1>1, <1>11, <1>12, <1>16
  <2>2. first \in 1..written
    BY <1>1, <1>11, <1>12, <1>16
  <2>3. max_count * MaxSize = Span(n) /\ Span(n) > 0
    <3>1. Span(n) = Span(i) + MaxSize /\ Span(i) \in Nat /\ MaxSize \in Nat /\ MaxSize > 0
      BY <1>6, SpanIs
    <3>2. max_count * MaxSize = Span(n)
      BY <1>5 DEF Span
    <3>3. QED BY <3>1, <3>2
  <2>4. QED BY <1>1, <1>14, <2>1, <2>2, <2>3 DEF L!DropOldest
<1>17. QED BY <1>1, <1>11, <1>12, <1>15, <1>16

LEMMA LogStep ==
    ASSUME ZlogInv, AgeInv, [Next]_vars
    PROVE  [L!Next]_<<Messages, written, max_count * MaxSize>>
<1>1. ZlogInv'
  BY NextZlogInv
<1>2. UNCHANGED max_count
  BY DEF Next, Step, Log, Enter, Upgrade, Create, Load, Write, Size, TryLock, List, Roll, Close, Open,
         Unlock, Fini, Restart, vars
<1>3. UNCHANGED (max_count * MaxSize)
  BY <1>2
<1>4. SameMessages \/ NextMessage \/ LostMessage \/ \E t \in Thread : Removal(t)
  BY NextKept DEF ZlogInv
<1>5. CASE SameMessages
  BY <1>3, <1>5 DEF SameMessages
<1>6. CASE NextMessage
  BY <1>3, <1>6 DEF NextMessage, L!Next, L!Write
<1>7. ASSUME NEW t \in Thread, Removal(t) PROVE UNCHANGED <<Messages, written>> \/ L!DropOldest
  BY <1>1, <1>2, <1>7, RemovalDrops DEF Removal
<1>8. CASE LostMessage
  BY <1>3, <1>8 DEF LostMessage, L!Next, L!Lose
<1>9. QED BY <1>3, <1>4, <1>5, <1>6, <1>7, <1>8 DEF L!Next

\* What is to come of a message late: the thread is about to use a handle that
\* was closed before the file was opened again.
LateInv ==
    \A t \in Thread :
        /\ late[t] \in {0, 1}
        /\ handle[t] \in {"stale", "invalid"} /\ static_fd \notin Shut => late[t] = 0

LEMMA InitLate == Init => LateInv
BY DEF Init, LateInv, None

LEMMA NextLate ==
    ASSUME ZlogInv, LateInv, [Next]_vars
    PROVE  LateInv'
<1>1. /\ late \in [Thread -> Nat] /\ handle \in [Thread -> Handles]
      /\ static_fd \in Shut \cup DOMAIN files /\ DOMAIN files \subseteq Nat
  BY RestTypeIs DEF ZlogInv, FileTypeOK, TypeOK, HistoryType
<1>2. ASSUME UNCHANGED <<late, handle, static_fd>> PROVE LateInv'
  BY <1>2 DEF LateInv
<1>3. ASSUME NEW t \in Thread,
             \/ Log(t) \/ Enter(t) \/ Upgrade(t) \/ Create(t) \/ Size(t)
             \/ TryLock(t) \/ Unlock(t) \/ List(t)
      PROVE  LateInv'
  BY <1>2, <1>3 DEF Log, Enter, Upgrade, Create, Size, TryLock, Unlock, List
<1>4. ASSUME NEW t \in Thread, Load(t) PROVE LateInv'
  <2>1. UNCHANGED <<late, static_fd>> /\ \A u \in Thread : u # t => handle'[u] = handle[u]
    BY <1>4 DEF Load
  <2>2. static_fd \notin Shut => handle'[t] = "valid"
    BY <1>1, <1>4 DEF Load
  <2>3. QED BY <2>1, <2>2 DEF LateInv
<1>5. ASSUME NEW t \in Thread, Write(t) PROVE LateInv'
  <2>1. UNCHANGED static_fd /\ handle' = [handle EXCEPT ![t] = None]
    BY <1>5 DEF Write
  <2>2. CASE UNCHANGED late
    BY <1>1, <2>1, <2>2 DEF LateInv, None
  <2>3. CASE handle[t] \in {"stale", "invalid"} /\ Lose(t)
    BY <1>1, <2>1, <2>3 DEF LateInv, None, Lose
  <2>4. QED BY <1>5, <2>2, <2>3 DEF Write
<1>6. ASSUME NEW t \in Thread, Roll(t) PROVE LateInv'
  <2>1. UNCHANGED <<late, handle>>
    BY <1>6 DEF Roll
  <2>2. Old(t) \in Nat
    <3>1. list[t] \in Seq(Nat) /\ list[t] # << >>
      BY <1>6 DEF Roll, ZlogInv, FileTypeOK, TypeOK
    <3>2. QED BY <3>1, FrontLast DEF Old
  <2>3. static_fd' \notin Shut => static_fd \notin Shut
    BY <1>6, <2>2 DEF Roll
  <2>4. QED BY <2>1, <2>3 DEF LateInv
<1>7. ASSUME NEW t \in Thread, Close(t) PROVE LateInv'
  BY <1>7 DEF Close, LateInv
<1>8. ASSUME NEW t \in Thread, Open(t) PROVE LateInv'
  BY <1>8 DEF Open, LateInv
<1>9. CASE Fini \/ UNCHANGED vars
  BY <1>2, <1>9 DEF Fini, vars, local
<1>10. CASE Restart
  BY <1>10 DEF Restart, LateInv
<1>11. QED BY <1>3, <1>4, <1>5, <1>6, <1>7, <1>8, <1>9, <1>10 DEF Next, Step

\* The state of the log has its types; in particular the handle is closed or
\* open on a file that is there (rotater.c 353-430, rule.c 259-273).
THEOREM ZlogTypeCorrect == Spec => []TypeOK
<1>1. ZlogInv => TypeOK
  BY DEF ZlogInv, FileTypeOK
<1>2. QED BY <1>1, ZlogInvariant, PTL

\* However often a roll is broken off, by an error or a crash, no more than
\* archive_max_count archives are left behind (rotater.c 370).
THEOREM ArchivesBounded == Spec => []AtMostMaxCount
<1>1. ZlogInv => AtMostMaxCount
  BY ArchiveCount DEF ZlogInv, FileInv, AtMostMaxCount
<1>2. QED BY <1>1, ZlogInvariant, PTL

\* A roll finds the next name free, for the one hole a broken roll leaves is
\* where it begins to rename (rotater.c 380-409).
THEOREM RenamesFindRoom == Spec => []RenameFindsRoom
<1>1. ZlogInv => RenameFindsRoom
  <2> SUFFICES ASSUME ZlogInv, NEW t \in Thread, pc[t] = "roll"
               PROVE  Old(t) = Place(t) + 1 \/ Place(t) + 1 \notin DOMAIN files
    BY DEF RenameFindsRoom
  <2>1. PICK n, h : Archived(n, h) /\ Rolling(t, n, h)
    BY DEF ZlogInv, FileInv
  <2>2. PICK p : p = Place(t)
    OBVIOUS
  <2>3. /\ n \in Nat /\ h \in 1..(n + 1) /\ p \in 0..n
        /\ p >= h => Old(t) = p + 1
        /\ p < h => p + 1 \notin DOMAIN files
    BY <2>1, <2>2, RollHasRoom DEF ZlogInv
  <2>4. Old(t) = p + 1 \/ p + 1 \notin DOMAIN files
    BY <2>3
  <2>5. QED BY <2>2, <2>4
<1>2. QED BY <1>1, ZlogInvariant, PTL

\* When nobody rotates the log is written to the file of its own name, unless
\* that could not be opened again (rotater.c 674-685).
THEOREM WritesGoToTheFile == Spec => []WritesToItsFile
<1>1. ZlogInv => WritesToItsFile
  BY DEF ZlogInv, FdInv, WritesToItsFile
<1>2. QED BY <1>1, ZlogInvariant, PTL

\* The files hold, in their order, every message since the oldest they have
\* that was written to a file of the rule, and without a limit every such
\* message ever, whatever other threads write during a roll and wherever a roll
\* or the process ends (rotater.c 353-430, 633-694).  The others are those
\* given to WriteFile with a handle a roll had closed, or could not open again.
THEOREM LogIsKept == Spec => []LogKept
<1>1. ZlogInv => LogKept
  BY DEF ZlogInv, KeptInv
<1>2. QED BY <1>1, ZlogInvariant, PTL

\* A roll that reopens the file makes each thread lose one message at most
\* after that, the one it was about to write: against rotater.c 648-649 and
\* the closing and opening in 676-685 while others are in rule.c 259-273.
THEOREM OneMessageIsLate == Spec => []OneLateMessage
<1>1. Init => LateInv
  BY InitLate
<1>2. ZlogInv /\ LateInv /\ [Next]_vars => LateInv'
  BY NextLate
<1>3. LateInv => OneLateMessage
  BY DEF LateInv, OneLateMessage
<1>4. QED BY <1>1, <1>2, <1>3, ZlogInvariant, PTL DEF Spec

\* To a reader of the files a step adds the next message or loses it, or drops
\* oldest ones of which the last archive_max_count times archive_max_size are
\* never part, or does nothing; for any number of threads, of broken rolls and of
\* crashes (rotater.c 370-379, 657-662).
THEOREM KeepsTheNewest == Spec => ImplementsLog
<1>1. Init => L!Init
  <2> SUFFICES ASSUME Init PROVE L!Init
    OBVIOUS
  <2>1. files = [n \in {0} |-> << >>] /\ written = 0 /\ max_count \in Nat
    BY ZlogAssumption DEF Init
  <2>2. Messages = {}
    BY <2>1 DEF Messages, Range
  <2>3. max_count * MaxSize \in Nat
    BY <2>1, SpanIs DEF Span
  <2>4. QED BY <2>1, <2>2, <2>3 DEF L!Init
<1>2. ZlogInv /\ AgeInv /\ [Next]_vars => [L!Next]_<<Messages, written, max_count * MaxSize>>
  BY LogStep
<1>3. QED BY <1>1, <1>2, ZlogInvariant, AgeInvariant, PTL DEF Spec, ImplementsLog, L!Spec
=============================================================================
