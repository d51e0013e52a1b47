-------------------------------- MODULE TFDB --------------------------------
(***************************************************************************)
(* The vehicle table kept in SQLite (wxCore/DB.cpp) and the connections    *)
(* the threads hold to it.  Every thread that uses the table owns a TFDB   *)
(* object, hence a connection; all objects open the same database file.    *)
(*                                                                         *)
(* A call of TFDB has one of four outcomes:                                *)
(*   "ok"       every SQLite call succeeded                                *)
(*   "open"     sqlite3_open failed; the object keeps a NULL handle        *)
(*   "prepare"  sqlite3_prepare_v2 failed; the handle is closed, but       *)
(*              CloseDB clears only its own copy of the pointer, so the    *)
(*              object keeps the closed handle and every later call        *)
(*              fails in sqlite3_prepare_v2 (SQLITE_MISUSE)                *)
(*   "step"     sqlite3_step failed (SQLITE_BUSY, I/O, disk full, ...)     *)
(*                                                                         *)
(* A row is what the other components look at: the vehicle it is about     *)
(* (its columns tp1 and tztp name the two pictures of that vehicle) and    *)
(* the status column, 1 = to be uploaded, 0 = uploaded.  The id of a row   *)
(* is its position in the table (AUTOINCREMENT, rows are never deleted).   *)
(***************************************************************************)
EXTENDS Naturals, Sequences

CONSTANTS Image,     \* the vehicles, i.e. base names of the picture files
          Thread,    \* the threads that own a TFDB object
          DbFaults   \* the SQLite failures that may happen

ASSUME DbFaultsAssumption == DbFaults \subseteq {"open", "prepare", "step"}

VARIABLES db,    \* the table: a sequence of rows
          conn   \* conn[t]: "null", "open" or "closed" (dangling)

Row     == [img : Image, status : {0, 1}]
Outcome == {"ok", "open", "prepare", "step"}

TFDBTypeOK ==
    /\ db \in Seq(Row)
    /\ conn \in [Thread -> {"null", "open", "closed"}]

TFDBInit ==
    /\ db = << >>
    /\ conn = [t \in Thread |-> "null"]

-----------------------------------------------------------------------------
\* What a call of thread t may come to: sqlite3_open is only called on a NULL
\* handle, a closed handle fails in sqlite3_prepare_v2 for ever.
Outcomes(t) ==
    IF conn[t] = "closed"
    THEN {"prepare"}
    ELSE {"ok"} \cup { f \in DbFaults : f = "open" => conn[t] = "null" }

\* A failure that was not already bound to happen.
IsFault(t, o) == o # "ok" /\ conn[t] # "closed"

\* Mutation of Handle: the CloseDB calls commented out at lines 103, 192, 306
\* and 346 are made when sqlite3_step fails.
HandleClosedOnStep(t, o) ==
    conn' = [conn EXCEPT ![t] = CASE o = "open"               -> "null"
                                  [] o \in {"prepare", "step"} -> "closed"
                                  [] OTHER                    -> "open"]

\* OpenDB and CloseDB: the handle thread t is left with after outcome o.
Handle(t, o) ==
    conn' = [conn EXCEPT ![t] = CASE o = "open"    -> "null"
                                  [] o = "prepare" -> "closed"
                                  [] OTHER         -> "open"]

Recorded(i) == \E k \in DOMAIN db : db[k].img = i

\* Mutation of CheckImageExist: an error reads as `not there'.
ErrorIsAbsent(i, o) == o = "ok" /\ Recorded(i)

\* CheckImageExist returns `-1', which is `true', on every error.
CheckImageExist(i, o) == o = "ok" => Recorded(i)

Add(i, o) ==
    db' = IF o = "ok" THEN Append(db, [img |-> i, status |-> 1]) ELSE db

\* Mutation of Unsent: `where status=1' is missing.
AllRows == DOMAIN db

\* The ids Query may return: the rows with status 1; a scan that ends with an
\* error in sqlite3_step returns the rows it had read so far.
Unsent == { k \in DOMAIN db : db[k].status = 1 }

Query(o) ==
    CASE o = "ok"   -> { Unsent }
      [] o = "step" -> { { k \in Unsent : k < n } : n \in 1..(Len(db) + 1) }
      [] OTHER      -> { {} }

\* Mutation of Uploaded: the wrong value is written.
UploadedIsTwo(id, o) ==
    db' = IF o = "ok" /\ id \in DOMAIN db THEN [db EXCEPT ![id].status = 2] ELSE db

\* An id that names no row changes nothing.
Uploaded(id, o) ==
    db' = IF o = "ok" /\ id \in DOMAIN db THEN [db EXCEPT ![id].status = 0] ELSE db
=============================================================================
