------------------------------ MODULE Pipeline ------------------------------
(***************************************************************************)
(* The upload pipeline of wx_kk_up/wx_kk_upDlg.cpp.  A camera puts the     *)
(* pictures of a vehicle in a folder through an FTP server.  Four threads  *)
(* of one process take them from there to the traffic server:              *)
(*   ThreadWatcher              is told by the OS of files written to the  *)
(*                              folder and puts their names in m_images    *)
(*   ThreadProcessLast          lists the folder every ten seconds and     *)
(*                              puts the names it finds in m_images        *)
(*   ThreadProcessWatchedFiles  records the vehicle in the table, then     *)
(*                              moves its pictures to the HTTP folder      *)
(*   ThreadUpload               sends the recorded vehicles to the server  *)
(*                              and marks them uploaded                    *)
(* The process may die at any step and is restarted; files and table       *)
(* survive.  An operation on m_images is one step here, as the mutex that  *)
(* is commented out at lines 614 and 616 would make it, and the threads    *)
(* run for ever (module StartStop has their start and stop).               *)
(***************************************************************************)
EXTENDS TFDB, FiniteSets

CONSTANTS Uploads,      \* the files the camera will put, by <<image, part>>
          WriterShares, \* TRUE: the FTP server opens its files for shared reading
          WxMode,       \* TRUE: systemConfig.runMode is "wx"
          Replies,      \* what the server may answer to a vehicle
          Faults,       \* what else may go wrong: "crash", "late"
          MaxImages,    \* ThreadProcessLast adds a name only below this length
          QueueBound,   \* bound of the model on the length of m_images
          MaxFaults     \* bound of the model on the number of faults

Part == {"pic", "plate"}
Name == Image \X Part

NoId   == 0      \* an id that is in no row
NoText == "none" \* a text that is about no vehicle

ASSUME PipelineAssumption ==
    /\ NoText \notin Image
    /\ Thread = {"proc", "up"}
    /\ Uploads \subseteq Name
    /\ WriterShares \in BOOLEAN
    /\ WxMode \in BOOLEAN
    /\ Replies \subseteq {"OK", "FALIED", "REFUSED", "CONNECT_ERROR"}
    /\ Faults \subseteq {"crash", "late"}
    /\ MaxImages \in Nat
    /\ QueueBound \in Nat
    /\ MaxFaults \in Nat

VARIABLES ftp, http,  \* the two folders: what each holds under a name
          arrived,    \* the names the camera has put (history)
          pending,    \* names in the change buffer of the directory handle
          list,       \* names ThreadProcessLast has listed and not looked at
          images,     \* m_images
          ppc, imagePath,                          \* ThreadProcessWatchedFiles
          upc, listIn, vehicleInfo, id, connected, freed, \* ThreadUpload
          accepted,   \* how many times the server took the text of a vehicle
          pictures,   \* names of the pictures the server was sent
          faults,     \* how many faults have happened
          misread     \* how many reads of a deleted record were wrong (history)

files   == <<ftp, http, arrived>>
watchVars == <<pending, list>>
procVars  == <<ppc, imagePath>>
upVars    == <<upc, listIn, vehicleInfo, id, connected, freed>>
server    == <<accepted, pictures, misread>>
vars == <<db, conn, files, watchVars, images, procVars, upVars, server, faults>>

Content == {"absent", "partial", "complete"}

TypeOK ==
    /\ TFDBTypeOK
    /\ ftp \in [Name -> Content]
    /\ http \in [Name -> Content]
    /\ arrived \subseteq Name
    /\ pending \subseteq Name
    /\ list \subseteq Name
    /\ images \in Seq(Name)
    /\ ppc \in {"idle", "check", "add", "recheck", "copyPic", "delPic",
                "recheckPlate", "copyPlate", "delPlate"}
    /\ imagePath \in Image \cup {"none"}
    /\ upc \in {"query", "connect", "send", "mark"}
    /\ listIn \subseteq Nat
    /\ vehicleInfo \in Nat
    /\ id \in Nat
    /\ connected \in BOOLEAN
    /\ freed \in BOOLEAN
    /\ accepted \in [Image -> Nat]
    /\ pictures \subseteq Name
    /\ faults \in Nat
    /\ misread \in Nat

Init ==
    /\ TFDBInit
    /\ pending = {} /\ list = {} /\ images = << >>
    /\ ppc = "idle" /\ imagePath = "none"
    /\ upc = "query" /\ listIn = {} /\ vehicleInfo = NoId /\ id = NoId
    /\ connected = FALSE /\ freed = FALSE
    /\ ftp = [n \in Name |-> "absent"]
    /\ http = [n \in Name |-> "absent"]
    /\ arrived = {}
    /\ accepted = [i \in Image |-> 0]
    /\ pictures = {}
    /\ faults = 0 /\ misread = 0

-----------------------------------------------------------------------------
(* The camera and its FTP server.  Names carry the time of passage, so a   *)
(* name is put once.                                                       *)

CameraStarts(n) ==
    /\ n \in Uploads \ arrived
    /\ arrived' = arrived \cup {n}
    /\ ftp' = [ftp EXCEPT ![n] = "partial"]
    /\ pending' = pending \cup {n}
    /\ UNCHANGED <<db, conn, http, list, images, procVars, upVars, server, faults>>

CameraEnds(n) ==
    /\ ftp[n] = "partial"
    /\ ftp' = [ftp EXCEPT ![n] = "complete"]
    /\ pending' = pending \cup {n}
    /\ UNCHANGED <<db, conn, http, arrived, list, images, procVars, upVars, server, faults>>

-----------------------------------------------------------------------------
(* ThreadWatcher.  ReadDirectoryChangesW returns every change buffered     *)
(* since its last call, and the loop looks at the first record only; when  *)
(* that one is about a subfolder nothing is queued.                        *)

Watch ==
    /\ pending # {}
    /\ Len(images) < QueueBound
    /\ pending' = {}
    /\ images' \in { Append(images, n) : n \in pending } \cup { images }
    /\ UNCHANGED <<db, conn, files, list, procVars, upVars, server, faults>>

-----------------------------------------------------------------------------
(* ThreadProcessLast.                                                      *)

ListFiles ==
    /\ list = {}
    /\ list' = { n \in Name : ftp[n] # "absent" }
    /\ UNCHANGED <<db, conn, files, pending, images, procVars, upVars, server, faults>>

\* Mutation of PushListed: the comparison with the limit is the wrong way round.
PushListedAboveLimit(n) ==
    /\ n \in list
    /\ list' = list \ {n}
    /\ images' = IF Len(images) > MaxImages THEN Append(images, n) ELSE images
    /\ UNCHANGED <<db, conn, files, pending, procVars, upVars, server, faults>>

PushListed(n) ==
    /\ n \in list
    /\ list' = list \ {n}
    /\ images' = IF Len(images) < MaxImages THEN Append(images, n) ELSE images
    /\ UNCHANGED <<db, conn, files, pending, procVars, upVars, server, faults>>

-----------------------------------------------------------------------------
\* Something may still go wrong (a bound of the model).
Spare == faults + misread < MaxFaults

\* One call of TFDB by thread t with outcome o: its connection afterwards,
\* and the budget of faults.
DbCall(t, o) ==
    /\ o \in Outcomes(t)
    /\ IsFault(t, o) => Spare
    /\ faults' = IF IsFault(t, o) THEN faults + 1 ELSE faults
    /\ Handle(t, o)

(* ThreadProcessWatchedFiles, one action per access to shared state.       *)

\* Mutation of TakeImage: only the picture is looked for, not the plate.
TakePicture ==
    /\ ppc = "idle"
    /\ images # << >>
    /\ images' = Tail(images)
    /\ imagePath' = Head(images)[1]
    /\ ppc' = IF ftp[<<imagePath', "pic">>] # "absent" THEN "check" ELSE "idle"
    /\ UNCHANGED <<db, conn, files, watchVars, upVars, server, faults>>

\* Pops a name, cuts the suffix of a plate picture off, and goes on if one
\* of the two pictures is there.
TakeImage ==
    /\ ppc = "idle"
    /\ images # << >>
    /\ images' = Tail(images)
    /\ imagePath' = Head(images)[1]
    /\ ppc' = IF \E p \in Part : ftp[<<imagePath', p>>] # "absent"
              THEN "check" ELSE "idle"
    /\ UNCHANGED <<db, conn, files, watchVars, upVars, server, faults>>

CheckRecord(o) ==
    /\ ppc = "check"
    /\ DbCall("proc", o)
    /\ ppc' = IF CheckImageExist(imagePath, o) THEN "recheck" ELSE "add"
    /\ UNCHANGED <<db, files, watchVars, images, imagePath, upVars, server>>

AddRecord(o) ==
    /\ ppc = "add"
    /\ DbCall("proc", o)
    /\ Add(imagePath, o)
    /\ ppc' = "recheck"
    /\ UNCHANGED <<files, watchVars, images, imagePath, upVars, server>>

\* Mutation of Recheck: the pictures are moved without looking at the table.
MoveUnchecked(o) ==
    /\ \/ ppc = "recheck" /\ ppc' = "copyPic"
       \/ ppc = "recheckPlate" /\ ppc' = "copyPlate"
    /\ DbCall("proc", o)
    /\ UNCHANGED <<db, files, watchVars, images, imagePath, upVars, server>>

\* The check before each move: the picture by tp1, the plate by tztp.
Recheck(o) ==
    /\ \/ ppc = "recheck"
          /\ ppc' = IF CheckImageExist(imagePath, o) THEN "copyPic" ELSE "recheckPlate"
       \/ ppc = "recheckPlate"
          /\ ppc' = IF CheckImageExist(imagePath, o) THEN "copyPlate" ELSE "idle"
    /\ DbCall("proc", o)
    /\ UNCHANGED <<db, files, watchVars, images, imagePath, upVars, server>>

\* Mutation of CanCopy: the file is read although its writer holds it.
CopyHeldFile(n) == ftp[n] # "absent" /\ http[n] = "absent"

\* CopyFile fails if the source is missing or held by the FTP server, or if
\* the destination is already there (bFailIfExists).
CanCopy(n) ==
    /\ ftp[n] = "complete" \/ (WriterShares /\ ftp[n] = "partial")
    /\ http[n] = "absent"

Current(p) == <<imagePath, p>>
AfterMove(p) == IF p = "pic" THEN "recheckPlate" ELSE "idle"

\* Mutation of Copy: the result of CopyFile is not looked at.
CopyUnchecked(p) ==
    /\ ppc = (IF p = "pic" THEN "copyPic" ELSE "copyPlate")
    /\ http' = IF CanCopy(Current(p))
               THEN [http EXCEPT ![Current(p)] = ftp[Current(p)]] ELSE http
    /\ ppc' = IF p = "pic" THEN "delPic" ELSE "delPlate"
    /\ UNCHANGED <<db, conn, ftp, arrived, watchVars, images, imagePath, upVars, server, faults>>

Copy(p) ==
    /\ ppc = (IF p = "pic" THEN "copyPic" ELSE "copyPlate")
    /\ IF CanCopy(Current(p))
       THEN /\ http' = [http EXCEPT ![Current(p)] = ftp[Current(p)]]
            /\ ppc' = IF p = "pic" THEN "delPic" ELSE "delPlate"
       ELSE /\ ppc' = AfterMove(p)
            /\ UNCHANGED http
    /\ UNCHANGED <<db, conn, ftp, arrived, watchVars, images, imagePath, upVars, server, faults>>

\* DeleteFile fails while the FTP server holds the file; nobody looks.
Delete(p) ==
    /\ ppc = (IF p = "pic" THEN "delPic" ELSE "delPlate")
    /\ ftp' = IF ftp[Current(p)] = "complete"
              THEN [ftp EXCEPT ![Current(p)] = "absent"] ELSE ftp
    /\ ppc' = AfterMove(p)
    /\ UNCHANGED <<db, conn, http, arrived, watchVars, images, imagePath, upVars, server, faults>>

ProcessWatchedFiles ==
    \/ TakeImage
    \/ \E o \in Outcome : CheckRecord(o) \/ AddRecord(o) \/ Recheck(o)
    \/ \E p \in Part : Copy(p) \/ Delete(p)

-----------------------------------------------------------------------------
(* ThreadUpload.  listIn is read from the table only when it is empty.     *)
(* What the code does with a record depends on the order of listIn in      *)
(* nothing, so listIn is a set of ids.                                     *)

QueryUnsent(o) ==
    /\ upc = "query"
    /\ listIn = {}
    /\ DbCall("up", o)
    /\ listIn' \in Query(o)
    /\ UNCHANGED <<db, files, watchVars, images, procVars, upc, vehicleInfo, id,
                   connected, freed, server>>

\* A record is that of a row, and vehicleInfo the id of the row.
NextVehicle(row) ==
    /\ upc = "query"
    /\ row \in listIn
    /\ listIn' = listIn \ {row}
    /\ vehicleInfo' = row
    /\ freed' = FALSE
    /\ upc' = "connect"
    /\ UNCHANGED <<db, conn, files, watchVars, images, procVars, id, connected, server, faults>>

\* InitTrans succeeds, or there is a connection already.  When InitTrans
\* fails the thread sleeps and calls it again: nothing changes.
Connect ==
    /\ upc = "connect"
    /\ connected' = TRUE
    /\ upc' = "send"
    /\ UNCHANGED <<db, conn, files, watchVars, images, procVars, listIn,
                   vehicleInfo, id, freed, server, faults>>

\* The picture part of UploadInfo.  sprintf(filePath, "%s\\", dir, name) has
\* no conversion for the name: the path looked up is that of the folder, and
\* FindFirstFile finds nothing under a path that ends in a backslash.
PicturesFound(i) ==
    LET filePath(dir, n) == [folder |-> dir, file |-> "nothing"]
        Exists(path)     == /\ path.file \in Name
                            /\ path.folder[path.file] # "absent"
    IN  { n \in {i} \X Part : Exists(filePath(http, n)) \/ Exists(filePath(ftp, n)) }

\* Mutation of AfterReply: a refusal (0) counts as taken.
RefusedIsTaken(reply) ==
    CASE reply \in {"OK", "REFUSED"} -> "mark"
      [] reply = "CONNECT_ERROR"     -> "connect"
      [] OTHER                       -> "query"

\* Where the thread goes with the result of UploadInfo: FALIED and REFUSED
\* leave the row as it is.
AfterReply(reply) ==
    CASE reply = "OK"            -> "mark"
      [] reply = "CONNECT_ERROR" -> "connect"
      [] OTHER                   -> "query"

\* What lines 907-908 read from vehicleInfo: the id and the text.  After a
\* connection error the thread goes back to connect with a record deleted at
\* line 910.  The id, its first field, and the text are then each as they
\* were, another row's, or nothing's: the heap may have written over either.
Reads(row, text) ==
    IF freed
    THEN /\ row \in DOMAIN db \cup {NoId}
         /\ text \in { db[k].img : k \in DOMAIN db } \cup {NoText}
    ELSE row = vehicleInfo /\ text = db[vehicleInfo].img

\* Whether that is what Query had put there; wrong reads are counted.
ReadsRight(row, text) == row = vehicleInfo /\ text = db[vehicleInfo].img

\* UploadInfo with what was read, and the deletion of vehicleInfo after it (a
\* second deletion does nothing or ends the process, see Crash).  `got' says
\* whether the server took the text: a timeout is reported as FALIED, and
\* the text may have been taken by then ("late").
UploadInfo(reply, row, text, got) ==
    /\ upc = "send"
    /\ Reads(row, text)
    /\ misread' = IF ReadsRight(row, text) THEN misread ELSE misread + 1
    /\ ReadsRight(row, text) \/ Spare
    /\ IF WxMode THEN reply \in Replies ELSE reply = "OK"
    /\ \/ got = (WxMode /\ reply = "OK") /\ UNCHANGED faults
       \/ /\ WxMode /\ reply = "FALIED" /\ got
          /\ "late" \in Faults /\ Spare
          /\ faults' = faults + 1
    /\ accepted' = IF got /\ text # NoText
                   THEN [accepted EXCEPT ![text] = @ + 1] ELSE accepted
    /\ pictures' = IF WxMode /\ reply = "OK" /\ text # NoText
                   THEN pictures \cup PicturesFound(text) ELSE pictures
    /\ vehicleInfo' = IF reply = "CONNECT_ERROR" THEN vehicleInfo ELSE NoId
    /\ freed' = (reply = "CONNECT_ERROR")
    /\ connected' = (connected /\ reply # "CONNECT_ERROR")
    /\ upc' = AfterReply(reply)
    /\ id' = IF upc' = "mark" THEN row ELSE NoId
    /\ UNCHANGED <<db, conn, files, watchVars, images, procVars, listIn>>

MarkUploaded(o) ==
    /\ upc = "mark"
    /\ DbCall("up", o)
    /\ Uploaded(id, o)
    /\ id' = NoId
    /\ upc' = "query"
    /\ UNCHANGED <<files, watchVars, images, procVars, listIn, vehicleInfo,
                   connected, freed, server>>

Upload ==
    \/ \E o \in Outcome : QueryUnsent(o) \/ MarkUploaded(o)
    \/ \E row \in listIn : NextVehicle(row)
    \/ Connect
    \/ \E r \in Replies \cup {"OK"}, row \in DOMAIN db \cup {NoId},
          text \in Image \cup {NoText}, got \in BOOLEAN : UploadInfo(r, row, text, got)

-----------------------------------------------------------------------------
\* The process dies (deleting vehicleInfo a second time may kill it too) and
\* is started again: what is in memory is lost.
Crash ==
    /\ "crash" \in Faults \/ freed
    /\ Spare
    /\ faults' = faults + 1
    /\ pending' = {} /\ list' = {} /\ images' = << >>
    /\ ppc' = "idle" /\ imagePath' = "none"
    /\ upc' = "query" /\ listIn' = {} /\ vehicleInfo' = NoId /\ id' = NoId
    /\ connected' = FALSE /\ freed' = FALSE
    /\ conn' = [t \in Thread |-> "null"]
    /\ UNCHANGED <<db, files, server>>

Next ==
    \/ \E n \in Uploads : CameraStarts(n) \/ CameraEnds(n)
    \/ Watch
    \/ ListFiles
    \/ \E n \in list : PushListed(n)
    \/ ProcessWatchedFiles
    \/ Upload
    \/ Crash

Spec == Init /\ [][Next]_vars

\* The threads run while they can.  The camera finishes the files it starts,
\* and a server that is asked again and again takes the text in the end.
\* Nothing obliges the camera to start or a fault to happen.
Fairness ==
    /\ \A n \in Uploads : WF_vars(CameraEnds(n))
    /\ WF_vars(Watch)
    /\ WF_vars(ListFiles)
    /\ \A n \in Name : WF_vars(PushListed(n))
    /\ WF_vars(ProcessWatchedFiles)
    /\ WF_vars(Upload)
    /\ SF_vars(\E row \in DOMAIN db \cup {NoId}, text \in Image \cup {NoText} :
                   UploadInfo("OK", row, text, WxMode))

FairSpec == Spec /\ Fairness

-----------------------------------------------------------------------------
(* Safety.                                                                 *)

\* A picture that left the FTP folder is in the HTTP folder: DeleteFile only
\* follows a CopyFile that succeeded (lines 820-826 and 832-838), whatever
\* the table, the server or a crash do meanwhile.
CopyBeforeDelete ==
    \A n \in arrived : ftp[n] = "absent" => http[n] # "absent"

\* A picture that left the FTP folder is whole in the HTTP folder, although
\* it was queued when its first bytes were written (line 613).
MovedIsComplete ==
    \A n \in arrived : ftp[n] = "absent" => http[n] = "complete"

\* A picture is moved to the HTTP folder only when its vehicle is recorded:
\* the checks of lines 817 and 829, `after adding, check to be sure it was
\* written to the table'.  (Readme.txt 88-96 and the comment at line 738 have
\* the other order: the picture is copied and then the vehicle recorded.)
RecordBeforeMove ==
    \A n \in Name : http[n] # "absent" => Recorded(n[1])

\* What is left of it when calls of the table fail: to move a picture without
\* a record takes two faults, or the one sqlite3_prepare_v2 that leaves the
\* thread with a dead handle (lines 811-838, DB.cpp 68-108).
OneErrorMovesNothing ==
    faults <= 1 /\ conn["proc"] # "closed" => RecordBeforeMove

\* However often a name is queued (watcher, lister and both pictures of the
\* vehicle queue it), a vehicle is recorded once (lines 812-815), also when
\* calls of the table fail in between.
OneRowPerImage ==
    \A j, k \in DOMAIN db : db[j].img = db[k].img => j = k

\* A row is marked uploaded only if the server took that vehicle's text
\* (lines 908-913).  A deleted record that is read wrong after a connection
\* error breaks this: its id may be another row's, its text no vehicle's.
\* But one row for each such read is all that is closed without a report.
Unreported == { k \in DOMAIN db : db[k].status = 0 /\ accepted[db[k].img] = 0 }

ClosedWasReported == WxMode => Cardinality(Unreported) <= misread

\* A vehicle is sent again after the server took it only because something
\* failed: a crash, a lost answer, a failed update of its row, or a deleted
\* record that was read wrong.
BoundedResend ==
    \A i \in Image : accepted[i] <= 1 + faults + misread

\* A vehicle marked uploaded had the pictures that were in the HTTP folder
\* sent with it (lines 861-862: read the vehicles not yet uploaded and
\* upload them, with the pictures of the http or else of the ftp folder).
UploadedWithPictures ==
    [][\A k \in DOMAIN db :
          db[k].status = 1 /\ db'[k].status = 0 =>
              { n \in {db[k].img} \X Part : http[n] = "complete" } \subseteq pictures]_vars

-----------------------------------------------------------------------------
(* The promise of module Delivery.                                         *)

Closed(i) == \E k \in DOMAIN db : db[k].img = i /\ db[k].status = 0

stage == [i \in Image |->
             IF Closed(i) THEN "closed"
             ELSE IF Recorded(i) /\ accepted[i] > 0 THEN "reported"
             ELSE IF Recorded(i) THEN "recorded"
             ELSE "unknown"]

D == INSTANCE Delivery WITH Image <- Image, stage <- stage

\* The pipeline implements Delivery step by step, until a record deleted
\* before a connection error is read wrong (lines 904-922): what it closes
\* then may never have been reported.
ImplementsDelivery == D!Init /\ [][misread = 0 => D!Next]_stage

\* Where the control reports no connection errors that is D!Spec; and under
\* Fairness it keeps its promise that what is recorded is closed.
ImplementsFairDelivery == D!FairSpec

-----------------------------------------------------------------------------
(* Liveness.                                                               *)

\* Every vehicle with a picture in the FTP folder ends up uploaded, although
\* a call of the table fails, the process dies or an answer is lost once: the
\* notifications Watch drops are made up for by ThreadProcessLast.  (Two
\* errors of the table can move a picture without a record, see
\* RecordBeforeMove; nobody looks for that vehicle again.)
EveryVehicleUploaded ==
    \A n \in Uploads : n \in arrived ~> Closed(n[1])

\* The FTP folder is emptied of every picture (lines 949-979: what an
\* earlier run left is processed by the next).  The exception is a picture
\* copied and not deleted before a crash: CopyFile refuses it ever after.
\* (A crash is one of the faults; none of the others leaves such a picture.)
FtpFolderDrains ==
    \A n \in Uploads : n \in arrived ~>
        ftp[n] = "absent" \/ (http[n] = "complete" /\ faults > 0)
=============================================================================
