--------------------------- MODULE PipelineProofs ---------------------------
(***************************************************************************)
(* Theorems about Pipeline for every set of vehicles, files, faults and    *)
(* bounds.                                                                 *)
(***************************************************************************)
EXTENDS Pipeline, SequenceTheorems, TLAPS

\* TypeOK strengthened: while the processing thread is at work it has a vehicle.
TypeInv ==
    /\ TypeOK
    /\ ppc # "idle" => imagePath \in Image

LEMMA NameType ==
    ASSUME NEW n \in Name
    PROVE  n[1] \in Image /\ n[2] \in Part /\ n = <<n[1], n[2]>>
BY DEF Name

LEMMA PairIsName ==
    ASSUME NEW i \in Image, NEW p \in Part
    PROVE  <<i, p>> \in Name
BY DEF Name

LEMMA RowType ==
    ASSUME db \in Seq(Row), NEW k \in DOMAIN db
    PROVE  /\ k \in 1..Len(db)
           /\ db[k] \in Row
           /\ db[k].img \in Image
           /\ db[k].status \in {0, 1}
<1>1. k \in 1..Len(db) /\ db[k] \in Row
  BY LenProperties, ElementOfSeq
<1>2. QED BY <1>1 DEF Row

\* Marking a row leaves a table in which only the status of that row differs.
LEMMA MarkedTable ==
    ASSUME db \in Seq(Row), NEW k \in DOMAIN db
    PROVE  LET marked == [db EXCEPT ![k].status = 0]
           IN  /\ marked \in Seq(Row)
               /\ DOMAIN marked = DOMAIN db
               /\ \A j \in DOMAIN db : marked[j].img = db[j].img
               /\ \A j \in DOMAIN db : j # k => marked[j] = db[j]
               /\ marked[k].status = 0
<1> DEFINE row == [db[k] EXCEPT !.status = 0]
           marked == [db EXCEPT ![k].status = 0]
<1>1. k \in 1..Len(db) /\ db[k] \in Row
  BY RowType
<1>2. row \in Row /\ row.img = db[k].img /\ row.status = 0
  BY <1>1 DEF Row
<1>3. marked = [db EXCEPT ![k] = row]
  OBVIOUS
<1> HIDE DEF row, marked
<1>4. marked \in Seq(Row) /\ Len(marked) = Len(db)
  BY <1>1, <1>2, <1>3, ExceptSeq
<1>5. \A j \in 1..Len(db) : marked[j] = IF j = k THEN row ELSE db[j]
  BY <1>1, <1>2, <1>3, ExceptSeq
<1>6. DOMAIN marked = 1..Len(db) /\ DOMAIN db = 1..Len(db)
  BY <1>4, LenProperties
<1>7. QED BY <1>2, <1>4, <1>5, <1>6 DEF marked

USE DEF Content, Outcome, TFDBTypeOK

LEMMA DbCallType ==
    ASSUME TypeOK, NEW t \in Thread, NEW o \in Outcome, DbCall(t, o)
    PROVE  /\ conn' \in [Thread -> {"null", "open", "closed"}]
           /\ faults' \in Nat
<1>1. faults' \in Nat
  BY DEF TypeOK, DbCall, IsFault
<1>2. conn' \in [Thread -> {"null", "open", "closed"}]
  BY DEF TypeOK, DbCall, Handle
<1>3. QED BY <1>1, <1>2

LEMMA TypeInit == Init => TypeInv
<1> SUFFICES ASSUME Init PROVE TypeInv
  OBVIOUS
<1>1. db \in Seq(Row) /\ images \in Seq(Name)
  BY EmptySeq DEF Init, TFDBInit
<1>2. conn \in [Thread -> {"null", "open", "closed"}]
  BY DEF Init, TFDBInit
<1>3. ftp \in [Name -> Content] /\ http \in [Name -> Content] /\ accepted \in [Image -> Nat]
  BY DEF Init
<1>4. QED BY <1>1, <1>2, <1>3 DEF Init, TypeInv, TypeOK, NoId

LEMMA TypeStep == TypeInv /\ [Next]_vars => TypeInv'
<1> SUFFICES ASSUME TypeInv, [Next]_vars PROVE TypeInv'
  OBVIOUS
<1> USE PipelineAssumption DEF TypeInv, TypeOK, files, watchVars, procVars, upVars, server
<1>1. ASSUME NEW n \in Uploads, CameraStarts(n) PROVE TypeInv'
  BY <1>1 DEF CameraStarts
<1>2. ASSUME NEW n \in Uploads, CameraEnds(n) PROVE TypeInv'
  BY <1>2 DEF CameraEnds
<1>3. CASE Watch
  <2>1. images' = images \/ \E n \in pending : images' = Append(images, n)
    BY <1>3 DEF Watch
  <2>2. images' \in Seq(Name)
    <3>1. ASSUME NEW n \in pending PROVE Append(images, n) \in Seq(Name)
      BY AppendProperties
    <3>2. QED BY <2>1, <3>1
  <2>3. QED BY <1>3, <2>2 DEF Watch
<1>4. CASE ListFiles
  BY <1>4 DEF ListFiles
<1>5. ASSUME NEW n \in list, PushListed(n) PROVE TypeInv'
  BY <1>5 DEF PushListed
<1>6. CASE TakeImage
  <2>1. Head(images) \in Name /\ Tail(images) \in Seq(Name)
    BY <1>6, HeadTailProperties DEF TakeImage
  <2>2. imagePath' \in Image
    BY <1>6, <2>1, NameType DEF TakeImage
  <2>3. ppc' \in {"check", "idle"}
    BY <1>6 DEF TakeImage
  <2>4. QED BY <1>6, <2>1, <2>2, <2>3 DEF TakeImage
<1>7. ASSUME NEW o \in Outcome, CheckRecord(o) PROVE TypeInv'
  BY <1>7, DbCallType DEF CheckRecord
<1>8. ASSUME NEW o \in Outcome, AddRecord(o) PROVE TypeInv'
  <2>1. conn' \in [Thread -> {"null", "open", "closed"}] /\ faults' \in Nat
    BY <1>8, DbCallType DEF AddRecord
  <2>2. db' \in Seq(Row)
    <3>1. [img |-> imagePath, status |-> 1] \in Row
      BY <1>8 DEF AddRecord, Row
    <3>2. QED BY <1>8, <3>1, AppendProperties DEF AddRecord, Add
  <2>3. QED BY <1>8, <2>1, <2>2 DEF AddRecord
<1>9. ASSUME NEW o \in Outcome, Recheck(o) PROVE TypeInv'
  BY <1>9, DbCallType DEF Recheck
<1>10. ASSUME NEW p \in Part, Copy(p) PROVE TypeInv'
  <2>1. Current(p) \in Name
    BY <1>10, PairIsName DEF Copy, Current, Part
  <2>2. QED BY <1>10, <2>1 DEF Copy, AfterMove, Part
<1>11. ASSUME NEW p \in Part, Delete(p) PROVE TypeInv'
  <2>1. Current(p) \in Name
    BY <1>11, PairIsName DEF Delete, Current, Part
  <2>2. QED BY <1>11, <2>1 DEF Delete, AfterMove, Part
<1>12. ASSUME NEW o \in Outcome, QueryUnsent(o) PROVE TypeInv'
  <2>1. conn' \in [Thread -> {"null", "open", "closed"}] /\ faults' \in Nat
    BY <1>12, DbCallType DEF QueryUnsent
  <2>2. listIn' \subseteq Nat
    <3>1. DOMAIN db \subseteq Nat
      BY LenProperties
    <3>2. QED BY <1>12, <3>1 DEF QueryUnsent, Query, Unsent
  <2>3. QED BY <1>12, <2>1, <2>2 DEF QueryUnsent
<1>13. ASSUME NEW row \in listIn, NextVehicle(row) PROVE TypeInv'
  BY <1>13 DEF NextVehicle
<1>14. CASE Connect
  BY <1>14 DEF Connect
<1>15. CASE \E r \in Replies \cup {"OK"}, row \in DOMAIN db \cup {NoId},
             text \in Image \cup {NoText}, got \in BOOLEAN : UploadInfo(r, row, text, got)
  <2>0. PICK r \in Replies \cup {"OK"}, row \in DOMAIN db \cup {NoId},
             text \in Image \cup {NoText}, got \in BOOLEAN : UploadInfo(r, row, text, got)
    BY <1>15
  <2>1. accepted' \in [Image -> Nat]
    BY <2>0 DEF UploadInfo
  <2>2. pictures' \subseteq Name
    <3>1. text \in Image => PicturesFound(text) \subseteq Name
      BY PairIsName DEF PicturesFound
    <3>2. QED BY <2>0, <3>1 DEF UploadInfo
  <2>3. upc' \in {"query", "connect", "send", "mark"}
    BY <2>0 DEF UploadInfo, AfterReply
  <2>4. freed' \in BOOLEAN /\ connected' \in BOOLEAN
    BY <2>0 DEF UploadInfo
  <2>5. row \in Nat
    BY LenProperties DEF NoId
  <2>6. faults' \in Nat /\ vehicleInfo' \in Nat /\ id' \in Nat /\ misread' \in Nat
    BY <2>0, <2>5 DEF UploadInfo, NoId
  <2>7. QED BY <2>0, <2>1, <2>2, <2>3, <2>4, <2>6 DEF UploadInfo
<1>16. ASSUME NEW o \in Outcome, MarkUploaded(o) PROVE TypeInv'
  <2>1. conn' \in [Thread -> {"null", "open", "closed"}] /\ faults' \in Nat
    BY <1>16, DbCallType DEF MarkUploaded
  <2>2. db' \in Seq(Row)
    BY <1>16, MarkedTable DEF MarkUploaded, Uploaded
  <2>3. id' \in Nat
    BY <1>16 DEF MarkUploaded, NoId
  <2>4. QED BY <1>16, <2>1, <2>2, <2>3 DEF MarkUploaded
<1>17. CASE Crash
  <2>1. images' \in Seq(Name)
    BY <1>17, EmptySeq DEF Crash
  <2>2. conn' \in [Thread -> {"null", "open", "closed"}]
    BY <1>17 DEF Crash
  <2>3. /\ pending' \subseteq Name /\ list' \subseteq Name /\ listIn' \subseteq Nat
        /\ ppc' = "idle" /\ imagePath' = "none" /\ upc' = "query"
        /\ vehicleInfo' \in Nat /\ id' \in Nat
    BY <1>17 DEF Crash, NoId
  <2>4. connected' \in BOOLEAN /\ freed' \in BOOLEAN
    BY <1>17 DEF Crash
  <2>5. faults' \in Nat /\ UNCHANGED <<db, files, server>>
    BY <1>17 DEF Crash
  <2>6. QED BY <2>1, <2>2, <2>3, <2>4, <2>5
<1>18. CASE UNCHANGED vars
  BY <1>18 DEF vars
<1>19. CASE ProcessWatchedFiles
  BY <1>6, <1>7, <1>8, <1>9, <1>10, <1>11, <1>19 DEF ProcessWatchedFiles
<1>20. CASE Upload
  BY <1>12, <1>13, <1>14, <1>15, <1>16, <1>20 DEF Upload
<1>21. QED
  BY <1>1, <1>2, <1>3, <1>4, <1>5, <1>17, <1>18, <1>19, <1>20 DEF Next

\* Type correctness.
THEOREM TypeCorrect == Spec => []TypeOK
<1>1. Init => TypeInv
  BY TypeInit
<1>2. TypeInv /\ [Next]_vars => TypeInv'
  BY TypeStep
<1>3. TypeInv => TypeOK
  BY DEF TypeInv
<1>4. QED BY <1>1, <1>2, <1>3, PTL DEF Spec

LEMMA TypeInvariant == Spec => []TypeInv
BY TypeInit, TypeStep, PTL DEF Spec

-----------------------------------------------------------------------------
(* The files.                                                              *)

\* CopyBeforeDelete made inductive: between CopyFile and DeleteFile the copy
\* is there, and a name the camera has not put is not in the folder.
FileInv ==
    /\ \A n \in Name : ftp[n] # "absent" => n \in arrived
    /\ CopyBeforeDelete
    /\ ppc = "delPic" => http[<<imagePath, "pic">>] # "absent"
    /\ ppc = "delPlate" => http[<<imagePath, "plate">>] # "absent"

\* The steps of ThreadProcessWatchedFiles that touch no folder.
LEMMA FileFrame ==
    ASSUME TypeInv, FileInv, UNCHANGED files,
           ppc' \notin {"delPic", "delPlate"} \/ UNCHANGED procVars
    PROVE  FileInv'
BY DEF FileInv, CopyBeforeDelete, files, procVars

LEMMA FileStep == TypeInv /\ FileInv /\ [Next]_vars => FileInv'
<1> SUFFICES ASSUME TypeInv, FileInv, [Next]_vars PROVE FileInv'
  OBVIOUS
<1>1. ASSUME NEW n \in Uploads, CameraStarts(n) PROVE FileInv'
  BY <1>1, PipelineAssumption DEF CameraStarts, FileInv, CopyBeforeDelete, TypeInv, TypeOK, procVars
<1>2. ASSUME NEW n \in Uploads, CameraEnds(n) PROVE FileInv'
  BY <1>2 DEF CameraEnds, FileInv, CopyBeforeDelete, TypeInv, TypeOK, procVars
<1>3. CASE Watch
  BY <1>3, FileFrame DEF Watch
<1>4. CASE ListFiles
  BY <1>4, FileFrame DEF ListFiles
<1>5. ASSUME NEW n \in list, PushListed(n) PROVE FileInv'
  BY <1>5, FileFrame DEF PushListed
<1>6. CASE TakeImage
  BY <1>6, FileFrame DEF TakeImage
<1>7. ASSUME NEW o \in Outcome, CheckRecord(o) PROVE FileInv'
  BY <1>7, FileFrame DEF CheckRecord
<1>8. ASSUME NEW o \in Outcome, AddRecord(o) PROVE FileInv'
  BY <1>8, FileFrame DEF AddRecord
<1>9. ASSUME NEW o \in Outcome, Recheck(o) PROVE FileInv'
  BY <1>9, FileFrame DEF Recheck
<1>10. ASSUME NEW p \in Part, Copy(p) PROVE FileInv'
  <2>1. Current(p) \in Name
    BY <1>10, PairIsName DEF Copy, Current, Part, TypeInv
  <2>2. CASE CanCopy(Current(p))
    <3>1. ftp[Current(p)] # "absent"
      BY <2>2 DEF CanCopy
    <3>2. \A n \in Name : http[n] # "absent" => http'[n] # "absent"
      BY <1>10, <2>1, <2>2, <3>1 DEF Copy, TypeInv, TypeOK
    <3>3. http'[Current(p)] # "absent"
      BY <1>10, <2>1, <2>2, <3>1 DEF Copy, TypeInv, TypeOK
    <3>4. ppc' = (IF p = "pic" THEN "delPic" ELSE "delPlate") /\ UNCHANGED <<ftp, arrived, imagePath>>
      BY <1>10, <2>2 DEF Copy
    <3>5. QED BY <3>2, <3>3, <3>4 DEF FileInv, CopyBeforeDelete, Current, TypeInv, TypeOK, Part
  <2>3. CASE ~CanCopy(Current(p))
    BY <1>10, <2>3, FileFrame DEF Copy, AfterMove, files
  <2>4. QED BY <2>2, <2>3
<1>11. ASSUME NEW p \in Part, Delete(p) PROVE FileInv'
  <2>1. Current(p) \in Name
    BY <1>11, PairIsName DEF Delete, Current, Part, TypeInv
  <2>2. http[Current(p)] # "absent"
    BY <1>11 DEF Delete, FileInv, Current, Part
  <2>3. \A n \in Name : ftp'[n] = IF n = Current(p) /\ ftp[n] = "complete" THEN "absent" ELSE ftp[n]
    BY <1>11, <2>1 DEF Delete, TypeInv, TypeOK
  <2>4. ppc' \in {"recheckPlate", "idle"} /\ UNCHANGED <<http, arrived, imagePath>>
    BY <1>11 DEF Delete, AfterMove
  <2>5. QED BY <2>2, <2>3, <2>4 DEF FileInv, CopyBeforeDelete, TypeInv, TypeOK
<1>12. ASSUME NEW o \in Outcome, QueryUnsent(o) PROVE FileInv'
  BY <1>12, FileFrame DEF QueryUnsent
<1>13. ASSUME NEW row \in listIn, NextVehicle(row) PROVE FileInv'
  BY <1>13, FileFrame DEF NextVehicle
<1>14. CASE Connect
  BY <1>14, FileFrame DEF Connect
<1>15. CASE \E r \in Replies \cup {"OK"}, row \in DOMAIN db \cup {NoId},
             text \in Image \cup {NoText}, got \in BOOLEAN : UploadInfo(r, row, text, got)
  BY <1>15, FileFrame DEF UploadInfo
<1>16. ASSUME NEW o \in Outcome, MarkUploaded(o) PROVE FileInv'
  BY <1>16, FileFrame DEF MarkUploaded
<1>17. CASE Crash
  BY <1>17, FileFrame DEF Crash
<1>18. CASE UNCHANGED vars
  BY <1>18, FileFrame DEF vars
<1>19. QED
  BY <1>1, <1>2, <1>3, <1>4, <1>5, <1>6, <1>7, <1>8, <1>9, <1>10, <1>11, <1>12, <1>13, <1>14,
     <1>15, <1>16, <1>17, <1>18 DEF Next, ProcessWatchedFiles, Upload

\* No picture is lost between the two folders, whatever fails and whenever
\* the process dies.
THEOREM NoPictureLost == Spec => []CopyBeforeDelete
<1>1. Init => FileInv
  BY DEF Init, FileInv, CopyBeforeDelete
<1>2. TypeInv /\ FileInv /\ [Next]_vars => FileInv'
  BY FileStep
<1>3. FileInv => CopyBeforeDelete
  BY DEF FileInv
<1>4. QED BY <1>1, <1>2, <1>3, TypeInvariant, PTL DEF Spec

\* What is in the HTTP folder is whole, if the FTP server keeps the files it
\* writes to itself.
HttpIsWhole == \A n \in Name : http[n] \in {"absent", "complete"}

LEMMA WholeStep ==
    ASSUME ~WriterShares, TypeInv, HttpIsWhole, [Next]_vars
    PROVE  HttpIsWhole'
<1>1. CASE UNCHANGED http
  BY <1>1 DEF HttpIsWhole
<1>2. ASSUME NEW p \in Part, Copy(p) PROVE HttpIsWhole'
  <2>1. CASE CanCopy(Current(p))
    <3>1. ftp[Current(p)] = "complete"
      BY <2>1 DEF CanCopy
    <3>2. http' = [http EXCEPT ![Current(p)] = "complete"]
      BY <1>2, <2>1, <3>1 DEF Copy
    <3>3. QED BY <3>2 DEF HttpIsWhole, TypeInv, TypeOK
  <2>2. CASE ~CanCopy(Current(p))
    BY <1>1, <1>2, <2>2 DEF Copy
  <2>3. QED BY <2>1, <2>2
<1>3. QED
  BY <1>1, <1>2
     DEF Next, ProcessWatchedFiles, Upload, CameraStarts, CameraEnds, Watch, ListFiles, PushListed,
         TakeImage, CheckRecord, AddRecord, Recheck, Delete, QueryUnsent, NextVehicle, Connect,
         UploadInfo, MarkUploaded, Crash, vars, files

\* With an FTP server that does not share the files it writes, no picture is
\* moved before it is whole, although it is queued at its first write (613).
THEOREM MovedWhole == ASSUME ~WriterShares PROVE Spec => []MovedIsComplete
<1>1. Init => HttpIsWhole
  BY DEF Init, HttpIsWhole
<1>2. TypeInv /\ HttpIsWhole /\ [Next]_vars => HttpIsWhole'
  BY WholeStep
<1>3. HttpIsWhole /\ CopyBeforeDelete /\ TypeInv => MovedIsComplete
  BY DEF HttpIsWhole, CopyBeforeDelete, MovedIsComplete, TypeInv, TypeOK
<1>4. QED BY <1>1, <1>2, <1>3, TypeInvariant, NoPictureLost, PTL DEF Spec
=============================================================================
