----------------------- MODULE PipelineDeliveryProofs -----------------------
(***************************************************************************)
(* The pipeline implements module Delivery, and what is left of `record    *)
(* before you move' when a call of the table fails, for every set of       *)
(* vehicles, files, faults and bounds.                                     *)
(***************************************************************************)
EXTENDS PipelineReportProofs

USE DEF Outcome, TFDBTypeOK

\* A stage depends on the table and on the reports only.
LEMMA StageFrame ==
    ASSUME UNCHANGED <<db, accepted>>
    PROVE  UNCHANGED stage
BY DEF stage, Closed, Recorded

\* How one vehicle advances while the others stay.
LEMMA StageAdvance ==
    ASSUME NEW i \in Image, NEW to,
           \A j \in Image : j # i => stage'[j] = stage[j],
           stage'[i] = to
    PROVE  stage' = [stage EXCEPT ![i] = to]
<1>1. stage = [j \in Image |-> stage[j]] /\ stage' = [j \in Image |-> stage'[j]]
  BY DEF stage
<1>2. QED BY <1>1

\* AddRecord is Record, or nothing.
LEMMA AddAdvances ==
    ASSUME TypeInv, ReportInv, NEW o \in Outcome, AddRecord(o)
    PROVE  [D!Next]_stage
<1>1. /\ db \in Seq(Row) /\ imagePath \in Image
      /\ accepted' = accepted /\ imagePath' = imagePath
  BY DEF TypeInv, TypeOK, AddRecord, server
<1>2. CASE o # "ok"
  BY <1>1, <1>2, StageFrame DEF AddRecord, Add
<1>3. CASE o = "ok"
  <2> DEFINE new == [img |-> imagePath, status |-> 1]
  <2>1. db' = Append(db, new) /\ new \in Row
    BY <1>1, <1>3 DEF AddRecord, Add, Row
  <2>2. /\ DOMAIN db = 1..Len(db) /\ DOMAIN db' = 1..(Len(db) + 1) /\ Len(db) \in Nat
        /\ \A k \in DOMAIN db : db'[k] = db[k]
        /\ db'[Len(db) + 1] = new
    BY <1>1, <2>1, AppendProperties, LenProperties
  <2>3. ~Recorded(imagePath) /\ ~Closed(imagePath)
    BY DEF AddRecord, ReportInv, NotYetRecorded, Recorded, Closed
  <2>4. ~(accepted[imagePath] > 0)
    BY <1>1, <2>3 DEF ReportInv, OnlyRecordedSent
  <2>5. Recorded(imagePath)'
    BY <1>1, <2>2 DEF Recorded
  <2>6. ~Closed(imagePath)'
    BY <1>1, <2>2, <2>3 DEF Closed
  <2>7. ASSUME NEW j \in Image, j # imagePath
        PROVE  (Recorded(j)' <=> Recorded(j)) /\ (Closed(j)' <=> Closed(j))
    <3>1. new.img # j
      BY <1>1, <2>7
    <3>2. Recorded(j)' <=> Recorded(j)
      BY <2>2, <3>1 DEF Recorded
    <3>3. Closed(j)' <=> Closed(j)
      BY <2>2, <3>1 DEF Closed
    <3>4. QED BY <3>2, <3>3
  <2>8. \A j \in Image : j # imagePath => stage'[j] = stage[j]
    BY <1>1, <2>7 DEF stage
  <2>9. stage[imagePath] = "unknown" /\ stage'[imagePath] = "recorded"
    BY <1>1, <2>3, <2>4, <2>5, <2>6 DEF stage
  <2>10. D!Record(imagePath)
    BY <1>1, <2>8, <2>9, StageAdvance DEF D!Record, D!Advance
  <2>11. QED BY <1>1, <2>10 DEF D!Next
<1>4. QED BY <1>2, <1>3

\* UploadInfo is Report the first time the server takes the text, or nothing.
LEMMA UploadAdvances ==
    ASSUME TypeInv, ReportInv, NEW r \in Replies \cup {"OK"}, NEW row \in DOMAIN db \cup {NoId},
           NEW text \in Image \cup {NoText}, NEW got \in BOOLEAN, UploadInfo(r, row, text, got)
    PROVE  [D!Next]_stage
<1>1. db \in Seq(Row) /\ accepted \in [Image -> Nat] /\ db' = db
  BY DEF TypeInv, TypeOK, UploadInfo
<1>2. CASE ~(got /\ text # NoText)
  BY <1>1, <1>2, StageFrame DEF UploadInfo
<1>3. CASE got /\ text # NoText
  <2>1. text \in Image /\ accepted' = [accepted EXCEPT ![text] = @ + 1]
    BY <1>3 DEF UploadInfo
  <2>2. Recorded(text)
    BY <1>3, UploadEffect
  <2>3. \A j \in Image : (Recorded(j)' <=> Recorded(j)) /\ (Closed(j)' <=> Closed(j))
    BY <1>1 DEF Recorded, Closed
  <2>4. accepted[text] \in Nat /\ accepted'[text] = accepted[text] + 1
    BY <1>1, <2>1
  <2>5. \A j \in Image : j # text => stage'[j] = stage[j]
    BY <1>1, <2>1, <2>3 DEF stage
  <2>6. CASE stage[text] = "recorded"
    <3>1. stage'[text] = "reported"
      BY <2>1, <2>2, <2>3, <2>4, <2>6 DEF stage
    <3>2. D!Report(text)
      BY <2>1, <2>5, <2>6, <3>1, StageAdvance DEF D!Report, D!Advance
    <3>3. QED BY <2>1, <3>2 DEF D!Next
  <2>7. CASE stage[text] # "recorded"
    <3>1. stage'[text] = stage[text]
      BY <2>1, <2>2, <2>3, <2>4, <2>7 DEF stage
    <3>2. UNCHANGED stage
      BY <2>5, <3>1 DEF stage
    <3>3. QED BY <3>2
  <2>8. QED BY <2>6, <2>7
<1>4. QED BY <1>2, <1>3

\* While no deleted record was read wrong, nothing is closed unreported.
LEMMA MarkedWasSent ==
    ASSUME WxMode, TypeInv, ReportInv, misread = 0, upc = "mark", id \in DOMAIN db
    PROVE  accepted[db[id].img] > 0
<1>1. IsFiniteSet(Doomed) /\ Cardinality(Doomed) <= 0
  BY DEF ReportInv, DoomedBounded
<1>2. Cardinality(Doomed) = 0
  BY <1>1, FS_CardinalityType
<1>3. Doomed = {}
  BY <1>1, <1>2, FS_EmptySet
<1>4. accepted[db[id].img] # 0
  BY <1>3 DEF Doomed
<1>5. accepted[db[id].img] \in Nat
  BY RowType DEF TypeInv, TypeOK
<1>6. QED BY <1>4, <1>5

\* MarkUploaded is Close, or nothing: the server has the text by then.
LEMMA MarkAdvances ==
    ASSUME WxMode, TypeInv, ReportInv, NEW o \in Outcome, MarkUploaded(o), misread = 0
    PROVE  [D!Next]_stage
<1>1. db \in Seq(Row) /\ accepted' = accepted
  BY DEF TypeInv, TypeOK, MarkUploaded, server
<1>2. CASE ~(o = "ok" /\ id \in DOMAIN db)
  BY <1>1, <1>2, StageFrame DEF MarkUploaded, Uploaded
<1>3. CASE o = "ok" /\ id \in DOMAIN db
  <2>0. PICK i \in Image : i = db[id].img
    BY <1>1, <1>3, RowType
  <2>1. /\ DOMAIN db' = DOMAIN db
        /\ \A k \in DOMAIN db : db'[k].img = db[k].img
        /\ \A k \in DOMAIN db : k # id => db'[k] = db[k]
        /\ db'[id].status = 0
    BY <1>1, <1>3, MarkedTable DEF MarkUploaded, Uploaded
  <2>2. i \in Image /\ Recorded(i) /\ accepted[i] > 0
    BY <1>3, <2>0, MarkedWasSent DEF MarkUploaded, Recorded
  <2>3. Closed(i)'
    BY <1>3, <2>0, <2>1 DEF Closed
  <2>4. \A j \in Image : j # i => (Recorded(j)' <=> Recorded(j)) /\ (Closed(j)' <=> Closed(j))
    BY <1>3, <2>0, <2>1 DEF Recorded, Closed
  <2>5. \A j \in Image : j # i => stage'[j] = stage[j]
    BY <1>1, <2>4 DEF stage
  <2>6. stage'[i] = "closed" /\ stage[i] \in {"reported", "closed"}
    BY <2>2, <2>3 DEF stage
  <2>7. CASE stage[i] = "reported"
    <3>1. D!Close(i)
      BY <2>2, <2>5, <2>6, <2>7, StageAdvance DEF D!Close, D!Advance
    <3>2. QED BY <2>2, <3>1 DEF D!Next
  <2>8. CASE stage[i] = "closed"
    <3>1. UNCHANGED stage
      BY <2>5, <2>6, <2>8 DEF stage
    <3>2. QED BY <3>1
  <2>9. QED BY <2>6, <2>7, <2>8
<1>4. QED BY <1>2, <1>3

LEMMA DeliveryStep ==
    ASSUME WxMode, TypeInv, ReportInv, [Next]_vars
    PROVE  [misread = 0 => D!Next]_stage
<1> SUFFICES ASSUME misread = 0 PROVE [D!Next]_stage
  OBVIOUS
<1>1. CASE UNCHANGED <<db, accepted>>
  BY <1>1, StageFrame
<1>2. CASE \E r \in Replies \cup {"OK"}, row \in DOMAIN db \cup {NoId},
              text \in Image \cup {NoText}, got \in BOOLEAN : UploadInfo(r, row, text, got)
  BY <1>2, UploadAdvances
<1>3. QED
  BY <1>1, <1>2, AddAdvances, MarkAdvances
     DEF Next, ProcessWatchedFiles, Upload, CameraStarts, CameraEnds, Watch, ListFiles, PushListed,
         TakeImage, CheckRecord, Recheck, Copy, Delete, QueryUnsent, NextVehicle, Connect,
         Crash, vars, server

LEMMA DeliveryInit == Init => D!Init
BY DEF Init, TFDBInit, D!Init, stage, Closed, Recorded

\* With the traffic server in use (run mode "wx"; the test mode closes what
\* nobody was sent) every step of the pipeline advances one vehicle by one
\* stage of Delivery, or none: reported before closed, closed once, never
\* back, whatever fails and whatever the server answers, until a record
\* deleted before a connection error is read wrong.
THEOREM PipelineDelivers == ASSUME WxMode PROVE Spec => ImplementsDelivery
<1>1. TypeInv /\ ReportInv /\ [Next]_vars => [misread = 0 => D!Next]_stage
  BY DeliveryStep
<1>2. QED
  BY <1>1, DeliveryInit, TypeInvariant, ReportInvariant, PTL DEF Spec, ImplementsDelivery

\* Without connection errors no deleted record is read.
NothingMisread == ~freed /\ misread = 0

LEMMA MisreadStep ==
    ASSUME WxMode, "CONNECT_ERROR" \notin Replies, NothingMisread, [Next]_vars
    PROVE  NothingMisread'
<1>1. CASE UNCHANGED <<freed, misread>>
  BY <1>1 DEF NothingMisread
<1>2. CASE \E r \in Replies \cup {"OK"}, row \in DOMAIN db \cup {NoId},
              text \in Image \cup {NoText}, got \in BOOLEAN : UploadInfo(r, row, text, got)
  <2>1. PICK r \in Replies \cup {"OK"}, row \in DOMAIN db \cup {NoId},
             text \in Image \cup {NoText}, got \in BOOLEAN : UploadInfo(r, row, text, got)
    BY <1>2
  <2>2. ReadsRight(row, text)
    BY <2>1 DEF UploadInfo, Reads, ReadsRight, NothingMisread
  <2>3. misread' = misread /\ freed' = (r = "CONNECT_ERROR")
    BY <2>1, <2>2 DEF UploadInfo
  <2>4. QED BY <2>3 DEF NothingMisread
<1>3. QED
  BY <1>1, <1>2
     DEF NothingMisread, Next, ProcessWatchedFiles, Upload, CameraStarts, CameraEnds, Watch,
         ListFiles, PushListed, TakeImage, CheckRecord, AddRecord, Recheck, Copy, Delete,
         QueryUnsent, NextVehicle, Connect, MarkUploaded, Crash, vars, server, upVars

\* Where the control never reports a connection error the pipeline is an
\* implementation of Delivery for ever, whatever else fails.
THEOREM PipelineIsDelivery ==
    ASSUME WxMode, "CONNECT_ERROR" \notin Replies
    PROVE  Spec => D!Spec
<1>1. Init => NothingMisread
  BY DEF Init, NothingMisread
<1>2. NothingMisread /\ [Next]_vars => NothingMisread'
  BY MisreadStep
<1>3. NothingMisread /\ TypeInv /\ ReportInv /\ [Next]_vars => [D!Next]_stage
  BY DeliveryStep DEF NothingMisread
<1>4. QED
  BY <1>1, <1>2, <1>3, DeliveryInit, TypeInvariant, ReportInvariant, PTL DEF Spec, D!Spec

-----------------------------------------------------------------------------
(* The table before the folder.                                            *)

\* OneErrorMovesNothing made inductive.  A recheck of a vehicle that is not
\* in the table has one failed call behind it, so the call that would let the
\* picture through is the second to fail; and a dead handle takes a fault.
Moving == ppc \in {"copyPic", "delPic", "copyPlate", "delPlate"}

MoveInv ==
    /\ conn["proc"] = "closed" => faults >= 1
    /\ faults <= 1 /\ conn["proc"] # "closed" =>
          /\ RecordBeforeMove
          /\ Moving => Recorded(imagePath)
          /\ ppc \in {"recheck", "recheckPlate"} => Recorded(imagePath) \/ faults = 1

\* What is recorded stays recorded.
LEMMA RecordedStays ==
    ASSUME TypeInv, [Next]_vars
    PROVE  \A i \in Image : Recorded(i) => Recorded(i)'
<1>1. db \in Seq(Row)
  BY DEF TypeInv, TypeOK
<1>2. CASE db' = db
  BY <1>2 DEF Recorded
<1>3. ASSUME NEW o \in Outcome, AddRecord(o) PROVE \A i \in Image : Recorded(i) => Recorded(i)'
  <2>1. [img |-> imagePath, status |-> 1] \in Row
    BY <1>3 DEF AddRecord, TypeInv, Row
  <2>2. \A k \in DOMAIN db : k \in DOMAIN db' /\ db'[k] = db[k]
    BY <1>1, <1>3, <2>1, AppendProperties, LenProperties DEF AddRecord, Add
  <2>3. QED BY <2>2 DEF Recorded
<1>4. ASSUME NEW o \in Outcome, MarkUploaded(o) PROVE \A i \in Image : Recorded(i) => Recorded(i)'
  BY <1>1, <1>4, MarkedTable DEF MarkUploaded, Uploaded, Recorded
<1>5. QED
  BY <1>2, <1>3, <1>4
     DEF Next, ProcessWatchedFiles, Upload, CameraStarts, CameraEnds, Watch, ListFiles, PushListed,
         TakeImage, CheckRecord, Recheck, Copy, Delete, QueryUnsent, NextVehicle, Connect,
         UploadInfo, Crash, vars

\* Steps that move no picture and leave ThreadProcessWatchedFiles alone.
LEMMA MoveFrame ==
    ASSUME TypeInv, MoveInv, [Next]_vars, UNCHANGED <<http, ppc, imagePath>>,
           conn'["proc"] = conn["proc"], faults' \in {faults, faults + 1}
    PROVE  MoveInv'
<1>1. faults \in Nat
  BY DEF TypeInv, TypeOK
<1>2. /\ faults' <= 1 => faults <= 1 /\ (faults = 1 => faults' = 1)
      /\ faults >= 1 => faults' >= 1
  BY <1>1
<1>3. ppc # "idle" => imagePath \in Image
  BY DEF TypeInv
<1>4. \A i \in Image : Recorded(i) => Recorded(i)'
  BY RecordedStays
<1>5. RecordBeforeMove => RecordBeforeMove'
  BY <1>4, NameType DEF RecordBeforeMove
<1>6. ppc # "idle" /\ Recorded(imagePath) => Recorded(imagePath)'
  BY <1>3, <1>4
<1>7. QED BY <1>2, <1>5, <1>6 DEF MoveInv, Moving

\* A call of the processing thread: it fails for ever on a dead handle, and
\* else a failure is a fault.
LEMMA ProcCall ==
    ASSUME TypeInv, MoveInv, NEW o \in Outcome, DbCall("proc", o)
    PROVE  /\ conn["proc"] = "closed" => conn'["proc"] = "closed"
           /\ conn'["proc"] = "closed" => faults' >= 1
           /\ conn'["proc"] # "closed" => faults' = IF o = "ok" THEN faults ELSE faults + 1
<1>1. /\ conn \in [Thread -> {"null", "open", "closed"}] /\ "proc" \in Thread
      /\ faults \in Nat
  BY PipelineAssumption DEF TypeInv, TypeOK
<1>2. CASE conn["proc"] = "closed"
  BY <1>1, <1>2, DbCallEffect DEF MoveInv
<1>3. CASE conn["proc"] # "closed"
  <2>1. faults' = IF o = "ok" THEN faults ELSE faults + 1
    BY <1>3 DEF DbCall, IsFault
  <2>2. o = "ok" => conn'["proc"] = "open"
    BY <1>1 DEF DbCall, Handle
  <2>3. QED BY <1>1, <1>3, <2>1, <2>2
<1>4. QED BY <1>2, <1>3

LEMMA MoveStep == ASSUME TypeInv, MoveInv, [Next]_vars PROVE MoveInv'
<1>0. /\ faults \in Nat /\ "proc" \in Thread /\ "up" \in Thread
      /\ ppc # "idle" => imagePath \in Image
      /\ conn \in [Thread -> {"null", "open", "closed"}]
  BY PipelineAssumption DEF TypeInv, TypeOK
<1>1. CASE UNCHANGED <<http, ppc, imagePath, conn, faults>>
  BY <1>0, <1>1, MoveFrame
<1>2. CASE TakeImage
  BY <1>2 DEF TakeImage, MoveInv, Moving, RecordBeforeMove, Recorded, files
<1>3. ASSUME NEW o \in Outcome, CheckRecord(o) PROVE MoveInv'
  <2>1. /\ conn["proc"] = "closed" => conn'["proc"] = "closed"
        /\ conn'["proc"] = "closed" => faults' >= 1
        /\ conn'["proc"] # "closed" => faults' = IF o = "ok" THEN faults ELSE faults + 1
        /\ ppc' = (IF CheckImageExist(imagePath, o) THEN "recheck" ELSE "add")
        /\ UNCHANGED <<db, http, imagePath>>
    BY <1>3, ProcCall DEF CheckRecord, files
  <2>2. ppc' = "recheck" => Recorded(imagePath) \/ o # "ok"
    BY <2>1 DEF CheckImageExist
  <2>3. QED BY <1>0, <2>1, <2>2 DEF MoveInv, Moving, RecordBeforeMove, Recorded
<1>4. ASSUME NEW o \in Outcome, AddRecord(o) PROVE MoveInv'
  <2>1. /\ conn["proc"] = "closed" => conn'["proc"] = "closed"
        /\ conn'["proc"] = "closed" => faults' >= 1
        /\ conn'["proc"] # "closed" => faults' = IF o = "ok" THEN faults ELSE faults + 1
        /\ ppc' = "recheck" /\ UNCHANGED <<http, imagePath>>
    BY <1>4, ProcCall DEF AddRecord, files
  <2>2. RecordBeforeMove => RecordBeforeMove'
    BY <2>1, RecordedStays, NameType DEF RecordBeforeMove
  <2>3. o = "ok" => Recorded(imagePath)'
    <3>1. db \in Seq(Row) /\ [img |-> imagePath, status |-> 1] \in Row
      BY <1>0, <1>4 DEF AddRecord, TypeInv, TypeOK, Row
    <3>2. o = "ok" => Len(db) + 1 \in DOMAIN db' /\ db'[Len(db) + 1].img = imagePath
      BY <1>4, <3>1, AppendProperties, LenProperties DEF AddRecord, Add
    <3>3. QED BY <2>1, <3>2 DEF Recorded
  <2>4. QED BY <1>0, <2>1, <2>2, <2>3 DEF MoveInv, Moving
<1>5. ASSUME NEW o \in Outcome, Recheck(o) PROVE MoveInv'
  <2>1. /\ conn["proc"] = "closed" => conn'["proc"] = "closed"
        /\ conn'["proc"] = "closed" => faults' >= 1
        /\ conn'["proc"] # "closed" => faults' = IF o = "ok" THEN faults ELSE faults + 1
        /\ ppc \in {"recheck", "recheckPlate"}
        /\ UNCHANGED <<db, http, imagePath>>
    BY <1>5, ProcCall DEF Recheck, files
  <2>2. \/ ppc' \in {"copyPic", "copyPlate"} /\ CheckImageExist(imagePath, o)
        \/ ppc' \in {"recheckPlate", "idle"} /\ ~CheckImageExist(imagePath, o)
    BY <1>5 DEF Recheck
  <2> DEFINE Excused == faults' > 1 \/ conn'["proc"] = "closed"
  <2>3. ~Excused => /\ faults <= 1 /\ conn["proc"] # "closed"
                    /\ o # "ok" => faults = 0 /\ faults' = 1
                    /\ o = "ok" => faults' = faults
    BY <1>0, <2>1
  <2>4. ppc' \in {"copyPic", "copyPlate"} /\ ~Excused => Recorded(imagePath)
    BY <2>1, <2>2, <2>3 DEF MoveInv, CheckImageExist
  <2>5. ppc' = "recheckPlate" /\ ~Excused => Recorded(imagePath) \/ faults' = 1
    BY <2>1, <2>2, <2>3 DEF MoveInv, CheckImageExist
  <2>6. ~Excused => RecordBeforeMove
    BY <2>3 DEF MoveInv
  <2>7. faults' <= 1 /\ conn'["proc"] # "closed" => ~Excused
    BY <1>0, <2>1
  <2> HIDE DEF Excused
  <2>8. QED BY <2>1, <2>2, <2>4, <2>5, <2>6, <2>7 DEF MoveInv, Moving, RecordBeforeMove, Recorded
<1>6. ASSUME NEW p \in Part, Copy(p) PROVE MoveInv'
  <2>1. /\ UNCHANGED <<db, conn, imagePath, faults>> /\ ppc \in {"copyPic", "copyPlate"}
        /\ ppc' \in {"delPic", "delPlate", "recheckPlate", "idle"}
    BY <1>6 DEF Copy, AfterMove
  <2>2. \A n \in Name : n # Current(p) => http'[n] = http[n]
    BY <1>6 DEF Copy, TypeInv, TypeOK
  <2>3. faults <= 1 /\ conn["proc"] # "closed" => Recorded(imagePath) /\ RecordBeforeMove
    BY <2>1 DEF MoveInv, Moving
  <2>4. faults <= 1 /\ conn["proc"] # "closed" => RecordBeforeMove'
    BY <2>1, <2>2, <2>3 DEF RecordBeforeMove, Current, Recorded
  <2>5. QED BY <2>1, <2>3, <2>4 DEF MoveInv, Moving, Recorded
<1>7. ASSUME NEW p \in Part, Delete(p) PROVE MoveInv'
  <2>1. /\ UNCHANGED <<db, http, conn, imagePath, faults>> /\ ppc \in {"delPic", "delPlate"}
        /\ ppc' \in {"recheckPlate", "idle"}
    BY <1>7 DEF Delete, AfterMove
  <2>2. QED BY <2>1 DEF MoveInv, Moving, RecordBeforeMove, Recorded
<1>8. ASSUME NEW o \in Outcome, QueryUnsent(o) \/ MarkUploaded(o) PROVE MoveInv'
  <2>1. DbCall("up", o) /\ UNCHANGED <<http, ppc, imagePath>>
    BY <1>8 DEF QueryUnsent, MarkUploaded, files, procVars
  <2>2. conn'["proc"] = conn["proc"] /\ faults' \in {faults, faults + 1}
    BY <1>0, <2>1, DbCallEffect
  <2>3. QED BY <2>1, <2>2, MoveFrame
<1>9. CASE \E r \in Replies \cup {"OK"}, row \in DOMAIN db \cup {NoId},
              text \in Image \cup {NoText}, got \in BOOLEAN : UploadInfo(r, row, text, got)
  <2>1. UNCHANGED <<http, ppc, imagePath, conn>> /\ faults' \in {faults, faults + 1}
    BY <1>9 DEF UploadInfo, files, procVars
  <2>2. QED BY <2>1, MoveFrame
<1>10. CASE Crash
  <2>1. /\ faults' = faults + 1 /\ ppc' = "idle" /\ UNCHANGED <<db, http>>
        /\ conn'["proc"] = "null"
    BY <1>0, <1>10 DEF Crash, files
  <2>2. faults' <= 1 => faults = 0
    BY <1>0, <2>1
  <2>3. faults' <= 1 => RecordBeforeMove
    BY <2>2 DEF MoveInv
  <2>4. QED BY <2>1, <2>3 DEF MoveInv, Moving, RecordBeforeMove, Recorded
<1>11. QED
  BY <1>1, <1>2, <1>3, <1>4, <1>5, <1>6, <1>7, <1>8, <1>9, <1>10
     DEF Next, ProcessWatchedFiles, Upload, CameraStarts, CameraEnds, Watch, ListFiles, PushListed,
         NextVehicle, Connect, vars, files, procVars

\* To move a picture before its vehicle is recorded takes two faults (calls
\* of the table that fail, a crash, a lost answer), or the failure of one
\* sqlite3_prepare_v2 in the processing thread: that one leaves a dead handle
\* behind, and the error it gives for ever after counts as `the vehicle is
\* there'.
THEOREM MovesNothingOnOneError == Spec => []OneErrorMovesNothing
<1>1. Init => MoveInv
  BY PipelineAssumption DEF Init, TFDBInit, MoveInv, Moving, RecordBeforeMove
<1>2. TypeInv /\ MoveInv /\ [Next]_vars => MoveInv'
  BY MoveStep
<1>3. MoveInv => OneErrorMovesNothing
  BY DEF MoveInv, OneErrorMovesNothing
<1>4. QED BY <1>1, <1>2, <1>3, TypeInvariant, PTL DEF Spec
=============================================================================
