------------------------ MODULE PipelineReportProofs ------------------------
(***************************************************************************)
(* Theorems about the table and the reports to the server, for every set   *)
(* of vehicles, files, faults and bounds.                                  *)
(***************************************************************************)
EXTENDS PipelineProofs, FiniteSetTheorems

\* What has gone wrong so far.
Failures == faults + misread

\* The row ThreadUpload works on has been taken out of listIn for good once
\* the server took its text `Failures + 1' times: it is marked, about to be
\* marked, or the thread cannot read the table any more.
Settled(k) ==
    /\ k \notin listIn
    /\ upc \in {"connect", "send"} => vehicleInfo # k
    /\ db[k].status = 0 \/ conn["up"] = "closed" \/ (upc = "mark" /\ id = k)

\* The rows closed, or about to be closed, without a report.
Doomed ==
    { k \in DOMAIN db : /\ accepted[db[k].img] = 0
                        /\ db[k].status = 0 \/ (upc = "mark" /\ id = k) }

\* The conjuncts of the inductive invariant.
NotYetRecorded == ppc = "add" => ~Recorded(imagePath)
OnlyRecordedSent == \A i \in Image : accepted[i] > 0 => Recorded(i)
DoomedBounded == WxMode => IsFiniteSet(Doomed) /\ Cardinality(Doomed) <= misread
TakenOut ==
    /\ listIn \subseteq DOMAIN db
    /\ vehicleInfo \in DOMAIN db \cup {NoId}
    /\ id \in DOMAIN db \cup {NoId}
    /\ upc \in {"connect", "send"} => vehicleInfo \in DOMAIN db \ listIn
NoMoreReports ==
    \A k \in DOMAIN db : accepted[db[k].img] = Failures + 1 => Settled(k)

ReportInv ==
    /\ OneRowPerImage
    /\ NotYetRecorded
    /\ OnlyRecordedSent
    /\ DoomedBounded
    /\ BoundedResend
    /\ TakenOut
    /\ NoMoreReports

USE DEF Outcome, TFDBTypeOK

LEMMA DbCallEffect ==
    ASSUME TypeInv, NEW t \in Thread, NEW o \in Outcome, DbCall(t, o)
    PROVE  /\ faults' \in {faults, faults + 1}
           /\ \A u \in Thread : u # t => conn'[u] = conn[u]
           /\ conn[t] = "closed" => o = "prepare" /\ conn'[t] = "closed" /\ faults' = faults
           /\ o # "ok" /\ conn[t] # "closed" => faults' = faults + 1
<1>1. conn \in [Thread -> {"null", "open", "closed"}] /\ faults \in Nat
  BY DEF TypeInv, TypeOK
<1>2. QED BY <1>1 DEF DbCall, IsFault, Handle, Outcomes

LEMMA FailuresStep ==
    ASSUME TypeInv, faults' \in {faults, faults + 1}
    PROVE  /\ Failures \in Nat
           /\ misread' = misread => \/ Failures' = Failures /\ faults' = faults
                                   \/ Failures' = Failures + 1
           /\ misread' = misread + 1 => Failures' = Failures + 1 \/ Failures' = Failures + 2
<1>1. faults \in Nat /\ misread \in Nat
  BY DEF TypeInv, TypeOK
<1>2. Failures' = faults' + misread'
  BY DEF Failures
<1>3. CASE faults' = faults
  BY <1>1, <1>2, <1>3 DEF Failures
<1>4. CASE faults' = faults + 1
  <2>1. Failures' = faults + 1 + misread'
    BY <1>2, <1>4
  <2>2. QED BY <1>1, <2>1 DEF Failures
<1>5. QED BY <1>3, <1>4

\* A step that dooms no row, or one and is counted, keeps the bound.
LEMMA DoomedStep ==
    ASSUME TypeInv, DoomedBounded, NEW S,
           \/ S = Doomed /\ misread' = misread
           \/ misread' = misread + 1 /\ \E k : S = Doomed \cup {k},
           Doomed' \subseteq S
    PROVE  DoomedBounded'
<1> SUFFICES ASSUME WxMode PROVE IsFiniteSet(Doomed') /\ Cardinality(Doomed') <= misread'
  BY DEF DoomedBounded
<1>1. IsFiniteSet(Doomed) /\ Cardinality(Doomed) <= misread /\ misread \in Nat
  BY DEF DoomedBounded, TypeInv, TypeOK
<1>2. IsFiniteSet(S) /\ Cardinality(S) <= misread'
  <2>1. CASE S = Doomed /\ misread' = misread
    BY <1>1, <2>1
  <2>2. ASSUME NEW k, S = Doomed \cup {k}, misread' = misread + 1
        PROVE  IsFiniteSet(S) /\ Cardinality(S) <= misread'
    <3>1. /\ IsFiniteSet(S)
          /\ Cardinality(S) = IF k \in Doomed THEN Cardinality(Doomed) ELSE Cardinality(Doomed) + 1
      BY <1>1, <2>2, FS_AddElement
    <3>2. Cardinality(Doomed) \in Nat
      BY <1>1, FS_CardinalityType
    <3>3. QED BY <1>1, <2>2, <3>1, <3>2
  <2>3. QED BY <2>1, <2>2
<1>3. IsFiniteSet(Doomed') /\ Cardinality(Doomed') <= Cardinality(S)
  BY <1>2, FS_Subset
<1>4. Cardinality(Doomed') \in Nat /\ Cardinality(S) \in Nat /\ misread' \in Nat
  BY <1>1, <1>2, <1>3, FS_CardinalityType
<1>5. QED BY <1>2, <1>3, <1>4

\* Steps of the other threads: table, reports and ThreadUpload are untouched.
LEMMA ReportFrame ==
    ASSUME TypeInv, ReportInv, NotYetRecorded',
           UNCHANGED <<db, accepted, listIn, upc, vehicleInfo, id, misread>>,
           conn'["up"] = conn["up"],
           faults' \in {faults, faults + 1}
    PROVE  ReportInv'
<1>1. /\ faults \in Nat /\ misread \in Nat
      /\ accepted \in [Image -> Nat] /\ db \in Seq(Row)
  BY DEF TypeInv, TypeOK
<1>2. OneRowPerImage' /\ OnlyRecordedSent' /\ TakenOut'
  BY DEF ReportInv, OneRowPerImage, OnlyRecordedSent, TakenOut, Recorded
<1>3. BoundedResend'
  BY <1>1 DEF ReportInv, BoundedResend
<1>4. DoomedBounded'
  BY DEF ReportInv, DoomedBounded, Doomed
<1>5. NoMoreReports'
  <2>1. CASE faults' = faults
    BY <2>1 DEF ReportInv, NoMoreReports, Settled, Failures
  <2>2. CASE faults' = faults + 1
    <3>1. \A k \in DOMAIN db : accepted[db[k].img] \in Nat /\ accepted[db[k].img] <= Failures + 1
      BY <1>1, RowType DEF ReportInv, BoundedResend, Failures
    <3>2. \A k \in DOMAIN db : accepted[db[k].img] # Failures' + 1
      BY <1>1, <2>2, <3>1 DEF Failures
    <3>3. QED BY <3>2 DEF NoMoreReports
  <2>3. QED BY <2>1, <2>2
<1>6. QED BY <1>2, <1>3, <1>4, <1>5 DEF ReportInv

LEMMA ReportInit == Init => ReportInv
<1> SUFFICES ASSUME Init PROVE ReportInv
  OBVIOUS
<1>1. /\ db = << >> /\ DOMAIN db = {} /\ listIn = {} /\ upc = "query" /\ ppc = "idle"
      /\ faults = 0 /\ misread = 0 /\ vehicleInfo = NoId /\ id = NoId
  BY DEF Init, TFDBInit
<1>2. \A i \in Image : accepted[i] = 0
  BY DEF Init
<1>3. DoomedBounded
  <2>1. Doomed = {}
    BY <1>1 DEF Doomed
  <2>2. QED BY <1>1, <2>1, FS_EmptySet DEF DoomedBounded
<1>4. QED
  BY <1>1, <1>2, <1>3 DEF ReportInv, OneRowPerImage, NotYetRecorded, OnlyRecordedSent,
     BoundedResend, TakenOut, NoMoreReports

LEMMA ReportAdd ==
    ASSUME TypeInv, ReportInv, NEW o \in Outcome, AddRecord(o)
    PROVE  ReportInv'
<1>1. /\ faults \in Nat /\ misread \in Nat /\ accepted \in [Image -> Nat] /\ db \in Seq(Row)
      /\ imagePath \in Image /\ "proc" \in Thread /\ "up" \in Thread
  BY PipelineAssumption DEF TypeInv, TypeOK, AddRecord
<1>2. /\ faults' \in {faults, faults + 1} /\ conn'["up"] = conn["up"] /\ ppc' = "recheck"
      /\ UNCHANGED <<accepted, listIn, upc, vehicleInfo, id, misread>>
  BY <1>1, DbCallEffect DEF AddRecord, upVars, server
<1>3. NotYetRecorded'
  BY <1>2 DEF NotYetRecorded
<1>4. CASE o # "ok"
  <2>1. db' = db
    BY <1>4 DEF AddRecord, Add
  <2>2. QED BY <2>1, <1>2, <1>3, ReportFrame
<1>5. CASE o = "ok"
  <2> DEFINE new == [img |-> imagePath, status |-> 1]
  <2>1. db' = Append(db, new) /\ new \in Row
    BY <1>1, <1>5 DEF AddRecord, Add, Row
  <2>2. /\ Len(db) \in Nat /\ DOMAIN db = 1..Len(db) /\ DOMAIN db' = 1..(Len(db) + 1)
        /\ \A k \in DOMAIN db : db'[k] = db[k]
        /\ db'[Len(db) + 1] = new
    BY <1>1, <2>1, AppendProperties, LenProperties
  <2>3. \A k \in DOMAIN db : db[k].img # imagePath
    BY DEF AddRecord, ReportInv, NotYetRecorded, Recorded
  <2>4. accepted[imagePath] = 0
    BY <1>1, <2>3 DEF ReportInv, OnlyRecordedSent, Recorded
  <2>5. \A k \in DOMAIN db' : k \in DOMAIN db \/ (k = Len(db) + 1 /\ db'[k].img = imagePath /\ db'[k].status = 1)
    BY <2>2
  <2>6. OneRowPerImage'
    BY <2>2, <2>3, <2>5 DEF OneRowPerImage, ReportInv
  <2>7. OnlyRecordedSent'
    BY <1>2, <2>2 DEF OnlyRecordedSent, ReportInv, Recorded
  <2>8. DoomedBounded'
    <3>1. id # Len(db) + 1
      BY <2>2 DEF ReportInv, TakenOut, NoId
    <3>2. Doomed' \subseteq Doomed
      BY <1>2, <2>2, <2>5, <3>1 DEF Doomed
    <3>3. QED BY <1>2, <3>2, DoomedStep DEF ReportInv
  <2>9. TakenOut'
    BY <1>2, <2>2 DEF TakenOut, ReportInv
  <2>10. BoundedResend'
    BY <1>1, <1>2 DEF BoundedResend, ReportInv
  <2>11. NoMoreReports'
    <3>1. \A k \in DOMAIN db : accepted[db[k].img] \in Nat /\ accepted[db[k].img] <= Failures + 1
      BY <1>1, RowType DEF ReportInv, BoundedResend, Failures
    <3>2. ASSUME NEW k \in DOMAIN db', accepted[db'[k].img] = Failures' + 1 PROVE Settled(k)'
      <4>1. k \in DOMAIN db /\ Failures' = Failures
        <5>1. Failures \in Nat /\ (Failures' = Failures \/ Failures' = Failures + 1) /\ accepted' = accepted
          BY <1>2, FailuresStep
        <5>2. k \in DOMAIN db
          BY <2>4, <2>5, <3>2, <5>1
        <5>3. accepted[db[k].img] = Failures' + 1 /\ accepted[db[k].img] <= Failures + 1
          BY <2>2, <3>1, <3>2, <5>1, <5>2
        <5>4. QED BY <5>1, <5>2, <5>3
      <4>2. Settled(k)
        BY <2>2, <3>2, <4>1 DEF ReportInv, NoMoreReports
      <4>3. QED BY <1>2, <2>2, <4>1, <4>2 DEF Settled
    <3>3. QED BY <1>2, <3>2 DEF NoMoreReports
  <2>12. QED BY <1>3, <2>6, <2>7, <2>8, <2>9, <2>10, <2>11 DEF ReportInv
<1>6. QED BY <1>4, <1>5

LEMMA ReportQuery ==
    ASSUME TypeInv, ReportInv, NEW o \in Outcome, QueryUnsent(o)
    PROVE  ReportInv'
<1>1. /\ faults \in Nat /\ misread \in Nat /\ accepted \in [Image -> Nat] /\ db \in Seq(Row)
      /\ "up" \in Thread
  BY PipelineAssumption DEF TypeInv, TypeOK
<1>2. /\ faults' \in {faults, faults + 1}
      /\ conn["up"] = "closed" => o = "prepare" /\ conn'["up"] = "closed"
      /\ listIn' \in Query(o) /\ upc = "query" /\ listIn = {}
      /\ UNCHANGED <<db, accepted, upc, vehicleInfo, id, misread, ppc, imagePath>>
  BY <1>1, DbCallEffect DEF QueryUnsent, server, procVars
<1>3. listIn' \subseteq Unsent /\ (conn["up"] = "closed" => listIn' = {})
  BY <1>2 DEF Query
<1>4. OneRowPerImage' /\ NotYetRecorded' /\ OnlyRecordedSent'
  BY <1>2 DEF ReportInv, OneRowPerImage, NotYetRecorded, OnlyRecordedSent, Recorded
<1>5. DoomedBounded'
  BY <1>2 DEF ReportInv, DoomedBounded, Doomed
<1>6. TakenOut'
  BY <1>2, <1>3 DEF ReportInv, TakenOut, Unsent
<1>7. BoundedResend'
  BY <1>1, <1>2 DEF BoundedResend, ReportInv
<1>8. NoMoreReports'
  <2> SUFFICES ASSUME NEW k \in DOMAIN db, accepted[db[k].img] = Failures' + 1 PROVE Settled(k)'
    BY <1>2 DEF NoMoreReports
  <2>1. accepted[db[k].img] \in Nat /\ accepted[db[k].img] <= Failures + 1
    BY <1>1, RowType DEF ReportInv, BoundedResend, Failures
  <2>2. Failures' = Failures
    <3>1. Failures \in Nat /\ (Failures' = Failures \/ Failures' = Failures + 1)
      BY <1>2, FailuresStep
    <3>2. QED BY <2>1, <3>1
  <2>3. db[k].status = 0 \/ conn["up"] = "closed"
    BY <1>2, <2>2 DEF ReportInv, NoMoreReports, Settled
  <2>4. k \notin listIn'
    BY <1>3, <2>3 DEF Unsent
  <2>5. QED BY <1>2, <2>3, <2>4 DEF Settled
<1>9. QED BY <1>4, <1>5, <1>6, <1>7, <1>8 DEF ReportInv

LEMMA ReportNext ==
    ASSUME TypeInv, ReportInv, NEW row \in listIn, NextVehicle(row)
    PROVE  ReportInv'
<1>1. /\ upc = "query" /\ upc' = "connect" /\ vehicleInfo' = row /\ listIn' = listIn \ {row}
      /\ UNCHANGED <<db, conn, accepted, misread, id, ppc, imagePath, faults>>
  BY DEF NextVehicle, server, procVars
<1>2. OneRowPerImage' /\ NotYetRecorded' /\ OnlyRecordedSent' /\ BoundedResend' /\ TakenOut'
  BY <1>1 DEF ReportInv, OneRowPerImage, NotYetRecorded, OnlyRecordedSent, BoundedResend, TakenOut,
     Recorded
<1>3. DoomedBounded'
  BY <1>1 DEF ReportInv, DoomedBounded, Doomed
<1>4. NoMoreReports'
  BY <1>1 DEF ReportInv, NoMoreReports, Settled, Failures
<1>5. QED BY <1>2, <1>3, <1>4 DEF ReportInv

LEMMA ReportConnect ==
    ASSUME TypeInv, ReportInv, Connect
    PROVE  ReportInv'
<1>1. /\ upc = "connect" /\ upc' = "send"
      /\ UNCHANGED <<db, conn, accepted, misread, id, ppc, imagePath, faults, listIn, vehicleInfo>>
  BY DEF Connect, server, procVars
<1>2. DoomedBounded'
  BY <1>1 DEF ReportInv, DoomedBounded, Doomed
<1>3. QED
  BY <1>1, <1>2 DEF ReportInv, OneRowPerImage, NotYetRecorded, OnlyRecordedSent, BoundedResend,
     TakenOut, NoMoreReports, Settled, Failures, Recorded

\* UploadInfo, with what was read and taken made explicit.
LEMMA UploadEffect ==
    ASSUME TypeInv, ReportInv, NEW r \in Replies \cup {"OK"}, NEW row \in DOMAIN db \cup {NoId},
           NEW text \in Image \cup {NoText}, NEW got \in BOOLEAN, UploadInfo(r, row, text, got)
    PROVE  /\ upc = "send" /\ upc' \in {"mark", "connect", "query"}
           /\ vehicleInfo \in DOMAIN db \ listIn
           /\ vehicleInfo' \in {vehicleInfo, NoId}
           /\ id' = IF upc' = "mark" THEN row ELSE NoId
           /\ upc' = "mark" /\ WxMode => got
           /\ got => upc' # "connect"
           /\ got /\ upc' # "mark" => faults' = faults + 1
           /\ faults' \in {faults, faults + 1}
           /\ \A i \in Image : accepted'[i] = IF got /\ text = i THEN accepted[i] + 1 ELSE accepted[i]
           /\ got /\ text # NoText => Recorded(text)
           /\ \/ /\ misread' = misread
                 /\ row = vehicleInfo /\ text = db[row].img /\ text \in Image
              \/ misread' = misread + 1
           /\ UNCHANGED <<db, conn, ppc, imagePath, listIn>>
<1>1. /\ faults \in Nat /\ misread \in Nat /\ accepted \in [Image -> Nat] /\ db \in Seq(Row)
      /\ WxMode \in BOOLEAN /\ NoText \notin Image
  BY PipelineAssumption DEF TypeInv, TypeOK
<1>2. /\ upc = "send" /\ faults' \in {faults, faults + 1}
      /\ vehicleInfo' \in {vehicleInfo, NoId}
      /\ id' = IF upc' = "mark" THEN row ELSE NoId
      /\ UNCHANGED <<db, conn, ppc, imagePath, listIn>>
  BY DEF UploadInfo, procVars
<1>3. /\ upc' \in {"mark", "connect", "query"}
      /\ upc' = "mark" <=> r = "OK"
      /\ upc' = "connect" <=> r = "CONNECT_ERROR"
  BY DEF UploadInfo, AfterReply
<1>4. \/ got = (WxMode /\ r = "OK") /\ faults' = faults
      \/ got /\ r = "FALIED" /\ faults' = faults + 1
  BY DEF UploadInfo
<1>5. vehicleInfo \in DOMAIN db \ listIn
  BY <1>2 DEF ReportInv, TakenOut
<1>6. accepted' = IF got /\ text # NoText THEN [accepted EXCEPT ![text] = @ + 1] ELSE accepted
  BY DEF UploadInfo
<1>7. \A i \in Image : accepted'[i] = IF got /\ text = i THEN accepted[i] + 1 ELSE accepted[i]
  BY <1>1, <1>6
<1>8. text # NoText => Recorded(text)
  BY <1>5 DEF UploadInfo, Reads, Recorded
<1>9. \/ /\ misread' = misread
         /\ row = vehicleInfo /\ text = db[row].img /\ text \in Image
      \/ misread' = misread + 1
  <2>1. CASE ReadsRight(row, text)
    BY <1>5, <2>1, RowType, <1>1 DEF UploadInfo, ReadsRight
  <2>2. CASE ~ReadsRight(row, text)
    BY <2>2 DEF UploadInfo
  <2>3. QED BY <2>1, <2>2
<1>10. QED BY <1>1, <1>2, <1>3, <1>4, <1>5, <1>7, <1>8, <1>9

LEMMA ReportUpload ==
    ASSUME TypeInv, ReportInv, NEW r \in Replies \cup {"OK"}, NEW row \in DOMAIN db \cup {NoId},
           NEW text \in Image \cup {NoText}, NEW got \in BOOLEAN, UploadInfo(r, row, text, got)
    PROVE  ReportInv'
<1>1. /\ faults \in Nat /\ misread \in Nat /\ accepted \in [Image -> Nat] /\ db \in Seq(Row)
      /\ NoId \notin DOMAIN db
  BY LenProperties DEF TypeInv, TypeOK, NoId
<1>2. /\ upc = "send" /\ upc' \in {"mark", "connect", "query"}
      /\ vehicleInfo \in DOMAIN db \ listIn
      /\ vehicleInfo' \in {vehicleInfo, NoId}
      /\ id' = IF upc' = "mark" THEN row ELSE NoId
      /\ upc' = "mark" /\ WxMode => got
      /\ got => upc' # "connect"
      /\ got /\ upc' # "mark" => faults' = faults + 1
      /\ faults' \in {faults, faults + 1}
      /\ UNCHANGED <<db, conn, ppc, imagePath, listIn>>
  BY UploadEffect
<1>3. \A i \in Image :
         /\ accepted[i] \in Nat
         /\ accepted'[i] = IF got /\ text = i THEN accepted[i] + 1 ELSE accepted[i]
  <2>1. \A i \in Image : accepted[i] \in Nat
    BY <1>1
  <2>2. QED BY <2>1, UploadEffect
<1>4. \/ /\ misread' = misread
         /\ row = vehicleInfo /\ text = db[row].img /\ text \in Image
      \/ misread' = misread + 1
  BY UploadEffect
<1>5. OneRowPerImage' /\ NotYetRecorded'
  BY <1>2 DEF ReportInv, OneRowPerImage, NotYetRecorded, Recorded
<1>6. OnlyRecordedSent'
  <2>1. NoText \notin Image /\ (got /\ text # NoText => Recorded(text))
    BY PipelineAssumption, UploadEffect
  <2>2. QED BY <1>2, <1>3, <2>1 DEF ReportInv, OnlyRecordedSent, Recorded
<1>7. TakenOut'
  <2>1. upc' = "connect" => vehicleInfo' = vehicleInfo
    BY DEF UploadInfo, AfterReply
  <2>2. QED BY <1>2, <2>1 DEF ReportInv, TakenOut
\* A row is doomed by this step only if the record was read wrong.
<1>8. DoomedBounded'
  <2> SUFFICES ASSUME WxMode PROVE DoomedBounded'
    BY DEF DoomedBounded
  <2>1. \A k \in DOMAIN db : /\ db[k].img \in Image
                             /\ accepted'[db[k].img] = 0 => accepted[db[k].img] = 0
    BY <1>3, RowType, <1>1
  <2>2. CASE misread' = misread /\ row = vehicleInfo /\ text = db[row].img /\ text \in Image
    <3>1. upc' = "mark" => accepted'[db[row].img] # 0
      BY <1>2, <1>3, <2>2
    <3>2. Doomed' \subseteq Doomed
      BY <1>2, <2>1, <3>1 DEF Doomed
    <3>3. QED BY <2>2, <3>2, DoomedStep DEF ReportInv
  <2>3. CASE misread' = misread + 1
    <3>1. Doomed' \subseteq Doomed \cup {row}
      BY <1>2, <2>1 DEF Doomed
    <3>2. QED BY <2>3, <3>1, DoomedStep DEF ReportInv
  <2>4. QED BY <1>4, <2>2, <2>3
\* The text of a record read right had been taken at most `Failures' times.
<1>9. CASE misread' = misread /\ row = vehicleInfo /\ text = db[row].img /\ text \in Image
  <2>1. accepted[text] <= Failures
    <3>1. ~Settled(row)
      BY <1>2, <1>9 DEF Settled
    <3>2. accepted[text] <= Failures + 1 /\ accepted[text] # Failures + 1
      BY <1>1, <1>2, <1>9, <3>1 DEF ReportInv, NoMoreReports, BoundedResend, Failures
    <3>3. QED BY <1>1, <1>3, <1>9, <3>2 DEF Failures
  <2>2. BoundedResend'
    BY <1>1, <1>2, <1>3, <1>9, <2>1 DEF ReportInv, BoundedResend, Failures
  <2>3. NoMoreReports'
    <3> SUFFICES ASSUME NEW k \in DOMAIN db, accepted'[db[k].img] = Failures' + 1 PROVE Settled(k)'
      BY <1>2 DEF NoMoreReports
    <3>1. db[k].img \in Image /\ accepted[db[k].img] <= Failures + 1
      BY <1>1, RowType DEF ReportInv, BoundedResend, Failures
    <3>2. CASE got /\ text = db[k].img
      <4>1. k = row
        BY <1>2, <1>9, <3>2 DEF ReportInv, OneRowPerImage
      <4>2. faults' = faults
        BY <1>1, <1>2, <1>3, <1>9, <2>1, <3>1, <3>2 DEF Failures
      <4>3. upc' = "mark"
        BY <1>1, <1>2, <3>2, <4>2
      <4>4. QED BY <1>2, <1>9, <4>1, <4>3 DEF Settled
    <3>3. CASE ~(got /\ text = db[k].img)
      <4>1. accepted[db[k].img] = Failures + 1
        <5>1. Failures \in Nat /\ (Failures' = Failures \/ Failures' = Failures + 1)
          BY <1>2, <1>9, FailuresStep
        <5>2. accepted[db[k].img] \in Nat /\ accepted[db[k].img] = Failures' + 1
          BY <1>3, <3>1, <3>3
        <5>3. QED BY <3>1, <5>1, <5>2
      <4>2. Settled(k)
        BY <4>1 DEF ReportInv, NoMoreReports
      <4>3. QED BY <1>1, <1>2, <4>2 DEF Settled
    <3>4. QED BY <3>2, <3>3
  <2>4. QED BY <1>5, <1>6, <1>7, <1>8, <2>2, <2>3 DEF ReportInv
\* A record read wrong may repeat the text of any row, but is counted.
<1>10. CASE misread' = misread + 1
  <2>1. \A i \in Image : accepted[i] \in Nat /\ accepted[i] <= Failures + 1
    <3>1. \A i \in Image : accepted[i] <= 1 + faults + misread
      BY DEF ReportInv, BoundedResend
    <3>2. 1 + faults + misread = Failures + 1
      BY <1>1 DEF Failures
    <3>3. QED BY <1>3, <3>1, <3>2
  <2>2. BoundedResend'
    BY <1>1, <1>2, <1>3, <1>10, <2>1 DEF BoundedResend, Failures
  <2>3. NoMoreReports'
    <3> SUFFICES ASSUME NEW k \in DOMAIN db, accepted'[db[k].img] = Failures' + 1 PROVE Settled(k)'
      BY <1>2 DEF NoMoreReports
    <3>1. db[k].img \in Image
      BY <1>1, RowType
    <3>2. got /\ accepted[db[k].img] = Failures + 1
      <4>1. Failures \in Nat /\ (Failures' = Failures + 1 \/ Failures' = Failures + 2)
        BY <1>2, <1>10, FailuresStep
      <4>2. got /\ text = db[k].img
        BY <1>3, <2>1, <3>1, <4>1
      <4>3. accepted[db[k].img] + 1 = Failures' + 1
        BY <1>3, <3>1, <4>2
      <4>4. QED BY <2>1, <3>1, <4>1, <4>2, <4>3
    <3>3. Settled(k)
      BY <3>2 DEF ReportInv, NoMoreReports
    <3>4. QED BY <1>2, <3>2, <3>3 DEF Settled
  <2>4. QED BY <1>5, <1>6, <1>7, <1>8, <2>2, <2>3 DEF ReportInv
<1>11. QED BY <1>4, <1>9, <1>10

LEMMA ReportMark ==
    ASSUME TypeInv, ReportInv, NEW o \in Outcome, MarkUploaded(o)
    PROVE  ReportInv'
<1>1. /\ faults \in Nat /\ misread \in Nat /\ accepted \in [Image -> Nat] /\ db \in Seq(Row)
      /\ "up" \in Thread /\ conn \in [Thread -> {"null", "open", "closed"}]
  BY PipelineAssumption DEF TypeInv, TypeOK
<1>2. /\ faults' \in {faults, faults + 1}
      /\ conn["up"] = "closed" => conn'["up"] = "closed"
      /\ o # "ok" => conn'["up"] = "closed" \/ faults' = faults + 1
      /\ upc = "mark" /\ upc' = "query" /\ id' = NoId
      /\ UNCHANGED <<accepted, misread, listIn, vehicleInfo, ppc, imagePath>>
  BY <1>1, DbCallEffect DEF MarkUploaded, server, procVars
<1>3. /\ DOMAIN db' = DOMAIN db
      /\ \A k \in DOMAIN db : db'[k].img = db[k].img
      /\ \A k \in DOMAIN db : db'[k] = db[k] \/ (k = id /\ db'[k].status = 0)
      /\ o = "ok" /\ id \in DOMAIN db => db'[id].status = 0
  BY <1>1, MarkedTable DEF MarkUploaded, Uploaded
<1>4. OneRowPerImage' /\ NotYetRecorded' /\ OnlyRecordedSent' /\ TakenOut'
  BY <1>2, <1>3 DEF ReportInv, OneRowPerImage, NotYetRecorded, OnlyRecordedSent, TakenOut, Recorded
<1>5. DoomedBounded'
  <2>1. Doomed' \subseteq Doomed
    BY <1>2, <1>3 DEF Doomed
  <2>2. QED BY <1>2, <2>1, DoomedStep DEF ReportInv
<1>6. BoundedResend'
  BY <1>1, <1>2 DEF ReportInv, BoundedResend
<1>7. NoMoreReports'
  <2> SUFFICES ASSUME NEW k \in DOMAIN db, accepted[db[k].img] = Failures' + 1 PROVE Settled(k)'
    BY <1>2, <1>3 DEF NoMoreReports
  <2>1. accepted[db[k].img] \in Nat /\ accepted[db[k].img] <= Failures + 1
    BY <1>1, RowType DEF ReportInv, BoundedResend, Failures
  <2>2. faults' = faults /\ Failures' = Failures
    <3>1. /\ Failures \in Nat /\ (Failures' = Failures \/ Failures' = Failures + 1)
          /\ Failures' = Failures => faults' = faults
      BY <1>2, FailuresStep
    <3>2. QED BY <2>1, <3>1
  <2>3. Settled(k)
    BY <2>2 DEF ReportInv, NoMoreReports
  <2>4. db'[k].status = 0 \/ conn'["up"] = "closed"
    <3>1. CASE o = "ok"
      BY <1>2, <1>3, <2>3, <3>1 DEF Settled
    <3>2. CASE o # "ok"
      <4>1. faults' # faults + 1
        BY <1>1, <2>2
      <4>2. QED BY <1>2, <3>2, <4>1
    <3>3. QED BY <3>1, <3>2
  <2>5. QED BY <1>2, <2>3, <2>4 DEF Settled
<1>8. QED BY <1>4, <1>5, <1>6, <1>7 DEF ReportInv

LEMMA ReportCrash ==
    ASSUME TypeInv, ReportInv, Crash
    PROVE  ReportInv'
<1>1. faults \in Nat /\ misread \in Nat /\ accepted \in [Image -> Nat] /\ db \in Seq(Row)
  BY DEF TypeInv, TypeOK
<1>2. /\ faults' = faults + 1 /\ ppc' = "idle" /\ upc' = "query" /\ listIn' = {}
      /\ vehicleInfo' = NoId /\ id' = NoId /\ UNCHANGED <<db, accepted, misread>>
  BY DEF Crash, server
<1>3. OneRowPerImage' /\ NotYetRecorded' /\ OnlyRecordedSent' /\ TakenOut'
  BY <1>2 DEF ReportInv, OneRowPerImage, NotYetRecorded, OnlyRecordedSent, TakenOut, Recorded
<1>4. DoomedBounded'
  <2>1. Doomed' \subseteq Doomed
    BY <1>2 DEF Doomed
  <2>2. QED BY <1>2, <2>1, DoomedStep DEF ReportInv
<1>5. BoundedResend'
  BY <1>1, <1>2 DEF ReportInv, BoundedResend
<1>6. \A k \in DOMAIN db : accepted[db[k].img] \in Nat /\ accepted[db[k].img] <= Failures + 1
  BY <1>1, RowType DEF ReportInv, BoundedResend, Failures
<1>7. NoMoreReports'
  BY <1>1, <1>2, <1>6 DEF NoMoreReports, Failures
<1>8. QED BY <1>3, <1>4, <1>5, <1>7 DEF ReportInv

LEMMA ReportStep == TypeInv /\ ReportInv /\ [Next]_vars => ReportInv'
<1> SUFFICES ASSUME TypeInv, ReportInv, [Next]_vars PROVE ReportInv'
  OBVIOUS
<1> DEFINE Untouched == /\ UNCHANGED <<db, accepted, listIn, upc, vehicleInfo, id, misread>>
                        /\ conn'["up"] = conn["up"]
                        /\ faults' \in {faults, faults + 1}
<1>0. "proc" \in Thread /\ "up" \in Thread
  BY PipelineAssumption
<1>1. ASSUME NEW n \in Uploads, CameraStarts(n) \/ CameraEnds(n) PROVE ReportInv'
  BY <1>1, ReportFrame DEF CameraStarts, CameraEnds, upVars, server, procVars, ReportInv,
     NotYetRecorded, Recorded
<1>2. CASE Watch
  BY <1>2, ReportFrame DEF Watch, upVars, server, procVars, ReportInv, NotYetRecorded, Recorded
<1>3. CASE ListFiles
  BY <1>3, ReportFrame DEF ListFiles, upVars, server, procVars, ReportInv, NotYetRecorded, Recorded
<1>4. ASSUME NEW n \in list, PushListed(n) PROVE ReportInv'
  BY <1>4, ReportFrame DEF PushListed, upVars, server, procVars, ReportInv, NotYetRecorded, Recorded
<1>5. CASE TakeImage
  BY <1>5, ReportFrame DEF TakeImage, upVars, server, NotYetRecorded
<1>6. ASSUME NEW o \in Outcome, CheckRecord(o) PROVE ReportInv'
  <2>1. Untouched
    BY <1>0, <1>6, DbCallEffect DEF CheckRecord, upVars, server
  <2>2. NotYetRecorded'
    BY <1>6 DEF CheckRecord, CheckImageExist, NotYetRecorded, Recorded
  <2>3. QED BY <2>1, <2>2, ReportFrame
<1>7. ASSUME NEW o \in Outcome, AddRecord(o) PROVE ReportInv'
  BY <1>7, ReportAdd
<1>8. ASSUME NEW o \in Outcome, Recheck(o) PROVE ReportInv'
  <2>1. Untouched
    BY <1>0, <1>8, DbCallEffect DEF Recheck, upVars, server
  <2>2. NotYetRecorded'
    BY <1>8 DEF Recheck, NotYetRecorded
  <2>3. QED BY <2>1, <2>2, ReportFrame
<1>9. ASSUME NEW p \in Part, Copy(p) PROVE ReportInv'
  BY <1>9, ReportFrame DEF Copy, AfterMove, upVars, server, NotYetRecorded
<1>10. ASSUME NEW p \in Part, Delete(p) PROVE ReportInv'
  BY <1>10, ReportFrame DEF Delete, AfterMove, upVars, server, NotYetRecorded
<1>11. CASE UNCHANGED vars
  BY <1>11, ReportFrame DEF vars, upVars, server, procVars, ReportInv, NotYetRecorded, Recorded
<1>12. CASE \E r \in Replies \cup {"OK"}, row \in DOMAIN db \cup {NoId},
             text \in Image \cup {NoText}, got \in BOOLEAN : UploadInfo(r, row, text, got)
  BY <1>12, ReportUpload
<1>13. QED
  BY <1>1, <1>2, <1>3, <1>4, <1>5, <1>6, <1>7, <1>8, <1>9, <1>10, <1>11, <1>12, ReportQuery,
     ReportNext, ReportConnect, ReportMark, ReportCrash
     DEF Next, ProcessWatchedFiles, Upload

LEMMA ReportInvariant == Spec => []ReportInv
BY TypeInvariant, ReportInit, ReportStep, PTL DEF Spec

\* However many names of a vehicle are queued and whatever calls of the
\* table fail, the vehicle has one row.
THEOREM RecordedOnce == Spec => []OneRowPerImage
<1>1. ReportInv => OneRowPerImage
  BY DEF ReportInv
<1>2. QED BY <1>1, ReportInvariant, PTL

\* However often a deleted record is read again after a connection error, and
\* whatever id and text come out of it, no more rows are closed without a
\* report than there were wrong reads: without one, a row is marked uploaded
\* only after the server took its vehicle's text.
THEOREM MarkedAfterReport == Spec => []ClosedWasReported
<1>1. TypeInv /\ ReportInv => ClosedWasReported
  <2> SUFFICES ASSUME TypeInv, ReportInv, WxMode PROVE Cardinality(Unreported) <= misread
    BY DEF ClosedWasReported
  <2>1. IsFiniteSet(Doomed) /\ Cardinality(Doomed) <= misread /\ misread \in Nat
    BY DEF ReportInv, DoomedBounded, TypeInv, TypeOK
  <2>2. Unreported \subseteq Doomed
    BY DEF Unreported, Doomed
  <2>3. Cardinality(Unreported) <= Cardinality(Doomed) /\ IsFiniteSet(Unreported)
    BY <2>1, <2>2, FS_Subset
  <2>4. Cardinality(Unreported) \in Nat /\ Cardinality(Doomed) \in Nat
    BY <2>1, <2>3, FS_CardinalityType
  <2>5. QED BY <2>1, <2>3, <2>4
<1>2. QED BY <1>1, TypeInvariant, ReportInvariant, PTL

\* The server takes the text of a vehicle at most once more than there are
\* faults and wrong reads of a deleted record: without them exactly-once
\* reporting is never exceeded.
THEOREM ReportedOnceBarFaults == Spec => []BoundedResend
<1>1. ReportInv => BoundedResend
  BY DEF ReportInv
<1>2. QED BY <1>1, ReportInvariant, PTL
=============================================================================
