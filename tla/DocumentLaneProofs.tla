------------------------- MODULE DocumentLaneProofs -------------------------
(***************************************************************************)
(* Proofs about DocumentLane, for any number of handlers, contents,        *)
(* attempts and failures.  TypeOK and LaneInv are inductive; the safety    *)
(* properties and the implementation of DocumentFile follow from LaneInv.  *)
(***************************************************************************)
EXTENDS DocumentLane, FiniteSetTheorems, TLAPS

\* The literals the actions use are in the sets TypeOK names.
LEMMA Literals ==
    /\ Final \subseteq ScanStatus
    /\ {"pending", "error"} \subseteq ScanStatus
    /\ {"uploaded", "quarantined", "scan_pending", "replay", "rejected",
        "conflict", "unavailable", "error"} \subseteq Outcome
    /\ {"idle", "put", "persist", "resolve", "record", "claim", "rescan_claim",
        "reread", "fetch", "scan", "publish", "fail", "release"} \subseteq Step
BY DEF Final, ScanStatus, Outcome, Step, Holding, Working

\* Moving a handler keeps its program counter in Step.
LEMMA GotoType ==
    ASSUME TypeOK, NEW h \in Handler, NEW s \in Step, Goto(h, s)
    PROVE  pc' \in [Handler -> Step]
BY DEF TypeOK, Goto

\* Answering a request keeps the handler's variables typed.
LEMMA FinishType ==
    ASSUME TypeOK, NEW h \in Handler, NEW o \in Outcome \cup {"none"}, Finish(h, o)
    PROVE  /\ pc' \in [Handler -> Step]
           /\ answer' \in [Handler -> Outcome \cup {"none"}]
           /\ attempt' \in [Handler -> Attempt \cup {NoAttempt}]
           /\ verdict' \in [Handler -> Final \cup {"none"}]
BY GotoType, Literals DEF TypeOK, Finish

\* The row, the handlers, storage and the log keep their types.
THEOREM TypeCorrect == Spec => []TypeOK
<1>1. Init => TypeOK
  BY MaxFaultsAssumption DEF Init, TypeOK, Content, Step, Holding, Working, Final, Outcome, ScanStatus
<1>2. TypeOK /\ [Next]_vars => TypeOK'
  <2>. SUFFICES ASSUME TypeOK, [Next]_vars
                PROVE  TypeOK'
    OBVIOUS
  <2>. USE MaxFaultsAssumption, Literals, GotoType, FinishType
       DEF TypeOK, Content, Begin, AnswerAtOnce, GoOn, Fault, Disown,
           row, file, records, counters
  <2>1. ASSUME NEW h \in Handler, NEW f \in File, UploadSnapshot(h, f) PROVE TypeOK'
    BY <2>1 DEF UploadSnapshot
  <2>2. ASSUME NEW h \in Handler, UploadInvalid(h) PROVE TypeOK'
    BY <2>2 DEF UploadInvalid
  <2>3. ASSUME NEW h \in Handler, RescanSnapshot(h) PROVE TypeOK'
    BY <2>3 DEF RescanSnapshot
  <2>4. ASSUME NEW h \in Handler, Put(h) PROVE TypeOK'
    BY <2>4 DEF Put
  <2>5. ASSUME NEW h \in Handler, PersistFileState(h) PROVE TypeOK'
    BY <2>5 DEF PersistFileState, AttachFile
  <2>6. ASSUME NEW h \in Handler, Resolve(h) PROVE TypeOK'
    <3>1. CASE Finish(h, "replay")
      BY <2>6, <3>1 DEF Resolve
    <3>2. CASE Goto(h, "claim") /\ UNCHANGED <<attempt, verdict, answer>>
      BY <2>6, <3>2 DEF Resolve
    <3>3. CASE /\ Goto(h, "record")
               /\ answer' = [answer EXCEPT ![h] = "conflict"]
               /\ UNCHANGED <<attempt, verdict>>
      BY <2>6, <3>3 DEF Resolve
    <3>. QED
      BY <2>6, <3>1, <3>2, <3>3, Zenon DEF Resolve
  <2>7. ASSUME NEW h \in Handler, RecordOrphan(h) PROVE TypeOK'
    <3>1. /\ pc' \in [Handler -> Step]
          /\ answer' \in [Handler -> Outcome \cup {"none"}]
          /\ attempt' \in [Handler -> Attempt \cup {NoAttempt}]
          /\ verdict' \in [Handler -> Final \cup {"none"}]
      BY <2>7 DEF RecordOrphan
    <3>2. logged' \subseteq Content
      BY <2>7 DEF RecordOrphan
    <3>. QED
      BY <2>7, <3>1, <3>2 DEF RecordOrphan
  <2>8. ASSUME NEW h \in Handler, ClaimScanAttempt(h) PROVE TypeOK'
    <3>1. PICK a \in Attempt : attempt' = [attempt EXCEPT ![h] = a] /\ scan_attempt_id' = a
      BY <2>8 DEF ClaimScanAttempt, Fresh
    <3>2. pc' \in [Handler -> Step]
      BY <2>8 DEF ClaimScanAttempt
    <3>. QED
      BY <2>8, <3>1, <3>2 DEF ClaimScanAttempt
  <2>9. ASSUME NEW h \in Handler, ClaimLost(h) PROVE TypeOK'
    BY <2>9 DEF ClaimLost
  <2>10. ASSUME NEW h \in Handler, Reread(h) PROVE TypeOK'
    BY <2>10 DEF Reread
  <2>11. ASSUME NEW h \in Handler, Fetch(h) PROVE TypeOK'
    BY <2>11 DEF Fetch
  <2>12. ASSUME NEW h \in Handler, ReleaseScanAttempt(h) PROVE TypeOK'
    BY <2>12 DEF ReleaseScanAttempt
  <2>13. ASSUME NEW h \in Handler, ScannerAnswers(h) PROVE TypeOK'
    <3>1. PICK v \in Final : /\ verdict' = [verdict EXCEPT ![h] = v]
                             /\ found' = found \cup {<<data[h], v>>}
      BY <2>13 DEF ScannerAnswers
    <3>2. found' \subseteq Content \X Final
      BY <2>13, <3>1 DEF ScannerAnswers
    <3>3. pc' \in [Handler -> Step]
      BY <2>13 DEF ScannerAnswers
    <3>. QED
      BY <2>13, <3>1, <3>2, <3>3 DEF ScannerAnswers
  <2>14. ASSUME NEW h \in Handler, PersistScanError(h) PROVE TypeOK'
    BY <2>14 DEF PersistScanError
  <2>15. ASSUME NEW h \in Handler, PersistScanResult(h) PROVE TypeOK'
    <3>1. verdict[h] \in Final
      BY <2>15 DEF PersistScanResult, Publishable, Final
    <3>2. PICK o \in Outcome : Finish(h, o)
      BY <2>15 DEF PersistScanResult
    <3>. QED
      BY <2>15, <3>1, <3>2 DEF PersistScanResult
  <2>16. ASSUME NEW h \in Handler, PublishRefused(h) PROVE TypeOK'
    BY <2>16 DEF PublishRefused
  <2>17. ASSUME NEW h \in Handler, PutFails(h) PROVE TypeOK'
    <3>1. data[h] \in Content /\ "error" \in Outcome \cup {"none"}
      OBVIOUS
    <3>2. object' \in [File -> {"absent", "intact", "damaged"}] /\ lost' \subseteq Content
      BY <2>17, <3>1 DEF PutFails
    <3>. QED
      BY <2>17, <3>1, <3>2 DEF PutFails
  <2>18. ASSUME NEW h \in Handler, PersistFails(h) PROVE TypeOK'
    BY <2>18 DEF PersistFails, AttachFile
  <2>19. ASSUME NEW h \in Handler, RecordOrphanFails(h) PROVE TypeOK'
    <3>1. answer[h] \in Outcome \cup {"none"} /\ Finish(h, answer[h])
      BY <2>19 DEF RecordOrphanFails
    <3>. QED
      BY <2>19, <3>1 DEF RecordOrphanFails
  <2>20. ASSUME NEW h \in Handler, FetchFails(h) PROVE TypeOK'
    BY <2>20 DEF FetchFails
  <2>21. ASSUME NEW h \in Handler, ScannerUnavailable(h) PROVE TypeOK'
    BY <2>21 DEF ScannerUnavailable
  <2>22. ASSUME NEW h \in Handler, Crash(h) PROVE TypeOK'
    BY <2>22 DEF Crash
  <2>23. CASE LeaseExpires
    BY <2>23 DEF LeaseExpires
  <2>24. CASE LeaseOverruns
    BY <2>24 DEF LeaseOverruns
  <2>25. ASSUME NEW f \in File, Damage(f) PROVE TypeOK'
    BY <2>25 DEF Damage
  <2>26. CASE UNCHANGED vars
    BY <2>26 DEF vars
  <2>. QED
    BY <2>1, <2>2, <2>3, <2>4, <2>5, <2>6, <2>7, <2>8, <2>9,
       <2>10, <2>11, <2>12, <2>13, <2>14, <2>15, <2>16, <2>17,
       <2>18, <2>19, <2>20, <2>21, <2>22, <2>23, <2>24, <2>25,
       <2>26,
       Zenon DEF Next, Request, Progress, Failure
<1>. QED
  BY <1>1, <1>2, PTL DEF Spec

-----------------------------------------------------------------------------
(* LaneInv.  A step of handler h leaves the other handlers' variables as   *)
(* they were; what it may do to the row and to storage is all that can     *)
(* disturb them.                                                           *)

Others(h) ==
    \A g \in Handler \ {h} :
        /\ pc'[g] = pc[g]
        /\ data'[g] = data[g]
        /\ attempt'[g] = attempt[g]
        /\ verdict'[g] = verdict[g]
        /\ answer'[g] = answer[g]

\* The other handlers stay consistent, and their answers true, when the file
\* on record and a final verdict are kept and no scanner verdict is forgotten.
LEMMA OthersKept ==
    ASSUME TypeOK, LaneInv, NEW h \in Handler, Others(h),
           sha256 # NoFile => sha256' = sha256,
           scan_status \in Final => scan_status' = scan_status,
           found \subseteq found'
    PROVE  \A g \in Handler \ {h} : HandlerInv(g)' /\ HonestAnswer(g)'
<1>. SUFFICES ASSUME NEW g \in Handler \ {h}
              PROVE  HandlerInv(g)' /\ HonestAnswer(g)'
  OBVIOUS
<1>1. HandlerInv(g) /\ HonestAnswer(g)
  BY DEF LaneInv, AnswersHonest
<1>2. HandlerInv(g)'
  BY <1>1 DEF Others, HandlerInv
<1>3. HonestAnswer(g)'
  BY <1>1 DEF Others, HonestAnswer, Final, LaneInv, RowInv
<1>. QED
  BY <1>2, <1>3

\* No object is forgotten by a step that keeps the storage key and the records,
\* creates no object but the one its handler now holds or has recorded, and
\* drops the object it held only once it is referenced or recorded.
LEMMA OrphansKept ==
    ASSUME TypeOK, OrphansAccounted, NEW h \in Handler, Others(h),
           storage_key # NoFile => storage_key' = storage_key,
           logged \subseteq logged', lost \subseteq lost',
           \A f \in File : object'[f] # "absent" /\ object[f] = "absent" =>
               f \in lost' \/ (data'[h] = f /\ pc'[h] \in Holding),
           pc[h] \in Holding =>
               \/ data[h] \in {storage_key'} \cup logged' \cup lost'
               \/ pc'[h] \in Holding /\ data'[h] = data[h]
    PROVE  OrphansAccounted'
<1>. SUFFICES ASSUME NEW f \in File, object'[f] # "absent"
              PROVE  \/ f = storage_key'
                     \/ f \in logged' \cup lost'
                     \/ \E g \in Handler : data'[g] = f /\ pc'[g] \in Holding
  BY DEF OrphansAccounted
<1>1. CASE object[f] = "absent"
  BY <1>1
<1>2. CASE f = storage_key
  BY <1>2, NullAssumption
<1>3. CASE f \in logged \cup lost
  BY <1>3
<1>4. ASSUME NEW g \in Handler, data[g] = f, pc[g] \in Holding
      PROVE  \/ f = storage_key'
             \/ f \in logged' \cup lost'
             \/ \E i \in Handler : data'[i] = f /\ pc'[i] \in Holding
  BY <1>4 DEF Others
<1>. QED
  BY <1>1, <1>2, <1>3, <1>4 DEF OrphansAccounted

\* LaneInv holds of every reachable state: it is inductive given TypeOK.
THEOREM LaneInvariant == Spec => []LaneInv
<1>1. Init => LaneInv
  BY DEF Init, LaneInv, RowInv, HandlerInv, AnswersHonest, HonestAnswer,
         OrphansAccounted, Working, Holding, Final
<1>2. TypeOK /\ LaneInv /\ [Next]_vars => LaneInv'
  <2>. SUFFICES ASSUME TypeOK, LaneInv, [Next]_vars
                PROVE  LaneInv'
    OBVIOUS
  <2>. USE NullAssumption
       DEF Goto, Finish, Begin, AnswerAtOnce, GoOn, Fault, Disown,
           row, file, records, counters
  <2>1. ASSUME NEW h \in Handler, NEW f \in File, UploadSnapshot(h, f) PROVE LaneInv'
    <3>1. Others(h)
      BY <2>1 DEF TypeOK, Others, UploadSnapshot
    <3>2. RowInv'
      BY <2>1 DEF TypeOK, LaneInv, RowInv, HandlerInv, UploadSnapshot, Working, Holding, Final
    <3>3. HandlerInv(h)' /\ HonestAnswer(h)'
      <4>1. HandlerInv(h) /\ pc[h] = "idle" /\ data'[h] = f /\ f # NoFile /\ sha256' = sha256
        BY <2>1 DEF TypeOK, LaneInv, UploadSnapshot
      <4>2. CASE sha256 = NoFile /\ GoOn(h, f, "put")
        BY <4>1, <4>2 DEF TypeOK, HandlerInv, HonestAnswer, Working, Holding
      <4>3. CASE sha256 = f /\ GoOn(h, f, "claim")
        BY <4>1, <4>3 DEF TypeOK, HandlerInv, HonestAnswer, Working, Holding
      <4>4. CASE sha256 = f /\ AnswerAtOnce(h, f, "replay")
        BY <4>1, <4>4 DEF TypeOK, HandlerInv, HonestAnswer, Working, Holding
      <4>5. CASE sha256 \notin {NoFile, f} /\ AnswerAtOnce(h, f, "conflict")
        BY <4>1, <4>5 DEF TypeOK, HandlerInv, HonestAnswer, Working, Holding
      <4>. QED
        BY <2>1, <4>2, <4>3, <4>4, <4>5, Zenon DEF UploadSnapshot
    <3>4. OrphansAccounted'
      BY <2>1, <3>1, OrphansKept DEF TypeOK, LaneInv, RowInv, HandlerInv, UploadSnapshot,
                  Content, Working, Holding
    <3>. QED
      BY <2>1, <3>1, <3>2, <3>3, <3>4, OthersKept DEF LaneInv, AnswersHonest, RowInv, UploadSnapshot, Final
  <2>2. ASSUME NEW h \in Handler, UploadInvalid(h) PROVE LaneInv'
    <3>1. Others(h)
      BY <2>2 DEF TypeOK, Others, UploadInvalid
    <3>2. RowInv'
      BY <2>2 DEF TypeOK, LaneInv, RowInv, HandlerInv, UploadInvalid, Working, Holding, Final
    <3>3. HandlerInv(h)' /\ HonestAnswer(h)'
      BY <2>2 DEF TypeOK, LaneInv, RowInv, HandlerInv, HonestAnswer, UploadInvalid,
                  Content, Working, Holding, Final
    <3>4. OrphansAccounted'
      BY <2>2, <3>1, OrphansKept DEF TypeOK, LaneInv, RowInv, HandlerInv, UploadInvalid,
                  Content, Working, Holding
    <3>. QED
      BY <2>2, <3>1, <3>2, <3>3, <3>4, OthersKept DEF LaneInv, AnswersHonest, RowInv, UploadInvalid, Final
  <2>3. ASSUME NEW h \in Handler, RescanSnapshot(h) PROVE LaneInv'
    <3>1. Others(h)
      BY <2>3 DEF TypeOK, Others, RescanSnapshot
    <3>2. RowInv'
      BY <2>3 DEF TypeOK, LaneInv, RowInv, HandlerInv, RescanSnapshot, Working, Holding, Final
    <3>3. HandlerInv(h)' /\ HonestAnswer(h)'
      BY <2>3 DEF TypeOK, LaneInv, RowInv, HandlerInv, HonestAnswer, RescanSnapshot,
                  Content, Working, Holding, Final
    <3>4. OrphansAccounted'
      BY <2>3, <3>1, OrphansKept DEF TypeOK, LaneInv, RowInv, HandlerInv, RescanSnapshot,
                  Content, Working, Holding
    <3>. QED
      BY <2>3, <3>1, <3>2, <3>3, <3>4, OthersKept DEF LaneInv, AnswersHonest, RowInv, RescanSnapshot, Final
  <2>4. ASSUME NEW h \in Handler, Put(h) PROVE LaneInv'
    <3>1. Others(h)
      BY <2>4 DEF TypeOK, Others, Put
    <3>2. RowInv'
      BY <2>4 DEF TypeOK, LaneInv, RowInv, HandlerInv, Put, Working, Holding, Final
    <3>3. HandlerInv(h)' /\ HonestAnswer(h)'
      BY <2>4 DEF TypeOK, LaneInv, RowInv, HandlerInv, HonestAnswer, Put,
                  Content, Working, Holding, Final
    <3>4. OrphansAccounted'
      BY <2>4, <3>1, OrphansKept DEF TypeOK, LaneInv, RowInv, HandlerInv, Put,
                  Content, Working, Holding
    <3>. QED
      BY <2>4, <3>1, <3>2, <3>3, <3>4, OthersKept DEF LaneInv, AnswersHonest, RowInv, Put, Final
  <2>5. ASSUME NEW h \in Handler, PersistFileState(h) PROVE LaneInv'
    <3>1. Others(h)
      BY <2>5 DEF TypeOK, Others, PersistFileState, AttachFile
    <3>2. RowInv'
      <4>1. RowInv /\ data[h] \in File
        BY <2>5 DEF LaneInv, HandlerInv, PersistFileState, AttachFile, Holding
      <4>2. CASE sha256 = NoFile
        <5>1. scan_status = "not_scanned" /\ scan_attempt_id = NoAttempt
          BY <4>1, <4>2 DEF RowInv
        <5>. QED
          BY <2>5, <4>1, <4>2, <5>1 DEF RowInv, PersistFileState, AttachFile, Final
      <4>3. CASE sha256 # NoFile
        BY <2>5, <4>1, <4>3 DEF RowInv, PersistFileState, AttachFile, Final
      <4>. QED
        BY <4>2, <4>3
    <3>3. HandlerInv(h)' /\ HonestAnswer(h)'
      BY <2>5 DEF TypeOK, LaneInv, RowInv, HandlerInv, HonestAnswer, PersistFileState, AttachFile,
                  Content, Working, Holding, Final
    <3>4. OrphansAccounted'
      BY <2>5, <3>1, OrphansKept DEF TypeOK, LaneInv, RowInv, HandlerInv, PersistFileState, AttachFile,
                  Content, Working, Holding
    <3>. QED
      BY <2>5, <3>1, <3>2, <3>3, <3>4, OthersKept DEF LaneInv, AnswersHonest, RowInv, PersistFileState, AttachFile, Final
  <2>6. ASSUME NEW h \in Handler, Resolve(h) PROVE LaneInv'
    <3>1. Others(h)
      BY <2>6 DEF TypeOK, Others, Resolve
    <3>2. RowInv'
      BY <2>6 DEF TypeOK, LaneInv, RowInv, HandlerInv, Resolve, Working, Holding, Final
    <3>3. HandlerInv(h)' /\ HonestAnswer(h)'
      BY <2>6 DEF TypeOK, LaneInv, RowInv, HandlerInv, HonestAnswer, Resolve,
                  Content, Working, Holding, Final
    <3>4. OrphansAccounted'
      BY <2>6, <3>1, OrphansKept DEF TypeOK, LaneInv, RowInv, HandlerInv, Resolve,
                  Content, Working, Holding
    <3>. QED
      BY <2>6, <3>1, <3>2, <3>3, <3>4, OthersKept DEF LaneInv, AnswersHonest, RowInv, Resolve, Final
  <2>7. ASSUME NEW h \in Handler, RecordOrphan(h) PROVE LaneInv'
    <3>1. Others(h)
      BY <2>7 DEF TypeOK, Others, RecordOrphan
    <3>2. RowInv'
      BY <2>7 DEF TypeOK, LaneInv, RowInv, HandlerInv, RecordOrphan, Working, Holding, Final
    <3>3. HandlerInv(h)' /\ HonestAnswer(h)'
      BY <2>7 DEF TypeOK, LaneInv, RowInv, HandlerInv, HonestAnswer, RecordOrphan,
                  Content, Working, Holding, Final
    <3>4. OrphansAccounted'
      BY <2>7, <3>1, OrphansKept DEF TypeOK, LaneInv, RowInv, HandlerInv, RecordOrphan,
                  Content, Working, Holding
    <3>. QED
      BY <2>7, <3>1, <3>2, <3>3, <3>4, OthersKept DEF LaneInv, AnswersHonest, RowInv, RecordOrphan, Final
  <2>8. ASSUME NEW h \in Handler, ClaimScanAttempt(h) PROVE LaneInv'
    <3>1. Others(h)
      BY <2>8 DEF TypeOK, Others, ClaimScanAttempt
    <3>2. PICK a \in Attempt : scan_attempt_id' = a /\ attempt' = [attempt EXCEPT ![h] = a]
      BY <2>8 DEF ClaimScanAttempt, Fresh
    <3>3. /\ RowInv /\ HandlerInv(h) /\ a # NoAttempt
          /\ sha256 = data[h] /\ sha256 # NoFile /\ scan_status \notin Final
      BY <2>8 DEF LaneInv, HandlerInv, ClaimScanAttempt, Claimable
    <3>4. RowInv'
      BY <2>8, <3>2, <3>3 DEF RowInv, ClaimScanAttempt, Final
    <3>5. /\ attempt'[h] = a /\ pc'[h] \in {"scan", "fetch"}
          /\ data'[h] = data[h] /\ sha256' = sha256
      BY <2>8, <3>2 DEF TypeOK, ClaimScanAttempt
    <3>6. HandlerInv(h)' /\ HonestAnswer(h)'
      BY <3>3, <3>5 DEF HandlerInv, HonestAnswer, Working, Holding
    <3>7. OrphansAccounted'
      BY <2>8, <3>1, OrphansKept DEF LaneInv, ClaimScanAttempt, Holding
    <3>8. \A g \in Handler \ {h} : HandlerInv(g)' /\ HonestAnswer(g)'
      BY <2>8, <3>1, <3>3, OthersKept DEF ClaimScanAttempt
    <3>. QED
      BY <3>4, <3>6, <3>7, <3>8 DEF LaneInv, AnswersHonest
  <2>9. ASSUME NEW h \in Handler, ClaimLost(h) PROVE LaneInv'
    <3>1. Others(h)
      BY <2>9 DEF TypeOK, Others, ClaimLost
    <3>2. RowInv'
      BY <2>9 DEF TypeOK, LaneInv, RowInv, HandlerInv, ClaimLost, Working, Holding, Final
    <3>3. HandlerInv(h)' /\ HonestAnswer(h)'
      BY <2>9 DEF TypeOK, LaneInv, RowInv, HandlerInv, HonestAnswer, ClaimLost,
                  Content, Working, Holding, Final
    <3>4. OrphansAccounted'
      BY <2>9, <3>1, OrphansKept DEF TypeOK, LaneInv, RowInv, HandlerInv, ClaimLost,
                  Content, Working, Holding
    <3>. QED
      BY <2>9, <3>1, <3>2, <3>3, <3>4, OthersKept DEF LaneInv, AnswersHonest, RowInv, ClaimLost, Final
  <2>10. ASSUME NEW h \in Handler, Reread(h) PROVE LaneInv'
    <3>1. Others(h)
      BY <2>10 DEF TypeOK, Others, Reread
    <3>2. RowInv'
      BY <2>10 DEF TypeOK, LaneInv, RowInv, HandlerInv, Reread, Working, Holding, Final
    <3>3. HandlerInv(h)' /\ HonestAnswer(h)'
      BY <2>10 DEF TypeOK, LaneInv, RowInv, HandlerInv, HonestAnswer, Reread,
                  Content, Working, Holding, Final
    <3>4. OrphansAccounted'
      BY <2>10, <3>1, OrphansKept DEF TypeOK, LaneInv, RowInv, HandlerInv, Reread,
                  Content, Working, Holding
    <3>. QED
      BY <2>10, <3>1, <3>2, <3>3, <3>4, OthersKept DEF LaneInv, AnswersHonest, RowInv, Reread, Final
  <2>11. ASSUME NEW h \in Handler, Fetch(h) PROVE LaneInv'
    <3>1. Others(h)
      BY <2>11 DEF TypeOK, Others, Fetch
    <3>2. RowInv'
      BY <2>11 DEF TypeOK, LaneInv, RowInv, HandlerInv, Fetch, Working, Holding, Final
    <3>3. HandlerInv(h)' /\ HonestAnswer(h)'
      BY <2>11 DEF TypeOK, LaneInv, RowInv, HandlerInv, HonestAnswer, Fetch,
                  Content, Working, Holding, Final
    <3>4. OrphansAccounted'
      BY <2>11, <3>1, OrphansKept DEF TypeOK, LaneInv, RowInv, HandlerInv, Fetch,
                  Content, Working, Holding
    <3>. QED
      BY <2>11, <3>1, <3>2, <3>3, <3>4, OthersKept DEF LaneInv, AnswersHonest, RowInv, Fetch, Final
  <2>12. ASSUME NEW h \in Handler, ReleaseScanAttempt(h) PROVE LaneInv'
    <3>1. Others(h)
      BY <2>12 DEF TypeOK, Others, ReleaseScanAttempt
    <3>2. RowInv'
      BY <2>12 DEF TypeOK, LaneInv, RowInv, HandlerInv, ReleaseScanAttempt, Working, Holding, Final
    <3>3. HandlerInv(h)' /\ HonestAnswer(h)'
      BY <2>12 DEF TypeOK, LaneInv, RowInv, HandlerInv, HonestAnswer, ReleaseScanAttempt,
                  Content, Working, Holding, Final
    <3>4. OrphansAccounted'
      BY <2>12, <3>1, OrphansKept DEF TypeOK, LaneInv, RowInv, HandlerInv, ReleaseScanAttempt,
                  Content, Working, Holding
    <3>. QED
      BY <2>12, <3>1, <3>2, <3>3, <3>4, OthersKept DEF LaneInv, AnswersHonest, RowInv, ReleaseScanAttempt, Final
  <2>13. ASSUME NEW h \in Handler, ScannerAnswers(h) PROVE LaneInv'
    <3>1. Others(h)
      BY <2>13 DEF TypeOK, Others, ScannerAnswers
    <3>2. RowInv'
      BY <2>13 DEF TypeOK, LaneInv, RowInv, HandlerInv, ScannerAnswers, Working, Holding, Final
    <3>3. HandlerInv(h)' /\ HonestAnswer(h)'
      BY <2>13 DEF TypeOK, LaneInv, RowInv, HandlerInv, HonestAnswer, ScannerAnswers,
                  Content, Working, Holding, Final
    <3>4. OrphansAccounted'
      BY <2>13, <3>1, OrphansKept DEF TypeOK, LaneInv, RowInv, HandlerInv, ScannerAnswers,
                  Content, Working, Holding
    <3>. QED
      BY <2>13, <3>1, <3>2, <3>3, <3>4, OthersKept DEF LaneInv, AnswersHonest, RowInv, ScannerAnswers, Final
  <2>14. ASSUME NEW h \in Handler, PersistScanError(h) PROVE LaneInv'
    <3>1. Others(h)
      BY <2>14 DEF TypeOK, Others, PersistScanError
    <3>2. RowInv'
      BY <2>14 DEF TypeOK, LaneInv, RowInv, HandlerInv, PersistScanError, Working, Holding, Final
    <3>3. HandlerInv(h)' /\ HonestAnswer(h)'
      BY <2>14 DEF TypeOK, LaneInv, RowInv, HandlerInv, HonestAnswer, PersistScanError,
                  Content, Working, Holding, Final
    <3>4. OrphansAccounted'
      BY <2>14, <3>1, OrphansKept DEF TypeOK, LaneInv, RowInv, HandlerInv, PersistScanError,
                  Content, Working, Holding
    <3>. QED
      BY <2>14, <3>1, <3>2, <3>3, <3>4, OthersKept DEF LaneInv, AnswersHonest, RowInv, PersistScanError, Final
  <2>15. ASSUME NEW h \in Handler, PersistScanResult(h) PROVE LaneInv'
    <3>1. Others(h)
      BY <2>15 DEF TypeOK, Others, PersistScanResult
    <3>2. RowInv'
      BY <2>15 DEF TypeOK, LaneInv, RowInv, HandlerInv, PersistScanResult, Working, Holding, Final
    <3>3. HandlerInv(h)' /\ HonestAnswer(h)'
      BY <2>15 DEF TypeOK, LaneInv, RowInv, HandlerInv, HonestAnswer, PersistScanResult,
                  Content, Working, Holding, Final
    <3>4. OrphansAccounted'
      BY <2>15, <3>1, OrphansKept DEF TypeOK, LaneInv, RowInv, HandlerInv, PersistScanResult,
                  Content, Working, Holding
    <3>. QED
      <4>1. scan_status \notin Final
        BY <2>15 DEF LaneInv, RowInv, HandlerInv, PersistScanResult, Publishable, Working, Final
      <4>. QED
        BY <2>15, <3>1, <3>2, <3>3, <3>4, <4>1, OthersKept
           DEF LaneInv, AnswersHonest, PersistScanResult
  <2>16. ASSUME NEW h \in Handler, PublishRefused(h) PROVE LaneInv'
    <3>1. Others(h)
      BY <2>16 DEF TypeOK, Others, PublishRefused
    <3>2. RowInv'
      BY <2>16 DEF TypeOK, LaneInv, RowInv, HandlerInv, PublishRefused, Working, Holding, Final
    <3>3. HandlerInv(h)' /\ HonestAnswer(h)'
      BY <2>16 DEF TypeOK, LaneInv, RowInv, HandlerInv, HonestAnswer, PublishRefused,
                  Content, Working, Holding, Final
    <3>4. OrphansAccounted'
      BY <2>16, <3>1, OrphansKept DEF TypeOK, LaneInv, RowInv, HandlerInv, PublishRefused,
                  Content, Working, Holding
    <3>. QED
      BY <2>16, <3>1, <3>2, <3>3, <3>4, OthersKept DEF LaneInv, AnswersHonest, RowInv, PublishRefused, Final
  <2>17. ASSUME NEW h \in Handler, PutFails(h) PROVE LaneInv'
    <3>1. Others(h)
      BY <2>17 DEF TypeOK, Others, PutFails
    <3>2. RowInv'
      BY <2>17 DEF TypeOK, LaneInv, RowInv, HandlerInv, PutFails, Working, Holding, Final
    <3>3. HandlerInv(h)' /\ HonestAnswer(h)'
      BY <2>17 DEF TypeOK, LaneInv, RowInv, HandlerInv, HonestAnswer, PutFails,
                  Content, Working, Holding, Final
    <3>4. OrphansAccounted'
      BY <2>17, <3>1, OrphansKept DEF TypeOK, LaneInv, RowInv, HandlerInv, PutFails,
                  Content, Working, Holding
    <3>. QED
      BY <2>17, <3>1, <3>2, <3>3, <3>4, OthersKept DEF LaneInv, AnswersHonest, RowInv, PutFails, Final
  <2>18. ASSUME NEW h \in Handler, PersistFails(h) PROVE LaneInv'
    <3>1. Others(h)
      BY <2>18 DEF TypeOK, Others, PersistFails
    <3>2. RowInv'
      <4>1. RowInv /\ data[h] \in File
        BY <2>18 DEF LaneInv, HandlerInv, PersistFails, Holding
      <4>2. CASE UNCHANGED row
        BY <2>18, <4>1, <4>2 DEF RowInv, PersistFails
      <4>3. CASE AttachFile(data[h])
        <5>1. scan_status = "not_scanned" /\ scan_attempt_id = NoAttempt
          BY <4>1, <4>3 DEF RowInv, AttachFile
        <5>. QED
          BY <4>1, <4>3, <5>1 DEF RowInv, AttachFile, Final
      <4>. QED
        BY <2>18, <4>2, <4>3 DEF PersistFails
    <3>3. HandlerInv(h)' /\ HonestAnswer(h)'
      BY <2>18 DEF TypeOK, LaneInv, HandlerInv, HonestAnswer, PersistFails,
                  Content, Working, Holding, Final
    <3>4. OrphansAccounted'
      BY <2>18, <3>1, OrphansKept DEF TypeOK, LaneInv, RowInv, HandlerInv, PersistFails,
                  AttachFile, Content, Working, Holding
    <3>5. /\ sha256 # NoFile => sha256' = sha256
          /\ scan_status \in Final => scan_status' = scan_status
          /\ found \subseteq found'
      BY <2>18 DEF LaneInv, RowInv, PersistFails, AttachFile, Final
    <3>. QED
      BY <3>1, <3>2, <3>3, <3>4, <3>5, OthersKept DEF LaneInv, AnswersHonest
  <2>19. ASSUME NEW h \in Handler, RecordOrphanFails(h) PROVE LaneInv'
    <3>1. Others(h)
      BY <2>19 DEF TypeOK, Others, RecordOrphanFails
    <3>2. RowInv'
      BY <2>19 DEF TypeOK, LaneInv, RowInv, HandlerInv, RecordOrphanFails, Working, Holding, Final
    <3>3. HandlerInv(h)' /\ HonestAnswer(h)'
      BY <2>19 DEF TypeOK, LaneInv, RowInv, HandlerInv, HonestAnswer, RecordOrphanFails,
                  Content, Working, Holding, Final
    <3>4. OrphansAccounted'
      BY <2>19, <3>1, OrphansKept DEF TypeOK, LaneInv, RowInv, HandlerInv, RecordOrphanFails,
                  Content, Working, Holding
    <3>. QED
      BY <2>19, <3>1, <3>2, <3>3, <3>4, OthersKept DEF LaneInv, AnswersHonest, RowInv, RecordOrphanFails, Final
  <2>20. ASSUME NEW h \in Handler, FetchFails(h) PROVE LaneInv'
    <3>1. Others(h)
      BY <2>20 DEF TypeOK, Others, FetchFails
    <3>2. RowInv'
      BY <2>20 DEF TypeOK, LaneInv, RowInv, HandlerInv, FetchFails, Working, Holding, Final
    <3>3. HandlerInv(h)' /\ HonestAnswer(h)'
      BY <2>20 DEF TypeOK, LaneInv, RowInv, HandlerInv, HonestAnswer, FetchFails,
                  Content, Working, Holding, Final
    <3>4. OrphansAccounted'
      BY <2>20, <3>1, OrphansKept DEF TypeOK, LaneInv, RowInv, HandlerInv, FetchFails,
                  Content, Working, Holding
    <3>. QED
      BY <2>20, <3>1, <3>2, <3>3, <3>4, OthersKept DEF LaneInv, AnswersHonest, RowInv, FetchFails, Final
  <2>21. ASSUME NEW h \in Handler, ScannerUnavailable(h) PROVE LaneInv'
    <3>1. Others(h)
      BY <2>21 DEF TypeOK, Others, ScannerUnavailable
    <3>2. RowInv'
      BY <2>21 DEF TypeOK, LaneInv, RowInv, HandlerInv, ScannerUnavailable, Working, Holding, Final
    <3>3. HandlerInv(h)' /\ HonestAnswer(h)'
      BY <2>21 DEF TypeOK, LaneInv, RowInv, HandlerInv, HonestAnswer, ScannerUnavailable,
                  Content, Working, Holding, Final
    <3>4. OrphansAccounted'
      BY <2>21, <3>1, OrphansKept DEF TypeOK, LaneInv, RowInv, HandlerInv, ScannerUnavailable,
                  Content, Working, Holding
    <3>. QED
      BY <2>21, <3>1, <3>2, <3>3, <3>4, OthersKept DEF LaneInv, AnswersHonest, RowInv, ScannerUnavailable, Final
  <2>22. ASSUME NEW h \in Handler, Crash(h) PROVE LaneInv'
    <3>1. Others(h)
      BY <2>22 DEF TypeOK, Others, Crash
    <3>2. RowInv'
      BY <2>22 DEF TypeOK, LaneInv, RowInv, HandlerInv, Crash, Working, Holding, Final
    <3>3. HandlerInv(h)' /\ HonestAnswer(h)'
      BY <2>22 DEF TypeOK, LaneInv, RowInv, HandlerInv, HonestAnswer, Crash,
                  Content, Working, Holding, Final
    <3>4. OrphansAccounted'
      BY <2>22, <3>1, OrphansKept DEF TypeOK, LaneInv, RowInv, HandlerInv, Crash,
                  Content, Working, Holding
    <3>. QED
      BY <2>22, <3>1, <3>2, <3>3, <3>4, OthersKept DEF LaneInv, AnswersHonest, RowInv, Crash, Final
  <2>23. CASE LeaseExpires
    BY <2>23 DEF TypeOK, LaneInv, RowInv, HandlerInv, AnswersHonest, HonestAnswer,
                OrphansAccounted, LeaseExpires
  <2>24. CASE LeaseOverruns
    BY <2>24 DEF TypeOK, LaneInv, RowInv, HandlerInv, AnswersHonest, HonestAnswer,
                OrphansAccounted, LeaseOverruns
  <2>25. ASSUME NEW f \in File, Damage(f) PROVE LaneInv'
    BY <2>25 DEF TypeOK, LaneInv, RowInv, HandlerInv, AnswersHonest, HonestAnswer,
                OrphansAccounted, Damage
  <2>26. CASE UNCHANGED vars
    BY <2>26 DEF TypeOK, LaneInv, RowInv, HandlerInv, AnswersHonest, HonestAnswer,
                OrphansAccounted, vars
  <2>. QED
    BY <2>1, <2>2, <2>3, <2>4, <2>5, <2>6, <2>7, <2>8, <2>9,
       <2>10, <2>11, <2>12, <2>13, <2>14, <2>15, <2>16, <2>17,
       <2>18, <2>19, <2>20, <2>21, <2>22, <2>23, <2>24, <2>25,
       <2>26,
       Zenon DEF Next, Request, Progress, Failure
<1>. QED
  BY <1>1, <1>2, TypeCorrect, PTL DEF Spec

-----------------------------------------------------------------------------
(* What follows from LaneInv.                                              *)

\* A downloadable file is on record with the scanner's "clean" for that very
\* content, in every reachable state.
THEOREM OnlyScannedFilesReleased == Spec => []ReleasedIsScanned
<1>1. LaneInv => ReleasedIsScanned
  BY DEF LaneInv, RowInv, ReleasedIsScanned, Downloadable, Final
<1>. QED
  BY <1>1, LaneInvariant, PTL

\* What a handler reported about the row stays true of it.
THEOREM AnswersStayTrue == Spec => []AnswersHonest
<1>1. LaneInv => AnswersHonest
  BY DEF LaneInv
<1>. QED
  BY <1>1, LaneInvariant, PTL

\* No stored object is unreferenced, unrecorded and out of everybody's hands,
\* the losses the service documents aside.
THEOREM NoSilentOrphan == Spec => []OrphansAccounted
<1>1. LaneInv => OrphansAccounted
  BY DEF LaneInv
<1>. QED
  BY <1>1, LaneInvariant, PTL

\* A handler that ends its attempt alive gives the document up with it.
THEOREM AttemptGivenUp == Spec => NoLeaseLeftBehind
<1> DEFINE Ends(h) == attempt[h] # NoAttempt /\ attempt'[h] = NoAttempt /\ ~Crash(h)
           GivenUp == \A h \in Handler : Ends(h) => scan_attempt_id' # attempt[h]
<1>1. TypeOK /\ LaneInv /\ [Next]_vars => [GivenUp]_vars
  <2>. SUFFICES ASSUME TypeOK, LaneInv, Next, NEW h \in Handler, Ends(h)
                PROVE  scan_attempt_id' # attempt[h]
    BY Zenon
  <2>. USE DEF Finish, Goto, Begin, AnswerAtOnce, GoOn, Fault
  <2>1. /\ pc[h] \in Working
        /\ scan_attempt_id = attempt[h] => scan_status = "pending"
    BY DEF LaneInv, HandlerInv, RowInv
  <2>2. CASE ReleaseScanAttempt(h)
    BY <2>2 DEF ReleaseScanAttempt, Disown
  <2>3. CASE PersistScanError(h)
    BY <2>1, <2>3 DEF PersistScanError, Disown, Final
  <2>4. CASE PersistScanResult(h)
    BY <2>4 DEF PersistScanResult, Disown
  <2>5. CASE PublishRefused(h)
    <3>1. verdict[h] \in Final
      BY <2>5 DEF LaneInv, HandlerInv, PublishRefused
    <3>2. scan_attempt_id # attempt[h]
      BY <2>1, <2>5, <3>1 DEF PublishRefused, Publishable, Final
    <3>. QED
      BY <2>5, <3>2 DEF PublishRefused, row
  <2>6. CASE \E g \in Handler \ {h} : Request(g) \/ Progress(g) \/ Failure(g)
    <3>1. PICK g \in Handler \ {h} : Request(g) \/ Progress(g) \/ Failure(g)
      BY <2>6
    <3>2. attempt'[h] = attempt[h]
      <4>1. CASE Request(g)
        BY <3>1, <4>1 DEF TypeOK, Request, UploadInvalid, UploadSnapshot, RescanSnapshot
      <4>2. CASE Progress(g)
        BY <3>1, <4>2 DEF TypeOK, Progress, Put, PersistFileState, Resolve, RecordOrphan,
             ClaimScanAttempt, ClaimLost, Reread, Fetch, ReleaseScanAttempt,
             ScannerAnswers, PersistScanError, PersistScanResult, PublishRefused
      <4>3. CASE Failure(g)
        BY <3>1, <4>3 DEF TypeOK, Failure, PutFails, PersistFails, RecordOrphanFails,
             FetchFails, ScannerUnavailable, Crash
      <4>. QED
        BY <3>1, <4>1, <4>2, <4>3
    <3>. QED
      BY <3>2
  <2>7. ASSUME \/ Request(h) \/ Failure(h)
               \/ Put(h) \/ PersistFileState(h) \/ Resolve(h) \/ RecordOrphan(h)
               \/ ClaimScanAttempt(h) \/ ClaimLost(h) \/ Reread(h)
               \/ Fetch(h) \/ ScannerAnswers(h)
        PROVE  FALSE
    BY <2>1, <2>7, NullAssumption
       DEF TypeOK, Request, UploadInvalid, UploadSnapshot, RescanSnapshot,
           Failure, PutFails, PersistFails, RecordOrphanFails, FetchFails, ScannerUnavailable,
           Put, PersistFileState, Resolve, RecordOrphan, ClaimScanAttempt, Fresh, ClaimLost,
           Reread, Fetch, ScannerAnswers, Working
  <2>8. CASE LeaseExpires \/ LeaseOverruns \/ \E f \in File : Damage(f)
    BY <2>8 DEF LeaseExpires, LeaseOverruns, Damage
  <2>. QED
    BY <2>2, <2>3, <2>4, <2>5, <2>6, <2>7, <2>8, Zenon DEF Next, Progress
<1>. QED
  BY <1>1, TypeCorrect, LaneInvariant, PTL DEF Spec, NoLeaseLeftBehind

-----------------------------------------------------------------------------
(* The lane implements DocumentFile.                                       *)

\* The two kinds of step that leave the promised document as it was: those
\* that touch neither file, lifecycle nor scan status, and those that move the
\* scan status among the undecided ones.
Stutters ==
    /\ UNCHANGED <<file, status>>
    /\ \/ UNCHANGED scan_status
       \/ scan_status \notin Final /\ scan_status' \notin Final

\* A step of that kind is a stuttering step of the promise.
LEMMA StutterMaps == Stutters => UNCHANGED Promise!vars
BY DEF Stutters, file, Promise!vars, Downloadable, Final

\* Every step of the lane attaches the document's only file, gives its only
\* verdict, or is invisible to a reader of the document.
THEOREM LaneImplementsPromise == Spec => Implements
<1>1. Init => Promise!Init
  BY DEF Init, Promise!Init, Downloadable, Final
<1>2. TypeOK /\ LaneInv /\ [Next]_vars => [Promise!Next]_(Promise!vars)
  <2>. SUFFICES ASSUME TypeOK, LaneInv, [Next]_vars
                PROVE  Promise!Next \/ UNCHANGED Promise!vars
    OBVIOUS
  <2>1. ASSUME NEW h \in Handler, PersistFileState(h) \/ PersistFails(h)
        PROVE  Promise!Next \/ UNCHANGED Promise!vars
    <3>1. CASE AttachFile(data[h])
      <4>1. data[h] \in File /\ scan_status \notin Final /\ status # "uploaded"
        BY <2>1, <3>1 DEF LaneInv, RowInv, HandlerInv, PersistFileState, PersistFails,
                         AttachFile, Holding, Final
      <4>2. /\ sha256 = NoFile /\ sha256' = data[h]
            /\ scan_status' = "pending" /\ status' = "pending"
        BY <3>1 DEF AttachFile
      <4>3. Promise!Attach(data[h])
        BY <4>1, <4>2 DEF Promise!Attach, Downloadable, Final
      <4>. QED
        BY <4>1, <4>3 DEF Promise!Next
    <3>2. CASE UNCHANGED row
      BY <3>2, StutterMaps DEF Stutters, row, file
    <3>. QED
      BY <2>1, <3>1, <3>2 DEF PersistFileState, PersistFails
  <2>2. ASSUME NEW h \in Handler, PersistScanResult(h)
        PROVE  Promise!Next \/ UNCHANGED Promise!vars
    <3>1. /\ verdict[h] \in Final /\ scan_status \notin Final
          /\ sha256 # NoFile /\ storage_key = sha256
      BY <2>2 DEF LaneInv, RowInv, HandlerInv, PersistScanResult, Publishable, Working, Final
    <3>2. /\ scan_status' = verdict[h]
          /\ status' = IF verdict[h] = "clean" THEN "uploaded" ELSE "pending"
          /\ UNCHANGED <<sha256, storage_key>>
      BY <2>2 DEF PersistScanResult, file
    <3>3. Promise!Decide(verdict[h])
      BY <3>1, <3>2 DEF Promise!Decide, Downloadable, Final
    <3>. QED
      BY <3>1, <3>3 DEF Promise!Next, Final
  <2>3. ASSUME NEW h \in Handler, ClaimScanAttempt(h) \/ PersistScanError(h)
        PROVE  Stutters
    BY <2>3 DEF Stutters, ClaimScanAttempt, Claimable, PersistScanError, file, Final
  <2>4. ASSUME NEW h \in Handler,
               \/ Request(h) \/ PutFails(h) \/ RecordOrphanFails(h) \/ FetchFails(h)
               \/ ScannerUnavailable(h) \/ Crash(h)
               \/ Put(h) \/ Resolve(h) \/ RecordOrphan(h) \/ ClaimLost(h) \/ Reread(h)
               \/ Fetch(h) \/ ReleaseScanAttempt(h) \/ ScannerAnswers(h) \/ PublishRefused(h)
        PROVE  Stutters
    BY <2>4 DEF Stutters, row, file, Request, UploadInvalid, UploadSnapshot, RescanSnapshot,
                PutFails, RecordOrphanFails, FetchFails, ScannerUnavailable, Crash, Put, Resolve, RecordOrphan, ClaimLost, Reread,
                Fetch, ReleaseScanAttempt, ScannerAnswers, PublishRefused
  <2>5. CASE LeaseExpires \/ LeaseOverruns \/ (\E f \in File : Damage(f)) \/ UNCHANGED vars
    BY <2>5, StutterMaps DEF Stutters, LeaseExpires, LeaseOverruns, Damage, vars, row, file
  <2>. QED
    BY <2>1, <2>2, <2>3, <2>4, <2>5, StutterMaps, Zenon DEF Next, Progress, Failure
<1>. QED
  BY <1>1, <1>2, TypeCorrect, LaneInvariant, PTL DEF Spec, Implements, Promise!Spec

-----------------------------------------------------------------------------
(* One scan at a time, but for overruns.                                   *)

\* The handler has the attempt on record, and its lease runs.
Owns(h) == scan_attempt_id = attempt[h] /\ lease = "live"

\* The handlers at work on an attempt that another may claim the document from.
Stale == {h \in Handler : attempt[h] # NoAttempt /\ ~Owns(h)}

\* Handlers at work have attempts of their own, and every one that has lost its
\* lease has lost it to an overrun.  (That the owner has no lease to lose twice, and
\* that nobody claims from it, is what makes this inductive.)
Overrun ==
    /\ \A g, h \in Handler : attempt[g] = attempt[h] /\ attempt[g] # NoAttempt => g = h
    /\ IsFiniteSet(Stale)
    /\ Cardinality(Stale) <= overruns

\* Nobody loses a lease while the stale handlers get no more.
LEMMA FewerStale ==
    ASSUME TypeOK, TypeOK', Overrun, Stale' \subseteq Stale, overruns' = overruns
    PROVE  IsFiniteSet(Stale') /\ Cardinality(Stale') <= overruns'
<1>1. IsFiniteSet(Stale) /\ Cardinality(Stale) <= overruns
  BY DEF Overrun
<1>2. IsFiniteSet(Stale') /\ Cardinality(Stale') <= Cardinality(Stale)
  BY <1>1, FS_Subset
<1>3. Cardinality(Stale) \in Nat /\ Cardinality(Stale') \in Nat /\ overruns \in Nat
  BY <1>1, <1>2, FS_CardinalityType DEF TypeOK
<1>. QED
  BY <1>1, <1>2, <1>3

\* A handler that is answered, or marks its scan as failed, gives up the attempt on
\* record only if that is its own.
GivesUp(h) ==
    /\ attempt' = [attempt EXCEPT ![h] = NoAttempt]
    /\ UNCHANGED <<scan_attempt_id, lease>> \/ scan_attempt_id = attempt[h]
    /\ overruns' = overruns

\* Such a step makes no other handler stale.
LEMMA GivesUpKeeps ==
    ASSUME TypeOK, TypeOK', Overrun, NEW h \in Handler, GivesUp(h)
    PROVE  Overrun'
<1>1. \A g \in Handler : attempt'[g] = IF g = h THEN NoAttempt ELSE attempt[g]
  BY DEF TypeOK, GivesUp
<1>2. Stale' \subseteq Stale
  <2>. SUFFICES ASSUME NEW g \in Handler, attempt'[g] # NoAttempt, ~Owns(g)'
                PROVE  ~Owns(g) /\ attempt[g] # NoAttempt
    BY DEF Stale
  <2>. QED
    BY <1>1 DEF GivesUp, Owns, Overrun
<1>3. \A f, g \in Handler : attempt'[f] = attempt'[g] /\ attempt'[f] # NoAttempt => f = g
  BY <1>1 DEF Overrun
<1>. QED
  BY <1>2, <1>3, FewerStale DEF GivesUp, Overrun

\* Nor does a step that leaves attempts and lease alone.
LEMMA AttemptsKeep ==
    ASSUME TypeOK, TypeOK', Overrun, UNCHANGED <<attempt, scan_attempt_id, lease, overruns>>
    PROVE  Overrun'
<1>1. Stale' = Stale
  BY DEF Stale, Owns
<1>. QED
  BY <1>1 DEF Overrun

\* A claim finds no live lease, so all who are at work are stale already.
LEMMA ClaimKeeps ==
    ASSUME TypeOK, TypeOK', LaneInv, Overrun, NEW h \in Handler, ClaimScanAttempt(h)
    PROVE  Overrun'
<1>1. PICK a \in Fresh : scan_attempt_id' = a /\ attempt' = [attempt EXCEPT ![h] = a]
  BY DEF ClaimScanAttempt
<1>2. /\ lease # "live" /\ lease' = "live" /\ overruns' = overruns
      /\ attempt[h] = NoAttempt
  BY DEF ClaimScanAttempt, Claimable, LaneInv, HandlerInv, Working, counters
<1>3. \A g \in Handler : attempt'[g] = IF g = h THEN a ELSE attempt[g]
  BY <1>1 DEF TypeOK
<1>4. \A g \in Handler : attempt[g] # a
  BY <1>1 DEF Fresh
<1>5. Stale' \subseteq Stale
  BY <1>1, <1>2, <1>3 DEF Stale, Owns
<1>6. \A f, g \in Handler : attempt'[f] = attempt'[g] /\ attempt'[f] # NoAttempt => f = g
  BY <1>3, <1>4 DEF Overrun
<1>. QED
  BY <1>2, <1>5, <1>6, FewerStale DEF Overrun

\* An overrun makes one handler stale, and is counted.
LEMMA OverrunKeeps ==
    ASSUME TypeOK, TypeOK', Overrun, LeaseOverruns
    PROVE  Overrun'
<1>1. PICK o \in Handler : attempt[o] = scan_attempt_id
  BY DEF LeaseOverruns, Abandoned
<1>2. attempt' = attempt /\ scan_attempt_id' = scan_attempt_id /\ overruns' = overruns + 1
  BY DEF LeaseOverruns
<1>3. Stale' \subseteq Stale \cup {o}
  <2>. SUFFICES ASSUME NEW g \in Handler, attempt[g] # NoAttempt, g # o
                PROVE  ~Owns(g)
    BY <1>2 DEF Stale
  <2>. QED
    BY <1>1 DEF Owns, Overrun
<1>4. /\ IsFiniteSet(Stale \cup {o}) /\ Cardinality(Stale \cup {o}) <= Cardinality(Stale) + 1
      /\ Cardinality(Stale) \in Nat /\ Cardinality(Stale \cup {o}) \in Nat
  BY FS_AddElement, FS_CardinalityType DEF Overrun
<1>5. /\ IsFiniteSet(Stale') /\ Cardinality(Stale') <= Cardinality(Stale \cup {o})
      /\ Cardinality(Stale') \in Nat
  BY <1>3, <1>4, FS_Subset, FS_CardinalityType
<1>6. Cardinality(Stale') <= overruns'
  BY <1>2, <1>4, <1>5 DEF Overrun, TypeOK
<1>. QED
  BY <1>2, <1>5, <1>6 DEF Overrun

LEMMA NextOverrun == TypeOK /\ TypeOK' /\ LaneInv /\ Overrun /\ [Next]_vars => Overrun'
<1>. SUFFICES ASSUME TypeOK, TypeOK', LaneInv, Overrun, [Next]_vars
              PROVE  Overrun'
  OBVIOUS
<1>. USE DEF Finish, counters
<1>1. ASSUME NEW h \in Handler, Request(h) PROVE Overrun'
  <2>1. GivesUp(h) \/ UNCHANGED <<attempt, scan_attempt_id, lease, overruns>>
    BY <1>1, Zenon DEF Request, UploadInvalid, UploadSnapshot, RescanSnapshot, AnswerAtOnce, GoOn,
                GivesUp, row
  <2>. QED
    BY <2>1, GivesUpKeeps, AttemptsKeep
<1>2. ASSUME NEW h \in Handler, Failure(h) PROVE Overrun'
  <2>1. GivesUp(h) \/ UNCHANGED <<attempt, scan_attempt_id, lease, overruns>>
    BY <1>2, Zenon DEF Failure, PutFails, PersistFails, AttachFile, RecordOrphanFails, FetchFails,
                ScannerUnavailable, Crash, GivesUp, row
  <2>. QED
    BY <2>1, GivesUpKeeps, AttemptsKeep
<1>3. ASSUME NEW h \in Handler, Put(h) \/ PersistFileState(h) \/ ClaimLost(h) \/ Fetch(h) \/ ScannerAnswers(h)
      PROVE  Overrun'
  <2>1. UNCHANGED <<attempt, scan_attempt_id, lease, overruns>>
    BY <1>3, Zenon DEF Put, PersistFileState, AttachFile, ClaimLost, Fetch, ScannerAnswers, row
  <2>. QED
    BY <2>1, AttemptsKeep
<1>4. ASSUME NEW h \in Handler, Resolve(h) \/ RecordOrphan(h) \/ Reread(h) \/ PublishRefused(h)
      PROVE  Overrun'
  <2>1. GivesUp(h) \/ UNCHANGED <<attempt, scan_attempt_id, lease, overruns>>
    BY <1>4, Zenon DEF Resolve, RecordOrphan, Reread, PublishRefused, GivesUp, row
  <2>. QED
    BY <2>1, GivesUpKeeps, AttemptsKeep
<1>5. ASSUME NEW h \in Handler, ReleaseScanAttempt(h) \/ PersistScanError(h) \/ PersistScanResult(h)
      PROVE  Overrun'
  <2>1. GivesUp(h)
    BY <1>5 DEF ReleaseScanAttempt, PersistScanError, PersistScanResult, Publishable, GivesUp
  <2>. QED
    BY <2>1, GivesUpKeeps
<1>6. ASSUME NEW h \in Handler, ClaimScanAttempt(h) PROVE Overrun'
  BY <1>6, ClaimKeeps
<1>7. CASE LeaseExpires
  <2>1. Stale' \subseteq Stale
    BY <1>7 DEF LeaseExpires, Abandoned, Stale, Owns
  <2>. QED
    BY <1>7, <2>1, FewerStale DEF LeaseExpires, Overrun
<1>8. CASE LeaseOverruns
  BY <1>8, OverrunKeeps
<1>9. CASE (\E f \in File : Damage(f)) \/ UNCHANGED vars
  <2>1. UNCHANGED <<attempt, scan_attempt_id, lease, overruns>>
    BY <1>9, Zenon DEF Damage, vars, row
  <2>. QED
    BY <2>1, AttemptsKeep
<1>. QED
  BY <1>1, <1>2, <1>3, <1>4, <1>5, <1>6, <1>7, <1>8, <1>9, Zenon DEF Next, Progress

\* However uploads, rescans, crashes and expired leases interleave, at most one
\* handler more than there were overruns is at work on an attempt.
THEOREM OneScanAtATime == Spec => []NoDuplicateScan
<1>1. Init => Overrun
  <2>. SUFFICES ASSUME Init PROVE Overrun
    OBVIOUS
  <2>1. Stale = {}
    BY DEF Init, Stale
  <2>. QED
    BY <2>1, FS_EmptySet DEF Init, Overrun
<1>2. TypeOK /\ LaneInv /\ Overrun => NoDuplicateScan
  <2>. SUFFICES ASSUME TypeOK, LaneInv, Overrun PROVE NoDuplicateScan
    OBVIOUS
  <2>. DEFINE W == {h \in Handler : pc[h] \in Working}
  <2>1. W = {h \in Handler : attempt[h] # NoAttempt}
    BY DEF LaneInv, HandlerInv
  <2>2. PICK o : W \subseteq Stale \cup {o}
    <3>1. CASE \E o \in Handler : attempt[o] # NoAttempt /\ Owns(o)
      <4>1. PICK o \in Handler : attempt[o] # NoAttempt /\ Owns(o)
        BY <3>1
      <4>. QED
        BY <2>1, <4>1 DEF Stale, Owns, Overrun
    <3>2. CASE ~\E o \in Handler : attempt[o] # NoAttempt /\ Owns(o)
      BY <2>1, <3>2 DEF Stale
    <3>. QED
      BY <3>1, <3>2
  <2>3. /\ IsFiniteSet(Stale \cup {o}) /\ Cardinality(Stale \cup {o}) <= Cardinality(Stale) + 1
        /\ Cardinality(Stale) \in Nat /\ Cardinality(Stale \cup {o}) \in Nat
    BY FS_AddElement, FS_CardinalityType DEF Overrun
  <2>4. Cardinality(W) <= Cardinality(Stale \cup {o}) /\ Cardinality(W) \in Nat
    BY <2>2, <2>3, FS_Subset, FS_CardinalityType
  <2>5. Cardinality(W) <= overruns + 1
    BY <2>3, <2>4 DEF Overrun, TypeOK
  <2>. QED
    BY <2>5 DEF NoDuplicateScan
<1>. QED
  BY <1>1, <1>2, NextOverrun, TypeCorrect, LaneInvariant, PTL DEF Spec
=============================================================================
