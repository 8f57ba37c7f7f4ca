---------------------------- MODULE LocalSaveProofs ----------------------------
(***************************************************************************)
(* Theorems about LocalSave for every number of texts, flushed or not, and *)
(* whatever happens while a save runs, where nothing else is said.         *)
(***************************************************************************)
EXTENDS LocalSave, TLAPS

-----------------------------------------------------------------------------
(* Types *)

LEMMA TextsTyped ==
  /\ Empty \in Texts /\ Torn \in Texts /\ 1 \in Texts /\ None \notin Texts
  /\ 0 \in 0 .. MaxTexts /\ 1 \in 0 .. MaxTexts
  /\ \A t \in 0 .. MaxTexts : t \in Texts /\ t # Torn
BY LocalSaveAssumption DEF Empty, Torn, None, Texts

\* What the user types or another program writes is a text, and whole.
LEMMA NewTextsTyped ==
  ASSUME used \in 0 .. MaxTexts
  PROVE  /\ Fresh \subseteq 0 .. MaxTexts
         /\ Known \subseteq 0 .. MaxTexts
BY LocalSaveAssumption DEF Fresh, Known

JobSteps == {"prepare", "write", "sync", "rename", "syncdir", "truncate", "rewrite", "resync",
             "written", "failed"}

\* A write has a text; where none runs, nothing of the last one is left.
JobShape == IF job.at = "none" THEN job = NoJob ELSE job.text \in Texts

TInv == TypeOK /\ JobShape

LEMMA NoJobTyped == NoJob \in Jobs /\ NoJob.at = "none" /\ NoJob.text = None
BY DEF NoJob, Jobs

LEMMA JobTyped ==
  ASSUME TInv
  PROVE  /\ job \in Jobs /\ (job = NoJob <=> job.at = "none")
         /\ job.at # "none" => job.at \in JobSteps /\ job.text \in Texts
BY NoJobTyped DEF TInv, TypeOK, JobShape, Jobs, JobSteps

\* A step of the writer changes where it is, and nothing else of the job.
LEMMA StepDoes ==
  ASSUME TInv, NEW step \in JobSteps, Step(step), job.at # "none"
  PROVE  /\ job' \in Jobs /\ JobShape' /\ job'.at = step /\ job'.text = job.text
         /\ job'.flushed = job.flushed
<1>1. job' = [job EXCEPT !.at = step] /\ job \in Jobs /\ job.text \in Texts
  BY JobTyped DEF Step
<1>2. /\ job' \in Jobs /\ job'.at = step /\ job'.text = job.text
      /\ job'.flushed = job.flushed
  BY <1>1 DEF Jobs, JobSteps
<1>3. QED
  BY <1>1, <1>2 DEF JobShape, JobSteps

LEMMA InitTyped == Init => TypeOK
BY TextsTyped, NoJobTyped DEF Init, TypeOK

LEMMA GoneTyped ==
  ASSUME Gone
  PROVE  /\ open' \in BOOLEAN /\ text' \in Texts /\ saved' \in Texts /\ seen' \in BOOLEAN
         /\ unsaved' \in BOOLEAN /\ late' \in BOOLEAN /\ saving' \in BOOLEAN
         /\ quitting' \in BOOLEAN /\ since' \in BOOLEAN
BY TextsTyped DEF Gone

LEMMA BufferTyped ==
  ASSUME TypeOK, OpenFile \/ Edit \/ Undo \/ Recover \/ CloseBuffer
  PROVE  TypeOK'
<1>1. CASE OpenFile
  BY <1>1 DEF OpenFile, TypeOK, fileVars, exitVars
<1>2. CASE Edit
  <2>1. PICK t \in (Known \union Fresh) \ {text} :
          Hold(t) /\ Mark(t) /\ used' = IF t > used THEN t ELSE used
    BY <1>2 DEF Edit
  <2>2. t \in 0 .. MaxTexts /\ t \in Texts /\ used' \in 0 .. MaxTexts
    BY <2>1, TextsTyped, NewTextsTyped DEF TypeOK
  <2>3. late' \in BOOLEAN /\ unsaved' \in BOOLEAN /\ since' \in BOOLEAN /\ text' = t
    BY <2>1 DEF Hold, Mark, TypeOK
  <2>4. QED
    BY <1>2, <2>2, <2>3 DEF Edit, TypeOK, fileVars, exitVars
<1>3. CASE Undo
  <2>1. PICK t \in Known \ {text} :
          Hold(t) /\ IF t = saved THEN unsaved' = FALSE /\ UNCHANGED late ELSE Mark(t)
    BY <1>3 DEF Undo
  <2>2. t \in Texts
    BY <2>1, TextsTyped, NewTextsTyped DEF TypeOK
  <2>3. late' \in BOOLEAN /\ unsaved' \in BOOLEAN /\ since' \in BOOLEAN /\ text' = t
    BY <2>1 DEF Hold, Mark, TypeOK
  <2>4. overtaken' \in BOOLEAN
    BY <1>3 DEF Undo, Overtaking, TypeOK
  <2>5. QED
    BY <1>3, <2>2, <2>3, <2>4 DEF Undo, TypeOK, fileVars, exitVars
<1>4. CASE Recover
  <2>1. overtaken' \in BOOLEAN
    BY <1>4 DEF Recover, Overtaking, TypeOK
  <2>2. QED
    BY <1>4, <2>1 DEF Recover, Hold, TypeOK, fileVars, exitVars
<1>5. CASE CloseBuffer
  BY <1>5, TextsTyped DEF CloseBuffer, Overtaking, TypeOK, fileVars, exitVars
<1>6. QED
  BY <1>1, <1>2, <1>3, <1>4, <1>5

LEMMA SweepTyped ==
  ASSUME TypeOK, Sweep
  PROVE  TypeOK' /\ (text # Torn /\ disk # Torn => text' # Torn)
<1>1. /\ text' \in {text, disk} \union Fresh
      /\ unsaved' \in BOOLEAN
      /\ used' \in {used} \union Fresh
  <2>1. CASE ~Modified
    BY <2>1 DEF Sweep, Hold
  <2>2. CASE Modified
    <3>1. PICK t \in IF text = saved THEN {disk} ELSE IF disk \in {saved, text} THEN {text}
                     ELSE {text, disk} \union Fresh :
            Hold(t) /\ unsaved' = (t # Empty) /\ used' = IF t \in Fresh THEN t ELSE used
      BY <2>2 DEF Sweep
    <3>2. QED
      BY <3>1 DEF Hold
  <2>3. QED
    BY <2>1, <2>2
<1>2. \A t \in Fresh : t \in 0 .. MaxTexts /\ t \in Texts /\ t # Torn
  BY TextsTyped, NewTextsTyped DEF TypeOK
<1>3. text' \in Texts /\ used' \in 0 .. MaxTexts
  BY <1>1, <1>2 DEF TypeOK
<1>4. since' \in BOOLEAN
  BY DEF Sweep, Hold, TypeOK
<1>5. overtaken' \in BOOLEAN
  BY DEF Sweep, Overtaking, TypeOK
<1>6. TypeOK'
  BY <1>1, <1>3, <1>4, <1>5 DEF Sweep, TypeOK, fileVars, exitVars
<1>7. QED
  BY <1>1, <1>2, <1>6

-----------------------------------------------------------------------------
(* What each step of the writer does *)

\* What no step of the writer touches.
Beside == <<how, buffVars, exitVars, used, since, overtaken>>

Failure == job'.at = "failed" /\ outcome' = "failed" /\ UNCHANGED <<fileVars, seen>>

LEMMA FailureDoes ==
  ASSUME TInv, WriteFails, job.at # "none"
  PROVE  Failure /\ job' \in Jobs /\ JobShape' /\ job'.text = job.text
BY StepDoes DEF WriteFails, Failure, JobSteps

LEMMA PrepareDoes ==
  ASSUME TInv, Prepare
  PROVE  /\ job.at = "prepare" /\ UNCHANGED Beside
         /\ job' \in Jobs /\ JobShape' /\ job'.text = job.text
         /\ \/ Failure
            \/ /\ job'.at = IF how = "replace" THEN "write" ELSE "truncate"
               /\ backups' \in {backups, backups \union {disk}}
               /\ UNCHANGED <<disk, durable, outcome, seen>>
<1>1. job.at = "prepare" /\ UNCHANGED Beside
  BY DEF Prepare, At, Beside, buffVars, exitVars, WriteFails, fileVars
<1>2. CASE WriteFails
  BY <1>1, <1>2, FailureDoes
<1>3. CASE ~WriteFails
  <2>1. PICK step \in JobSteps : step = IF how = "replace" THEN "write" ELSE "truncate"
    BY DEF JobSteps
  <2>2. /\ Step(step)
        /\ backups' \in {backups, backups \union {disk}}
        /\ UNCHANGED <<disk, durable, outcome, seen>>
    BY <1>3, <2>1 DEF Prepare
  <2>3. QED
    BY <1>1, <2>1, <2>2, StepDoes
<1>4. QED
  BY <1>2, <1>3

LEMMA WriteSiblingDoes ==
  ASSUME TInv, WriteSibling
  PROVE  /\ job.at = "write" /\ UNCHANGED Beside
         /\ job' \in Jobs /\ JobShape' /\ job'.text = job.text
         /\ \/ Failure
            \/ /\ job'.at = IF Fsync THEN "sync" ELSE "rename"
               /\ UNCHANGED <<fileVars, outcome, seen>>
<1>1. job.at = "write" /\ UNCHANGED Beside
  BY DEF WriteSibling, At, Beside, buffVars, exitVars, WriteFails, fileVars
<1>2. CASE WriteFails
  BY <1>1, <1>2, FailureDoes
<1>3. CASE ~WriteFails
  <2>1. PICK step \in JobSteps : step = IF Fsync THEN "sync" ELSE "rename"
    BY DEF JobSteps
  <2>2. Step(step) /\ UNCHANGED <<fileVars, outcome, seen>>
    BY <1>3, <2>1 DEF WriteSibling
  <2>3. QED
    BY <1>1, <2>1, <2>2, StepDoes
<1>4. QED
  BY <1>2, <1>3

LEMMA SyncSiblingDoes ==
  ASSUME TInv, SyncSibling
  PROVE  /\ job.at = "sync" /\ UNCHANGED Beside
         /\ job' \in Jobs /\ JobShape' /\ job'.text = job.text
         /\ \/ Failure
            \/ job'.at = "rename" /\ job'.flushed /\ UNCHANGED <<fileVars, outcome, seen>>
<1>1. job.at = "sync" /\ UNCHANGED Beside
  BY DEF SyncSibling, At, Beside, buffVars, exitVars, WriteFails, fileVars
<1>2. CASE WriteFails
  BY <1>1, <1>2, FailureDoes
<1>3. CASE ~WriteFails
  <2>1. job' = [job EXCEPT !.at = "rename", !.flushed = TRUE] /\ UNCHANGED <<fileVars, outcome, seen>>
    BY <1>3 DEF SyncSibling
  <2>2. job \in Jobs /\ job.text \in Texts
    BY <1>1, JobTyped
  <2>3. job' \in Jobs /\ job'.text = job.text /\ job'.at = "rename" /\ job'.flushed
    BY <2>1, <2>2 DEF Jobs
  <2>4. QED
    BY <1>1, <2>1, <2>2, <2>3 DEF JobShape
<1>4. QED
  BY <1>2, <1>3

LEMMA RenameDoes ==
  ASSUME TInv, Rename
  PROVE  /\ job.at = "rename" /\ UNCHANGED Beside
         /\ job' \in Jobs /\ JobShape' /\ job'.text = job.text
         /\ \/ Failure
            \/ /\ job'.at = IF Fsync THEN "syncdir" ELSE "written"
               /\ disk' = job.text /\ seen' = FALSE /\ outcome' = "written"
               /\ durable' = durable \union IF job.flushed THEN {job.text} ELSE {job.text, Torn}
               /\ UNCHANGED backups
<1>1. job.at = "rename" /\ UNCHANGED Beside
  BY DEF Rename, At, Beside, buffVars, exitVars, WriteFails, fileVars
<1>2. CASE WriteFails
  BY <1>1, <1>2, FailureDoes
<1>3. CASE ~WriteFails
  <2>1. PICK step \in JobSteps : step = IF Fsync THEN "syncdir" ELSE "written"
    BY DEF JobSteps
  <2>2. /\ Step(step)
        /\ disk' = job.text /\ seen' = FALSE /\ outcome' = "written"
        /\ durable' = durable \union IF job.flushed THEN {job.text} ELSE {job.text, Torn}
        /\ UNCHANGED backups
    BY <1>3, <2>1 DEF Rename
  <2>3. QED
    BY <1>1, <2>1, <2>2, StepDoes
<1>4. QED
  BY <1>2, <1>3

LEMMA SyncDirectoryDoes ==
  ASSUME TInv, SyncDirectory
  PROVE  /\ job.at = "syncdir" /\ UNCHANGED Beside
         /\ job' \in Jobs /\ JobShape' /\ job'.text = job.text /\ job'.at = "written"
         /\ durable' = {disk} /\ UNCHANGED <<disk, backups, seen, outcome>>
BY StepDoes DEF SyncDirectory, At, Beside, buffVars, exitVars, histVars, JobSteps

LEMMA TruncateDoes ==
  ASSUME TInv, Truncate
  PROVE  /\ job.at = "truncate" /\ UNCHANGED Beside
         /\ job' \in Jobs /\ JobShape' /\ job'.text = job.text
         /\ \/ Failure
            \/ /\ job'.at = "rewrite"
               /\ disk' = Torn /\ seen' = FALSE /\ durable' = {Torn}
               /\ UNCHANGED <<backups, outcome>>
<1>1. job.at = "truncate" /\ UNCHANGED Beside
  BY DEF Truncate, At, Beside, buffVars, exitVars, WriteFails, fileVars
<1>2. CASE WriteFails
  BY <1>1, <1>2, FailureDoes
<1>3. CASE ~WriteFails
  BY <1>1, <1>3, StepDoes DEF Truncate, JobSteps
<1>4. QED
  BY <1>2, <1>3

LEMMA RewriteDoes ==
  ASSUME TInv, Rewrite
  PROVE  /\ job.at = "rewrite" /\ UNCHANGED Beside
         /\ job' \in Jobs /\ JobShape' /\ job'.text = job.text
         /\ \/ Failure
            \/ /\ job'.at = IF Fsync THEN "resync" ELSE "written"
               /\ disk' = job.text /\ seen' = FALSE /\ durable' = {job.text}
               /\ outcome' = IF Fsync THEN outcome ELSE "written"
               /\ UNCHANGED backups
<1>1. job.at = "rewrite" /\ UNCHANGED Beside
  BY DEF Rewrite, At, Beside, buffVars, exitVars, WriteFails, fileVars
<1>2. CASE WriteFails
  BY <1>1, <1>2, FailureDoes
<1>3. CASE ~WriteFails
  <2>1. PICK step \in JobSteps : step = IF Fsync THEN "resync" ELSE "written"
    BY DEF JobSteps
  <2>2. /\ Step(step)
        /\ disk' = job.text /\ seen' = FALSE /\ durable' = {job.text}
        /\ outcome' = IF Fsync THEN outcome ELSE "written"
        /\ UNCHANGED backups
    BY <1>3, <2>1 DEF Rewrite
  <2>3. QED
    BY <1>1, <2>1, <2>2, StepDoes
<1>4. QED
  BY <1>2, <1>3

LEMMA ResyncDoes ==
  ASSUME TInv, Resync
  PROVE  /\ job.at = "resync" /\ UNCHANGED Beside
         /\ job' \in Jobs /\ JobShape' /\ job'.text = job.text
         /\ \/ Failure
            \/ job'.at = "written" /\ outcome' = "written" /\ UNCHANGED <<fileVars, seen>>
<1>1. job.at = "resync" /\ UNCHANGED Beside
  BY DEF Resync, At, Beside, buffVars, exitVars, WriteFails, fileVars
<1>2. CASE WriteFails
  BY <1>1, <1>2, FailureDoes
<1>3. CASE ~WriteFails
  BY <1>1, <1>3, StepDoes DEF Resync, JobSteps
<1>4. QED
  BY <1>2, <1>3

-----------------------------------------------------------------------------
(* Types, concluded *)

LEMMA SaveBufferDoes ==
  ASSUME TInv, SaveBuffer
  PROVE  /\ job = NoJob /\ job' \in Jobs /\ JobShape'
         /\ job'.at = "prepare" /\ job'.text = text /\ ~job'.flushed
<1>1. PICK where \in {"main", "thread"} : where = IF text = Empty THEN "main" ELSE "thread"
  OBVIOUS
<1>2. job' = [NoJob EXCEPT !.at = "prepare", !.text = text, !.where = where] /\ text \in Texts
      /\ job = NoJob
  BY <1>1 DEF SaveBuffer, TInv, TypeOK
<1>3. job' \in Jobs /\ job'.at = "prepare" /\ job'.text = text /\ job'.flushed = FALSE
  BY <1>2 DEF NoJob, Jobs
<1>4. QED
  BY <1>2, <1>3 DEF JobShape

LEMMA SaveBufferTyped ==
  ASSUME TInv, SaveBuffer
  PROVE  TInv'
<1>1. job' \in Jobs /\ JobShape'
  BY SaveBufferDoes
<1>2. TypeOK'
  BY <1>1 DEF SaveBuffer, TInv, TypeOK, fileVars, exitVars
<1>3. QED
  BY <1>1, <1>2 DEF TInv

LEMMA WriterTyped ==
  ASSUME TInv, SaverStep
  PROVE  TInv'
<1> DEFINE Typed == /\ disk' \in Texts /\ durable' \subseteq Texts /\ backups' \subseteq Texts
                    /\ seen' \in BOOLEAN
                    /\ outcome' \in {"written", "running", "failed"}
                    /\ job' \in Jobs /\ JobShape' /\ UNCHANGED Beside
<1>1. ASSUME Prepare PROVE Typed
  BY <1>1, PrepareDoes DEF TInv, TypeOK, Failure, fileVars
<1>2. ASSUME WriteSibling PROVE Typed
  BY <1>2, WriteSiblingDoes DEF TInv, TypeOK, Failure, fileVars
<1>3. ASSUME SyncSibling PROVE Typed
  BY <1>3, SyncSiblingDoes DEF TInv, TypeOK, Failure, fileVars
<1>4. ASSUME Rename PROVE Typed
  <2>1. job.text \in Texts
    BY <1>4, RenameDoes, JobTyped
  <2>2. QED
    BY <1>4, <2>1, RenameDoes, TextsTyped DEF TInv, TypeOK, Failure, fileVars
<1>5. ASSUME SyncDirectory PROVE Typed
  BY <1>5, SyncDirectoryDoes DEF TInv, TypeOK, Failure, fileVars
<1>6. ASSUME Truncate PROVE Typed
  BY <1>6, TruncateDoes, TextsTyped DEF TInv, TypeOK, Failure, fileVars
<1>7. ASSUME Rewrite PROVE Typed
  <2>1. job.text \in Texts
    BY <1>7, RewriteDoes, JobTyped
  <2>2. QED
    BY <1>7, <2>1, RewriteDoes, TextsTyped DEF TInv, TypeOK, Failure, fileVars
<1>8. ASSUME Resync PROVE Typed
  BY <1>8, ResyncDoes DEF TInv, TypeOK, Failure, fileVars
<1>9. Typed
  BY <1>1, <1>2, <1>3, <1>4, <1>5, <1>6, <1>7, <1>8 DEF SaverStep
<1>10. TypeOK'
  BY <1>9 DEF TInv, TypeOK, Beside, buffVars, exitVars
<1>11. QED
  BY <1>9, <1>10 DEF TInv

LEMMA SettleTyped ==
  ASSUME TInv, Settle
  PROVE  TInv'
<1>1. job' = NoJob /\ job.at \in {"written", "failed"} /\ job.text \in Texts
  BY JobTyped DEF Settle
<1>2. /\ failed' \in BOOLEAN
      /\ saved' \in Texts /\ unsaved' \in BOOLEAN /\ seen' \in BOOLEAN
      /\ saving' \in BOOLEAN /\ late' \in BOOLEAN
  BY <1>1 DEF Settle, CommitSave, TInv, TypeOK
<1>3. UNCHANGED <<fileVars, open, text, app, quitting, confirmed, used, histVars>>
  BY DEF Settle
<1>4. TypeOK'
  BY <1>1, <1>2, <1>3, NoJobTyped DEF TInv, TypeOK, fileVars, histVars
<1>5. QED
  BY <1>1, <1>4, NoJobTyped DEF TInv, JobShape

LEMMA WayOutTyped ==
  ASSUME TInv, Quit \/ RefreshPendingQuit
  PROVE  TInv'
<1>1. UNCHANGED <<fileVars, job, failed, used, outcome, overtaken>>
  BY DEF Quit, RefreshPendingQuit
<1>2. CASE \E asked \in BOOLEAN : Exit(asked)
  <2>1. app' = "exited" /\ confirmed' \in BOOLEAN /\ Gone
    BY <1>2 DEF Exit
  <2>2. TypeOK'
    BY <1>1, <2>1, GoneTyped DEF TInv, TypeOK, fileVars
  <2>3. QED
    BY <1>1, <2>2 DEF TInv, JobShape
<1>3. CASE quitting' = TRUE /\ since' = FALSE /\ UNCHANGED <<app, confirmed, buffVars, seen>>
  <2>1. /\ how' = how /\ disk' = disk /\ durable' = durable /\ backups' = backups
        /\ open' = open /\ text' = text /\ saved' = saved
        /\ unsaved' = unsaved /\ late' = late /\ saving' = saving /\ seen' = seen /\ job' = job
        /\ app' = app /\ failed' = failed /\ confirmed' = confirmed /\ used' = used
        /\ outcome' = outcome /\ overtaken' = overtaken /\ quitting' = TRUE /\ since' = FALSE
    BY <1>1, <1>3 DEF fileVars, buffVars
  <2>2. TypeOK
    BY DEF TInv
  <2>3. TypeOK'
    <3>1. /\ how' \in {"replace", "in place"} /\ disk' \in Texts /\ durable' \subseteq Texts
          /\ backups' \subseteq Texts
          /\ text' \in Texts /\ saved' \in Texts /\ job' \in Jobs /\ used' \in 0 .. MaxTexts
      BY <2>1, <2>2 DEF TypeOK
    <3>2. /\ open' \in BOOLEAN /\ unsaved' \in BOOLEAN /\ late' \in BOOLEAN
          /\ saving' \in BOOLEAN /\ seen' \in BOOLEAN
          /\ quitting' \in BOOLEAN /\ failed' \in BOOLEAN
          /\ confirmed' \in BOOLEAN /\ since' \in BOOLEAN /\ overtaken' \in BOOLEAN
      BY <2>1, <2>2 DEF TypeOK
    <3>3. app' \in {"up", "exited", "crashed"} /\ outcome' \in {"written", "running", "failed"}
      BY <2>1, <2>2 DEF TypeOK
    <3>4. QED
      BY <3>1, <3>2, <3>3 DEF TypeOK
  <2>4. QED
    BY <1>1, <2>3 DEF TInv, JobShape
<1>4. QED
  BY <1>2, <1>3 DEF Quit, RefreshPendingQuit

LEMMA ForeignWriteTyped ==
  ASSUME TInv, ForeignWrite
  PROVE  TInv'
<1>1. PICK t \in Fresh : disk' = t /\ durable' = {t} /\ used' = t
  BY DEF ForeignWrite
<1>2. t \in Texts /\ t \in 0 .. MaxTexts
  BY NewTextsTyped, TextsTyped DEF TInv, TypeOK
<1>3. QED
  BY <1>1, <1>2 DEF ForeignWrite, Overtaking, TInv, TypeOK, JobShape, buffVars, exitVars

LEMMA CrashTyped ==
  ASSUME TInv, Kill \/ PowerFailure
  PROVE  TInv'
<1>1. disk' \in Texts /\ durable' \subseteq Texts /\ UNCHANGED <<how, backups>>
  BY DEF Kill, PowerFailure, fileVars, TInv, TypeOK
<1>2. Crash
  BY DEF Kill, PowerFailure
<1>3. /\ job' = NoJob /\ app' = "crashed" /\ failed' = FALSE /\ confirmed' = FALSE
      /\ outcome' = "written" /\ overtaken' = FALSE /\ used' = used /\ Gone
  BY <1>2 DEF Crash
<1>4. TypeOK'
  BY <1>1, <1>3, GoneTyped, NoJobTyped DEF TInv, TypeOK
<1>5. QED
  BY <1>3, <1>4, NoJobTyped DEF TInv, JobShape

LEMMA TypedStep ==
  ASSUME TInv, [Next]_vars
  PROVE  TInv'
<1>1. CASE UNCHANGED vars
  <2>1. TypeOK'
    <3>1. /\ how' \in {"replace", "in place"} /\ disk' \in Texts /\ durable' \subseteq Texts
          /\ backups' \subseteq Texts
          /\ text' \in Texts /\ saved' \in Texts /\ job' \in Jobs /\ used' \in 0 .. MaxTexts
      BY <1>1 DEF vars, fileVars, buffVars, exitVars, histVars, TInv, TypeOK
    <3>2. /\ open' \in BOOLEAN /\ unsaved' \in BOOLEAN /\ late' \in BOOLEAN
          /\ saving' \in BOOLEAN /\ seen' \in BOOLEAN
          /\ quitting' \in BOOLEAN /\ failed' \in BOOLEAN
          /\ confirmed' \in BOOLEAN /\ since' \in BOOLEAN /\ overtaken' \in BOOLEAN
      BY <1>1 DEF vars, fileVars, buffVars, exitVars, histVars, TInv, TypeOK
    <3>3. app' \in {"up", "exited", "crashed"} /\ outcome' \in {"written", "running", "failed"}
      BY <1>1 DEF vars, fileVars, buffVars, exitVars, histVars, TInv, TypeOK
    <3>4. QED
      BY <3>1, <3>2, <3>3 DEF TypeOK
  <2>2. QED
    BY <1>1, <2>1 DEF vars, TInv, JobShape
<1>2. CASE OpenFile \/ Edit \/ Undo \/ Recover \/ CloseBuffer \/ Sweep
  <2>1. TypeOK'
    BY <1>2, BufferTyped, SweepTyped DEF TInv
  <2>2. UNCHANGED job
    BY <1>2 DEF OpenFile, Edit, Undo, Recover, CloseBuffer, Sweep
  <2>3. QED
    BY <2>1, <2>2 DEF TInv, JobShape
<1>3. QED
  BY <1>1, <1>2, SaveBufferTyped, WriterTyped, SettleTyped, WayOutTyped, ForeignWriteTyped, CrashTyped
     DEF Next

LEMMA TypedAlways == Spec => []TInv
<1>1. Init => TInv
  BY InitTyped, NoJobTyped DEF Init, TInv, JobShape
<1>2. QED
  BY <1>1, TypedStep, PTL DEF Spec

\* Every variable has its type, whatever happens while a save runs.
THEOREM TypeCorrect == Spec => []TypeOK
BY TypedAlways, PTL DEF TInv

-----------------------------------------------------------------------------
(* A file that is replaced is whole *)

Replaced == how = "replace" /\ Fsync

\* No text the editor or the disk holds is torn, the writer is on the path that
\* replaces the file, and the name moves only to bytes that were flushed.
WholeInv ==
  Replaced =>
    /\ disk # Torn /\ Torn \notin durable /\ Torn \notin backups
    /\ text # Torn /\ saved # Torn /\ job.text # Torn
    /\ job.at \notin {"truncate", "rewrite", "resync"}
    /\ job.at = "rename" => job.flushed

LEMMA WholeWriter ==
  ASSUME TInv, WholeInv, Replaced, SaverStep
  PROVE  WholeInv'
<1>1. Failure => UNCHANGED <<disk, durable, backups>> /\ job'.at = "failed"
  BY DEF Failure, fileVars
<1>2. UNCHANGED <<how, text, saved>> /\ job'.text = job.text
  BY PrepareDoes, WriteSiblingDoes, SyncSiblingDoes, RenameDoes, SyncDirectoryDoes, TruncateDoes,
     RewriteDoes, ResyncDoes DEF SaverStep, Beside, buffVars
<1>3. CASE Prepare
  BY <1>1, <1>2, <1>3, PrepareDoes DEF WholeInv, Replaced
<1>4. CASE WriteSibling
  BY <1>1, <1>2, <1>4, WriteSiblingDoes DEF WholeInv, Replaced, fileVars
<1>5. CASE SyncSibling
  BY <1>1, <1>2, <1>5, SyncSiblingDoes DEF WholeInv, Replaced, fileVars
<1>6. CASE Rename
  BY <1>1, <1>2, <1>6, RenameDoes DEF WholeInv, Replaced
<1>7. CASE SyncDirectory
  BY <1>2, <1>7, SyncDirectoryDoes DEF WholeInv, Replaced
<1>8. CASE Truncate \/ Rewrite \/ Resync
  BY <1>8, TruncateDoes, RewriteDoes, ResyncDoes DEF WholeInv, Replaced
<1>9. QED
  BY <1>3, <1>4, <1>5, <1>6, <1>7, <1>8 DEF SaverStep

LEMMA WholeBuffer ==
  ASSUME TInv, WholeInv, Replaced,
         OpenFile \/ Edit \/ Undo \/ Recover \/ Sweep \/ CloseBuffer \/ SaveBuffer
  PROVE  WholeInv'
<1> DEFINE Held == text' # Torn /\ saved' # Torn
<1>1. \A t \in Known \union Fresh : t # Torn
  BY TextsTyped, NewTextsTyped DEF TInv, TypeOK
<1>2. Empty # Torn
  BY LocalSaveAssumption DEF Empty, Torn
<1>3. UNCHANGED <<how, disk, durable, backups>>
  BY DEF OpenFile, Edit, Undo, Recover, Sweep, CloseBuffer, SaveBuffer, fileVars
<1>4. CASE SaveBuffer
  <2>1. UNCHANGED <<text, saved>>
    BY <1>4 DEF SaveBuffer
  <2>2. QED
    BY <1>3, <1>4, <2>1, SaveBufferDoes DEF WholeInv, Replaced
<1>5. CASE ~SaveBuffer
  <2>1. UNCHANGED job
    BY <1>5 DEF OpenFile, Edit, Undo, Recover, Sweep, CloseBuffer
  <2>2. ASSUME OpenFile PROVE Held
    BY <2>2 DEF OpenFile, WholeInv
  <2>3. ASSUME Edit PROVE Held
    BY <2>3, <1>1 DEF Edit, Hold, WholeInv
  <2>4. ASSUME Undo PROVE Held
    BY <2>4, <1>1 DEF Undo, Hold, WholeInv
  <2>5. ASSUME Recover PROVE Held
    BY <2>5 DEF Recover, Hold, WholeInv
  <2>6. ASSUME Sweep PROVE Held
    BY <2>6, SweepTyped DEF Sweep, TInv, WholeInv
  <2>7. ASSUME CloseBuffer PROVE Held
    BY <2>7, <1>2 DEF CloseBuffer
  <2>8. QED
    BY <1>3, <1>5, <2>1, <2>2, <2>3, <2>4, <2>5, <2>6, <2>7 DEF WholeInv, Replaced
<1>6. QED
  BY <1>4, <1>5

LEMMA WholeRest ==
  ASSUME TInv, WholeInv, Replaced, Settle \/ Quit \/ RefreshPendingQuit \/ ForeignWrite \/ Kill \/ PowerFailure
  PROVE  WholeInv'
<1>1. Empty # Torn /\ NoJob.text # Torn /\ NoJob.at = "none"
  BY LocalSaveAssumption DEF Empty, Torn, NoJob, None
<1>2. Gone => text' # Torn /\ saved' # Torn
  BY <1>1 DEF Gone
<1>3. CASE Settle
  BY <1>1, <1>3 DEF Settle, CommitSave, WholeInv, Replaced, fileVars
<1>4. CASE Quit \/ RefreshPendingQuit
  BY <1>2, <1>4 DEF Quit, RefreshPendingQuit, Exit, WholeInv, Replaced, fileVars, buffVars
<1>5. CASE ForeignWrite
  <2>1. \A t \in Fresh : t # Torn
    BY TextsTyped, NewTextsTyped DEF TInv, TypeOK
  <2>2. QED
    BY <1>5, <2>1 DEF ForeignWrite, WholeInv, Replaced, buffVars
<1>6. CASE Kill \/ PowerFailure
  BY <1>1, <1>2, <1>6 DEF Kill, PowerFailure, Crash, WholeInv, Replaced, fileVars
<1>7. QED
  BY <1>3, <1>4, <1>5, <1>6

LEMMA WholeStep ==
  ASSUME TInv, WholeInv, [Next]_vars
  PROVE  WholeInv'
<1>1. CASE UNCHANGED vars
  BY <1>1 DEF vars, fileVars, buffVars, WholeInv, Replaced
<1>2. CASE Next /\ ~Replaced
  <2>1. UNCHANGED how
    BY <1>2, PrepareDoes, WriteSiblingDoes, SyncSiblingDoes, RenameDoes, SyncDirectoryDoes, TruncateDoes,
       RewriteDoes, ResyncDoes
       DEF Next, SaverStep, Beside, OpenFile, Edit, Undo, Recover, Sweep, CloseBuffer, SaveBuffer, Settle,
           Quit, RefreshPendingQuit, ForeignWrite, Kill, PowerFailure, fileVars
  <2>2. QED
    BY <1>2, <2>1 DEF WholeInv, Replaced
<1>3. CASE Next /\ Replaced
  BY <1>3, WholeWriter, WholeBuffer, WholeRest DEF Next
<1>4. QED
  BY <1>1, <1>2, <1>3

\* Whatever step fails, whenever the process is killed or the power is cut,
\* and whatever happens to the buffer or the file meanwhile, a file that is
\* replaced is whole if saves are flushed (ReplaceFileContent).
THEOREM AlwaysWhole == Spec => []WholeAfterCrash
<1>1. Init => WholeInv
  <2>1. Empty # Torn /\ 1 # Torn /\ NoJob.text # Torn /\ NoJob.at = "none"
    BY LocalSaveAssumption DEF Empty, Torn, NoJob, None
  <2>2. QED
    BY <2>1 DEF Init, WholeInv
<1>2. WholeInv => WholeAfterCrash
  BY DEF WholeInv, WholeAfterCrash, Replaced
<1>3. QED
  BY <1>1, <1>2, TypedAlways, WholeStep, PTL DEF Spec

-----------------------------------------------------------------------------
(* The bookkeeping of a buffer while a save of it runs *)

\* What every step of the writer leaves alone, and that it is one of a write.
LEMMA WriterKeeps ==
  ASSUME TInv, SaverStep
  PROVE  /\ job.at # "none" /\ job'.at # "none" /\ job # NoJob /\ job' # NoJob
         /\ job'.text = job.text /\ UNCHANGED Beside
<1>1. job.at # "none" /\ job'.at # "none" /\ job'.text = job.text /\ UNCHANGED Beside
  BY PrepareDoes, WriteSiblingDoes, SyncSiblingDoes, RenameDoes, SyncDirectoryDoes, TruncateDoes,
     RewriteDoes, ResyncDoes DEF SaverStep, Failure
<1>2. QED
  BY <1>1, NoJobTyped

\* No other program wrote the file while a save of this buffer ran.
Quiet == "foreign" \notin WhileSaving \/ ~overtaken

\* A write that got through left its text on disk, and the text changes are
\* merged against is that of a file with the recorded timestamp.
BaseInv ==
  Quiet =>
    /\ job.at \in {"syncdir", "resync", "written"} => disk = job.text
    /\ open /\ seen => saved = disk

LEMMA BaseWriter ==
  ASSUME TInv, BaseInv, SaverStep
  PROVE  BaseInv'
<1>1. /\ job'.text = job.text /\ UNCHANGED <<open, saved, overtaken>>
  BY WriterKeeps DEF Beside, buffVars
<1>2. Quiet' = Quiet
  BY <1>1 DEF Quiet
<1>3. Failure => UNCHANGED <<disk, seen>> /\ job'.at = "failed"
  BY DEF Failure, fileVars
<1>4. CASE Prepare
  BY <1>1, <1>2, <1>3, <1>4, PrepareDoes DEF BaseInv
<1>5. CASE WriteSibling
  BY <1>1, <1>2, <1>3, <1>5, WriteSiblingDoes DEF BaseInv, fileVars
<1>6. CASE SyncSibling
  BY <1>1, <1>2, <1>3, <1>6, SyncSiblingDoes DEF BaseInv, fileVars
<1>7. CASE Rename
  BY <1>1, <1>2, <1>3, <1>7, RenameDoes DEF BaseInv
<1>8. CASE SyncDirectory
  BY <1>1, <1>2, <1>8, SyncDirectoryDoes DEF BaseInv
<1>9. CASE Truncate
  BY <1>1, <1>2, <1>3, <1>9, TruncateDoes DEF BaseInv
<1>10. CASE Rewrite
  BY <1>1, <1>2, <1>3, <1>10, RewriteDoes DEF BaseInv
<1>11. CASE Resync
  BY <1>1, <1>2, <1>3, <1>11, ResyncDoes DEF BaseInv, fileVars
<1>12. QED
  BY <1>4, <1>5, <1>6, <1>7, <1>8, <1>9, <1>10, <1>11 DEF SaverStep

LEMMA BaseStep ==
  ASSUME TInv, BaseInv, [Next]_vars
  PROVE  BaseInv'
<1>1. job = NoJob <=> job.at = "none"
  BY JobTyped
<1>2. CASE UNCHANGED vars
  BY <1>2 DEF vars, fileVars, buffVars, histVars, BaseInv, Quiet
<1>3. CASE OpenFile
  BY <1>1, <1>3 DEF OpenFile, BaseInv, Quiet, fileVars
<1>4. CASE Edit
  BY <1>4 DEF Edit, BaseInv, Quiet, fileVars
<1>5. CASE Undo \/ Recover
  BY <1>5 DEF Undo, Recover, Overtaking, BaseInv, Quiet, fileVars
<1>6. CASE Sweep
  BY <1>6 DEF Sweep, Overtaking, BaseInv, Quiet, fileVars
<1>7. CASE CloseBuffer
  BY <1>7 DEF CloseBuffer, Overtaking, BaseInv, Quiet, fileVars
<1>8. CASE SaveBuffer
  BY <1>8, SaveBufferDoes DEF SaveBuffer, BaseInv, Quiet, fileVars
<1>9. CASE Settle
  BY <1>9, NoJobTyped DEF Settle, CommitSave, BaseInv, Quiet, fileVars, histVars
<1>10. CASE Quit \/ RefreshPendingQuit
  BY <1>10 DEF Quit, RefreshPendingQuit, Exit, Gone, BaseInv, Quiet, fileVars, buffVars
<1>11. CASE ForeignWrite
  BY <1>1, <1>11 DEF ForeignWrite, Meanwhile, Overtaking, BaseInv, Quiet, buffVars
<1>12. CASE Kill \/ PowerFailure
  BY <1>12, NoJobTyped DEF Kill, PowerFailure, Crash, Gone, BaseInv
<1>13. QED
  BY <1>2, <1>3, <1>4, <1>5, <1>6, <1>7, <1>8, <1>9, <1>10, <1>11, <1>12, BaseWriter DEF Next

LEMMA BaseAlways == Spec => []BaseInv
<1>1. Init => BaseInv
  BY NoJobTyped DEF Init, BaseInv
<1>2. QED
  BY <1>1, TypedAlways, BaseStep, PTL DEF Spec

\* As long as no other program writes in the middle of a save, the text that
\* changes are merged against is what the file with the recorded timestamp
\* holds, whatever the user did to the buffer meanwhile.
THEOREM MergeBaseAlwaysOnDisk ==
  Spec => []("foreign" \notin WhileSaving => MergeBaseIsOnDisk)
<1>1. BaseInv => ("foreign" \notin WhileSaving => MergeBaseIsOnDisk)
  BY DEF BaseInv, Quiet, MergeBaseIsOnDisk
<1>2. QED
  BY <1>1, BaseAlways, PTL

\* Where no save of the buffer runs nothing is in flight; where one runs, and
\* nothing but edits happened, the buffer knows of it, and what is not marked as
\* changed is as it was written, or will be once the write that runs has ended.
MarksInv ==
  /\ job = NoJob => ~saving
  /\ ~open => ~saving
  /\ app = "up" /\ ~overtaken /\ job # NoJob => open /\ saving
  /\ open /\ ~overtaken /\ ~unsaved => text = saved \/ text = Empty
  /\ open /\ ~overtaken /\ saving /\ ~late => text = job.text \/ text = Empty

LEMMA MarksWriter ==
  ASSUME TInv, MarksInv, SaverStep
  PROVE  MarksInv'
BY WriterKeeps DEF Beside, buffVars, exitVars, MarksInv

LEMMA MarksSettle ==
  ASSUME TInv, MarksInv, Settle
  PROVE  MarksInv'
<1>1. /\ app = "up" /\ job # NoJob /\ job' = NoJob /\ UNCHANGED <<open, text, overtaken, app>>
      /\ saving' = FALSE
  BY NoJobTyped DEF Settle, MarksInv, histVars
<1>2. CASE open /\ ~overtaken /\ job.at = "written"
  <2>1. saved' = job.text /\ unsaved' = late /\ saving
    BY <1>1, <1>2 DEF Settle, CommitSave, MarksInv
  <2>2. QED
    BY <1>1, <1>2, <2>1 DEF MarksInv
<1>3. CASE ~(open /\ job.at = "written")
  <2>1. UNCHANGED <<saved, unsaved>>
    BY <1>3 DEF Settle
  <2>2. QED
    BY <1>1, <2>1 DEF MarksInv
<1>4. CASE overtaken
  BY <1>1, <1>4 DEF MarksInv
<1>5. QED
  BY <1>2, <1>3, <1>4

LEMMA MarksStep ==
  ASSUME TInv, MarksInv, [Next]_vars
  PROVE  MarksInv'
<1>1. CASE UNCHANGED vars
  BY <1>1 DEF vars, buffVars, exitVars, histVars, MarksInv
<1>2. CASE OpenFile
  BY <1>2 DEF OpenFile, MarksInv, exitVars
<1>3. CASE Edit
  <2>1. PICK t \in (Known \union Fresh) \ {text} : Hold(t) /\ Mark(t)
    BY <1>3 DEF Edit
  <2>2. text' = t /\ (~unsaved' => text' = Empty) /\ (saving /\ ~late' => text' = Empty)
    BY <2>1 DEF Hold, Mark
  <2>3. QED
    BY <1>3, <2>2 DEF Edit, MarksInv, exitVars
<1>4. CASE Undo
  <2>1. PICK t \in Known \ {text} :
          Hold(t) /\ IF t = saved THEN unsaved' = FALSE /\ UNCHANGED late ELSE Mark(t)
    BY <1>4 DEF Undo
  <2>2. text' = t /\ (~unsaved' => text' = saved \/ text' = Empty)
    BY <2>1 DEF Hold, Mark
  <2>3. /\ UNCHANGED <<open, saved, saving, job, exitVars>>
        /\ overtaken' = (overtaken \/ job # NoJob)
    BY <1>4 DEF Undo, Overtaking
  <2>4. QED
    BY <2>2, <2>3 DEF MarksInv, exitVars
<1>5. CASE Recover
  <2>1. PICK t \in backups : Hold(t) /\ unsaved' = (t # Empty)
    BY <1>5 DEF Recover
  <2>2. text' = t /\ (~unsaved' => text' = Empty)
    BY <2>1 DEF Hold
  <2>3. /\ UNCHANGED <<open, saving, job, exitVars>>
        /\ overtaken' = (overtaken \/ job # NoJob)
    BY <1>5 DEF Recover, Overtaking
  <2>4. QED
    BY <2>2, <2>3 DEF MarksInv, exitVars
<1>6. CASE Sweep
  <2>1. ~unsaved' => text' = saved' \/ text' = Empty
    <3>1. CASE ~Modified
      BY <1>6, <3>1 DEF Sweep, Hold
    <3>2. CASE Modified
      BY <1>6, <3>2 DEF Sweep, Hold
    <3>3. QED
      BY <3>1, <3>2
  <2>2. /\ UNCHANGED <<open, saving, job, exitVars>>
        /\ overtaken' = (overtaken \/ job # NoJob)
    BY <1>6 DEF Sweep, Overtaking
  <2>3. QED
    BY <2>1, <2>2 DEF MarksInv, exitVars
<1>7. CASE CloseBuffer
  BY <1>7 DEF CloseBuffer, Overtaking, MarksInv, exitVars
<1>8. CASE SaveBuffer
  <2>1. job' # NoJob /\ job'.text = text
    BY <1>8, SaveBufferDoes, NoJobTyped
  <2>2. QED
    BY <1>8, <2>1 DEF SaveBuffer, MarksInv, exitVars
<1>9. CASE Quit \/ RefreshPendingQuit
  BY <1>9 DEF Quit, RefreshPendingQuit, Exit, Gone, MarksInv, buffVars
<1>10. CASE ForeignWrite
  BY <1>10 DEF ForeignWrite, Overtaking, MarksInv, buffVars, exitVars
<1>11. CASE Kill \/ PowerFailure
  BY <1>11 DEF Kill, PowerFailure, Crash, Gone, MarksInv
<1>12. QED
  BY <1>1, <1>2, <1>3, <1>4, <1>5, <1>6, <1>7, <1>8, <1>9, <1>10, <1>11, MarksWriter, MarksSettle DEF Next

LEMMA MarksAlways == Spec => []MarksInv
<1>1. Init => MarksInv
  BY DEF Init, MarksInv
<1>2. QED
  BY <1>1, TypedAlways, MarksStep, PTL DEF Spec

\* If nothing but edits happened while saves ran, a buffer that says it has no
\* unsaved changes holds what the file holds: no edit made during a save is
\* taken for saved, whenever it was made and however the save went.
THEOREM EditsAlwaysKeepTheirMarks == Spec => []EditsKeepTheirMarks
<1>1. TInv /\ BaseInv /\ MarksInv => EditsKeepTheirMarks
  BY DEF BaseInv, Quiet, MarksInv, EditsKeepTheirMarks, UnmodifiedMeansSaved, Modified
<1>2. QED
  BY <1>1, TypedAlways, BaseAlways, MarksAlways, PTL

-----------------------------------------------------------------------------
(* The way out *)

\* How a write went is known when it has ended; an unconfirmed exit leaves none.
ExitInv ==
  /\ job = NoJob => outcome = "written" \/ failed
  /\ job.at \in {"syncdir", "written"} => outcome = "written"
  /\ app = "exited" /\ ~confirmed /\ ~overtaken => job = NoJob

LEMMA ExitWriter ==
  ASSUME TInv, ExitInv, SaverStep
  PROVE  ExitInv'
<1>1. job # NoJob /\ job' # NoJob /\ UNCHANGED <<app, confirmed, overtaken>>
  BY WriterKeeps DEF Beside, exitVars
<1>2. job'.at \in {"syncdir", "written"} => outcome' = "written"
  <2>1. CASE Failure
    BY <2>1 DEF Failure
  <2>2. CASE Prepare \/ WriteSibling \/ SyncSibling \/ Truncate
    BY <2>1, <2>2, PrepareDoes, WriteSiblingDoes, SyncSiblingDoes, TruncateDoes
  <2>3. CASE Rename \/ Rewrite \/ Resync
    BY <2>1, <2>3, RenameDoes, RewriteDoes, ResyncDoes
  <2>4. CASE SyncDirectory
    BY <2>4, SyncDirectoryDoes DEF ExitInv
  <2>5. QED
    BY <2>2, <2>3, <2>4 DEF SaverStep
<1>3. QED
  BY <1>1, <1>2 DEF ExitInv

LEMMA ExitStep ==
  ASSUME TInv, MarksInv, ExitInv, [Next]_vars
  PROVE  ExitInv'
<1>1. CASE UNCHANGED vars
  BY <1>1 DEF vars, exitVars, histVars, ExitInv
<1>2. CASE OpenFile \/ Edit \/ Undo \/ Recover \/ Sweep \/ CloseBuffer
  <2>1. app = "up" /\ UNCHANGED <<job, outcome, app, failed>>
    BY <1>2 DEF OpenFile, Edit, Undo, Recover, Sweep, CloseBuffer, MainFree, exitVars
  <2>2. QED
    BY <2>1 DEF ExitInv
<1>3. CASE SaveBuffer
  <2>1. app = "up" /\ UNCHANGED app
    BY <1>3 DEF SaveBuffer, MainFree, exitVars
  <2>2. QED
    BY <1>3, <2>1, SaveBufferDoes, NoJobTyped DEF ExitInv
<1>4. CASE Settle
  BY <1>4, NoJobTyped DEF Settle, ExitInv, histVars
<1>5. CASE Quit \/ RefreshPendingQuit
  <2>1. app = "up" /\ UNCHANGED <<job, outcome, failed, overtaken>>
    BY <1>5 DEF Quit, RefreshPendingQuit, MainFree
  <2>2. app' = "exited" /\ ~confirmed' => ~AnySaveInFlight
    BY <1>5, <2>1 DEF Quit, RefreshPendingQuit, Exit
  <2>3. ~AnySaveInFlight /\ ~overtaken => job = NoJob
    BY <2>1 DEF AnySaveInFlight, MarksInv
  <2>4. QED
    BY <2>1, <2>2, <2>3 DEF ExitInv
<1>6. CASE ForeignWrite
  BY <1>6 DEF ForeignWrite, Overtaking, ExitInv, exitVars
<1>7. CASE Kill \/ PowerFailure
  BY <1>7, NoJobTyped DEF Kill, PowerFailure, Crash, ExitInv
<1>8. QED
  BY <1>1, <1>2, <1>3, <1>4, <1>5, <1>6, <1>7, ExitWriter DEF Next

\* If nothing but edits happened while saves ran, an exit the user did not have
\* to confirm comes after the last write, and if that failed says so.
THEOREM ExitStatusAlwaysTrue == Spec => []ExitStatusIsTrue
<1>1. Init => ExitInv
  BY NoJobTyped DEF Init, ExitInv
<1>2. ExitInv => ExitStatusIsTrue
  BY DEF ExitInv, ExitStatusIsTrue
<1>3. QED
  BY <1>1, <1>2, TypedAlways, MarksAlways, ExitStep, PTL DEF Spec

\* A quit that waits has seen that the write that runs covers the buffer.
Covered ==
  /\ saving => text = job.text
  /\ ~saving => text = saved \/ failed

QuitInv == app = "up" /\ quitting /\ open /\ ~since /\ ~overtaken => Covered

LEMMA QuitStep ==
  ASSUME TInv, MarksInv, QuitInv, [Next]_vars
  PROVE  QuitInv'
<1>1. CASE UNCHANGED vars
  BY <1>1 DEF vars, buffVars, exitVars, histVars, QuitInv, Covered
<1>2. CASE OpenFile
  BY <1>2 DEF OpenFile, QuitInv, Covered
<1>3. CASE Edit \/ Undo \/ Recover \/ Sweep
  <2>1. since' = (since \/ quitting) /\ UNCHANGED quitting
    BY <1>3 DEF Edit, Undo, Recover, Sweep, Hold, exitVars
  <2>2. QED
    BY <2>1 DEF QuitInv
<1>4. CASE CloseBuffer
  BY <1>4 DEF CloseBuffer, QuitInv
<1>5. CASE SaveBuffer
  BY <1>5, SaveBufferDoes DEF SaveBuffer, QuitInv, Covered, exitVars
<1>6. CASE SaverStep
  <2>1. /\ UNCHANGED <<open, text, saved, saving, app, quitting, failed, since, overtaken>>
        /\ job'.text = job.text
    BY <1>6, WriterKeeps DEF Beside, buffVars, exitVars
  <2>2. QED
    BY <2>1 DEF QuitInv, Covered
<1>7. CASE Settle
  <2>1. /\ app = "up" /\ job # NoJob
        /\ UNCHANGED <<open, text, app, quitting, since, overtaken>>
    BY <1>7, NoJobTyped DEF Settle, histVars
  <2>2. CASE open /\ ~since /\ ~overtaken /\ quitting
    <3>1. saving /\ text = job.text
      BY <2>1, <2>2 DEF MarksInv, QuitInv, Covered
    <3>2. ~saving' /\ (saved' = job.text \/ failed')
      BY <1>7, <2>2 DEF Settle, CommitSave
    <3>3. QED
      BY <2>1, <3>1, <3>2 DEF QuitInv, Covered
  <2>3. QED
    BY <2>1, <2>2 DEF QuitInv
<1>8. CASE Quit
  <2>1. CASE app' = "exited"
    BY <2>1 DEF QuitInv
  <2>2. CASE app' # "exited"
    <3>1. /\ ~(open /\ ModifiedAfterPendingSave) /\ AnySaveInFlight
          /\ UNCHANGED <<open, text, saving, job, overtaken>>
      BY <1>8, <2>2 DEF Quit, Exit, buffVars
    <3>2. open /\ saving /\ ~late /\ ~(text = Empty /\ job.text # Empty)
      BY <3>1 DEF AnySaveInFlight, ModifiedAfterPendingSave
    <3>3. ~overtaken => text = job.text
      BY <3>2 DEF MarksInv
    <3>4. QED
      BY <3>1, <3>2, <3>3 DEF QuitInv, Covered
  <2>3. QED
    BY <2>1, <2>2
<1>9. CASE RefreshPendingQuit
  BY <1>9 DEF RefreshPendingQuit, Exit, QuitInv
<1>10. CASE ForeignWrite
  BY <1>10 DEF ForeignWrite, Overtaking, buffVars, exitVars, QuitInv, Covered
<1>11. CASE Kill \/ PowerFailure
  BY <1>11 DEF Kill, PowerFailure, Crash, QuitInv
<1>12. QED
  BY <1>1, <1>2, <1>3, <1>4, <1>5, <1>6, <1>7, <1>8, <1>9, <1>10, <1>11 DEF Next

\* Without a question, no exit loses what the buffer held at the quit command,
\* unless a save failed, whether the exit was at once or waited for a save.
THEOREM QuitNeverLoses == Spec => QuitLosesNothing
<1> DEFINE Kept == app = "up" /\ app' = "exited" /\ ~confirmed' /\ open /\ ~since /\ ~overtaken
                     => text = saved \/ failed
<1>1. Init => QuitInv
  BY DEF Init, QuitInv
<1>2. ASSUME MarksInv, QuitInv, TInv, [Next]_vars
      PROVE  [Kept]_vars
  <2>1. ASSUME Quit, app' = "exited", ~confirmed', open, ~overtaken
        PROVE  text = saved
    <3>1. ~ModifiedAfterPendingSave /\ ~AnySaveInFlight
      BY <2>1 DEF Quit, Exit, MainFree
    <3>2. ~saving
      BY <2>1, <3>1 DEF AnySaveInFlight
    <3>3. ~Modified
      BY <3>1, <3>2 DEF ModifiedAfterPendingSave
    <3>4. QED
      BY <1>2, <2>1, <3>3 DEF Modified, MarksInv
  <2>2. ASSUME RefreshPendingQuit, app = "up", open, ~since, ~overtaken
        PROVE  text = saved \/ failed
    <3>1. quitting /\ ~saving
      BY <2>2 DEF RefreshPendingQuit, AnySaveInFlight
    <3>2. QED
      BY <1>2, <2>2, <3>1 DEF QuitInv, Covered
  <2>3. ASSUME SaverStep PROVE UNCHANGED app
    BY <1>2, <2>3, WriterKeeps DEF Beside, exitVars
  <2>4. ASSUME OpenFile \/ Edit \/ Undo \/ Recover \/ Sweep \/ CloseBuffer \/ SaveBuffer \/ Settle
                 \/ ForeignWrite \/ Kill \/ PowerFailure
        PROVE  app' = app \/ app' = "crashed"
    BY <2>4 DEF OpenFile, Edit, Undo, Recover, Sweep, CloseBuffer, SaveBuffer, Settle, ForeignWrite,
                Kill, PowerFailure, Crash, exitVars
  <2>5. ASSUME Next PROVE Kept
    BY <2>1, <2>2, <2>3, <2>4, <2>5 DEF Next
  <2>6. QED
    BY <1>2, <2>5
<1>3. QED
  BY <1>1, <1>2, TypedAlways, MarksAlways, QuitStep, PTL DEF Spec, QuitLosesNothing
=============================================================================
