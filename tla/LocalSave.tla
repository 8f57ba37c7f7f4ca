------------------------------- MODULE LocalSave -------------------------------
(***************************************************************************)
(* Saving a buffer to a local file: the bookkeeping of Text/Buffer.cpp     *)
(* (what is unsaved, what a save in flight covers), the way the bytes      *)
(* reach the disk (Text/SavePlan.cpp, Editor/BufferSave.cpp), the saver    *)
(* thread of a large buffer (UI/AsyncFileSaver.cpp), and the way out       *)
(* (UI/BufferView.cpp, Application.cpp).                                   *)
(*                                                                         *)
(* Three actors: the main thread, on which the user's commands and what    *)
(* the threads posted run; the saver thread; and other programs, which     *)
(* write the file too.  The process may be killed, the power may fail.     *)
(*                                                                         *)
(* A text is a number; ranges of a text are "some" or "none".              *)
(***************************************************************************)
EXTENDS Naturals

CONSTANTS MaxTexts,     \* bound: texts that are made up
          Fsync,        \* SaveFsync
          WhileSaving   \* bound: what else may happen while a save runs

ASSUME LocalSaveAssumption ==
  /\ MaxTexts \in Nat \ {0}
  /\ Fsync \in BOOLEAN
  /\ WhileSaving \subseteq {"edit", "undo", "recover", "sweep", "close", "reopen", "foreign"}

VARIABLES
  how,       \* "replace", or "in place" for a linked file or a closed directory
  disk,      \* the text of the file
  durable,   \* what a power failure may leave of a file that is replaced
  backups,   \* the texts of the backup versions
  open,      \* the buffer is in the list
  text,
  saved,     \* SavedSnapshot_
  unsaved,   \* UnsavedChangeRanges_ is not empty
  late,      \* SaveInFlightRanges_ is not empty
  saving,    \* Saving_
  seen,      \* the file has the timestamp the buffer recorded (DiskTimestamp_)
  job,       \* the write that runs
  app,       \* "up", "exited" or "crashed"
  quitting,  \* quitPendingSaves_
  failed,    \* SaveFailures has the file
  used,      \* history: texts made up so far
  outcome,   \* history: how the last write the user asked for went
  confirmed, \* history: the user confirmed the exit
  since,     \* history: the buffer changed after the quit command
  overtaken  \* history: more than an edit happened while a save ran

fileVars == <<how, disk, durable, backups>>
buffVars == <<open, text, saved, unsaved, late, saving>>
exitVars == <<app, quitting, failed, confirmed>>
histVars == <<outcome, since, overtaken>>
vars == <<fileVars, buffVars, seen, job, exitVars, used, histVars>>

-----------------------------------------------------------------------------
(* Data *)

Empty == 0
Torn  == MaxTexts + 1   \* part of a text, or a text whose bytes were lost
None  == MaxTexts + 2
Texts == 0 .. Torn

Fresh == {t \in {used + 1} : t <= MaxTexts}
Known == 0 .. used

NoJob == [at |-> "none", text |-> None, where |-> "main", flushed |-> FALSE]
Jobs  == [at : {"none", "prepare", "write", "sync", "rename", "syncdir",
                "truncate", "rewrite", "resync", "written", "failed"},
          text : Texts \union {None}, where : {"main", "thread"}, flushed : BOOLEAN]

TypeOK ==
  /\ how \in {"replace", "in place"} /\ disk \in Texts /\ durable \subseteq Texts
  /\ backups \subseteq Texts
  /\ open \in BOOLEAN /\ text \in Texts /\ saved \in Texts
  /\ unsaved \in BOOLEAN /\ late \in BOOLEAN /\ saving \in BOOLEAN /\ seen \in BOOLEAN
  /\ job \in Jobs
  /\ app \in {"up", "exited", "crashed"} /\ quitting \in BOOLEAN /\ failed \in BOOLEAN
  /\ used \in 0 .. MaxTexts
  /\ outcome \in {"written", "running", "failed"}
  /\ confirmed \in BOOLEAN /\ since \in BOOLEAN /\ overtaken \in BOOLEAN

Modified == unsaved \/ (text = Empty /\ saved # Empty)

\* (mutant) a save in flight is taken to cover every edit
ModifiedOutsideSave == ~saving /\ Modified

\* What is unsaved once the write that runs has ended.
ModifiedAfterPendingSave ==
  IF saving THEN late \/ (text = Empty /\ job.text # Empty) ELSE Modified

\* (mutant) nothing holds the quit
NeverInFlight == FALSE

AnySaveInFlight == open /\ saving

MainFree == app = "up" /\ (job = NoJob \/ job.where = "thread")

Meanwhile(what) == job = NoJob \/ what \in WhileSaving

Overtaking == overtaken' = (overtaken \/ job # NoJob)

Init ==
  /\ how \in {"replace", "in place"}
  /\ disk = 1 /\ durable = {1} /\ backups = {} /\ used = 1
  /\ open = FALSE /\ text = Empty /\ saved = Empty
  /\ unsaved = FALSE /\ late = FALSE /\ saving = FALSE /\ seen = FALSE
  /\ job = NoJob
  /\ app = "up" /\ quitting = FALSE /\ failed = FALSE
  /\ outcome = "written" /\ confirmed = FALSE /\ since = FALSE /\ overtaken = FALSE

-----------------------------------------------------------------------------
(* The buffer: commands on the main thread *)

Hold(t) ==
  /\ text' = t
  /\ since' = (since \/ quitting)

\* Ranges follow an edit; an empty text has no byte left to mark.
Mark(t) ==
  /\ unsaved' = (t # Empty)
  /\ late' = (saving /\ t # Empty)

OpenFile ==
  /\ MainFree /\ ~open /\ Meanwhile("reopen")
  /\ open' = TRUE /\ text' = disk /\ saved' = disk /\ seen' = TRUE
  /\ unsaved' = FALSE /\ late' = FALSE /\ saving' = FALSE
  /\ overtaken' = (job # NoJob)
  /\ UNCHANGED <<fileVars, job, exitVars, used, outcome, since>>

Edit ==
  /\ MainFree /\ open /\ Meanwhile("edit")
  /\ \E t \in (Known \union Fresh) \ {text} :
       /\ Hold(t) /\ Mark(t)
       /\ used' = IF t > used THEN t ELSE used
  /\ UNCHANGED <<fileVars, open, saved, saving, seen, job, exitVars, outcome, overtaken>>

\* A step through the undo tree, in any direction; the tree holds what was
\* typed, which is any text made up so far.
Undo ==
  /\ MainFree /\ open /\ Meanwhile("undo")
  /\ \E t \in Known \ {text} :
       /\ Hold(t)
       /\ IF t = saved THEN unsaved' = FALSE /\ UNCHANGED late ELSE Mark(t)
  /\ Overtaking
  /\ UNCHANGED <<fileVars, open, saved, saving, seen, job, exitVars, used, outcome>>

\* recover-backup: RestoreContent of a kept version.
Recover ==
  /\ MainFree /\ open /\ Meanwhile("recover")
  /\ \E t \in backups :
       /\ Hold(t)
       /\ unsaved' = (t # Empty)
  /\ Overtaking
  /\ UNCHANGED <<fileVars, open, saved, late, saving, seen, job, exitVars, used, outcome>>

\* The timer or the watcher finds that the file changed: the buffer takes it
\* over if it has no changes of its own, else the two are merged.
Sweep ==
  /\ MainFree /\ open /\ ~seen /\ Meanwhile("sweep")
  /\ \/ ~Modified /\ Hold(disk) /\ unsaved' = FALSE /\ used' = used
     \/ /\ Modified
        /\ \E t \in IF text = saved THEN {disk} ELSE IF disk \in {saved, text} THEN {text}
                    ELSE {text, disk} \union Fresh :
             /\ Hold(t)
             /\ unsaved' = (t # Empty)
             /\ used' = IF t \in Fresh THEN t ELSE used
  /\ saved' = disk /\ seen' = TRUE
  /\ Overtaking
  /\ UNCHANGED <<fileVars, open, late, saving, job, exitVars, outcome>>

\* Closed at once, or after the user was asked.
CloseBuffer ==
  /\ MainFree /\ open /\ Meanwhile("close")
  /\ open' = FALSE /\ text' = Empty /\ saved' = Empty /\ seen' = FALSE
  /\ unsaved' = FALSE /\ late' = FALSE /\ saving' = FALSE
  /\ Overtaking
  /\ UNCHANGED <<fileVars, job, exitVars, used, outcome, since>>

-----------------------------------------------------------------------------
(* A save: begun on the main thread, written there or on the saver thread *)

\* BeginSave.  If the file changed underneath, the user was asked first.  A
\* large buffer is saved on the thread, a small one at once; all that comes of
\* that, a save on the thread does too while the user waits, so only an empty
\* text, which is never large, is saved on the main thread here.
SaveBuffer ==
  /\ MainFree /\ open /\ ~saving /\ job = NoJob
  /\ job' = [NoJob EXCEPT !.at = "prepare", !.text = text,
                          !.where = IF text = Empty THEN "main" ELSE "thread"]
  /\ saving' = TRUE /\ late' = FALSE
  /\ outcome' = "running"
  /\ UNCHANGED <<fileVars, open, text, saved, unsaved, seen, exitVars, used, since, overtaken>>

At(step) == job.at = step /\ app \in {"up", "exited"}

Step(step) == job' = [job EXCEPT !.at = step]

WriteFails ==
  /\ Step("failed")
  /\ outcome' = "failed"
  /\ UNCHANGED <<fileVars, seen>>

\* The charset is validated, then the file as it is becomes a backup version,
\* unless backups are off, it is too large, or that fails, which is swallowed.
Prepare ==
  /\ At("prepare")
  /\ \/ WriteFails
     \/ /\ backups' \in {backups, backups \union {disk}}
        /\ Step(IF how = "replace" THEN "write" ELSE "truncate")
        /\ UNCHANGED <<how, disk, durable, outcome, seen>>
  /\ UNCHANGED <<buffVars, exitVars, used, since, overtaken>>

\* (mutant) the rename does not wait for the bytes
WriteUnflushed ==
  /\ At("write")
  /\ Step("rename")
  /\ UNCHANGED <<fileVars, outcome, seen>>
  /\ UNCHANGED <<buffVars, exitVars, used, since, overtaken>>

\* The sibling file is created and written, and flushed.
WriteSibling ==
  /\ At("write")
  /\ \/ WriteFails
     \/ Step(IF Fsync THEN "sync" ELSE "rename") /\ UNCHANGED <<fileVars, outcome, seen>>
  /\ UNCHANGED <<buffVars, exitVars, used, since, overtaken>>

SyncSibling ==
  /\ At("sync")
  /\ \/ WriteFails
     \/ /\ job' = [job EXCEPT !.at = "rename", !.flushed = TRUE]
        /\ UNCHANGED <<fileVars, outcome, seen>>
  /\ UNCHANGED <<buffVars, exitVars, used, since, overtaken>>

\* The name moves to the new file. Until the directory is synced a power
\* failure may undo that; bytes that were not flushed may be lost.
Rename ==
  /\ At("rename")
  /\ \/ WriteFails
     \/ /\ disk' = job.text
        /\ durable' = durable \union IF job.flushed THEN {job.text} ELSE {job.text, Torn}
        /\ seen' = FALSE
        /\ outcome' = "written"
        /\ Step(IF Fsync THEN "syncdir" ELSE "written")
        /\ UNCHANGED <<how, backups>>
  /\ UNCHANGED <<buffVars, exitVars, used, since, overtaken>>

\* If the directory cannot be synced, either text may be left, as before.
SyncDirectory ==
  /\ At("syncdir")
  /\ durable' = {disk}
  /\ Step("written")
  /\ UNCHANGED <<how, disk, backups, seen, buffVars, exitVars, used, histVars>>

Truncate ==
  /\ At("truncate")
  /\ \/ WriteFails
     \/ /\ disk' = Torn
        /\ durable' = {Torn}
        /\ seen' = FALSE
        /\ Step("rewrite")
        /\ UNCHANGED <<how, backups, outcome>>
  /\ UNCHANGED <<buffVars, exitVars, used, since, overtaken>>

Rewrite ==
  /\ At("rewrite")
  /\ \/ WriteFails
     \/ /\ disk' = job.text
        /\ durable' = {job.text}
        /\ seen' = FALSE
        /\ Step(IF Fsync THEN "resync" ELSE "written")
        /\ outcome' = IF Fsync THEN outcome ELSE "written"
        /\ UNCHANGED <<how, backups>>
  /\ UNCHANGED <<buffVars, exitVars, used, since, overtaken>>

Resync ==
  /\ At("resync")
  /\ \/ WriteFails
     \/ Step("written") /\ outcome' = "written" /\ UNCHANGED <<fileVars, seen>>
  /\ UNCHANGED <<buffVars, exitVars, used, since, overtaken>>

\* (mutant) the edits made since BeginSave count as saved
CommitClears == saved' = job.text /\ unsaved' = FALSE /\ seen' = TRUE

\* (mutant) what the buffer holds now counts as written
CommitLive == saved' = text /\ unsaved' = late /\ seen' = TRUE

\* CommitSave, with the timestamp the file has now.
CommitSave ==
  /\ saved' = job.text
  /\ unsaved' = late
  /\ seen' = TRUE

\* (mutant) a completion that runs although no save is in flight
SettleTwice ==
  /\ app = "up" /\ job.at \in {"none", "written", "failed"}
  /\ failed' = (job.at = "failed")
  /\ IF open /\ job.at # "failed" THEN CommitSave ELSE UNCHANGED <<saved, unsaved, seen>>
  /\ IF open THEN saving' = FALSE /\ late' = FALSE ELSE UNCHANGED <<saving, late>>
  /\ job' = NoJob
  /\ UNCHANGED <<fileVars, open, text, app, quitting, confirmed, used, histVars>>

\* Back on the main thread: at once, or by what the saver thread posted,
\* which looks the buffer up by its name.
Settle ==
  /\ app = "up" /\ job.at \in {"written", "failed"}
  /\ failed' = (job.at = "failed")
  /\ IF open /\ job.at = "written" THEN CommitSave ELSE UNCHANGED <<saved, unsaved, seen>>
  /\ IF open THEN saving' = FALSE /\ late' = FALSE ELSE UNCHANGED <<saving, late>>
  /\ job' = NoJob
  /\ UNCHANGED <<fileVars, open, text, app, quitting, confirmed, used, histVars>>

-----------------------------------------------------------------------------
(* The way out *)

\* What the process held is lost.
Gone ==
  /\ open' = FALSE /\ text' = Empty /\ saved' = Empty /\ seen' = FALSE
  /\ unsaved' = FALSE /\ late' = FALSE /\ saving' = FALSE
  /\ quitting' = FALSE /\ since' = FALSE

Exit(asked) == app' = "exited" /\ confirmed' = asked /\ Gone

\* quit: asks if edits would be lost, waits if a save is in flight.
Quit ==
  /\ MainFree
  /\ IF open /\ ModifiedAfterPendingSave THEN Exit(TRUE)
     ELSE IF ~AnySaveInFlight THEN Exit(FALSE)
     ELSE quitting' = TRUE /\ since' = FALSE /\ UNCHANGED <<app, confirmed, buffVars, seen>>
  /\ UNCHANGED <<fileVars, job, failed, used, outcome, overtaken>>

\* (mutant) the quit also waits for edits to be saved
RefreshWhenSaved ==
  /\ MainFree /\ quitting /\ ~AnySaveInFlight /\ ~Modified
  /\ Exit(FALSE)
  /\ UNCHANGED <<fileVars, job, failed, used, outcome, overtaken>>

\* Called for every frame.
RefreshPendingQuit ==
  /\ MainFree /\ quitting /\ ~AnySaveInFlight
  /\ Exit(FALSE)
  /\ UNCHANGED <<fileVars, job, failed, used, outcome, overtaken>>

-----------------------------------------------------------------------------
(* The rest of the world *)

\* Another program replaces the file and flushes it.
ForeignWrite ==
  /\ app = "up" /\ Meanwhile("foreign")
  /\ \E t \in Fresh : disk' = t /\ durable' = {t} /\ used' = t
  /\ seen' = FALSE
  /\ Overtaking
  /\ UNCHANGED <<how, backups, buffVars, job, exitVars, outcome, since>>

Crash ==
  /\ app' = "crashed" /\ Gone
  /\ failed' = FALSE /\ confirmed' = FALSE /\ job' = NoJob
  /\ outcome' = "written" /\ overtaken' = FALSE
  /\ UNCHANGED used

Kill ==
  /\ app = "up" \/ job # NoJob
  /\ Crash
  /\ UNCHANGED fileVars

\* Only for files that are replaced: backups are not flushed, so nothing is
\* promised of a file that is written in place.
PowerFailure ==
  /\ how = "replace" /\ (app = "up" \/ job # NoJob)
  /\ \E t \in durable : disk' = t /\ durable' = {t}
  /\ Crash
  /\ UNCHANGED <<how, backups>>

SaverStep ==
  \/ Prepare \/ WriteSibling \/ SyncSibling \/ Rename \/ SyncDirectory
  \/ Truncate \/ Rewrite \/ Resync

Next ==
  \/ OpenFile \/ Edit \/ Undo \/ Recover \/ Sweep \/ CloseBuffer
  \/ SaveBuffer \/ SaverStep \/ Settle
  \/ Quit \/ RefreshPendingQuit
  \/ ForeignWrite \/ Kill \/ PowerFailure

Spec == Init /\ [][Next]_vars

\* The saver thread runs on and what it posts is run.  A frame follows what
\* was posted; strong, because a key in the same wakeup may start a new save.
FairSpec ==
  Spec /\ WF_vars(SaverStep \/ Settle) /\ SF_vars(RefreshPendingQuit)

-----------------------------------------------------------------------------
(* Properties *)

\* A buffer that says it has no unsaved changes, of a file that has not
\* changed since, holds what the file holds: "ranges touched by an edit after
\* BeginSave keep their dirty state" (Buffer.h), and the others are on disk.
UnmodifiedMeansSaved ==
  open /\ ~saving /\ ~Modified /\ seen => text = disk

\* That, if nothing but edits happened while a save of this buffer ran.
EditsKeepTheirMarks == overtaken \/ UnmodifiedMeansSaved

\* As long as the file has the recorded timestamp, the text changes are
\* merged against is the text it holds (SavedSnapshot_, MergeFresh), whatever
\* happened to the buffer while a save ran.
MergeBaseIsOnDisk == open /\ seen => saved = disk

\* A file that is replaced is whole at every moment, so also after a crash,
\* and after a power failure if saves are flushed (ReplaceFileContent).
WholeAfterCrash == how = "replace" /\ Fsync => disk # Torn

\* Unless the user confirmed it, the editor leaves no write of an open buffer
\* behind, and its exit status tells of one that failed (AsyncFileSaver.h,
\* Application.h).
ExitStatusIsTrue ==
  app = "exited" /\ ~confirmed /\ ~overtaken => outcome = "written" \/ failed

\* Nothing that was in the buffer at the quit command is lost by quitting
\* without a question, unless a save failed.
QuitLosesNothing ==
  [][app = "up" /\ app' = "exited" /\ ~confirmed' /\ open /\ ~since /\ ~overtaken
       => text = saved \/ failed]_vars

\* A quit that waits for a save leads out, whether the save succeeds, fails or
\* is forgotten (RefreshPendingQuit, AsyncFileSaver).
QuitEnds == quitting ~> app # "up"

=============================================================================
