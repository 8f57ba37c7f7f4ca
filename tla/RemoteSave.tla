------------------------------ MODULE RemoteSave ------------------------------
(***************************************************************************)
(* A buffer whose file is on a remote host: saving it through the host's   *)
(* agent (Editor/Remote/RemoteBuffer.cpp, Editor/Host/Fs.cpp) and taking   *)
(* over what others write there (Editor/Remote/ExternalChanges.cpp), over  *)
(* connections that come and go (Hosts).                                   *)
(*                                                                         *)
(* The main thread of the editor makes every step of the buffer.  On the   *)
(* host each write runs on a thread of its own; it outlives the request if *)
(* that is given up, and the connection if that ends.                      *)
(***************************************************************************)
EXTENDS Hosts

CONSTANTS MaxTexts,   \* bound: texts that are made up
          MaxSaves    \* bound: saves

ASSUME RemoteSaveAssumption ==
  /\ MaxTexts \in Nat \ {0} /\ MaxSaves \in Nat
  /\ {"save", "other"} \subseteq Callers

VARIABLES
  open,      \* the buffer is in the list
  text,
  saved,     \* SavedSnapshot_
  unsaved,   \* UnsavedChangeRanges_ is not empty (Modified)
  late,      \* SaveInFlightRanges_ is not empty
  saving,    \* Saving_
  stamp,     \* RemoteTimestamp_
  changed,   \* RemoteChanged_
  save,      \* the RemoteSaveRequest in hand
  saves,     \* saves begun so far
  check,     \* a check for external changes
  writes,    \* by save: its fs/write, from the editor to its thread's end
  file,      \* text and time stamp of the file
  sibling,   \* those of the sibling file
  used,      \* history: texts made up so far
  raced      \* history: the file was written while a write ran on the host

buffVars == <<open, text, saved, unsaved, late, saving, stamp, changed>>
hostVars == <<file, sibling, raced>>
vars == <<hostsVars, buffVars, save, saves, check, writes, hostVars, used>>

-----------------------------------------------------------------------------
(* Data *)

Texts == 0 .. MaxTexts   \* 0: none
Fresh == {t \in {used + 1} : t <= MaxTexts}
Saves == 1 .. MaxSaves

Stamps   == 0 .. 2 * MaxSaves + 7   \* 0: none
Contents == [text : Texts, stamp : Stamps]
NoFile   == [text |-> 0, stamp |-> 0]
NoSave   == [at |-> "none", text |-> 0, expect |-> 0]
NoCheck  == [at |-> "none", since |-> 0, read |-> NoFile]
NoWrite  == [at |-> "none", over |-> 0, text |-> 0, expect |-> 0, result |-> 0]

TypeOK ==
  /\ HostsTypeOK
  /\ open \in BOOLEAN /\ text \in Texts /\ saved \in Texts /\ unsaved \in BOOLEAN
  /\ late \in BOOLEAN /\ saving \in BOOLEAN /\ changed \in BOOLEAN /\ stamp \in Stamps
  /\ save \in [at : {"none", "posted", "waiting", "sent"}, text : Texts, expect : Stamps]
  /\ check \in [at : {"none", "stat", "read", "have"}, since : Stamps, read : Contents]
  /\ writes \in [Saves -> [at : {"none", "on its way", "checking", "filling", "renaming",
                                 "statting", "answered"},
                           over : {0} \cup Attempts, text : Texts, expect : Stamps,
                           result : {-1} \cup Stamps]]
  /\ file \in Contents /\ sibling \in Contents
  /\ saves \in 0 .. MaxSaves /\ used \in 0 .. MaxTexts /\ raced \in BOOLEAN

\* A time stamp that nothing has; what is compared is only whether two differ.
\* There are more stamps than places that hold one.
InUse == {stamp, save.expect, check.since, check.read.stamp, file.stamp, sibling.stamp}
           \cup UNION {{writes[n].expect, writes[n].result} : n \in Saves}
NewStamp == CHOOSE s \in Stamps \ {0} : s \notin InUse

Failed      == 0    \* fs_error::kFailed, or no answer
FileChanged == -1   \* fs_error::kFileChanged

Init ==
  /\ HostsInit
  /\ open = TRUE /\ text = 1 /\ saved = 1 /\ unsaved = FALSE /\ late = FALSE
  /\ saving = FALSE /\ stamp = 1 /\ changed = FALSE
  /\ save = NoSave /\ saves = 0 /\ check = NoCheck /\ writes = [n \in Saves |-> NoWrite]
  /\ file = [text |-> 1, stamp |-> 1] /\ sibling = NoFile
  /\ used = 1 /\ raced = FALSE

-----------------------------------------------------------------------------
(* The buffer *)

Edit ==
  /\ open
  /\ text' \in Fresh /\ used' = text'
  /\ unsaved' = TRUE /\ late' = saving
  /\ UNCHANGED <<hostsVars, open, saved, saving, stamp, changed, save, saves, check, writes,
                 hostVars>>

CloseBuffer ==
  /\ open /\ open' = FALSE
  /\ text' = 0 /\ saved' = 0 /\ stamp' = 0
  /\ unsaved' = FALSE /\ late' = FALSE /\ saving' = FALSE /\ changed' = FALSE
  /\ UNCHANGED <<hostsVars, save, saves, check, writes, hostVars, used>>

\* WriteRemoteBuffer and Dispatch.  A file known to have changed is only saved
\* over once the user agreed, and then whatever it holds by then.
SaveBuffer ==
  /\ open /\ ~saving /\ save = NoSave /\ saves < MaxSaves
  /\ save' = [at |-> "posted", text |-> text, expect |-> IF changed THEN 0 ELSE stamp]
  /\ saves' = saves + 1
  /\ saving' = TRUE /\ late' = FALSE
  /\ UNCHANGED <<hostsVars, open, text, saved, unsaved, stamp, changed, check, writes,
                 hostVars, used>>

\* (mutant) whatever the host answers is taken for the new time stamp
FinishAnswered(result) ==
  /\ save' = NoSave
  /\ IF open
     THEN /\ saving' = FALSE /\ late' = FALSE
          /\ IF result # Failed
             THEN saved' = save.text /\ unsaved' = late /\ stamp' = result /\ changed' = FALSE
             ELSE UNCHANGED <<saved, unsaved, stamp, changed>>
     ELSE UNCHANGED <<saving, late, saved, unsaved, stamp, changed>>
  /\ UNCHANGED <<open, text>>

\* RemoteSaver::Finish, for a buffer that is still open.
FinishSave(result) ==
  /\ save' = NoSave
  /\ IF open
     THEN /\ saving' = FALSE /\ late' = FALSE
          /\ IF result > 0
             THEN saved' = save.text /\ unsaved' = late /\ stamp' = result /\ changed' = FALSE
             ELSE changed' = (changed \/ result = FileChanged) /\ UNCHANGED <<saved, unsaved, stamp>>
     ELSE UNCHANGED <<saving, late, saved, unsaved, stamp, changed>>
  /\ UNCHANGED <<open, text>>

\* The host's thread of a write.
Running(n) == writes[n].at \notin {"none", "on its way", "answered"}

WrittenMeanwhile == raced' = (raced \/ \E n \in Saves : Running(n))

KeepSave == UNCHANGED <<save, buffVars>>

\* The buffer, if it is still as it was when the check began.
Unchanged == open /\ stamp = check.since /\ ~saving

\* What is pending on a connection fails with it (Endpoint::Close); answers
\* and requests on their way are lost.  A file that could not be read has
\* changed all the same.
FailPending ==
  /\ IF save.at = "sent" THEN FinishSave(Failed)
     ELSE /\ changed' = (changed \/ (check.at \in {"read", "have"} /\ Unchanged))
          /\ UNCHANGED <<save, open, text, saved, unsaved, late, saving, stamp>>
  /\ check' = NoCheck
  /\ writes' = [n \in Saves |-> IF Running(n) THEN [writes[n] EXCEPT !.over = 0] ELSE NoWrite]

-----------------------------------------------------------------------------
(* The save, from the main thread to the host and back *)

\* A large buffer is encoded on a thread, which may find it cannot be.
EncodeFails ==
  /\ save.at = "posted" /\ FinishSave(Failed)
  /\ UNCHANGED <<hostsVars, saves, check, writes, hostVars, used>>

\* WriteFile over connection c, with the upload that precedes a large one.
Send(c) ==
  /\ save' = [save EXCEPT !.at = "sent"]
  /\ writes' = [writes EXCEPT ![saves] = [NoWrite EXCEPT
                  !.at = "on its way", !.over = c, !.text = save.text, !.expect = save.expect]]
  /\ UNCHANGED buffVars

WriteNow ==
  /\ save.at = "posted" /\ Live
  /\ Send(connection)
  /\ UNCHANGED <<hostsVars, saves, check, hostVars, used>>

WriteOnceConnected ==
  /\ save.at = "posted" /\ AwaitConnection("save")
  /\ save' = [save EXCEPT !.at = "waiting"]
  /\ UNCHANGED <<buffVars, saves, check, writes, hostVars, used>>

\* Another user of the host asks for a connection too.
OtherAsks ==
  /\ "other" \notin waiters /\ AwaitConnection("other")
  /\ UNCHANGED <<buffVars, save, saves, check, writes, hostVars, used>>

ConnectorFinishes(a) ==
  \/ ConnectorEnds(a) /\ KeepSave /\ UNCHANGED writes
  \/ FinishCancelled(a) /\ KeepSave /\ UNCHANGED writes
  \/ /\ FinishAttempt(a)
     /\ IF "save" \notin waiters THEN KeepSave /\ UNCHANGED writes
        ELSE IF connector[a] = "ready" THEN Send(a)
        ELSE FinishSave(Failed) /\ UNCHANGED writes

Connecting ==
  /\ \E a \in Attempts : ConnectorFinishes(a)
  /\ UNCHANGED <<saves, check, hostVars, used>>

\* (mutant) the waiters of a cancelled attempt hear nothing
DisconnectQuietly ==
  /\ \/ CancelAttempt /\ KeepSave /\ UNCHANGED <<check, writes>>
     \/ CloseConnection /\ FailPending
  /\ UNCHANGED <<saves, hostVars, used>>

\* The user cancels or disconnects.
Disconnect ==
  /\ \/ /\ CancelAttempt
        /\ IF "save" \in waiters THEN FinishSave(Failed) ELSE KeepSave
        /\ UNCHANGED <<check, writes>>
     \/ CloseConnection /\ FailPending
  /\ UNCHANGED <<saves, hostVars, used>>

LinkDrops ==
  /\ DropConnection /\ FailPending
  /\ UNCHANGED <<saves, hostVars, used>>

Removal ==
  /\ \E a \in removals : RemoveDropped(a)
  /\ UNCHANGED <<buffVars, save, saves, check, writes, hostVars, used>>

\* Endpoint::ExpireIdle: the host has been silent for too long.
Expire ==
  /\ save.at = "sent" /\ FinishSave(Failed)
  /\ UNCHANGED <<hostsVars, saves, check, writes, hostVars, used>>

\* (mutant) an answer settles whichever save waits for one
AnswerToAny(n) ==
  /\ writes[n].at = "answered"
  /\ writes' = [writes EXCEPT ![n] = NoWrite]
  /\ IF save.at = "sent" THEN FinishSave(writes[n].result) ELSE KeepSave
  /\ UNCHANGED <<hostsVars, saves, check, hostVars, used>>

\* The answer of a write; it is dropped if its request was given up.
Answer(n) ==
  /\ writes[n].at = "answered"
  /\ writes' = [writes EXCEPT ![n] = NoWrite]
  /\ IF save.at = "sent" /\ n = saves /\ Live /\ connection = writes[n].over
     THEN FinishSave(writes[n].result) ELSE KeepSave
  /\ UNCHANGED <<hostsVars, saves, check, hostVars, used>>

-----------------------------------------------------------------------------
(* The host: WritePath, each write on a thread of its own *)

To(n, step) == writes' = [writes EXCEPT ![n].at = step]

Fails(n, result) == writes' = [writes EXCEPT ![n].at = "answered", ![n].result = result]

Receive(n) ==
  /\ writes[n].at = "on its way"
  /\ To(n, "checking")
  /\ WrittenMeanwhile
  /\ UNCHANGED <<file, sibling>>

CheckExpected(n) ==
  /\ writes[n].at = "checking"
  /\ IF writes[n].expect \in {0, file.stamp} THEN To(n, "filling") ELSE Fails(n, FileChanged)
  /\ UNCHANGED hostVars

\* The sibling is truncated and written in one step: the parts that two
\* threads would leave in it together are not modelled.
FillSibling(n) ==
  /\ writes[n].at = "filling"
  /\ \/ Fails(n, Failed) /\ sibling' = NoFile
     \/ To(n, "renaming") /\ sibling' = [text |-> writes[n].text, stamp |-> NewStamp]
  /\ UNCHANGED <<file, raced>>

\* Another thread may have renamed the sibling already.
Rename(n) ==
  /\ writes[n].at = "renaming"
  /\ IF sibling = NoFile THEN Fails(n, Failed) /\ UNCHANGED hostVars
     ELSE To(n, "statting") /\ file' = sibling /\ sibling' = NoFile /\ raced' = raced

\* The answer has the time stamp the file has now.
StatWritten(n) ==
  /\ writes[n].at = "statting"
  /\ writes' = [writes EXCEPT ![n].at = "answered", ![n].result = file.stamp]
  /\ UNCHANGED hostVars

WriteSteps(n) ==
  /\ \/ Receive(n) \/ CheckExpected(n) \/ FillSibling(n)
     \/ Rename(n) \/ StatWritten(n)
  /\ UNCHANGED <<hostsVars, buffVars, save, saves, check, used>>

\* Another program on the host replaces the file.
ForeignWrite ==
  /\ used' \in Fresh
  /\ file' = [text |-> used', stamp |-> NewStamp]
  /\ WrittenMeanwhile
  /\ UNCHANGED <<sibling, hostsVars, buffVars, save, saves, check, writes>>

-----------------------------------------------------------------------------
(* External changes: a watch event has the file looked at, then read *)

CheckVars == <<hostsVars, save, saves, writes, hostVars>>

FollowChange ==
  /\ Live /\ open /\ check = NoCheck
  /\ check' = [NoCheck EXCEPT !.at = "stat", !.since = stamp]
  /\ UNCHANGED <<CheckVars, buffVars, used>>

ReadIfChanged ==
  /\ check.at = "stat"
  /\ check' = IF file.stamp # check.since /\ Unchanged THEN [check EXCEPT !.at = "read"] ELSE NoCheck
  /\ UNCHANGED <<CheckVars, buffVars, used>>

HostReads ==
  /\ check.at = "read"
  /\ check' = [check EXCEPT !.at = "have", !.read = file]
  /\ UNCHANGED <<CheckVars, buffVars, used>>

\* (mutant) the buffer is not looked at again before it takes the text
SettleBlindly ==
  /\ check.at = "have"
  /\ check' = NoCheck
  /\ text' = check.read.text /\ saved' = check.read.text /\ unsaved' = FALSE
  /\ stamp' = check.read.stamp /\ changed' = FALSE
  /\ UNCHANGED <<CheckVars, open, late, saving, used>>

\* Taken over, merged, or only noted, as the user has set it.
Settle ==
  /\ check.at = "have" /\ Unchanged
  /\ check' = NoCheck
  /\ \/ /\ ~unsaved
        /\ text' = check.read.text /\ saved' = check.read.text /\ unsaved' = FALSE
        /\ stamp' = check.read.stamp /\ changed' = FALSE /\ used' = used
     \/ /\ unsaved
        /\ \E t \in IF text = saved THEN {check.read.text} ELSE IF check.read.text \in {saved, text} THEN {text}
                    ELSE {text, check.read.text} \cup Fresh :
             text' = t /\ used' = IF t \in Fresh THEN t ELSE used
        /\ unsaved' = TRUE
        /\ saved' = check.read.text /\ stamp' = check.read.stamp /\ changed' = FALSE
     \/ changed' = TRUE /\ UNCHANGED <<text, saved, unsaved, stamp, used>>
  /\ UNCHANGED <<CheckVars, open, late, saving>>

\* The answer comes too late, or not at all.
CheckEnds ==
  /\ \/ check.at = "have" /\ ~Unchanged /\ UNCHANGED changed
     \/ check.at = "read" /\ changed' = (changed \/ Unchanged)
     \/ check.at = "stat" /\ UNCHANGED changed
  /\ check' = NoCheck
  /\ UNCHANGED <<CheckVars, open, text, saved, unsaved, late, saving, stamp, used>>

-----------------------------------------------------------------------------
Host == \E n \in Saves : WriteSteps(n)

Next ==
  \/ Edit \/ CloseBuffer \/ SaveBuffer
  \/ EncodeFails \/ WriteNow \/ WriteOnceConnected \/ OtherAsks \/ Connecting
  \/ Disconnect \/ LinkDrops \/ Removal \/ Expire \/ (\E n \in Saves : Answer(n))
  \/ Host \/ ForeignWrite
  \/ FollowChange \/ ReadIfChanged \/ HostReads \/ Settle \/ CheckEnds

Spec == Init /\ [][Next]_vars

\* Threads run on, what is posted is run, an attempt to connect ends, and
\* ExpireIdle is called again and again.  Strong for a posted write, because
\* MaxAttempts may keep it from asking for a connection for a while.
Fairness ==
  /\ SF_vars(WriteNow \/ WriteOnceConnected) /\ WF_vars(Expire)
  /\ WF_vars(Connecting) /\ WF_vars(Removal)

-----------------------------------------------------------------------------
(* Properties *)

\* A buffer without unsaved changes holds the text that others' changes are
\* merged against (Modified, SavedSnapshot_): neither an answer, however late,
\* nor a check that saves and edits overtook makes an edit count as saved.
UnmodifiedIsSaved ==
  open /\ ~saving /\ ~unsaved => text = saved

\* It also holds what the file with the recorded time stamp holds, whichever
\* answers came, were lost or came late, unless the file was written by two at
\* once: a write takes no lock and looks the time stamp up when it is done
\* (WritePath), and then the stamp may be that of another's text.
UnmodifiedIsOnHost ==
  raced \/ (open /\ ~saving /\ ~unsaved /\ stamp = file.stamp => text = file.text)

\* A save in flight is in one place at a time: with its thread, posted, among
\* the waiters, or pending on the live connection; so it is settled once.
SaveIsCarried ==
  /\ open => (saving <=> save # NoSave)
  /\ save.at = "waiting" <=> "save" \in waiters
  /\ save.at = "sent" => Live

\* Every save comes to an end the buffer learns of (RemoteSaver::Finish).
SavesSettle == saving ~> (~saving \/ ~open)

=============================================================================
