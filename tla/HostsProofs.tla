------------------------------ MODULE HostsProofs ------------------------------
(***************************************************************************)
(* Theorems about the connection to a host and the saves that use it, for  *)
(* every number of attempts, saves and texts.  First the connection by     *)
(* itself, under whatever order of its operations (HostsNext); then that   *)
(* RemoteSave does nothing else with it; then that a save is in one place, *)
(* that what a buffer holds without unsaved changes was saved, and that it *)
(* is on the host.                                                         *)
(***************************************************************************)
EXTENDS RemoteSave, FiniteSetTheorems, TLAPS

\* What may happen to a connection, whoever asks for it.
HostsNext ==
  \/ \E caller \in Callers : AwaitConnection(caller)
  \/ \E a \in Attempts : ConnectorEnds(a) \/ FinishCancelled(a) \/ FinishAttempt(a)
  \/ CancelAttempt \/ CloseConnection \/ DropConnection
  \/ \E a \in removals : RemoveDropped(a)

HostsSpec == HostsInit /\ [][HostsNext]_hostsVars

\* The number of an attempt whose worker has yet to answer is neither that of
\* the registered connection nor of one that was dropped.
NumbersAreOwn == \A a \in Attempts : connector[a] # "idle" => a # connection /\ a \notin removals

\* A connection whose removal is posted is not live.
DroppedIsDead == connection \in removals => ~connected

HInv == HostsTypeOK /\ OneConnection /\ NumbersAreOwn /\ DroppedIsDead

-----------------------------------------------------------------------------
(* The connection *)

LEMMA HostsInitInv == HostsInit => HInv
BY HostsAssumption DEF HostsInit, HInv, HostsTypeOK, OneConnection, NumbersAreOwn, DroppedIsDead,
                       Attempts, Live

LEMMA AwaitInv ==
  ASSUME HInv, NEW caller \in Callers, AwaitConnection(caller)
  PROVE  HInv'
<1>1. CASE attempt # 0
  BY <1>1 DEF AwaitConnection, HInv, HostsTypeOK, OneConnection, NumbersAreOwn, DroppedIsDead, Live
<1>2. CASE attempt = 0
  <2>1. PICK a \in Attempts :
          /\ connector[a] = "idle" /\ a # connection /\ a \notin removals
          /\ attempt' = a /\ connector' = [connector EXCEPT ![a] = "running"]
    BY <1>2 DEF AwaitConnection, Unused
  <2>2. a # 0 /\ a \notin cancelled /\ 0 \notin Attempts
    BY <2>1 DEF HInv, OneConnection, Attempts
  <2>3. UNCHANGED <<cancelled, connection, connected, removals>> /\ ~Live
        /\ waiters' = waiters \cup {caller}
    BY DEF AwaitConnection
  <2>4. HostsTypeOK'
    BY <2>1, <2>3 DEF HInv, HostsTypeOK
  <2>5. OneConnection'
    <3>1. \A b \in Attempts : connector[b] # "idle" <=> b \in cancelled
      BY <1>2, <2>2 DEF HInv, HostsTypeOK, OneConnection
    <3>2. \A b \in Attempts : connector'[b] # "idle" <=> b = a \/ b \in cancelled
      BY <2>1, <2>2, <3>1 DEF HInv, HostsTypeOK
    <3>3. QED
      BY <2>1, <2>2, <2>3, <2>4, <3>2 DEF HostsTypeOK, OneConnection, Live
  <2>6. NumbersAreOwn' /\ DroppedIsDead'
    BY <2>1, <2>3 DEF HInv, HostsTypeOK, NumbersAreOwn, DroppedIsDead
  <2>7. QED
    BY <2>4, <2>5, <2>6 DEF HInv
<1>3. QED
  BY <1>1, <1>2

LEMMA ConnectorEndsInv ==
  ASSUME HInv, NEW a \in Attempts, ConnectorEnds(a)
  PROVE  HInv'
<1>1. PICK result \in {"ready", "failed"} : connector' = [connector EXCEPT ![a] = result]
  BY DEF ConnectorEnds
<1>2. connector[a] = "running" /\ UNCHANGED <<attempt, waiters, cancelled, connection, connected, removals>>
  BY DEF ConnectorEnds
<1>3. QED
  BY <1>1, <1>2 DEF HInv, HostsTypeOK, OneConnection, NumbersAreOwn, DroppedIsDead, Live

LEMMA FinishCancelledInv ==
  ASSUME HInv, NEW a \in Attempts, FinishCancelled(a)
  PROVE  HInv'
BY DEF FinishCancelled, Posted, HInv, HostsTypeOK, OneConnection, NumbersAreOwn, DroppedIsDead, Live,
       Attempts

\* The result that is used is that of the attempt in flight.
LEMMA FinishIsTheAttempt ==
  ASSUME HInv, NEW a \in Attempts, FinishAttempt(a)
  PROVE  a = attempt /\ a # 0 /\ ~Live
BY DEF FinishAttempt, Posted, HInv, OneConnection, Attempts

LEMMA FinishAttemptInv ==
  ASSUME HInv, NEW a \in Attempts, FinishAttempt(a)
  PROVE  HInv'
<1>1. a = attempt /\ a # 0 /\ connector[a] # "idle" /\ a \notin removals
  BY FinishIsTheAttempt DEF FinishAttempt, Posted, HInv, NumbersAreOwn
<1>2. HostsTypeOK'
  BY DEF FinishAttempt, HInv, HostsTypeOK
<1>3. OneConnection'
  BY <1>1 DEF FinishAttempt, HInv, HostsTypeOK, OneConnection, Live, Attempts
<1>4. NumbersAreOwn' /\ DroppedIsDead'
  BY <1>1 DEF FinishAttempt, HInv, HostsTypeOK, NumbersAreOwn, DroppedIsDead
<1>5. QED
  BY <1>2, <1>3, <1>4 DEF HInv

LEMMA DisconnectInv ==
  ASSUME HInv, CancelAttempt \/ CloseConnection
  PROVE  HInv'
<1>1. CASE CancelAttempt
  BY <1>1 DEF CancelAttempt, HInv, HostsTypeOK, OneConnection, NumbersAreOwn, DroppedIsDead, Live,
              Attempts
<1>2. CASE CloseConnection
  <2>1. 0 \notin Attempts
    BY DEF Attempts
  <2>2. HostsTypeOK' /\ OneConnection'
    BY <1>2 DEF CloseConnection, HInv, HostsTypeOK, OneConnection, Live
  <2>3. NumbersAreOwn' /\ DroppedIsDead'
    BY <1>2, <2>1 DEF CloseConnection, HInv, NumbersAreOwn, DroppedIsDead
  <2>4. QED
    BY <2>2, <2>3 DEF HInv
<1>3. QED
  BY <1>1, <1>2

LEMMA DropInv ==
  ASSUME HInv, DropConnection
  PROVE  HInv'
BY DEF DropConnection, HInv, HostsTypeOK, OneConnection, NumbersAreOwn, DroppedIsDead, Live

LEMMA RemoveInv ==
  ASSUME HInv, NEW a \in removals, RemoveDropped(a)
  PROVE  HInv'
<1>1. CASE connection = a
  <2>1. a # 0 /\ 0 \notin Attempts
    BY DEF HInv, HostsTypeOK, Attempts
  <2>2. connection' = 0 /\ connected' = FALSE /\ removals' = removals \ {a}
        /\ UNCHANGED <<attempt, waiters, cancelled, connector>>
    BY <1>1 DEF RemoveDropped
  <2>3. HostsTypeOK' /\ OneConnection'
    BY <2>2 DEF HInv, HostsTypeOK, OneConnection, Live
  <2>4. NumbersAreOwn' /\ DroppedIsDead'
    BY <2>1, <2>2 DEF HInv, NumbersAreOwn, DroppedIsDead
  <2>5. QED
    BY <2>3, <2>4 DEF HInv
<1>2. CASE connection # a
  BY <1>2 DEF RemoveDropped, HInv, HostsTypeOK, OneConnection, NumbersAreOwn, DroppedIsDead, Live
<1>3. QED
  BY <1>1, <1>2

LEMMA HostsNextInv ==
  ASSUME HInv, [HostsNext]_hostsVars
  PROVE  HInv'
<1>1. CASE UNCHANGED hostsVars
  BY <1>1 DEF hostsVars, HInv, HostsTypeOK, OneConnection, NumbersAreOwn, DroppedIsDead, Live
<1>2. CASE HostsNext
  BY <1>2, AwaitInv, ConnectorEndsInv, FinishCancelledInv, FinishAttemptInv, DisconnectInv, DropInv,
     RemoveInv DEF HostsNext
<1>3. QED
  BY <1>1, <1>2

LEMMA HostsInvariant == HostsSpec => []HInv
BY HostsInitInv, HostsNextInv, PTL DEF HostsSpec

\* Whoever asks, cancels, disconnects or reconnects, and whatever order the
\* answers and removals are run in, there is one live connection and one
\* attempt (Hosts.h).
THEOREM AlwaysOneConnection == HostsSpec => []OneConnection
BY HostsInvariant, PTL DEF HInv

\* The result of a cancelled attempt is never registered (Hosts::Finish).
LEMMA CancelledStep ==
  ASSUME HInv, [HostsNext]_hostsVars
  PROVE  [\A a \in cancelled : ~(connection' = a)]_hostsVars
<1> SUFFICES ASSUME ~UNCHANGED hostsVars, NEW a \in cancelled, connection' = a PROVE FALSE
  OBVIOUS
<1>1. a \in Attempts /\ a # connection /\ a # 0
  BY DEF HInv, HostsTypeOK, OneConnection, NumbersAreOwn, Attempts
<1>2. ASSUME NEW b \in Attempts, FinishAttempt(b) PROVE FALSE
  BY <1>1, <1>2 DEF FinishAttempt
<1>3. QED
  BY <1>1, <1>2 DEF HostsNext, AwaitConnection, ConnectorEnds, FinishCancelled, CancelAttempt,
     CloseConnection, DropConnection, RemoveDropped

\* An attempt the user cancelled never becomes the connection, even one whose
\* worker had already logged in (Hosts::Finish).
THEOREM CancelledNeverConnects == HostsSpec => CancelledNeverYields
BY HostsInvariant, CancelledStep, PTL DEF CancelledNeverYields, HostsSpec

-----------------------------------------------------------------------------
(* Saves of a remote buffer use the connection, and do nothing else to it *)

LEMMA RemoteStep ==
  ASSUME [Next]_vars
  PROVE  [HostsNext]_hostsVars
<1>1. CASE UNCHANGED vars
  BY <1>1 DEF vars
<1>2. CASE Edit \/ CloseBuffer \/ SaveBuffer \/ EncodeFails \/ WriteNow \/ Expire
  BY <1>2 DEF Edit, CloseBuffer, SaveBuffer, EncodeFails, WriteNow, Expire
<1>3. CASE WriteOnceConnected \/ OtherAsks
  BY <1>3, RemoteSaveAssumption DEF WriteOnceConnected, OtherAsks, HostsNext
<1>4. CASE Connecting
  BY <1>4 DEF Connecting, ConnectorFinishes, HostsNext
<1>5. CASE Disconnect \/ LinkDrops \/ Removal
  BY <1>5 DEF Disconnect, LinkDrops, Removal, HostsNext
<1>6. CASE \E n \in Saves : Answer(n)
  BY <1>6 DEF Answer
<1>7. CASE Host \/ ForeignWrite
  BY <1>7 DEF Host, WriteSteps, ForeignWrite
<1>8. CASE FollowChange \/ ReadIfChanged \/ HostReads \/ Settle \/ CheckEnds
  BY <1>8 DEF FollowChange, ReadIfChanged, HostReads, Settle, CheckEnds, CheckVars
<1>9. QED
  BY <1>1, <1>2, <1>3, <1>4, <1>5, <1>6, <1>7, <1>8 DEF Next

\* RemoteSave implements the connection by itself: what is shown of that holds
\* however saves, checks and other users of the host use it.
THEOREM RemoteUsesHosts == Spec => HostsSpec
<1>1. Init => HostsInit
  BY DEF Init
<1>2. QED
  BY <1>1, RemoteStep, PTL DEF Spec, HostsSpec

\* One live connection and one attempt, while saves, checks and other users of
\* the host ask for it, lose it and give it up (Hosts.h).
THEOREM RemoteOneConnection == Spec => []OneConnection
BY RemoteUsesHosts, AlwaysOneConnection, PTL

\* A save that was waiting for an attempt the user cancelled is never sent over
\* what that attempt logs in to (Hosts::Disconnect, Hosts::Finish).
THEOREM RemoteCancelledNeverYields == Spec => CancelledNeverYields
BY RemoteUsesHosts, CancelledNeverConnects, PTL

-----------------------------------------------------------------------------
(* A save in flight is in one place *)

SaveShape == save = [at |-> save.at, text |-> save.text, expect |-> save.expect]

CInv == SaveShape /\ SaveIsCarried

\* What a step does that leaves the save where it is.
LEMMA KeptCarried ==
  ASSUME CInv, UNCHANGED <<save, open, saving>>, "save" \in waiters' <=> "save" \in waiters,
         save.at = "sent" => Live'
  PROVE  CInv'
BY DEF CInv, SaveShape, SaveIsCarried

LEMMA FinishedCarried ==
  ASSUME CInv, NEW result, FinishSave(result), "save" \notin waiters'
  PROVE  CInv'
BY DEF CInv, SaveShape, SaveIsCarried, FinishSave, NoSave

LEMMA SentCarried ==
  ASSUME CInv, NEW c, Send(c), save.at \in {"posted", "waiting"}, Live', "save" \notin waiters'
  PROVE  CInv'
<1>1. save # NoSave
  BY DEF NoSave
<1>2. save' = [at |-> "sent", text |-> save.text, expect |-> save.expect] /\ UNCHANGED <<open, saving>>
  BY DEF CInv, SaveShape, Send, buffVars
<1>3. save'.at = "sent" /\ save' # NoSave
  BY <1>2 DEF NoSave
<1>4. SaveShape'
  BY <1>2 DEF SaveShape
<1>5. QED
  BY <1>1, <1>2, <1>3, <1>4 DEF CInv, SaveIsCarried

LEMMA PendingCarried ==
  ASSUME CInv, FailPending, UNCHANGED waiters
  PROVE  CInv'
<1>1. CASE save.at = "sent"
  BY <1>1, FinishedCarried DEF FailPending, CInv, SaveIsCarried
<1>2. CASE save.at # "sent"
  BY <1>2, KeptCarried DEF FailPending
<1>3. QED
  BY <1>1, <1>2

LEMMA BufferCarried ==
  ASSUME CInv, Edit \/ CloseBuffer \/ SaveBuffer
  PROVE  CInv'
<1>1. CASE Edit
  BY <1>1, KeptCarried DEF Edit, hostsVars, Live, CInv, SaveIsCarried
<1>2. CASE CloseBuffer
  BY <1>2 DEF CloseBuffer, hostsVars, Live, CInv, SaveShape, SaveIsCarried
<1>3. CASE SaveBuffer
  <2>1. save.at = "none" /\ UNCHANGED <<waiters, open>> /\ saving'
    BY <1>3 DEF SaveBuffer, NoSave, hostsVars
  <2>2. save'.at = "posted" /\ save' # NoSave /\ SaveShape'
    BY <1>3 DEF SaveBuffer, NoSave, SaveShape
  <2>3. QED
    BY <2>1, <2>2 DEF CInv, SaveIsCarried
<1>4. QED
  BY <1>1, <1>2, <1>3

\* A result that is used answers the waiting save; none is pending then, as
\* there was no live connection.
LEMMA ConnectingCarried ==
  ASSUME HInv, CInv, NEW a \in Attempts, ConnectorFinishes(a)
  PROVE  CInv'
<1>1. CASE (ConnectorEnds(a) \/ FinishCancelled(a)) /\ KeepSave
  BY <1>1, KeptCarried DEF ConnectorEnds, FinishCancelled, KeepSave, buffVars, Live, CInv, SaveIsCarried
<1>2. CASE FinishAttempt(a) /\ "save" \notin waiters /\ KeepSave
  BY <1>2, FinishIsTheAttempt, KeptCarried DEF FinishAttempt, KeepSave, buffVars, CInv, SaveIsCarried
<1>3. CASE FinishAttempt(a) /\ "save" \in waiters /\ connector[a] = "ready" /\ Send(a)
  BY <1>3, FinishIsTheAttempt, SentCarried DEF FinishAttempt, Live, CInv, SaveIsCarried
<1>4. CASE FinishAttempt(a) /\ FinishSave(Failed)
  BY <1>4, FinishedCarried DEF FinishAttempt
<1>5. QED
  BY <1>1, <1>2, <1>3, <1>4 DEF ConnectorFinishes

LEMMA DisconnectCarried ==
  ASSUME HInv, CInv, Disconnect \/ LinkDrops \/ Removal
  PROVE  CInv'
<1>1. CASE CancelAttempt /\ "save" \in waiters /\ FinishSave(Failed)
  BY <1>1, FinishedCarried DEF CancelAttempt
<1>2. CASE CancelAttempt /\ "save" \notin waiters /\ KeepSave
  BY <1>2, KeptCarried DEF CancelAttempt, KeepSave, buffVars, Live, CInv, SaveIsCarried
<1>3. CASE (CloseConnection \/ DropConnection) /\ FailPending
  BY <1>3, PendingCarried DEF CloseConnection, DropConnection
<1>4. CASE Removal
  <2>1. PICK a \in removals : RemoveDropped(a)
    BY <1>4 DEF Removal
  <2>2. Live => Live'
    BY <2>1 DEF RemoveDropped, Live, HInv, DroppedIsDead
  <2>3. QED
    BY <1>4, <2>1, <2>2, KeptCarried DEF Removal, RemoveDropped, buffVars, CInv, SaveIsCarried
<1>5. QED
  BY <1>1, <1>2, <1>3, <1>4 DEF Disconnect, LinkDrops

LEMMA WriteCarried ==
  ASSUME CInv, EncodeFails \/ WriteNow \/ WriteOnceConnected \/ OtherAsks \/ Expire
  PROVE  CInv'
<1>1. CASE EncodeFails \/ Expire
  BY <1>1, FinishedCarried DEF EncodeFails, Expire, hostsVars, CInv, SaveIsCarried
<1>2. CASE WriteNow
  BY <1>2, SentCarried DEF WriteNow, hostsVars, Live, CInv, SaveIsCarried
<1>3. CASE WriteOnceConnected
  <2>1. save.at = "posted" /\ save # NoSave /\ "save" \in waiters' /\ UNCHANGED <<open, saving>>
    BY <1>3 DEF WriteOnceConnected, AwaitConnection, NoSave, buffVars
  <2>2. save' = [at |-> "waiting", text |-> save.text, expect |-> save.expect]
    BY <1>3 DEF WriteOnceConnected, CInv, SaveShape
  <2>3. save'.at = "waiting" /\ save' # NoSave /\ SaveShape'
    BY <2>2 DEF NoSave, SaveShape
  <2>4. QED
    BY <2>1, <2>3 DEF CInv, SaveIsCarried
<1>4. CASE OtherAsks
  BY <1>4, KeptCarried DEF OtherAsks, AwaitConnection, buffVars, Live, CInv, SaveIsCarried
<1>5. QED
  BY <1>1, <1>2, <1>3, <1>4

LEMMA RestCarried ==
  ASSUME CInv, (\E n \in Saves : Answer(n)) \/ Host \/ ForeignWrite \/ FollowChange
               \/ ReadIfChanged \/ HostReads \/ Settle \/ CheckEnds
  PROVE  CInv'
<1>1. CASE \E n \in Saves : Answer(n)
  <2>1. PICK n \in Saves : Answer(n)
    BY <1>1
  <2>2. CASE save.at = "sent" /\ FinishSave(writes[n].result)
    BY <2>1, <2>2, FinishedCarried DEF Answer, hostsVars, CInv, SaveIsCarried
  <2>3. CASE KeepSave
    BY <2>1, <2>3, KeptCarried DEF Answer, KeepSave, buffVars, hostsVars, Live, CInv, SaveIsCarried
  <2>4. QED
    BY <2>1, <2>2, <2>3 DEF Answer
<1>2. CASE Host \/ ForeignWrite
  BY <1>2, KeptCarried DEF Host, WriteSteps, ForeignWrite, buffVars, hostsVars, Live, CInv, SaveIsCarried
<1>3. CASE FollowChange \/ ReadIfChanged \/ HostReads \/ Settle \/ CheckEnds
  BY <1>3, KeptCarried DEF FollowChange, ReadIfChanged, HostReads, Settle, CheckEnds, CheckVars,
     buffVars, hostsVars, Live, CInv, SaveIsCarried
<1>4. QED
  BY <1>1, <1>2, <1>3

LEMMA CarriedStep ==
  ASSUME HInv, CInv, [Next]_vars
  PROVE  CInv'
<1>1. CASE UNCHANGED vars
  BY <1>1, KeptCarried DEF vars, buffVars, hostsVars, Live, CInv, SaveIsCarried
<1>2. CASE Connecting
  BY <1>2, ConnectingCarried DEF Connecting
<1>3. QED
  BY <1>1, <1>2, BufferCarried, WriteCarried, DisconnectCarried, RestCarried DEF Next

LEMMA CarriedInit == Init => CInv
BY DEF Init, HostsInit, CInv, SaveShape, SaveIsCarried, NoSave, Live

\* However connections come and go, a save is with its thread, among the
\* waiters or pending on the live connection, and nowhere twice; so the
\* buffer's Saving_ is cleared once (RemoteSaver, Hosts).
THEOREM SaveAlwaysCarried == Spec => []SaveIsCarried
<1>1. Spec => []HInv
  BY RemoteUsesHosts, HostsInvariant, PTL
<1>2. CInv => SaveIsCarried
  BY DEF CInv
<1>3. QED
  BY <1>1, <1>2, CarriedInit, CarriedStep, PTL DEF Spec

-----------------------------------------------------------------------------
(* A time stamp that is new *)

\* There is a time stamp that nothing has: seven more than two for each save,
\* where six places and two for each save hold one.
LEMMA NewStampIsNew == NewStamp \in Stamps \ {0} /\ NewStamp \notin InUse
<1> DEFINE Places == 1 .. 2 * MaxSaves + 6
           New    == 1 .. 2 * MaxSaves + 7
           holds  == [i \in Places |->
                        CASE i = 1 -> stamp
                          [] i = 2 -> save.expect
                          [] i = 3 -> check.since
                          [] i = 4 -> check.read.stamp
                          [] i = 5 -> file.stamp
                          [] i = 6 -> sibling.stamp
                          [] i > 6 /\ i <= 6 + MaxSaves -> writes[i - 6].expect
                          [] OTHER -> writes[i - 6 - MaxSaves].result]
           Held   == {holds[i] : i \in Places}
<1>1. MaxSaves \in Nat
  BY RemoteSaveAssumption
<1>2. \A s \in InUse : s \in Held
  <2> SUFFICES ASSUME NEW s \in InUse PROVE \E i \in Places : holds[i] = s
    OBVIOUS
  <2>1. CASE s \in {stamp, save.expect, check.since, check.read.stamp, file.stamp, sibling.stamp}
    <3>1. {1, 2, 3, 4, 5, 6} \subseteq Places
      BY <1>1
    <3>2. /\ holds[1] = stamp /\ holds[2] = save.expect /\ holds[3] = check.since
          /\ holds[4] = check.read.stamp /\ holds[5] = file.stamp /\ holds[6] = sibling.stamp
      BY <3>1
    <3>3. QED
      BY <2>1, <3>1, <3>2
  <2>2. CASE \E n \in Saves : s \in {writes[n].expect, writes[n].result}
    <3>1. PICK n \in Saves : s \in {writes[n].expect, writes[n].result}
      BY <2>2
    <3>2. n \in Nat /\ 1 <= n /\ n <= MaxSaves
      BY <1>1, <3>1 DEF Saves
    <3>3. CASE s = writes[n].expect
      <4>1. n + 6 \in Places /\ n + 6 > 6 /\ n + 6 <= 6 + MaxSaves /\ n + 6 - 6 = n
        BY <1>1, <3>2
      <4>2. holds[n + 6] = writes[n].expect
        BY <1>1, <3>2, <4>1
      <4>3. QED
        BY <3>3, <4>1, <4>2
    <3>4. CASE s = writes[n].result
      <4>1. n + 6 + MaxSaves \in Places /\ n + 6 + MaxSaves > 6 + MaxSaves
            /\ n + 6 + MaxSaves - 6 - MaxSaves = n
        BY <1>1, <3>2
      <4>2. holds[n + 6 + MaxSaves] = writes[n].result
        BY <1>1, <3>2, <4>1
      <4>3. QED
        BY <3>4, <4>1, <4>2
    <3>5. QED
      BY <3>1, <3>3, <3>4
  <2>3. QED
    BY <2>1, <2>2 DEF InUse
<1>3. IsFiniteSet(Held) /\ Cardinality(Held) <= Cardinality(Places)
  <2>1. holds \in Surjection(Places, Held)
    <3> HIDE DEF Places
    <3>1. QED
      BY DEF Surjection
  <2>2. IsFiniteSet(Places)
    BY <1>1, FS_Interval
  <2>3. QED
    <3> HIDE DEF Places, Held, holds
    <3>1. QED
      BY <2>1, <2>2, FS_Surjection
<1>4. /\ Cardinality(Places) = 2 * MaxSaves + 6 /\ IsFiniteSet(New)
      /\ Cardinality(New) = 2 * MaxSaves + 7
  <2>1. 2 * MaxSaves + 6 \in Int /\ 2 * MaxSaves + 7 \in Int
    BY <1>1
  <2>2. QED
    BY <1>1, <2>1, FS_Interval
<1>5. ~(New \subseteq Held)
  <2>1. Cardinality(Held) \in Nat
    <3> HIDE DEF Held
    <3>1. QED
      BY <1>3, FS_CardinalityType
  <2>2. ASSUME New \subseteq Held PROVE FALSE
    <3>1. Cardinality(New) <= Cardinality(Held)
      <4> HIDE DEF New, Held
      <4>1. QED
        BY <1>3, <2>2, FS_Subset
    <3>2. QED
      <4> HIDE DEF New, Held, Places
      <4>1. QED
        BY <1>1, <1>3, <1>4, <2>1, <3>1
  <2>3. QED
    BY <2>2
<1>6. \E s \in Stamps \ {0} : s \notin InUse
  <2>1. New \subseteq Stamps \ {0}
    BY <1>1 DEF Stamps
  <2>2. QED
    <3> HIDE DEF New, Held
    <3>1. QED
      BY <1>2, <1>5, <2>1
<1>7. QED
  BY <1>6 DEF NewStamp

-----------------------------------------------------------------------------
(* Types *)

SaveRecords  == [at : {"none", "posted", "waiting", "sent"}, text : Texts, expect : Stamps]
CheckRecords == [at : {"none", "stat", "read", "have"}, since : Stamps, read : Contents]
WriteRecords == [at : {"none", "on its way", "checking", "filling", "renaming", "statting", "answered"},
                 over : {0} \cup Attempts, text : Texts, expect : Stamps, result : {-1} \cup Stamps]

BufferTyped ==
  /\ open \in BOOLEAN /\ text \in Texts /\ saved \in Texts /\ unsaved \in BOOLEAN
  /\ late \in BOOLEAN /\ saving \in BOOLEAN /\ changed \in BOOLEAN /\ stamp \in Stamps

RTyped ==
  /\ BufferTyped
  /\ save \in SaveRecords /\ saves \in 0 .. MaxSaves
  /\ check \in CheckRecords
  /\ writes \in [Saves -> WriteRecords]
  /\ file \in Contents /\ sibling \in Contents
  /\ used \in 0 .. MaxTexts /\ raced \in BOOLEAN

LEMMA TypeOKIs == TypeOK <=> HostsTypeOK /\ RTyped
BY DEF TypeOK, RTyped, BufferTyped, SaveRecords, CheckRecords, WriteRecords

LEMMA NothingTyped ==
  /\ 0 \in Texts /\ 1 \in Texts /\ 0 \in Stamps /\ 1 \in Stamps
  /\ NoFile \in Contents /\ NoSave \in SaveRecords /\ NoCheck \in CheckRecords
  /\ NoWrite \in WriteRecords
  /\ used \in 0 .. MaxTexts => Fresh \subseteq Texts \cap (0 .. MaxTexts)
<1>1. MaxTexts \in Nat /\ MaxTexts # 0 /\ MaxSaves \in Nat
  BY RemoteSaveAssumption
<1>2. 0 \in Texts /\ 1 \in Texts /\ 0 \in Stamps /\ 1 \in Stamps
  BY <1>1 DEF Texts, Stamps
<1>3. NoFile \in Contents
  BY <1>2 DEF NoFile, Contents
<1>4. NoSave \in SaveRecords /\ NoCheck \in CheckRecords
  BY <1>2, <1>3 DEF NoSave, SaveRecords, NoCheck, CheckRecords
<1>5. NoWrite \in WriteRecords
  BY <1>2 DEF NoWrite, WriteRecords
<1>6. used \in 0 .. MaxTexts => Fresh \subseteq Texts \cap (0 .. MaxTexts)
  BY <1>1 DEF Fresh, Texts
<1>7. QED
  BY <1>2, <1>3, <1>4, <1>5, <1>6

\* A save that is settled leaves the buffer well-formed, whatever the answer.
LEMMA FinishTyped ==
  ASSUME RTyped, NEW result \in {-1} \cup Stamps, FinishSave(result)
  PROVE  BufferTyped' /\ save' \in SaveRecords
<1>1. save' \in SaveRecords
  BY NothingTyped DEF FinishSave
<1>2. save.text \in Texts
  BY DEF RTyped, SaveRecords
<1>3. result > 0 => result \in Stamps
  OBVIOUS
<1>4. UNCHANGED <<open, text>> /\ BufferTyped
  BY DEF FinishSave, RTyped
<1>5. CASE ~open
  <2>1. UNCHANGED <<saving, late, saved, unsaved, stamp, changed>>
    BY <1>5 DEF FinishSave
  <2>2. QED
    BY <1>1, <1>4, <2>1 DEF BufferTyped
<1>6. CASE open /\ result > 0
  <2>1. /\ saving' = FALSE /\ late' = FALSE /\ saved' = save.text /\ unsaved' = late
        /\ stamp' = result /\ changed' = FALSE
    BY <1>6 DEF FinishSave
  <2>2. QED
    BY <1>1, <1>2, <1>3, <1>4, <1>6, <2>1 DEF BufferTyped
<1>7. CASE open /\ ~(result > 0)
  <2>1. /\ saving' = FALSE /\ late' = FALSE /\ changed' = (changed \/ result = FileChanged)
        /\ UNCHANGED <<saved, unsaved, stamp>>
    BY <1>7 DEF FinishSave
  <2>2. changed' \in BOOLEAN
    BY <2>1
  <2>3. QED
    BY <1>1, <1>4, <2>1, <2>2 DEF BufferTyped
<1>8. QED
  BY <1>1, <1>5, <1>6, <1>7

LEMMA FailedTyped == Failed \in {-1} \cup Stamps
BY NothingTyped DEF Failed

LEMMA PendingTyped ==
  ASSUME RTyped, FailPending
  PROVE  /\ BufferTyped' /\ save' \in SaveRecords
         /\ check' \in CheckRecords /\ writes' \in [Saves -> WriteRecords]
<1>1. BufferTyped' /\ save' \in SaveRecords
  <2>1. CASE save.at = "sent"
    BY <2>1, FailedTyped, FinishTyped DEF FailPending
  <2>2. CASE save.at # "sent"
    BY <2>2 DEF FailPending, RTyped, BufferTyped
  <2>3. QED
    BY <2>1, <2>2
<1>2. check' \in CheckRecords
  BY NothingTyped DEF FailPending
<1>3. writes' \in [Saves -> WriteRecords]
  <2>1. \A n \in Saves : [writes[n] EXCEPT !.over = 0] \in WriteRecords
    <3> TAKE n \in Saves
    <3>1. writes[n] \in WriteRecords
      BY DEF RTyped
    <3>2. QED
      BY <3>1 DEF WriteRecords
  <2>2. QED
    BY <2>1, NothingTyped DEF FailPending
<1>4. QED
  BY <1>1, <1>2, <1>3

LEMMA SendTyped ==
  ASSUME RTyped, NEW c \in {0} \cup Attempts, Send(c)
  PROVE  BufferTyped' /\ save' \in SaveRecords /\ writes' \in [Saves -> WriteRecords]
<1>1. BufferTyped'
  BY DEF Send, buffVars, RTyped, BufferTyped
<1>2. save' \in SaveRecords
  BY DEF Send, RTyped, SaveRecords
<1>3. save.text \in Texts /\ save.expect \in Stamps
  BY DEF RTyped, SaveRecords
<1>4. [NoWrite EXCEPT !.at = "on its way", !.over = c, !.text = save.text, !.expect = save.expect]
        \in WriteRecords
  BY <1>3, NothingTyped DEF WriteRecords
<1>5. QED
  BY <1>1, <1>2, <1>4 DEF Send, RTyped

\* The buffer's own steps.
LEMMA BufferStepsTyped ==
  ASSUME RTyped, Edit \/ CloseBuffer \/ SaveBuffer
  PROVE  RTyped'
<1>1. CASE Edit
  <2>1. text' \in Texts /\ used' \in 0 .. MaxTexts
    BY <1>1, NothingTyped DEF Edit, RTyped
  <2>2. QED
    BY <1>1, <2>1 DEF Edit, hostVars, RTyped, BufferTyped
<1>2. CASE CloseBuffer
  BY <1>2, NothingTyped DEF CloseBuffer, hostVars, RTyped, BufferTyped
<1>3. CASE SaveBuffer
  <2>1. save' \in SaveRecords
    BY <1>3, NothingTyped DEF SaveBuffer, RTyped, BufferTyped, SaveRecords
  <2>2. saves' \in 0 .. MaxSaves
    BY <1>3, RemoteSaveAssumption DEF SaveBuffer, RTyped
  <2>3. QED
    BY <1>3, <2>1, <2>2 DEF SaveBuffer, hostVars, RTyped, BufferTyped
<1>4. QED
  BY <1>1, <1>2, <1>3

\* A save on its way to a connection, and the connection.
LEMMA SaveStepsTyped ==
  ASSUME RTyped, HostsTypeOK,
         EncodeFails \/ WriteNow \/ WriteOnceConnected \/ OtherAsks \/ Connecting \/ Disconnect
           \/ LinkDrops \/ Removal \/ Expire
  PROVE  RTyped'
<1>1. CASE EncodeFails \/ Expire
  BY <1>1, FailedTyped, FinishTyped DEF EncodeFails, Expire, hostVars, RTyped
<1>2. CASE WriteNow
  BY <1>2, SendTyped DEF WriteNow, hostVars, HostsTypeOK, RTyped
<1>3. CASE WriteOnceConnected
  <2>1. save' \in SaveRecords
    BY <1>3 DEF WriteOnceConnected, RTyped, SaveRecords
  <2>2. QED
    BY <1>3, <2>1 DEF WriteOnceConnected, buffVars, hostVars, RTyped, BufferTyped
<1>4. CASE OtherAsks \/ Removal
  BY <1>4 DEF OtherAsks, Removal, buffVars, hostVars, RTyped, BufferTyped
<1>5. CASE Connecting
  <2>1. PICK a \in Attempts : ConnectorFinishes(a)
    BY <1>5 DEF Connecting
  <2>2. UNCHANGED <<saves, check, hostVars, used>>
    BY <1>5 DEF Connecting
  <2>3. CASE KeepSave /\ UNCHANGED writes
    BY <2>2, <2>3 DEF KeepSave, buffVars, hostVars, RTyped, BufferTyped
  <2>4. CASE Send(a)
    BY <2>2, <2>4, SendTyped DEF hostVars, RTyped
  <2>5. CASE FinishSave(Failed) /\ UNCHANGED writes
    BY <2>2, <2>5, FailedTyped, FinishTyped DEF hostVars, RTyped
  <2>6. QED
    BY <2>1, <2>3, <2>4, <2>5 DEF ConnectorFinishes
<1>6. CASE Disconnect \/ LinkDrops
  <2>1. UNCHANGED <<saves, hostVars, used>>
    BY <1>6 DEF Disconnect, LinkDrops
  <2>2. CASE FailPending
    BY <2>1, <2>2, PendingTyped DEF hostVars, RTyped
  <2>3. CASE FinishSave(Failed) /\ UNCHANGED <<check, writes>>
    BY <2>1, <2>3, FailedTyped, FinishTyped DEF hostVars, RTyped
  <2>4. CASE KeepSave /\ UNCHANGED <<check, writes>>
    BY <2>1, <2>4 DEF KeepSave, buffVars, hostVars, RTyped, BufferTyped
  <2>5. QED
    BY <1>6, <2>2, <2>3, <2>4 DEF Disconnect, LinkDrops
<1>7. QED
  BY <1>1, <1>2, <1>3, <1>4, <1>5, <1>6

\* The host's threads, and what comes back.
LEMMA HostStepsTyped ==
  ASSUME RTyped, Host \/ ForeignWrite \/ \E n \in Saves : Answer(n)
  PROVE  RTyped'
<1>1. CASE \E n \in Saves : Answer(n)
  <2>1. PICK n \in Saves : Answer(n)
    BY <1>1
  <2>2. writes' \in [Saves -> WriteRecords] /\ writes[n].result \in {-1} \cup Stamps
    BY <2>1, NothingTyped DEF Answer, RTyped, WriteRecords
  <2>3. BufferTyped' /\ save' \in SaveRecords
    <3>1. CASE FinishSave(writes[n].result)
      BY <2>2, <3>1, FinishTyped
    <3>2. CASE KeepSave
      BY <3>2 DEF KeepSave, buffVars, RTyped, BufferTyped
    <3>3. QED
      BY <2>1, <3>1, <3>2 DEF Answer
  <2>4. QED
    BY <2>1, <2>2, <2>3 DEF Answer, hostVars, RTyped
<1>2. CASE ForeignWrite
  <2>1. file' \in Contents /\ used' \in 0 .. MaxTexts
    BY <1>2, NewStampIsNew, NothingTyped DEF ForeignWrite, Contents, RTyped
  <2>2. raced' \in BOOLEAN
    BY <1>2 DEF ForeignWrite, WrittenMeanwhile, RTyped
  <2>3. QED
    BY <1>2, <2>1, <2>2 DEF ForeignWrite, buffVars, RTyped, BufferTyped
<1>3. CASE Host
  <2>1. PICK n \in Saves : WriteSteps(n)
    BY <1>3 DEF Host
  <2>2. UNCHANGED <<buffVars, save, saves, check, used>>
    BY <2>1 DEF WriteSteps
  <2>3. writes[n] \in WriteRecords /\ file.stamp \in Stamps /\ writes[n].text \in Texts
    BY DEF RTyped, WriteRecords, Contents
  <2>4. file' \in Contents /\ sibling' \in Contents
    <3>1. CASE FillSibling(n)
      BY <2>3, <3>1, NewStampIsNew, NothingTyped DEF FillSibling, Contents, RTyped
    <3>2. CASE ~FillSibling(n)
      BY <2>1, <3>2, NothingTyped DEF WriteSteps, Receive, CheckExpected, Rename, StatWritten, hostVars, RTyped
    <3>3. QED
      BY <3>1, <3>2
  <2>5. writes' \in [Saves -> WriteRecords]
    <3>1. ASSUME NEW step \in {"checking", "filling", "renaming", "statting"}, To(n, step)
          PROVE  writes' \in [Saves -> WriteRecords]
      BY <2>3, <3>1 DEF To, RTyped, WriteRecords
    <3>2. ASSUME NEW result \in {-1} \cup Stamps, Fails(n, result)
          PROVE  writes' \in [Saves -> WriteRecords]
      BY <2>3, <3>2 DEF Fails, RTyped, WriteRecords
    <3>3. Failed \in {-1} \cup Stamps /\ FileChanged \in {-1} \cup Stamps
      BY FailedTyped DEF FileChanged
    <3>4. CASE StatWritten(n)
      BY <2>3, <3>2, <3>4 DEF StatWritten, Fails
    <3>5. QED
      BY <2>1, <3>1, <3>2, <3>3, <3>4 DEF WriteSteps, Receive, CheckExpected, FillSibling, Rename
  <2>6. raced' \in BOOLEAN
    BY <2>1 DEF WriteSteps, Receive, WrittenMeanwhile, CheckExpected, FillSibling, Rename, StatWritten,
       hostVars, RTyped
  <2>7. QED
    BY <2>2, <2>4, <2>5, <2>6 DEF buffVars, RTyped, BufferTyped
<1>4. QED
  BY <1>1, <1>2, <1>3

\* The checks for external changes.
LEMMA CheckStepsTyped ==
  ASSUME RTyped, FollowChange \/ ReadIfChanged \/ HostReads \/ Settle \/ CheckEnds
  PROVE  RTyped'
<1> USE DEF CheckVars, hostVars, buffVars
<1>1. check \in CheckRecords /\ file \in Contents /\ stamp \in Stamps
  BY DEF RTyped, BufferTyped
<1>2. CASE FollowChange
  <2>1. check' \in CheckRecords
    BY <1>1, <1>2, NothingTyped DEF FollowChange, CheckRecords
  <2>2. QED
    BY <1>2, <2>1 DEF FollowChange, RTyped, BufferTyped
<1>3. CASE ReadIfChanged
  <2>1. check' \in CheckRecords
    <3>1. [check EXCEPT !.at = "read"] \in CheckRecords
      BY <1>1 DEF CheckRecords
    <3>2. QED
      BY <1>3, <3>1, NothingTyped DEF ReadIfChanged
  <2>2. QED
    BY <1>3, <2>1 DEF ReadIfChanged, RTyped, BufferTyped
<1>4. CASE HostReads
  <2>1. check' \in CheckRecords
    BY <1>1, <1>4 DEF HostReads, CheckRecords
  <2>2. QED
    BY <1>4, <2>1 DEF HostReads, RTyped, BufferTyped
<1>5. CASE CheckEnds
  <2>1. check' \in CheckRecords /\ changed' \in BOOLEAN
    BY <1>5, NothingTyped DEF CheckEnds, Unchanged, RTyped, BufferTyped
  <2>2. QED
    BY <1>5, <2>1 DEF CheckEnds, RTyped, BufferTyped
<1>6. CASE Settle
  <2>1. check' \in CheckRecords
    BY <1>6, NothingTyped DEF Settle
  <2>2. check.read.text \in Texts /\ check.read.stamp \in Stamps
    BY <1>1 DEF CheckRecords, Contents
  <2>3. text \in Texts /\ used \in 0 .. MaxTexts /\ Fresh \subseteq Texts \cap (0 .. MaxTexts)
    BY NothingTyped DEF RTyped, BufferTyped
  <2>4. text' \in Texts /\ used' \in 0 .. MaxTexts
    BY <1>6, <2>2, <2>3 DEF Settle
  <2>5. /\ saved' \in Texts /\ stamp' \in Stamps /\ unsaved' \in BOOLEAN /\ changed' \in BOOLEAN
    BY <1>6, <2>2 DEF Settle, RTyped, BufferTyped
  <2>6. QED
    BY <1>6, <2>1, <2>4, <2>5 DEF Settle, RTyped, BufferTyped
<1>7. QED
  BY <1>2, <1>3, <1>4, <1>5, <1>6

LEMMA TypedStep ==
  ASSUME HInv, RTyped, [Next]_vars
  PROVE  RTyped'
<1>1. HostsTypeOK
  BY DEF HInv
<1>2. CASE UNCHANGED vars
  BY <1>2 DEF vars, buffVars, hostVars, RTyped, BufferTyped
<1>3. QED
  BY <1>1, <1>2, BufferStepsTyped, SaveStepsTyped, HostStepsTyped, CheckStepsTyped DEF Next

LEMMA TypedInit == Init => RTyped
<1> SUFFICES ASSUME Init PROVE RTyped
  OBVIOUS
<1>1. BufferTyped
  BY NothingTyped DEF Init, BufferTyped
<1>2. used = 1 /\ saves = 0 /\ file = [text |-> 1, stamp |-> 1]
  BY DEF Init
<1>3. file \in Contents /\ used \in 0 .. MaxTexts /\ saves \in 0 .. MaxSaves
  BY <1>2, NothingTyped, RemoteSaveAssumption DEF Contents
<1>4. QED
  BY <1>1, <1>3, NothingTyped DEF Init, RTyped

\* The buffer, what is on its way, the host's threads and the file have their
\* types; in particular a time stamp is to be had for each new file.
THEOREM RemoteSaveIsTyped == Spec => []TypeOK
<1>1. Spec => []HInv
  BY RemoteUsesHosts, HostsInvariant, PTL
<1>2. HInv /\ RTyped => TypeOK
  BY TypeOKIs DEF HInv
<1>3. QED
  BY <1>1, <1>2, TypedInit, TypedStep, PTL DEF Spec

-----------------------------------------------------------------------------
(* What an unmodified buffer holds has been saved *)

\* Without a mark the buffer holds the saved text, and without a late one the
\* text being saved.
MarkInv ==
  /\ open /\ ~unsaved => text = saved
  /\ open /\ saving /\ ~late => text = save.text

LEMMA MarkKept ==
  ASSUME MarkInv, UNCHANGED <<open, text, saved, unsaved, saving, late>>, save'.text = save.text
  PROVE  MarkInv'
BY DEF MarkInv

LEMMA FinishMarks ==
  ASSUME CInv, MarkInv, save # NoSave, NEW result, FinishSave(result)
  PROVE  MarkInv'
<1>1. open => saving
  BY DEF CInv, SaveIsCarried
<1>2. UNCHANGED <<open, text>>
  BY DEF FinishSave
<1>3. CASE ~open
  BY <1>2, <1>3 DEF MarkInv
<1>4. CASE open /\ result > 0
  <2>1. saving' = FALSE /\ saved' = save.text /\ unsaved' = late
    BY <1>4 DEF FinishSave
  <2>2. QED
    BY <1>1, <1>2, <1>4, <2>1 DEF MarkInv
<1>5. CASE open /\ ~(result > 0)
  <2>1. saving' = FALSE /\ UNCHANGED <<saved, unsaved>>
    BY <1>5 DEF FinishSave
  <2>2. QED
    BY <1>2, <2>1 DEF MarkInv
<1>6. QED
  BY <1>3, <1>4, <1>5

LEMMA MarkStep ==
  ASSUME CInv, RTyped, MarkInv, [Next]_vars
  PROVE  MarkInv'
<1>1. ASSUME KeepSave
      PROVE  MarkInv'
  BY <1>1, MarkKept DEF KeepSave, buffVars
<1>2. CASE UNCHANGED vars \/ OtherAsks \/ Removal \/ Host \/ ForeignWrite
  <2>1. UNCHANGED <<save, buffVars>>
    BY <1>2 DEF vars, OtherAsks, Removal, Host, WriteSteps, ForeignWrite
  <2>2. QED
    BY <1>1, <2>1 DEF KeepSave
<1>3. ASSUME NEW c, Send(c)
      PROVE  MarkInv'
  <2>1. save'.text = save.text /\ UNCHANGED buffVars
    BY <1>3 DEF Send, RTyped, SaveRecords
  <2>2. QED
    BY <2>1, MarkKept DEF buffVars
<1>4. "save" \in waiters => save # NoSave
  BY DEF CInv, SaveIsCarried, NoSave
<1>5. CASE EncodeFails \/ Expire \/ \E n \in Saves : Answer(n)
  <2>1. KeepSave \/ \E result \in {Failed} \cup {writes[n].result : n \in Saves} : FinishSave(result) /\ save # NoSave
    BY <1>5 DEF EncodeFails, Expire, Answer, NoSave
  <2>2. QED
    BY <1>1, <2>1, FinishMarks
<1>6. CASE WriteNow
  BY <1>3, <1>6 DEF WriteNow
<1>7. CASE WriteOnceConnected
  <2>1. save'.text = save.text /\ UNCHANGED buffVars
    BY <1>7 DEF WriteOnceConnected, RTyped, SaveRecords
  <2>2. QED
    BY <2>1, MarkKept DEF buffVars
<1>8. CASE Connecting
  <2>1. PICK a \in Attempts : ConnectorFinishes(a)
    BY <1>8 DEF Connecting
  <2>2. KeepSave \/ Send(a) \/ ("save" \in waiters /\ FinishSave(Failed))
    BY <2>1 DEF ConnectorFinishes
  <2>3. QED
    BY <1>1, <1>3, <1>4, <2>2, FinishMarks
<1>9. CASE Disconnect \/ LinkDrops
  <2>1. FailPending \/ KeepSave \/ ("save" \in waiters /\ FinishSave(Failed))
    BY <1>9 DEF Disconnect, LinkDrops
  <2>2. CASE FailPending
    BY <2>2, MarkKept, FinishMarks DEF FailPending, NoSave
  <2>3. QED
    BY <1>1, <1>4, <2>1, <2>2, FinishMarks
<1>10. CASE Edit
  BY <1>10 DEF Edit, MarkInv
<1>11. CASE CloseBuffer
  BY <1>11 DEF CloseBuffer, MarkInv
<1>12. CASE SaveBuffer
  <2>1. save'.text = text /\ UNCHANGED <<open, text, saved, unsaved>>
    BY <1>12 DEF SaveBuffer
  <2>2. QED
    BY <2>1 DEF MarkInv
<1>13. CASE FollowChange \/ ReadIfChanged \/ HostReads \/ CheckEnds
  BY <1>13, MarkKept DEF FollowChange, ReadIfChanged, HostReads, CheckEnds, CheckVars, buffVars
<1>14. CASE Settle
  <2>1. ~saving /\ UNCHANGED <<open, saving>>
    BY <1>14 DEF Settle, Unchanged
  <2>2. text' = saved' \/ unsaved' = TRUE \/ UNCHANGED <<text, saved, unsaved>>
    BY <1>14 DEF Settle
  <2>3. QED
    BY <2>1, <2>2 DEF MarkInv
<1>15. QED
  BY <1>2, <1>5, <1>6, <1>7, <1>8, <1>9, <1>10, <1>11, <1>12, <1>13, <1>14 DEF Next

\* However saves end, late answers included, and whatever a check for external
\* changes finds in between: a remote buffer that says it has no unsaved
\* changes holds the text it was last saved with or took over
\* (FinishRemoteSave, Settle).
THEOREM UnmodifiedAlwaysSaved == Spec => []UnmodifiedIsSaved
<1>1. Spec => []HInv
  BY RemoteUsesHosts, HostsInvariant, PTL
<1>2. Init => MarkInv
  BY DEF Init, MarkInv
<1>3. MarkInv => UnmodifiedIsSaved
  BY DEF MarkInv, UnmodifiedIsSaved
<1>4. QED
  BY <1>1, <1>2, <1>3, CarriedInit, CarriedStep, TypedInit, TypedStep, MarkStep, PTL DEF Spec

-----------------------------------------------------------------------------
(* And it is on the host, as long as writes there have not overlapped *)

\* The host runs one write at a time.
OneWrite == \A m, n \in Saves : Running(m) /\ Running(n) => m = n

\* A write that passed the check replaces the file it expects, with its text.
ExpectedInv ==
  \A n \in Saves :
    /\ writes[n].at \in {"filling", "renaming"} => writes[n].expect \in {0, file.stamp}
    /\ writes[n].at = "renaming" => sibling.text = writes[n].text
    /\ writes[n].at = "statting" => file.text = writes[n].text
    /\ writes[n].at = "answered" /\ writes[n].result = file.stamp => file.text = writes[n].text

\* What is about to replace the file has a time stamp that nothing has.
NewToWrites ==
  sibling # NoFile => \A n \in Saves : sibling.stamp \notin {writes[n].expect, writes[n].result}
NewToBuffer ==
  sibling # NoFile => sibling.stamp \notin {0, stamp, save.expect, check.read.stamp, file.stamp}

WritesInv == OneWrite /\ ExpectedInv /\ NewToWrites

\* The answer of the save in hand is about the text the editor sent.
SentInv ==
  save.at = "sent" /\ saves \in Saves /\ writes[saves].at # "none" => writes[saves].text = save.text

\* Where a time stamp is the file's, what was recorded with it is its text.
StampInv ==
  /\ file.stamp # 0
  /\ open /\ stamp = file.stamp => saved = file.text
  /\ check.at = "have" /\ check.read.stamp = file.stamp => check.read.text = file.text

BufferInv == NewToBuffer /\ StampInv

RInv == WritesInv /\ SentInv /\ BufferInv

LEMMA WritesKept ==
  ASSUME WritesInv, UNCHANGED <<writes, hostVars>>
  PROVE  WritesInv'
BY DEF hostVars, WritesInv, OneWrite, Running, ExpectedInv, NewToWrites

LEMMA BufferKept ==
  ASSUME BufferInv, UNCHANGED <<buffVars, save, check, hostVars>>
  PROVE  BufferInv'
BY DEF buffVars, hostVars, BufferInv, NewToBuffer, StampInv

\* However a save ends: an answer with the file's own time stamp is about the
\* text that was saved, and any other leaves the buffer as it is marked.
LEMMA FinishKeeps ==
  ASSUME RTyped, CInv, BufferInv, save # NoSave, NEW result \in {-1} \cup Stamps, FinishSave(result),
         result = file.stamp => save.text = file.text,
         sibling # NoFile => sibling.stamp # result,
         UNCHANGED <<hostVars>>,
         check' = check \/ check' = NoCheck
  PROVE  BufferInv' /\ SentInv'
<1>1. SentInv'
  BY DEF FinishSave, SentInv, NoSave
<1>2. open => saving
  BY DEF CInv, SaveIsCarried
<1>3. UNCHANGED <<open, text>> /\ file' = file /\ sibling' = sibling /\ save'.expect = 0
  BY DEF FinishSave, hostVars, NoSave
<1>4. sibling # NoFile => sibling.stamp # 0
  BY DEF BufferInv, NewToBuffer
<1>5. /\ check'.read.stamp \in {check.read.stamp, 0}
      /\ check'.at = "have" => check' = check
  BY DEF NoCheck, NoFile
<1>6. CASE ~open
  <2>1. UNCHANGED <<stamp>>
    BY <1>6 DEF FinishSave
  <2>2. QED
    BY <1>1, <1>3, <1>4, <1>5, <1>6, <2>1 DEF BufferInv, NewToBuffer, StampInv
<1>7. CASE open /\ result > 0
  <2>1. saving' = FALSE /\ saved' = save.text /\ unsaved' = late /\ stamp' = result
    BY <1>7 DEF FinishSave
  <2>2. NewToBuffer'
    BY <1>3, <1>4, <1>5, <2>1 DEF BufferInv, NewToBuffer
  <2>3. StampInv'
    BY <1>3, <1>5, <2>1 DEF BufferInv, StampInv
  <2>4. QED
    BY <1>1, <2>2, <2>3 DEF BufferInv
<1>8. CASE open /\ ~(result > 0)
  <2>1. saving' = FALSE /\ UNCHANGED <<saved, unsaved, stamp>>
    BY <1>8 DEF FinishSave
  <2>2. QED
    BY <1>1, <1>3, <1>4, <1>5, <2>1 DEF BufferInv, NewToBuffer, StampInv
<1>9. QED
  BY <1>6, <1>7, <1>8

LEMMA FailKeeps ==
  ASSUME RTyped, CInv, BufferInv, save # NoSave, FinishSave(Failed), UNCHANGED <<hostVars>>,
         check' = check \/ check' = NoCheck
  PROVE  BufferInv' /\ SentInv'
<1>1. Failed \in {-1} \cup Stamps /\ Failed # file.stamp
  BY FailedTyped DEF Failed, BufferInv, StampInv
<1>2. sibling # NoFile => sibling.stamp # Failed
  BY DEF Failed, BufferInv, NewToBuffer
<1>3. QED
  BY <1>1, <1>2, FinishKeeps

LEMMA PendingKeeps ==
  ASSUME RTyped, CInv, RInv, FailPending, UNCHANGED <<hostVars, saves>>
  PROVE  RInv'
<1>1. \A n \in Saves :
        /\ writes'[n].at = writes[n].at \/ writes'[n] = NoWrite
        /\ writes'[n].at # "none" => /\ writes'[n].text = writes[n].text
                                     /\ writes'[n].expect = writes[n].expect
                                     /\ writes'[n].result = writes[n].result
  <2> TAKE n \in Saves
  <2>1. writes[n] \in WriteRecords
    BY DEF RTyped
  <2>2. writes'[n] = IF Running(n) THEN [writes[n] EXCEPT !.over = 0] ELSE NoWrite
    BY DEF FailPending
  <2>3. CASE Running(n)
    BY <2>1, <2>2, <2>3 DEF WriteRecords, Running
  <2>4. CASE ~Running(n)
    BY <2>2, <2>4 DEF NoWrite
  <2>5. QED
    BY <2>3, <2>4
<1>2. file' = file /\ sibling' = sibling /\ saves' = saves
  BY DEF hostVars
<1>3. NoWrite.at = "none" /\ NoWrite.expect = 0 /\ NoWrite.result = 0
  BY DEF NoWrite
<1>4. sibling # NoFile => sibling.stamp # 0
  BY DEF RInv, BufferInv, NewToBuffer
<1>5. WritesInv'
  <2>1. OneWrite'
    BY <1>1, <1>3 DEF RInv, WritesInv, OneWrite, Running
  <2>2. ExpectedInv'
    BY <1>1, <1>2, <1>3 DEF RInv, WritesInv, ExpectedInv
  <2>3. NewToWrites'
    <3>1. \A n \in Saves :
            \/ writes'[n] = NoWrite
            \/ writes'[n].expect = writes[n].expect /\ writes'[n].result = writes[n].result
      <4> TAKE n \in Saves
      <4>1. writes[n] \in WriteRecords
        BY DEF RTyped
      <4>2. QED
        BY <4>1 DEF FailPending, WriteRecords
    <3>2. QED
      BY <1>2, <1>3, <1>4, <3>1 DEF RInv, WritesInv, NewToWrites
  <2>4. QED
    BY <2>1, <2>2, <2>3 DEF WritesInv
<1>6. check' = NoCheck
  BY DEF FailPending
<1>7. CASE save.at = "sent"
  <2>1. save # NoSave /\ FinishSave(Failed)
    BY <1>7 DEF FailPending, NoSave
  <2>2. QED
    BY <1>5, <1>6, <2>1, FailKeeps DEF RInv
<1>8. CASE save.at # "sent"
  <2>1. UNCHANGED <<save, open, text, saved, unsaved, late, saving, stamp>>
    BY <1>8 DEF FailPending
  <2>2. SentInv'
    BY <1>8, <2>1 DEF SentInv
  <2>3. BufferInv'
    BY <1>2, <1>4, <1>6, <2>1 DEF RInv, BufferInv, NewToBuffer, StampInv, NoCheck, NoFile
  <2>4. QED
    BY <1>5, <2>2, <2>3 DEF RInv
<1>9. QED
  BY <1>7, <1>8

LEMMA SendKeeps ==
  ASSUME RTyped, RInv, NEW c \in {0} \cup Attempts, Send(c), UNCHANGED <<hostVars, saves, check>>
  PROVE  RInv'
<1> DEFINE sent == [NoWrite EXCEPT !.at = "on its way", !.over = c, !.text = save.text,
                                   !.expect = save.expect]
<1>1. file' = file /\ sibling' = sibling /\ saves' = saves /\ check' = check
  BY DEF hostVars
<1>2. sent.at = "on its way" /\ sent.text = save.text /\ sent.expect = save.expect /\ sent.result = 0
  BY DEF NoWrite
<1>3. /\ \A n \in Saves : writes'[n] = IF n = saves THEN sent ELSE writes[n]
      /\ save' = [save EXCEPT !.at = "sent"] /\ UNCHANGED buffVars
  BY DEF Send, RTyped
<1>4. save'.text = save.text /\ save'.expect = save.expect
  BY <1>3 DEF RTyped, SaveRecords
<1> HIDE DEF sent
<1>5. SentInv'
  BY <1>1, <1>2, <1>3, <1>4 DEF SentInv
<1>6. BufferInv'
  BY <1>1, <1>3, <1>4 DEF buffVars, RInv, BufferInv, NewToBuffer, StampInv
<1>7. WritesInv'
  <2>1. OneWrite'
    BY <1>2, <1>3 DEF RInv, WritesInv, OneWrite, Running
  <2>2. ExpectedInv'
    BY <1>1, <1>2, <1>3 DEF RInv, WritesInv, ExpectedInv
  <2>3. NewToWrites'
    BY <1>1, <1>2, <1>3 DEF RInv, WritesInv, NewToWrites, BufferInv, NewToBuffer
  <2>4. QED
    BY <2>1, <2>2, <2>3 DEF WritesInv
<1>8. QED
  BY <1>5, <1>6, <1>7 DEF RInv
\* The buffer's own steps.
LEMMA BufferStepsKeep ==
  ASSUME RTyped, CInv, RInv, Edit \/ CloseBuffer \/ SaveBuffer
  PROVE  RInv'
<1>1. UNCHANGED <<writes, hostVars, check>>
  BY DEF Edit, CloseBuffer, SaveBuffer
<1>2. WritesInv' /\ file' = file /\ sibling' = sibling
  BY <1>1, WritesKept DEF hostVars, RInv
<1>3. CASE Edit
  <2>1. UNCHANGED <<open, saved, saving, stamp, save, saves>> /\ unsaved' = TRUE /\ late' = saving
    BY <1>3 DEF Edit
  <2>2. SentInv'
    BY <1>1, <2>1 DEF RInv, SentInv
  <2>3. BufferInv'
    BY <1>1, <1>2, <2>1 DEF RInv, BufferInv, NewToBuffer, StampInv
  <2>4. QED
    BY <1>2, <2>2, <2>3 DEF RInv
<1>4. CASE CloseBuffer
  <2>1. open' = FALSE /\ stamp' = 0 /\ UNCHANGED <<save, saves>>
    BY <1>4 DEF CloseBuffer
  <2>2. SentInv'
    BY <1>1, <2>1 DEF RInv, SentInv
  <2>3. BufferInv'
    BY <1>1, <1>2, <2>1 DEF RInv, BufferInv, NewToBuffer, StampInv
  <2>4. QED
    BY <1>2, <2>2, <2>3 DEF RInv
<1>5. CASE SaveBuffer
  <2>1. /\ save' = [at |-> "posted", text |-> text, expect |-> IF changed THEN 0 ELSE stamp]
        /\ UNCHANGED <<open, text, saved, unsaved, stamp>>
    BY <1>5 DEF SaveBuffer
  <2>2. save'.at = "posted" /\ save'.text = text /\ save'.expect \in {0, stamp}
    BY <2>1
  <2>3. SentInv'
    BY <2>2 DEF SentInv
  <2>4. BufferInv'
    BY <1>1, <1>2, <2>1, <2>2 DEF RInv, BufferInv, NewToBuffer, StampInv
  <2>5. QED
    BY <1>2, <2>3, <2>4 DEF RInv
<1>6. QED
  BY <1>3, <1>4, <1>5

\* A save on its way to a connection, and the connection.
LEMMA SaveStepsKeep ==
  ASSUME RTyped, HInv, CInv, RInv,
         EncodeFails \/ WriteNow \/ WriteOnceConnected \/ OtherAsks \/ Connecting \/ Disconnect
           \/ LinkDrops \/ Removal \/ Expire
  PROVE  RInv'
<1>1. CASE EncodeFails \/ Expire
  <2>1. /\ save # NoSave /\ FinishSave(Failed)
        /\ UNCHANGED <<check, writes, hostVars>>
    BY <1>1 DEF EncodeFails, Expire, NoSave
  <2>2. QED
    BY <2>1, FailKeeps, WritesKept DEF RInv
<1>2. CASE WriteNow
  BY <1>2, SendKeeps DEF WriteNow, HInv, HostsTypeOK
<1>3. CASE WriteOnceConnected
  <2>1. save' = [save EXCEPT !.at = "waiting"] /\ UNCHANGED <<buffVars, saves, check, writes, hostVars>>
    BY <1>3 DEF WriteOnceConnected
  <2>2. save'.at = "waiting" /\ save'.text = save.text /\ save'.expect = save.expect
    BY <2>1 DEF RTyped, SaveRecords
  <2>3. BufferInv'
    BY <2>1, <2>2 DEF buffVars, hostVars, RInv, BufferInv, NewToBuffer, StampInv
  <2>4. QED
    BY <2>1, <2>2, <2>3, WritesKept DEF RInv, SentInv
<1>4. ASSUME KeepSave, UNCHANGED <<saves, check, writes, hostVars>>
      PROVE  RInv'
  BY <1>4, WritesKept, BufferKept DEF KeepSave, RInv, SentInv
<1>5. CASE OtherAsks \/ Removal
  BY <1>4, <1>5 DEF OtherAsks, Removal, KeepSave
<1>6. ASSUME save # NoSave, FinishSave(Failed), UNCHANGED <<check, writes, hostVars>>
      PROVE  RInv'
  BY <1>6, FailKeeps, WritesKept DEF RInv
<1>7. "save" \in waiters => save # NoSave
  BY DEF CInv, SaveIsCarried, NoSave
<1>8. CASE Connecting
  <2>1. PICK a \in Attempts : ConnectorFinishes(a)
    BY <1>8 DEF Connecting
  <2>2. UNCHANGED <<saves, check, hostVars>>
    BY <1>8 DEF Connecting
  <2>3. \/ KeepSave /\ UNCHANGED writes
        \/ Send(a)
        \/ "save" \in waiters /\ FinishSave(Failed) /\ UNCHANGED writes
    BY <2>1 DEF ConnectorFinishes
  <2>4. QED
    BY <1>4, <1>6, <1>7, <2>2, <2>3, SendKeeps
<1>9. CASE Disconnect \/ LinkDrops
  <2>1. UNCHANGED <<saves, hostVars>>
    BY <1>9 DEF Disconnect, LinkDrops
  <2>2. \/ FailPending
        \/ "save" \in waiters /\ FinishSave(Failed) /\ UNCHANGED <<check, writes>>
        \/ KeepSave /\ UNCHANGED <<check, writes>>
    BY <1>9 DEF Disconnect, LinkDrops
  <2>3. QED
    BY <1>4, <1>6, <1>7, <2>1, <2>2, PendingKeeps
<1>10. QED
  BY <1>1, <1>2, <1>3, <1>5, <1>8, <1>9

\* An answer.
LEMMA AnswerKeeps ==
  ASSUME RTyped, CInv, RInv, NEW n \in Saves, Answer(n)
  PROVE  RInv'
<1>1. writes[n].at = "answered" /\ writes' = [writes EXCEPT ![n] = NoWrite]
  BY DEF Answer
<1>2. UNCHANGED <<saves, check, hostVars>> /\ file' = file /\ sibling' = sibling
  BY DEF Answer, hostVars
<1>3. \A m \in Saves : writes'[m] = IF m = n THEN NoWrite ELSE writes[m]
  BY <1>1 DEF RTyped
<1>4. NoWrite.at = "none" /\ NoWrite.expect = 0 /\ NoWrite.result = 0
  BY DEF NoWrite
<1>5. WritesInv'
  <2>1. OneWrite'
    BY <1>3, <1>4 DEF RInv, WritesInv, OneWrite, Running
  <2>2. ExpectedInv'
    BY <1>2, <1>3, <1>4 DEF RInv, WritesInv, ExpectedInv
  <2>3. NewToWrites'
    BY <1>2, <1>3, <1>4 DEF RInv, WritesInv, NewToWrites, BufferInv, NewToBuffer
  <2>4. QED
    BY <2>1, <2>2, <2>3 DEF WritesInv
<1>6. CASE KeepSave
  <2>1. SentInv'
    BY <1>2, <1>3, <1>4, <1>6 DEF KeepSave, RInv, SentInv
  <2>2. QED
    BY <1>2, <1>5, <1>6, <2>1, BufferKept DEF KeepSave, RInv
<1>7. CASE save.at = "sent" /\ n = saves /\ FinishSave(writes[n].result)
  <2>1. writes[n].text = save.text
    BY <1>1, <1>7 DEF RInv, SentInv
  <2>2. writes[n].result = file.stamp => save.text = file.text
    BY <1>1, <2>1 DEF RInv, WritesInv, ExpectedInv
  <2>3. sibling # NoFile => sibling.stamp # writes[n].result
    BY DEF RInv, WritesInv, NewToWrites
  <2>4. writes[n].result \in {-1} \cup Stamps
    BY DEF RTyped, WriteRecords
  <2>5. save # NoSave
    BY <1>7 DEF NoSave
  <2>6. QED
    BY <1>2, <1>5, <1>7, <2>2, <2>3, <2>4, <2>5, FinishKeeps DEF RInv
<1>8. QED
  BY <1>6, <1>7 DEF Answer
\* The threads of the host, unless one is received while another writes.
LEMMA HostKeeps ==
  ASSUME ~raced', RTyped, RInv, NEW n \in Saves, WriteSteps(n)
  PROVE  RInv'
<1>1. UNCHANGED <<buffVars, save, saves, check>>
  BY DEF WriteSteps
<1>2. writes[n] \in WriteRecords
  BY DEF RTyped
<1>3. \A m \in Saves : m # n => writes'[m] = writes[m]
  BY DEF WriteSteps, Receive, CheckExpected, FillSibling, Rename, StatWritten, To, Fails, RTyped
<1>4. ASSUME NEW step, To(n, step)
      PROVE  /\ writes'[n].at = step /\ writes'[n].text = writes[n].text
             /\ writes'[n].expect = writes[n].expect /\ writes'[n].result = writes[n].result
  BY <1>2, <1>4 DEF To, RTyped, WriteRecords
<1>5. ASSUME NEW result, Fails(n, result)
      PROVE  /\ writes'[n].at = "answered" /\ writes'[n].text = writes[n].text
             /\ writes'[n].expect = writes[n].expect /\ writes'[n].result = result
  BY <1>2, <1>5 DEF Fails, RTyped, WriteRecords
<1>6. writes'[n].text = writes[n].text /\ writes'[n].expect = writes[n].expect /\ writes[n].at # "none"
  <2>1. CASE StatWritten(n)
    BY <1>2, <2>1 DEF StatWritten, RTyped, WriteRecords
  <2>2. CASE ~StatWritten(n)
    BY <1>4, <1>5, <2>2 DEF WriteSteps, Receive, CheckExpected, FillSibling, Rename
  <2>3. QED
    BY <2>1, <2>2
<1>7. SentInv'
  BY <1>1, <1>3, <1>6 DEF RInv, SentInv
<1>8. \A m \in Saves : Running(m)' /\ Running(n) /\ m # n => FALSE
  BY <1>3 DEF RInv, WritesInv, OneWrite, Running
<1>9. file.stamp # 0 /\ (sibling # NoFile => sibling.stamp # 0)
  BY DEF RInv, BufferInv, StampInv, NewToBuffer
<1>10. CASE Receive(n)
  <2>1. /\ writes'[n].at = "checking" /\ writes'[n].result = writes[n].result
        /\ UNCHANGED <<file, sibling>>
    BY <1>4, <1>10 DEF Receive
  <2>2. \A m \in Saves : ~Running(m)
    BY <1>10 DEF Receive, WrittenMeanwhile
  <2>3. OneWrite'
    BY <1>3, <2>2 DEF OneWrite, Running
  <2>4. ExpectedInv' /\ NewToWrites'
    BY <1>3, <1>6, <2>1 DEF hostVars, RInv, WritesInv, ExpectedInv, NewToWrites
  <2>5. UNCHANGED hostVars
    BY <1>10, <2>1 DEF Receive, WrittenMeanwhile, RTyped, hostVars
  <2>6. QED
    BY <1>1, <1>7, <2>3, <2>4, <2>5, BufferKept DEF RInv, WritesInv
<1>11. CASE CheckExpected(n)
  <2>1. UNCHANGED hostVars /\ Running(n)
    BY <1>11 DEF CheckExpected, Running
  <2>2. \/ /\ writes'[n].at = "filling" /\ writes'[n].result = writes[n].result
           /\ writes[n].expect \in {0, file.stamp}
        \/ writes'[n].at = "answered" /\ writes'[n].result = -1
    BY <1>4, <1>5, <1>11 DEF CheckExpected, FileChanged
  <2>3. -1 # file.stamp /\ (sibling # NoFile => -1 # sibling.stamp)
    BY DEF RTyped, Contents, Stamps
  <2>4. OneWrite'
    BY <1>8, <2>1 DEF OneWrite
  <2>5. ExpectedInv'
    BY <1>3, <1>6, <2>1, <2>2, <2>3 DEF hostVars, RInv, WritesInv, ExpectedInv
  <2>6. NewToWrites'
    BY <1>3, <1>6, <2>1, <2>2, <2>3 DEF hostVars, RInv, WritesInv, NewToWrites
  <2>7. QED
    BY <1>1, <1>7, <2>1, <2>4, <2>5, <2>6, BufferKept DEF RInv, WritesInv
<1>12. CASE FillSibling(n)
  <2>1. Running(n) /\ file' = file /\ writes[n].at = "filling"
    BY <1>12 DEF FillSibling, Running
  <2>2. OneWrite'
    BY <1>8, <2>1 DEF OneWrite
  <2>3. CASE Fails(n, Failed) /\ sibling' = NoFile
    <3>1. writes'[n].at = "answered" /\ writes'[n].result = 0
      BY <1>5, <2>3 DEF Failed
    <3>2. \A m \in Saves : m # n => writes'[m].at # "renaming"
      BY <1>8, <2>1 DEF Running
    <3>3. ExpectedInv'
      BY <1>3, <1>6, <1>9, <2>1, <3>1, <3>2 DEF RInv, WritesInv, ExpectedInv
    <3>4. NewToWrites' /\ BufferInv'
      BY <1>1, <2>1, <2>3 DEF buffVars, RInv, NewToWrites, BufferInv, NewToBuffer, StampInv
    <3>5. QED
      BY <1>7, <2>2, <3>3, <3>4 DEF RInv, WritesInv
  <2>4. CASE To(n, "renaming") /\ sibling' = [text |-> writes[n].text, stamp |-> NewStamp]
    <3>1. writes'[n].at = "renaming" /\ writes'[n].result = writes[n].result
      BY <1>4, <2>4
    <3>2. sibling'.text = writes[n].text /\ sibling'.stamp = NewStamp
      BY <2>4
    <3>3. \A m \in Saves : m # n => writes'[m].at # "renaming"
      BY <1>8, <2>1 DEF Running
    <3>4. ExpectedInv'
      BY <1>3, <1>6, <2>1, <3>1, <3>2, <3>3 DEF RInv, WritesInv, ExpectedInv
    <3>5. NewToWrites'
      <4>1. \A m \in Saves : NewStamp \notin {writes[m].expect, writes[m].result}
        BY NewStampIsNew DEF InUse
      <4>2. QED
        BY <1>3, <1>6, <3>1, <3>2, <4>1 DEF NewToWrites
    <3>6. NewToBuffer'
      <4>1. NewStamp \notin {0, stamp, save.expect, check.read.stamp, file.stamp}
        BY NewStampIsNew DEF InUse
      <4>2. QED
        BY <1>1, <2>1, <3>2, <4>1 DEF buffVars, NewToBuffer
    <3>7. StampInv'
      BY <1>1, <2>1 DEF buffVars, RInv, BufferInv, StampInv
    <3>8. QED
      BY <1>7, <2>2, <3>4, <3>5, <3>6, <3>7 DEF RInv, WritesInv, BufferInv
  <2>5. QED
    BY <1>12, <2>3, <2>4 DEF FillSibling
<1>13. CASE Rename(n)
  <2>1. Running(n) /\ writes[n].at = "renaming"
    BY <1>13 DEF Rename, Running
  <2>2. OneWrite'
    BY <1>8, <2>1 DEF OneWrite
  <2>3. CASE sibling = NoFile
    <3>1. UNCHANGED hostVars /\ writes'[n].at = "answered" /\ writes'[n].result = 0
      BY <1>5, <1>13, <2>3 DEF Rename, Failed
    <3>2. ExpectedInv'
      BY <1>3, <1>6, <1>9, <3>1 DEF hostVars, RInv, WritesInv, ExpectedInv
    <3>3. NewToWrites'
      BY <2>3, <3>1 DEF hostVars, NewToWrites
    <3>4. QED
      BY <1>1, <1>7, <2>2, <3>1, <3>2, <3>3, BufferKept DEF RInv, WritesInv
  <2>4. CASE sibling # NoFile
    <3>1. /\ file' = sibling /\ sibling' = NoFile
          /\ writes'[n].at = "statting" /\ writes'[n].result = writes[n].result
      BY <1>4, <1>13, <2>4 DEF Rename
    <3>2. \A m \in Saves : m # n => writes'[m].at \notin {"filling", "renaming", "statting"}
      BY <1>8, <2>1 DEF Running
    <3>3. ExpectedInv'
      BY <1>3, <1>6, <2>1, <2>4, <3>1, <3>2 DEF RInv, WritesInv, ExpectedInv, NewToWrites
    <3>4. NewToWrites' /\ NewToBuffer'
      BY <3>1 DEF NewToWrites, NewToBuffer
    <3>5. StampInv'
      BY <1>1, <1>9, <2>4, <3>1 DEF buffVars, RInv, BufferInv, NewToBuffer, StampInv
    <3>6. QED
      BY <1>7, <2>2, <3>3, <3>4, <3>5 DEF RInv, WritesInv, BufferInv
  <2>5. QED
    BY <2>3, <2>4
<1>14. CASE StatWritten(n)
  <2>1. /\ writes[n].at = "statting" /\ Running(n) /\ UNCHANGED hostVars
        /\ writes'[n].at = "answered" /\ writes'[n].result = file.stamp
    BY <1>2, <1>14 DEF StatWritten, Running, RTyped, WriteRecords
  <2>2. OneWrite'
    BY <1>8, <2>1 DEF OneWrite
  <2>3. ExpectedInv'
    BY <1>3, <1>6, <2>1 DEF hostVars, RInv, WritesInv, ExpectedInv
  <2>4. NewToWrites'
    BY <1>3, <1>6, <2>1 DEF hostVars, RInv, WritesInv, NewToWrites, BufferInv, NewToBuffer
  <2>5. QED
    BY <1>1, <1>7, <2>1, <2>2, <2>3, <2>4, BufferKept DEF RInv, WritesInv
<1>15. QED
  BY <1>10, <1>11, <1>12, <1>13, <1>14 DEF WriteSteps

\* Another program replaces the file while no write runs: nothing has its new
\* time stamp.
LEMMA ForeignKeeps ==
  ASSUME ~raced', RTyped, RInv, ForeignWrite
  PROVE  RInv'
<1>1. /\ file'.stamp = NewStamp /\ sibling' = sibling
      /\ UNCHANGED <<buffVars, save, saves, check, writes>>
  BY DEF ForeignWrite
<1>2. \A n \in Saves : ~Running(n)
  BY DEF ForeignWrite, WrittenMeanwhile
<1>3. /\ NewStamp \notin {0, stamp, check.read.stamp, sibling.stamp}
      /\ \A n \in Saves : NewStamp # writes[n].result
  BY NewStampIsNew DEF InUse
<1>4. ExpectedInv'
  BY <1>1, <1>2, <1>3 DEF ExpectedInv, Running
<1>5. OneWrite' /\ NewToWrites' /\ SentInv'
  BY <1>1 DEF RInv, WritesInv, OneWrite, Running, NewToWrites, SentInv
<1>6. BufferInv'
  BY <1>1, <1>3 DEF buffVars, RInv, BufferInv, NewToBuffer, StampInv
<1>7. QED
  BY <1>4, <1>5, <1>6 DEF RInv, WritesInv

\* A check for external changes: what it read goes with its time stamp.
LEMMA CheckKeeps ==
  ASSUME RTyped, CInv, RInv, FollowChange \/ ReadIfChanged \/ HostReads \/ Settle \/ CheckEnds
  PROVE  RInv'
<1>1. UNCHANGED <<save, saves, writes, hostVars, open, late, saving>>
  BY DEF FollowChange, ReadIfChanged, HostReads, Settle, CheckEnds, CheckVars, buffVars
<1>2. WritesInv' /\ SentInv' /\ file' = file /\ sibling' = sibling
  BY <1>1, WritesKept DEF hostVars, RInv, SentInv
<1>3. NoCheck.read.stamp = 0 /\ NoCheck.at = "none"
  BY DEF NoCheck, NoFile
<1>4. check \in CheckRecords
  BY DEF RTyped
<1>5. CASE FollowChange \/ ReadIfChanged \/ CheckEnds
  <2>1. UNCHANGED <<text, saved, unsaved, stamp>>
    BY <1>5 DEF FollowChange, ReadIfChanged, CheckEnds, buffVars
  <2>2. check'.at # "have" /\ check'.read.stamp \in {check.read.stamp, 0}
    BY <1>3, <1>4, <1>5 DEF FollowChange, ReadIfChanged, CheckEnds, CheckRecords, NoCheck, NoFile
  <2>3. BufferInv'
    BY <1>1, <1>2, <2>1, <2>2 DEF RInv, BufferInv, NewToBuffer, StampInv
  <2>4. QED
    BY <1>2, <2>3 DEF RInv
<1>6. CASE HostReads
  <2>1. check'.read = file /\ UNCHANGED buffVars
    BY <1>4, <1>6 DEF HostReads, CheckRecords
  <2>2. BufferInv'
    BY <1>1, <1>2, <2>1 DEF buffVars, RInv, BufferInv, NewToBuffer, StampInv
  <2>3. QED
    BY <1>2, <2>2 DEF RInv
<1>7. CASE Settle
  <2>1. check.at = "have" /\ check' = NoCheck /\ ~saving
    BY <1>7 DEF Settle, Unchanged
  <2>2. \/ text' = saved' /\ saved' = check.read.text /\ stamp' = check.read.stamp
        \/ unsaved' = TRUE /\ saved' = check.read.text /\ stamp' = check.read.stamp
        \/ UNCHANGED <<text, saved, unsaved, stamp>>
    BY <1>7 DEF Settle
  <2>3. NewToBuffer'
    BY <1>1, <1>2, <1>3, <2>1, <2>2 DEF RInv, BufferInv, NewToBuffer
  <2>4. StampInv'
    BY <1>1, <1>2, <1>3, <2>1, <2>2 DEF RInv, BufferInv, StampInv
  <2>5. QED
    BY <1>2, <2>3, <2>4 DEF RInv, BufferInv
<1>8. QED
  BY <1>5, <1>6, <1>7

LEMMA RInit == Init => RInv
<1> SUFFICES ASSUME Init PROVE RInv
  OBVIOUS
<1>1. \A n \in Saves : writes[n] = NoWrite
  BY DEF Init
<1>2. WritesInv
  BY <1>1 DEF Init, NoWrite, WritesInv, OneWrite, Running, ExpectedInv, NewToWrites
<1>3. SentInv /\ BufferInv
  BY DEF Init, NoSave, NoCheck, SentInv, BufferInv, NewToBuffer, StampInv
<1>4. QED
  BY <1>2, <1>3 DEF RInv

LEMMA RStep ==
  ASSUME ~raced', HInv, CInv, RTyped, RInv, [Next]_vars
  PROVE  RInv'
<1>1. CASE UNCHANGED vars
  BY <1>1, WritesKept, BufferKept DEF vars, RInv, SentInv
<1>2. CASE Host
  BY <1>2, HostKeeps DEF Host
<1>3. CASE \E n \in Saves : Answer(n)
  BY <1>3, AnswerKeeps
<1>4. QED
  BY <1>1, <1>2, <1>3, BufferStepsKeep, SaveStepsKeep, ForeignKeeps, CheckKeeps DEF Next

LEMMA RacedStays ==
  ASSUME raced, [Next]_vars
  PROVE  raced'
<1>1. CASE Host
  BY <1>1 DEF Host, WriteSteps, Receive, WrittenMeanwhile, CheckExpected, FillSibling, Rename,
     StatWritten, hostVars
<1>2. CASE ForeignWrite
  BY <1>2 DEF ForeignWrite, WrittenMeanwhile
<1>3. CASE ~Host /\ ~ForeignWrite
  <2>1. UNCHANGED hostVars
    BY <1>3 DEF Next, vars, Edit, CloseBuffer, SaveBuffer, EncodeFails, WriteNow, WriteOnceConnected,
       OtherAsks, Connecting, Disconnect, LinkDrops, Removal, Expire, Answer, FollowChange,
       ReadIfChanged, HostReads, Settle, CheckEnds, CheckVars
  <2>2. QED
    BY <2>1 DEF hostVars
<1>4. QED
  BY <1>1, <1>2, <1>3

\* Whichever answers came, were lost or came late: until the file is written
\* while a write runs on the host, a remote buffer that says it has no unsaved
\* changes holds what is in the file whose time stamp it has
\* (FinishRemoteSave, Settle).
THEOREM UnmodifiedAlwaysOnHost == Spec => []UnmodifiedIsOnHost
<1>1. Spec => []HInv
  BY RemoteUsesHosts, HostsInvariant, PTL
<1>2. /\ Init => CInv /\ RTyped /\ MarkInv /\ (raced \/ RInv)
  BY CarriedInit, TypedInit, RInit DEF Init, MarkInv
<1>3. /\ HInv /\ CInv /\ RTyped /\ MarkInv /\ (raced \/ RInv) /\ [Next]_vars
        => CInv' /\ RTyped' /\ MarkInv' /\ (raced' \/ RInv')
  BY CarriedStep, TypedStep, MarkStep, RStep, RacedStays
<1>4. MarkInv /\ (raced \/ RInv) => UnmodifiedIsOnHost
  BY DEF RInv, BufferInv, StampInv, MarkInv, UnmodifiedIsOnHost
<1>5. QED
  BY <1>1, <1>2, <1>3, <1>4, PTL DEF Spec

=============================================================================
