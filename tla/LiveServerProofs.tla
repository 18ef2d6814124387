-------------------------- MODULE LiveServerProofs --------------------------
(***************************************************************************)
(* Proofs about LiveServer for every camera table and every set of events: *)
(* first what each group of threads leaves alone, then type correctness,   *)
(* then the inductive invariant behind the safety properties.              *)
(***************************************************************************)
EXTENDS LiveServer, ClientListProofs

-----------------------------------------------------------------------------
(* FindSipIndex returns -1 or the first of the entries with the name.      *)
LEMMA FindSipIndexFirst ==
  ASSUME NEW sip, FindSipIndex(sip) \in Cam
  PROVE  /\ SipOf[FindSipIndex(sip)] = sip
         /\ \A d \in Cam : SipOf[d] = sip => FindSipIndex(sip) <= d
<1> DEFINE Hits == {i \in Cam : SipOf[i] = sip}
<1>1. Hits \in SUBSET Nat
  BY CameraTableAssumption DEF Cam
<1>2. CASE Hits = {}
  BY <1>2 DEF FindSipIndex, Cam
<1>3. CASE Hits # {}
  <2>1. FindSipIndex(sip) = Min(Hits)
    BY <1>3 DEF FindSipIndex, Min
  <2>2. Min(Hits) \in Hits /\ \A d \in Hits : Min(Hits) <= d
    <3> HIDE DEF Hits
    <3> QED BY <1>1, <1>3, MinOfNaturals
  <2> QED BY <2>1, <2>2
<1> QED BY <1>2, <1>3

(* Hence it never returns an entry behind another of its name.             *)
LEMMA FoundNotRepeated ==
  ASSUME NEW sip, FindSipIndex(sip) \in Cam
  PROVE  ~Repeated(FindSipIndex(sip))
<1> SUFFICES ASSUME NEW d \in Cam, d < FindSipIndex(sip),
                    SipOf[d] = SipOf[FindSipIndex(sip)]
             PROVE  FALSE
  BY DEF Repeated
<1> QED BY FindSipIndexFirst DEF Cam

-----------------------------------------------------------------------------
(* What the steps of one group of threads leave to the others. *)
LEMMA MainLeaves ==
  ASSUME MainStep
  PROVE  /\ UNCHANGED <<alive, registered, camMutex, sipVars>>
         /\ UNCHANGED <<publishing, spinning, framed, culprits>>
         /\ down' = down \/ down' \in BOOLEAN
<1>1. UNCHANGED <<alive, registered, camMutex>> /\ (down' = down \/ down' \in BOOLEAN)
  BY DEF MainStep, MainNext, Wake, InviteNext, InviteSkip, MarkPlayed,
         InvitePassDone, WatchPass, WatchSkip, WatchFound, Spawn, tableVars, flagVars
<1> QED BY <1>1 DEF MainStep

(* A push thread reads the flags and writes none of them. *)
LEMMA PushLeaves ==
  ASSUME PushNext
  PROVE  /\ UNCHANGED <<flagVars, camMutex, invites, sipVars, mainVars>>
         /\ down' = down \/ down' = TRUE
BY DEF PushNext, PushPublish, PushFrame, PushGiveUp, PushStop, SpinStop, PushAbort, tableVars,
   Survives, Dies

(* Taking an event changes nothing but what the SIP thread has in hand. *)
LEMMA ReceiveLeaves ==
  ASSUME SipReceive
  PROVE  /\ UNCHANGED <<clientlist, tableVars, mainVars, pushVars>>
         /\ sipPc = "wait" /\ sipPc' = "dispatch"
         /\ ev' \in PeerEvents /\ sent' = {} /\ refused' = {}
BY DEF SipReceive, Receive

(* Only main writes pushed and counts INVITEs, and only handlers that are  *)
(* done let go of their event.                                             *)
LEMMA HandleLeaves ==
  ASSUME SipHandle
  PROVE  /\ UNCHANGED <<pushed, invites, mainVars, pushVars>>
         /\ IF sipPc' = "wait" THEN ev' = NoEvent ELSE ev' = ev
<1>1. /\ UNCHANGED <<pushed, invites>>
      /\ IF sipPc' = "wait" THEN ev' = NoEvent ELSE ev' = ev
  BY DEF SipHandle, Handle, MessageUnknownDevice, MessageWithoutBody, MessageQuery,
         MessageResponse, MessageFromLacks, MessageOther, KeepAliveAlive,
         KeepAliveRegistered, DispatchRegister, RegisterNothing, RegisterNameless,
         RegisterAlive, RegisterRegistered, ByeNothing, ByeNameless, ByeAlive, ByePlayed,
         CallAnswered, Ignored, HasDevice, Dispatched, Done, Ends, tableVars, flagVars
<1> QED BY <1>1 DEF SipHandle

-----------------------------------------------------------------------------
(* Type correctness.  A count of push threads is a natural number because  *)
(* no more publish or spin than run, and none is taken off that does not   *)
(* run; mainI stays in bounds because main is busy with a camera where it  *)
(* counts up.                                                              *)
CountsInv == \A c \in Cam : publishing[c] + spinning[c] <= running[c]
PlaceInv  == mainPc \in {"invited", "spawning"} => mainI \in Cam

TypeInv == LiveTypeOK /\ CountsInv /\ PlaceInv

(* The state after ReadCfg is of its type. *)
LEMMA TypeInvInit == LiveInit => TypeInv
<1> SUFFICES ASSUME LiveInit PROVE TypeInv
  OBVIOUS
<1>1. TableTypeOK
  BY DEF LiveInit, TableInit, TableTypeOK, Flag
<1>2. SipTypeOK
  BY DEF LiveInit, SipInit, SipTypeOK, SipPcs
<1>3. MainTypeOK
  BY CameraTableAssumption DEF LiveInit, MainInit, MainTypeOK, MainPcs
<1>5. PlaceInv
  BY DEF LiveInit, MainInit, PlaceInv
<1>4. /\ running \in [Cam -> Nat] /\ publishing \in [Cam -> Nat] /\ spinning \in [Cam -> Nat]
      /\ framed \in [Cam -> BOOLEAN] /\ culprits \subseteq Cam /\ CountsInv
  BY DEF LiveInit, CountsInv
<1> QED BY <1>1, <1>2, <1>3, <1>4, <1>5 DEF TypeInv, LiveTypeOK

(* No thread puts anything but 0 or 1 into a flag. *)
LEMMA TableTypeNext ==
  ASSUME TypeInv, LiveNext
  PROVE  TableTypeOK'
<1> USE DEF TypeInv, LiveTypeOK, TableTypeOK, Flag
<1>1. CASE MainStep
  BY <1>1, MainLeaves DEF MainStep, MainNext, Wake, InviteNext, InviteSkip, MarkPlayed,
     InvitePassDone, WatchPass, WatchSkip, WatchFound, Spawn, tableVars, flagVars
<1>2. CASE SipReceive
  BY <1>2, ReceiveLeaves DEF tableVars, flagVars
<1>3. CASE SipHandle
  BY <1>3, HandleLeaves DEF SipHandle, Handle, MessageUnknownDevice,
     MessageWithoutBody, MessageQuery, MessageResponse, MessageFromLacks, MessageOther,
     KeepAliveAlive, KeepAliveRegistered, DispatchRegister, RegisterNothing,
     RegisterNameless, RegisterAlive, RegisterRegistered, ByeNothing, ByeNameless,
     ByeAlive, ByePlayed, CallAnswered, Ignored, Ends, tableVars, flagVars
<1>4. CASE PushNext
  BY <1>4, PushLeaves DEF flagVars
<1> QED BY <1>1, <1>2, <1>3, <1>4 DEF LiveNext

(* What is sent goes to names and addresses there are. *)
Sendable == [kind : {"200", "forward", "ptz", "ack"},
             to : Sips, addr : Addrs \cup {"configured"}]

(* Messages that can be sent, taken or refused. *)
LEMMA HandType ==
  ASSUME NEW msgs \in SUBSET Sendable, Hand(msgs), sent \cup refused \subseteq Sendable
  PROVE  sent' \cup refused' \subseteq Sendable
BY DEF Hand

(* The handlers keep the client list and the messages they send of type. *)
LEMMA SipTypeNext ==
  ASSUME TypeInv, LiveNext
  PROVE  SipTypeOK'
<1> USE DEF TypeInv, LiveTypeOK, SipTypeOK, SipPcs
<1>1. CASE MainStep
  BY <1>1, MainLeaves DEF sipVars
<1>2. CASE SipReceive
  BY <1>2, ReceiveLeaves
<1>3. CASE SipHandle
  <2>1. sipPc # "wait" /\ ev \in PeerEvents /\ sipPc' \in SipPcs
    BY <1>3 DEF SipHandle, Handle, MessageUnknownDevice, MessageWithoutBody, MessageQuery,
       MessageResponse, MessageFromLacks, MessageOther, HasDevice, KeepAliveAlive,
       KeepAliveRegistered, DispatchRegister, RegisterNothing, RegisterNameless,
       RegisterAlive, RegisterRegistered, ByeNothing, ByeNameless, ByeAlive, ByePlayed,
       CallAnswered, Ignored, Dispatched, Done, Ends
  <2>2. /\ ev.from \in Sips /\ ev.addr \in Addrs
        /\ ev.cmd \in CmdTypes /\ ev.dev \in Sips
    BY <2>1, SipServerAssumption DEF Event
  <2>3. IF sipPc' = "wait" THEN ev' = NoEvent ELSE ev' \in PeerEvents
    BY <1>3, <2>1, HandleLeaves
  <2>4. clientlist' \in Seq(Client(Sips, Addrs))
    <3>1. CASE MessageQuery
      BY <2>2, <3>1, AddClientReqType DEF MessageQuery, Ends
    <3>2. CASE MessageResponse
      BY <2>2, <3>2, DelClientReqType DEF MessageResponse, Ends
    <3>3. CASE clientlist' = clientlist
      BY <3>3
    <3> QED
      BY <1>3, <3>1, <3>2, <3>3 DEF SipHandle, Handle, MessageUnknownDevice,
         MessageWithoutBody, MessageFromLacks, MessageOther, KeepAliveAlive,
         KeepAliveRegistered, DispatchRegister, RegisterNothing, RegisterNameless,
         RegisterAlive, RegisterRegistered, ByeNothing, ByeNameless, ByeAlive, ByePlayed,
         CallAnswered, Ignored, Ends
  <2>5. sent' \cup refused' \subseteq Sendable
    <3>0. sent \cup refused \subseteq Sendable
      BY DEF Sendable
    <3>1. CASE MessageQuery
      <4>1. Device \in Cam => {ToCamera("forward", Device)} \subseteq Sendable
        BY CameraTableAssumption DEF ToCamera, Msg, Sendable
      <4> QED BY <3>0, <3>1, <4>1, HandType DEF MessageQuery, HasDevice, messages
    <3>2. CASE MessageResponse
      <4> DEFINE M == {Msg("forward", k.sip, k.addr) : k \in Range(clientlist)}
      <4>1. \A k \in Range(clientlist) : k.sip \in Sips /\ k.addr \in Addrs
        <5>1. \A k \in Range(clientlist) : k \in Client(Sips, Addrs)
          BY DEF Range
        <5> QED BY <5>1 DEF Client
      <4>2. M \subseteq Sendable
        BY <4>1 DEF Msg, Sendable
      <4>3. UNCHANGED messages \/ Hand(M)
        BY <3>2 DEF MessageResponse, DelClientReqResult
      <4> QED BY <3>0, <4>2, <4>3, HandType DEF messages
    <3>3. CASE Answer
      <4>1. {} \subseteq Sendable /\ {Ok200} \subseteq Sendable
        BY <2>2 DEF Ok200, Msg, Sendable
      <4> QED BY <3>0, <3>3, <4>1, HandType DEF Answer
    <3>4. CASE CallAnswered
      <4>1. {Msg("ack", ev.dev, ev.addr)} \subseteq Sendable
        BY <2>2 DEF Msg, Sendable
      <4> QED BY <3>0, <3>4, <4>1, HandType DEF CallAnswered
    <3>5. CASE UNCHANGED messages
      BY <3>0, <3>5 DEF messages
    <3> QED
      BY <1>3, <3>1, <3>2, <3>3, <3>4, <3>5 DEF SipHandle, Handle,
         MessageUnknownDevice, MessageWithoutBody, MessageFromLacks, MessageOther,
         KeepAliveAlive, KeepAliveRegistered, DispatchRegister, RegisterNothing,
         RegisterNameless, RegisterAlive, RegisterRegistered, ByeNothing, ByeNameless,
         ByeAlive, ByePlayed, Ignored
  <2> QED BY <2>1, <2>3, <2>4, <2>5 DEF Sendable
<1>4. CASE PushNext
  BY <1>4, PushLeaves DEF sipVars
<1> QED BY <1>1, <1>2, <1>3, <1>4 DEF LiveNext

(* The loops of main stay inside the table. *)
LEMMA MainTypeNext ==
  ASSUME TypeInv, LiveNext
  PROVE  MainTypeOK' /\ PlaceInv'
<1> USE DEF TypeInv, LiveTypeOK, MainTypeOK, MainPcs, PlaceInv
<1>1. CASE MainStep
  <2>1. \A i \in Cam : i + 1 \in 0 .. CameraNum
    BY CameraTableAssumption DEF Cam
  <2>2. 0 \in 0 .. CameraNum
    BY CameraTableAssumption
  <2>3. threads' \in [Cam -> Nat] /\ tries' \in [Cam -> Nat]
    BY <1>1 DEF MainStep, MainNext, Wake, InviteNext, InviteSkip, MarkPlayed,
       InvitePassDone, WatchPass, WatchSkip, WatchFound, Spawn
  <2> QED
    BY <1>1, <2>1, <2>2, <2>3 DEF MainStep, MainNext, Wake, InviteNext, InviteSkip,
       MarkPlayed, InvitePassDone, WatchPass, WatchSkip, WatchFound, Spawn, At
<1>2. CASE SipReceive \/ SipHandle \/ PushNext
  BY <1>2, ReceiveLeaves, HandleLeaves, PushLeaves DEF mainVars
<1> QED BY <1>1, <1>2 DEF LiveNext

(* A push thread ends at most once, and publishes or spins at most once. *)
LEMMA PushTypeNext ==
  ASSUME TypeInv, LiveNext
  PROVE  /\ running' \in [Cam -> Nat] /\ publishing' \in [Cam -> Nat] /\ spinning' \in [Cam -> Nat]
         /\ framed' \in [Cam -> BOOLEAN] /\ culprits' \subseteq Cam /\ CountsInv'
<1> USE DEF TypeInv, LiveTypeOK, CountsInv
<1>1. CASE MainStep
  <2>1. \A c \in Cam : threads'[c] - threads[c] \in {0, 1}
    BY <1>1 DEF MainStep, MainNext, Wake, InviteNext, InviteSkip, MarkPlayed,
       InvitePassDone, WatchPass, WatchSkip, WatchFound, Spawn, MainTypeOK
  <2>2. /\ running' = [c \in Cam |-> running[c] + (threads'[c] - threads[c])]
        /\ UNCHANGED <<publishing, spinning, framed, culprits>>
    BY <1>1 DEF MainStep
  <2> QED BY <2>1, <2>2
<1>2. CASE SipReceive \/ SipHandle
  BY <1>2, ReceiveLeaves, HandleLeaves DEF pushVars
<1>3. CASE PushNext
  <2> PICK c \in Cam : \/ PushPublish(c) \/ PushFrame(c) \/ PushGiveUp(c)
                      \/ PushStop(c) \/ SpinStop(c) \/ PushAbort(c)
    BY <1>3 DEF PushNext
  <2> USE DEF Survives, Dies, Connecting, Publishing
  <2>1. CASE PushPublish(c)
    BY <2>1 DEF PushPublish
  <2>2. CASE PushFrame(c)
    BY <2>2 DEF PushFrame
  <2>3. CASE PushGiveUp(c)
    BY <2>3 DEF PushGiveUp
  <2>4. CASE PushStop(c)
    BY <2>4 DEF PushStop
  <2>5. CASE SpinStop(c)
    BY <2>5 DEF SpinStop
  <2>6. CASE PushAbort(c)
    BY <2>6 DEF PushAbort
  <2> QED BY <2>1, <2>2, <2>3, <2>4, <2>5, <2>6
<1> QED BY <1>1, <1>2, <1>3 DEF LiveNext

(* Every variable of the server keeps to its type, whatever the table of   *)
(* cameras and whichever events arrive, the client list of nested vectors  *)
(* included.                                                               *)
THEOREM TypeCorrect == LiveSpec => []LiveTypeOK
<1>1. TypeInv /\ [LiveNext]_vars => TypeInv'
  <2> SUFFICES ASSUME TypeInv, [LiveNext]_vars PROVE TypeInv'
    OBVIOUS
  <2>1. CASE LiveNext
    BY <2>1, TableTypeNext, SipTypeNext, MainTypeNext, PushTypeNext
       DEF TypeInv, LiveTypeOK
  <2>2. CASE UNCHANGED vars
    BY <2>2 DEF vars, tableVars, flagVars, sipVars, mainVars, pushVars, TypeInv,
       LiveTypeOK, TableTypeOK, SipTypeOK, MainTypeOK, CountsInv, PlaceInv
  <2> QED BY <2>1, <2>2
<1>2. TypeInv => LiveTypeOK
  BY DEF TypeInv
<1> QED BY <1>1, <1>2, TypeInvInit, PTL DEF LiveSpec
=============================================================================
