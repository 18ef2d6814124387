----------------------- MODULE LiveServerSafetyProofs -----------------------
(***************************************************************************)
(* The safety properties of LiveServer hold for every table of cameras and *)
(* every set of events.  None of them is inductive: each says what main or *)
(* the SIP thread has done, and what makes it so is where the thread       *)
(* stands.  IInv adds that, and ThreadInv what a push thread is promised   *)
(* by the threads that lower its flags.                                    *)
(***************************************************************************)
EXTENDS LiveServerProofs

-----------------------------------------------------------------------------
(* The SIP thread holds camMutex between its two writes, and these are to  *)
(* an entry of the table.                                                  *)
SectionInv ==
  /\ camMutex = "sip" <=> sipPc \in {"keepRegistered", "regRegistered", "byePlayed"}
  /\ sipPc = "keepRegistered" => Device \in Cam
  /\ sipPc \in {"regRegistered", "byePlayed"} => Sender \in Cam

(* A camera that is on line but not registered is the one whose second     *)
(* flag the SIP thread is about to set.                                    *)
HalfWritten(c) == \/ sipPc = "keepRegistered" /\ Device = c
                  \/ sipPc = "regRegistered" /\ Sender = c

OnlineInv == \A c \in Cam : alive[c] = 1 => registered[c] = 1 \/ HalfWritten(c)

(* The invite pass has not come to the camera. *)
NotReached(c) == \/ mainPc = "starting"
                 \/ mainPc = "inviting" /\ c >= mainI
                 \/ mainPc = "invited" /\ c > mainI

(* The pass takes each camera once, so that no camera is asked twice;      *)
(* between the call and played = 1, and between the test and the start of  *)
(* a push thread, main's own place stands for what the flags do not say.   *)
InviteInv ==
  /\ \A c \in Cam :
       /\ NotReached(c) => tries[c] = 0 /\ played[c] = 0
       /\ invites[c] <= tries[c] /\ tries[c] <= 1
       /\ played[c] = 1 \/ pushed[c] = 1 => tries[c] = 1
  /\ mainPc = "invited"  => tries[mainI] = 1
  /\ mainPc = "spawning" => tries[mainI] = 1 /\ pushed[mainI] = 0

(* Only main starts threads and only main sets pushed. *)
PusherInv == \A c \in Cam : threads[c] = pushed[c] /\ running[c] <= threads[c]

ShadowInv ==
  /\ \A c \in Cam : Repeated(c) =>
       alive[c] = 0 /\ registered[c] = 0 /\ played[c] = 0 /\ threads[c] = 0
  /\ mainPc \in {"invited", "spawning"} => ~Repeated(mainI)

IInv == TypeInv /\ SectionInv /\ OnlineInv /\ InviteInv /\ PusherInv /\ ShadowInv

(* After ReadCfg nobody is on line and nothing is under way. *)
LEMMA IInvInit == LiveInit => IInv
<1> SUFFICES ASSUME LiveInit PROVE IInv
  OBVIOUS
<1> USE DEF LiveInit, TableInit, SipInit, MainInit
<1>1. SectionInv /\ OnlineInv
  BY DEF SectionInv, OnlineInv
<1>2. InviteInv
  BY DEF InviteInv
<1>3. PusherInv /\ ShadowInv
  BY DEF PusherInv, ShadowInv
<1> QED BY <1>1, <1>2, <1>3, TypeInvInit DEF IInv

-----------------------------------------------------------------------------
(* The SIP thread takes camMutex with the first write and frees it with  *)
(* the second; between them it keeps the event, hence the entry.           *)
LEMMA SectionNext ==
  ASSUME IInv, LiveNext
  PROVE  SectionInv'
<1> USE DEF IInv, SectionInv
<1>1. CASE MainStep \/ PushNext
  BY <1>1, MainLeaves, PushLeaves DEF sipVars, Device, Sender
<1>2. CASE SipReceive
  BY <1>2, ReceiveLeaves DEF tableVars
<1>3. CASE SipHandle
  <2>1. sipPc' = "wait" \/ (Device' = Device /\ Sender' = Sender)
    BY <1>3, HandleLeaves DEF Device, Sender
  <2> QED
    BY <1>3, <2>1 DEF SipHandle, Handle, MessageUnknownDevice, MessageWithoutBody,
       MessageQuery, MessageResponse, MessageFromLacks, MessageOther, KeepAliveAlive,
       KeepAliveRegistered, DispatchRegister, RegisterNothing, RegisterNameless,
       RegisterAlive, RegisterRegistered, ByeNothing, ByeNameless, ByeAlive, ByePlayed,
       CallAnswered, Ignored, HasDevice, Dispatched, Done, Ends, tableVars
<1> QED BY <1>1, <1>2, <1>3 DEF LiveNext

(* What the SIP thread does to the table in one step of a handler. *)
LEMMA HandleWrites ==
  ASSUME IInv, SipHandle
  PROVE  \/ UNCHANGED flagVars
         \/ \E c \in Cam :
              /\ ~Repeated(c)
              /\ \/ alive' = [alive EXCEPT ![c] = 1] /\ UNCHANGED <<registered, played>>
                 \/ alive' = [alive EXCEPT ![c] = 0] /\ UNCHANGED <<registered, played>>
                 \/ registered' = [registered EXCEPT ![c] = 1] /\ UNCHANGED <<alive, played>>
                 \/ played' = [played EXCEPT ![c] = 0] /\ UNCHANGED <<alive, registered>>
<1>1. Device \in Cam => ~Repeated(Device)
  BY FoundNotRepeated DEF Device
<1>2. Sender \in Cam => ~Repeated(Sender)
  BY FoundNotRepeated DEF Sender
<1> QED
  BY <1>1, <1>2 DEF IInv, SectionInv, SipHandle, Handle, MessageUnknownDevice,
     MessageWithoutBody, MessageQuery, MessageResponse, MessageFromLacks, MessageOther,
     HasDevice, KeepAliveAlive, KeepAliveRegistered, DispatchRegister, RegisterNothing,
     RegisterNameless, RegisterAlive, RegisterRegistered, ByeNothing, ByeNameless,
     ByeAlive, ByePlayed, CallAnswered, Ignored, Ends, tableVars, flagVars

(* Every handler that sets alive goes on to registered; none clears it. *)
LEMMA OnlineNext ==
  ASSUME IInv, LiveNext
  PROVE  OnlineInv'
<1> USE DEF IInv, OnlineInv, HalfWritten
<1>1. CASE MainStep \/ PushNext
  BY <1>1, MainLeaves, PushLeaves DEF sipVars, flagVars, Device, Sender
<1>2. CASE SipReceive
  BY <1>2, ReceiveLeaves DEF tableVars, flagVars
<1>3. CASE SipHandle
  <2>1. sipPc' = "wait" \/ (Device' = Device /\ Sender' = Sender)
    BY <1>3, HandleLeaves DEF Device, Sender
  <2> QED
    BY <1>3, <2>1 DEF TypeInv, LiveTypeOK, TableTypeOK, SipHandle, Handle,
       MessageUnknownDevice, MessageWithoutBody, MessageQuery, MessageResponse,
       MessageFromLacks, MessageOther, KeepAliveAlive, KeepAliveRegistered,
       DispatchRegister, RegisterNothing, RegisterNameless, RegisterAlive,
       RegisterRegistered, ByeNothing, ByeNameless, ByeAlive, ByePlayed, CallAnswered,
       Ignored, HasDevice, Dispatched, Done, Ends, tableVars, flagVars
<1> QED BY <1>1, <1>2, <1>3 DEF LiveNext

(* The SIP thread never puts played up, and main asks a camera where it    *)
(* has not asked it before.                                                *)
LEMMA InvitedNext ==
  ASSUME IInv, LiveNext
  PROVE  InviteInv'
<1> USE DEF IInv, TypeInv, LiveTypeOK, TableTypeOK, MainTypeOK, InviteInv, NotReached
<1>0. \A c \in Cam : c \in Int
  BY DEF Cam
<1>1. CASE MainStep
  <2> USE DEF At, Flag
  <2>1. /\ UNCHANGED <<alive, registered>>
        /\ mainI \in Int
    BY <1>1, MainLeaves, CameraTableAssumption
  <2>2. CASE Wake
    BY <1>0, <2>2 DEF Wake, tableVars, flagVars
  <2>3. CASE InviteNext
    BY <1>0, <2>1, <2>3 DEF InviteNext, flagVars
  <2>4. CASE InviteSkip
    BY <1>0, <2>1, <2>4 DEF InviteSkip, tableVars, flagVars
  <2>5. CASE MarkPlayed
    BY <1>0, <2>1, <2>5 DEF MarkPlayed, PlaceInv
  <2>6. CASE InvitePassDone
    BY <1>0, <2>6 DEF InvitePassDone, tableVars, flagVars
  <2>7. CASE WatchPass \/ WatchSkip
    BY <1>0, <2>1, <2>7 DEF WatchPass, WatchSkip, tableVars, flagVars
  <2>8. CASE WatchFound
    BY <1>0, <2>8 DEF WatchFound, WantsPush, tableVars, flagVars
  <2>9. CASE Spawn
    BY <1>0, <2>1, <2>9 DEF Spawn
  <2> QED
    BY <1>1, <2>2, <2>3, <2>4, <2>5, <2>6, <2>7, <2>8, <2>9 DEF MainStep, MainNext
<1>2. CASE SipReceive \/ PushNext
  BY <1>2, ReceiveLeaves, PushLeaves DEF mainVars, tableVars, flagVars
<1>3. CASE SipHandle
  <2>1. UNCHANGED <<mainVars, pushed, invites>>
    BY <1>3, HandleLeaves
  <2>2. \A c \in Cam : played'[c] # 0 => played'[c] = played[c]
    BY <1>3, HandleWrites DEF flagVars
  <2> QED BY <2>1, <2>2 DEF mainVars, Flag
<1> QED BY <1>1, <1>2, <1>3 DEF LiveNext

(* A thread is started where pushed is 0, and pushed goes up with it.      *)
LEMMA PusherNext ==
  ASSUME IInv, LiveNext
  PROVE  PusherInv'
<1> USE DEF IInv, TypeInv, LiveTypeOK, PusherInv
<1>1. CASE MainStep
  <2>1. \/ UNCHANGED <<threads, pushed>>
        \/ /\ mainI \in Cam /\ pushed[mainI] = 0
           /\ threads' = [threads EXCEPT ![mainI] = @ + 1]
           /\ pushed' = [pushed EXCEPT ![mainI] = 1]
    BY <1>1 DEF MainStep, MainNext, Wake, InviteNext, InviteSkip, MarkPlayed,
       InvitePassDone, WatchPass, WatchSkip, WatchFound, Spawn, tableVars, flagVars,
       InviteInv, PlaceInv, At
  <2>2. running' = [c \in Cam |-> running[c] + (threads'[c] - threads[c])]
    BY <1>1 DEF MainStep
  <2> QED BY <2>1, <2>2 DEF TableTypeOK, MainTypeOK, Flag
<1>2. CASE SipReceive \/ SipHandle
  BY <1>2, ReceiveLeaves, HandleLeaves DEF mainVars, pushVars, tableVars, flagVars
<1>3. CASE PushNext
  <2>1. UNCHANGED <<threads, pushed>>
    BY <1>3, PushLeaves DEF mainVars, flagVars
  <2>2. \A c \in Cam : running'[c] <= running[c]
    <3> PICK c \in Cam : \/ PushPublish(c) \/ PushFrame(c) \/ PushGiveUp(c)
                        \/ PushStop(c) \/ SpinStop(c) \/ PushAbort(c)
      BY <1>3 DEF PushNext
    <3>1. running' = running \/ running' = [running EXCEPT ![c] = @ - 1]
      BY DEF PushPublish, PushFrame, PushGiveUp, PushStop, SpinStop, PushAbort
    <3> QED BY <3>1
  <2>3. \A c \in Cam : running'[c] \in Nat /\ running[c] \in Nat /\ threads[c] \in Nat
    BY PushTypeNext, <1>3 DEF LiveNext, MainTypeOK
  <2> QED BY <2>1, <2>2, <2>3
<1> QED BY <1>1, <1>2, <1>3 DEF LiveNext

(* The SIP thread writes to entries FindSipIndex returned, and main goes   *)
(* on from a flag such an entry has.                                       *)
LEMMA ShadowNext ==
  ASSUME IInv, LiveNext
  PROVE  ShadowInv'
<1> USE DEF IInv, TypeInv, LiveTypeOK, TableTypeOK, MainTypeOK, ShadowInv
<1>1. CASE MainStep
  <2>1. UNCHANGED <<alive, registered>>
    BY <1>1, MainLeaves
  <2>2. \/ UNCHANGED <<played, threads>>
        \/ /\ mainPc \in {"invited", "spawning"}
           /\ \/ played' = [played EXCEPT ![mainI] = 1] /\ threads' = threads
              \/ threads' = [threads EXCEPT ![mainI] = @ + 1] /\ played' = played
    BY <1>1 DEF MainStep, MainNext, Wake, InviteNext, InviteSkip, MarkPlayed,
       InvitePassDone, WatchPass, WatchSkip, WatchFound, Spawn, tableVars, flagVars, At
  <2>3. \A c \in Cam : Repeated(c) => played'[c] = 0 /\ threads'[c] = 0
    BY <2>2
  <2>4. mainPc' \in {"invited", "spawning"} =>
          /\ mainI' = mainI /\ mainI \in Cam
          /\ registered[mainI] = 1 \/ alive[mainI] = 1
    BY <1>1 DEF MainStep, MainNext, Wake, InviteNext, InviteSkip, MarkPlayed,
       InvitePassDone, WatchPass, WatchSkip, WatchFound, Spawn, WantsPush, At
  <2>5. mainPc' \in {"invited", "spawning"} => ~Repeated(mainI')
    BY <2>4
  <2> QED BY <2>1, <2>3, <2>5
<1>2. CASE SipReceive \/ PushNext
  BY <1>2, ReceiveLeaves, PushLeaves DEF mainVars, tableVars, flagVars
<1>3. CASE SipHandle
  <2>1. UNCHANGED mainVars
    BY <1>3, HandleLeaves
  <2>2. \A c \in Cam : Repeated(c) =>
          alive'[c] = alive[c] /\ registered'[c] = registered[c] /\ played'[c] = played[c]
    BY <1>3, HandleWrites DEF flagVars
  <2> QED BY <2>1, <2>2 DEF mainVars
<1> QED BY <1>1, <1>2, <1>3 DEF LiveNext

(* Every step, and a stutter, preserves the inductive invariant. *)
LEMMA IInvNext == IInv /\ [LiveNext]_vars => IInv'
<1> SUFFICES ASSUME IInv, [LiveNext]_vars PROVE IInv'
  OBVIOUS
<1>1. CASE LiveNext
  <2>1. TypeInv'
    BY <1>1, TableTypeNext, SipTypeNext, MainTypeNext, PushTypeNext
       DEF IInv, TypeInv, LiveTypeOK
  <2> QED
    BY <1>1, <2>1, SectionNext, OnlineNext, InvitedNext, PusherNext, ShadowNext DEF IInv
<1>2. CASE UNCHANGED vars
  BY <1>2 DEF vars, tableVars, flagVars, sipVars, mainVars, pushVars, IInv, TypeInv,
     LiveTypeOK, TableTypeOK, SipTypeOK, MainTypeOK, CountsInv, PlaceInv, SectionInv,
     OnlineInv, HalfWritten, InviteInv, NotReached, PusherInv, ShadowInv,
     Device, Sender
<1> QED BY <1>1, <1>2

(* IInv implies each of the four safety properties. *)
LEMMA IInvImplies ==
  IInv => SinglePusher /\ PushOnlyAsked /\ OnlineIsRegistered /\ FirstEntryOnly
<1> SUFFICES ASSUME IInv
             PROVE  SinglePusher /\ PushOnlyAsked /\ OnlineIsRegistered /\ FirstEntryOnly
  OBVIOUS
<1> USE DEF IInv
<1>1. \A c \in Cam : threads[c] = pushed[c] /\ pushed[c] \in {0, 1}
  BY DEF PusherInv, TypeInv, LiveTypeOK, TableTypeOK, Flag
<1>2. SinglePusher
  BY <1>1 DEF SinglePusher, PusherInv
<1>3. PushOnlyAsked
  BY <1>1 DEF PushOnlyAsked, InviteInv
<1>4. OnlineIsRegistered
  BY DEF OnlineIsRegistered, OnlineInv, HalfWritten, SectionInv
<1>5. FirstEntryOnly
  BY DEF FirstEntryOnly, ShadowInv
<1> QED BY <1>2, <1>3, <1>4, <1>5

-----------------------------------------------------------------------------
(* Main starts at most one push thread for a camera, for any number of     *)
(* cameras and any interleaving with the SIP thread: the test of pushed in *)
(* the watch loop and its write are never overtaken.                       *)
THEOREM SinglePusherHolds == LiveSpec => []SinglePusher
BY IInvInit, IInvNext, IInvImplies, PTL DEF LiveSpec

(* No camera is asked for its video twice, and none is marked as playing   *)
(* or pushed that main did not try to ask, even if a BYE falls between the *)
(* call and the write to played after it.  Whether the INVITE left is not  *)
(* said: main does not look.                                               *)
THEOREM PushOnlyAskedHolds == LiveSpec => []PushOnlyAsked
BY IInvInit, IInvNext, IInvImplies, PTL DEF LiveSpec

(* Whenever the SIP thread is outside its critical sections, a camera on   *)
(* line is registered.                                                     *)
THEOREM OnlineIsRegisteredHolds == LiveSpec => []OnlineIsRegistered
BY IInvInit, IInvNext, IInvImplies, PTL DEF LiveSpec

(* Of entries with one name only the first is ever on line, played or      *)
(* pushed.                                                                 *)
THEOREM FirstEntryOnlyHolds == LiveSpec => []FirstEntryOnly
BY IInvInit, IInvNext, IInvImplies, PTL DEF LiveSpec

-----------------------------------------------------------------------------
(* What PushThread is promised.  IInv does not say that the flags stay     *)
(* down: a camera that plays and is not on line, though it has its thread  *)
(* or is about to get it, is one whose BYE is being handled; and as long   *)
(* as main may raise played, there is no thread at all.                    *)
Calling == mainPc \in {"starting", "inviting", "invited", "settling"}

HasThread(c) == threads[c] > 0 \/ (mainPc = "spawning" /\ mainI = c)

HangingUp(c) == sipPc = "byePlayed" /\ Sender = c

ThreadInv ==
  /\ Calling => \A c \in Cam : pushed[c] = 0
  /\ \A c \in Cam : HasThread(c) /\ played[c] = 1 /\ alive[c] = 0 => HangingUp(c)

(* Whose push thread is blamed did end the process. *)
CulpritInv == culprits # {} => down

(* The invariant behind the promise. *)
TInv == IInv /\ ThreadInv /\ CulpritInv

(* A BYE is handled to its end before anything else raises alive. *)
LEMMA HandleFlags ==
  ASSUME IInv, SipHandle
  PROVE  \/ UNCHANGED <<alive, played>> /\ sipPc # "byePlayed"
         \/ /\ sipPc # "byePlayed" /\ played' = played
            /\ \E c \in Cam : alive' = [alive EXCEPT ![c] = 1]
         \/ /\ sipPc # "byePlayed" /\ sipPc' = "byePlayed" /\ played' = played
            /\ Sender \in Cam /\ alive' = [alive EXCEPT ![Sender] = 0]
         \/ /\ sipPc = "byePlayed" /\ alive' = alive
            /\ Sender \in Cam /\ played' = [played EXCEPT ![Sender] = 0]
BY DEF IInv, SectionInv, SipHandle, Handle, MessageUnknownDevice,
     MessageWithoutBody, MessageQuery, MessageResponse, MessageFromLacks, MessageOther,
     HasDevice, KeepAliveAlive, KeepAliveRegistered, DispatchRegister, RegisterNothing,
     RegisterNameless, RegisterAlive, RegisterRegistered, ByeNothing, ByeNameless,
     ByeAlive, ByePlayed, CallAnswered, Ignored, Dispatched, Ends, tableVars, flagVars

(* Main raises played during the invite pass only and pushes afterwards;   *)
(* the SIP thread lowers both flags for one and the same camera.           *)
LEMMA ThreadNext ==
  ASSUME TInv, LiveNext
  PROVE  ThreadInv'
<1> USE DEF TInv, ThreadInv, Calling, HasThread, HangingUp
<1>0. alive \in [Cam -> {0, 1}] /\ played \in [Cam -> {0, 1}] /\ pushed \in [Cam -> {0, 1}]
      /\ threads \in [Cam -> Nat] /\ \A c \in Cam : threads[c] = pushed[c]
  BY DEF IInv, TypeInv, LiveTypeOK, TableTypeOK, MainTypeOK, Flag, PusherInv
<1>1. CASE MainStep
  <2>1. UNCHANGED <<alive, sipPc>> /\ Sender' = Sender
    BY <1>1, MainLeaves DEF sipVars, Sender
  <2>2. mainPc \in {"invited", "spawning"} => mainI \in Cam
    BY DEF IInv, TypeInv, PlaceInv
  <2> USE DEF At
  <2>3. CASE Wake \/ InviteNext \/ InviteSkip \/ InvitePassDone \/ WatchPass \/ WatchSkip
    BY <2>1, <2>3, <1>0 DEF Wake, InviteNext, InviteSkip, InvitePassDone, WatchPass,
       WatchSkip, tableVars, flagVars
  <2>4. CASE MarkPlayed
    BY <2>1, <2>2, <2>4, <1>0 DEF MarkPlayed
  <2>5. CASE WatchFound
    BY <2>1, <2>5, <1>0 DEF WatchFound, WantsPush, tableVars, flagVars
  <2>6. CASE Spawn
    BY <2>1, <2>2, <2>6, <1>0 DEF Spawn
  <2> QED BY <1>1, <2>3, <2>4, <2>5, <2>6 DEF MainStep, MainNext
<1>2. CASE SipReceive
  BY <1>2, ReceiveLeaves DEF mainVars, tableVars, flagVars
<1>3. CASE SipHandle
  <2>1. /\ UNCHANGED <<mainPc, mainI, threads, pushed>>
        /\ sipPc' = "wait" \/ Sender' = Sender
    BY <1>3, HandleLeaves DEF mainVars, Sender
  <2> QED BY <1>0, <1>3, <2>1, HandleFlags
<1>4. CASE PushNext
  BY <1>4, PushLeaves DEF sipVars, mainVars, flagVars, Sender
<1> QED BY <1>1, <1>2, <1>3, <1>4 DEF LiveNext

(* Nobody runs on when the process has ended. *)
LEMMA CulpritNext ==
  ASSUME TInv, LiveNext
  PROVE  CulpritInv'
<1> USE DEF TInv, CulpritInv
<1>1. CASE MainStep
  BY <1>1, MainLeaves DEF MainStep
<1>2. CASE SipReceive \/ SipHandle
  BY <1>2, ReceiveLeaves, HandleLeaves DEF SipReceive, SipHandle, pushVars
<1>3. CASE PushNext
  BY <1>3 DEF PushNext, PushPublish, PushFrame, PushGiveUp, PushStop, SpinStop, PushAbort,
     Survives, Dies, tableVars
<1> QED BY <1>1, <1>2, <1>3 DEF LiveNext

(* What PushThread is promised is kept by every step. *)
LEMMA TInvHolds == LiveSpec => []TInv
<1>1. LiveInit => ThreadInv /\ CulpritInv
  BY DEF LiveInit, TableInit, MainInit, ThreadInv, Calling, HasThread, CulpritInv
<1>2. TInv /\ [LiveNext]_vars => ThreadInv' /\ CulpritInv'
  <2> SUFFICES ASSUME TInv, [LiveNext]_vars PROVE ThreadInv' /\ CulpritInv'
    OBVIOUS
  <2>1. CASE UNCHANGED vars
    <3>1. ThreadInv'
      BY <2>1 DEF TInv, ThreadInv, Calling, HasThread, HangingUp, Sender, vars, tableVars,
         flagVars, sipVars, mainVars
    <3>2. CulpritInv'
      BY <2>1 DEF TInv, CulpritInv, vars, tableVars, pushVars
    <3> QED BY <3>1, <3>2
  <2> QED BY <2>1, ThreadNext, CulpritNext
<1> QED BY <1>1, <1>2, IInvInit, IInvNext, PTL DEF LiveSpec, TInv

(* A camera whose flags and counts stay, and whose thread does not end the *)
(* process: its thread does nothing, or the process ends over it.          *)
LEMMA Untouched ==
  ASSUME NEW c \in Cam, ~down, c \notin culprits, c \notin culprits', down' = down \/ down' = TRUE,
         alive'[c] = alive[c], played'[c] = played[c], threads'[c] = threads[c],
         running'[c] = running[c], publishing'[c] = publishing[c],
         spinning'[c] = spinning[c], framed'[c] = framed[c]
  PROVE  PT(c)!PTNext \/ UNCHANGED PT(c)!ptVars
<1>1. ThreadOf(c)' = ThreadOf(c) /\ EndedBy(c) = "no"
  BY DEF ThreadOf, EndedBy
<1>2. (alive[c] = 1 /\ played[c] = 1) <=> (alive'[c] = 1 /\ played'[c] = 1)
  OBVIOUS
<1>3. CASE down' = TRUE
  <2>1. EndedBy(c)' = "others"
    BY <1>3 DEF EndedBy
  <2> QED BY <1>1, <1>2, <2>1 DEF PT!PTNext, PT!Gone
<1>4. CASE down' = down
  <2>1. EndedBy(c)' = EndedBy(c)
    BY <1>4 DEF EndedBy
  <2> QED BY <1>1, <1>2, <2>1 DEF PT!ptVars
<1> QED BY <1>3, <1>4

(* The flags of a camera fall, or they rise while it has no thread.        *)
LEMMA FlagsChange ==
  ASSUME NEW c \in Cam, ~down, c \notin culprits, culprits' = culprits, down' = down,
         threads'[c] = threads[c], running'[c] = running[c],
         publishing'[c] = publishing[c], spinning'[c] = spinning[c], framed'[c] = framed[c],
         alive'[c] = 1 /\ played'[c] = 1 => threads[c] = 0 \/ (alive[c] = 1 /\ played[c] = 1)
  PROVE  PT(c)!PTNext \/ UNCHANGED PT(c)!ptVars
<1>1. /\ ThreadOf(c)' = ThreadOf(c) /\ (threads[c] = 0 => ThreadOf(c) = "none")
      /\ EndedBy(c) = "no" /\ EndedBy(c)' = "no"
  BY DEF ThreadOf, EndedBy
<1>2. CASE (alive[c] = 1 /\ played[c] = 1) <=> (alive'[c] = 1 /\ played'[c] = 1)
  BY <1>1, <1>2 DEF PT!ptVars
<1>3. CASE ~((alive[c] = 1 /\ played[c] = 1) <=> (alive'[c] = 1 /\ played'[c] = 1))
  BY <1>1, <1>3 DEF PT!PTNext, PT!Wish
<1> QED BY <1>2, <1>3

(* The counts of a camera that has one thread at most say where it stands. *)
LEMMA OneThread ==
  ASSUME TInv, NEW c \in Cam
  PROVE  /\ threads[c] \in {0, 1} /\ running[c] \in {0, 1}
         /\ publishing[c] \in {0, 1} /\ spinning[c] \in {0, 1}
         /\ running[c] <= threads[c] /\ publishing[c] + spinning[c] <= running[c]
<1>1. pushed[c] \in {0, 1} /\ threads[c] = pushed[c]
  BY DEF TInv, IInv, TypeInv, LiveTypeOK, TableTypeOK, Flag, PusherInv
<1>2. running[c] \in Nat /\ publishing[c] \in Nat /\ spinning[c] \in Nat
  BY DEF TInv, IInv, TypeInv, LiveTypeOK
<1>3. running[c] <= threads[c] /\ publishing[c] + spinning[c] <= running[c]
  BY DEF TInv, IInv, TypeInv, PusherInv, CountsInv
<1> QED BY <1>1, <1>2, <1>3

(* What a push thread does, PushThread allows: it ends the process in its  *)
(* three places only, and frees its buffers only when it is not wanted.    *)
LEMMA PushAsPromised ==
  ASSUME TInv, NEW c \in Cam, ~down,
         \/ PushPublish(c) \/ PushFrame(c) \/ PushGiveUp(c)
         \/ PushStop(c) \/ SpinStop(c) \/ PushAbort(c)
  PROVE  PT(c)!PTNext
<1> USE DEF Connecting, Publishing
<1>0. /\ running \in [Cam -> Nat] /\ publishing \in [Cam -> Nat] /\ spinning \in [Cam -> Nat]
      /\ framed \in [Cam -> BOOLEAN] /\ c \notin culprits
  BY DEF TInv, IInv, TypeInv, LiveTypeOK, CulpritInv
<1>1. UNCHANGED <<alive, played, threads>> /\ EndedBy(c) = "no"
  BY <1>0, PushLeaves DEF PushNext, flagVars, mainVars, EndedBy
<1>2. /\ Survives => EndedBy(c)' = "no"
      /\ Dies(c) => EndedBy(c)' = "thread"
  BY <1>0 DEF Survives, Dies, EndedBy
<1>3. CASE PushPublish(c)
  <2>1. ThreadOf(c) = "connecting" /\ ThreadOf(c)' = "publishing"
    BY <1>0, <1>1, <1>3, OneThread DEF PushPublish, ThreadOf
  <2>2. Survives /\ framed' = framed
    BY <1>3 DEF PushPublish, Survives, tableVars
  <2> QED BY <1>1, <1>2, <2>1, <2>2 DEF PT!PTNext, PT!Publish
<1>4. CASE PushFrame(c)
  <2>1. ThreadOf(c) = "publishing" /\ ThreadOf(c)' = "publishing" /\ framed'[c] = TRUE
    BY <1>0, <1>1, <1>4, OneThread DEF PushFrame, ThreadOf
  <2>2. Survives \/ Dies(c)
    BY <1>4 DEF PushFrame
  <2> QED BY <1>1, <1>2, <2>1, <2>2 DEF PT!PTNext, PT!Work
<1>5. CASE PushGiveUp(c)
  <2>1. ThreadOf(c) = "connecting" /\ ThreadOf(c)' = "spinning"
    BY <1>0, <1>1, <1>5, OneThread DEF PushGiveUp, ThreadOf
  <2>2. Survives /\ framed' = framed
    BY <1>5 DEF PushGiveUp, Survives, tableVars
  <2> QED BY <1>1, <1>2, <2>1, <2>2 DEF PT!PTNext, PT!GiveUp
<1>6. CASE PushAbort(c)
  <2>1. ThreadOf(c) = "publishing" /\ ThreadOf(c)' = "publishing" /\ framed' = framed
    BY <1>0, <1>1, <1>6, OneThread DEF PushAbort, ThreadOf
  <2>2. Dies(c)
    BY <1>6 DEF PushAbort
  <2> QED BY <1>1, <1>2, <2>1, <2>2 DEF PT!PTNext, PT!Fail
<1>7. CASE PushStop(c) \/ SpinStop(c)
  <2>1. running[c] = 1 /\ running' = [running EXCEPT ![c] = @ - 1]
    BY <1>0, <1>7, OneThread DEF PushStop, SpinStop
  <2>2. running'[c] = 0 /\ threads[c] = 1 /\ threads'[c] = 1
    BY <1>0, <1>1, <2>1, OneThread
  <2>3. /\ ThreadOf(c) \in {"connecting", "publishing", "spinning"}
        /\ ThreadOf(c)' = "ended"
    BY <2>1, <2>2 DEF ThreadOf
  <2>4. framed' = framed /\ ~(alive[c] = 1 /\ played[c] = 1)
    BY <1>7 DEF PushStop, SpinStop, StopWanted
  <2>5. Survives \/ (framed[c] /\ Dies(c) /\ publishing[c] > 0)
    BY <1>7 DEF PushStop, SpinStop, Survives, tableVars
  <2>6. publishing[c] > 0 => ThreadOf(c) = "publishing"
    BY <1>0, <2>1, <2>2, OneThread DEF ThreadOf
  <2> QED BY <1>1, <1>2, <2>3, <2>4, <2>5, <2>6 DEF PT!PTNext, PT!Stop
<1> QED BY <1>3, <1>4, <1>5, <1>6, <1>7

(* Every step of the server is to each of its threads one PushThread       *)
(* allows.                                                                 *)
LEMMA StepsAsPromised ==
  ASSUME TInv, LiveNext, NEW c \in Cam
  PROVE  PT(c)!PTNext \/ UNCHANGED PT(c)!ptVars
<1> USE DEF TInv
<1>0. /\ alive \in [Cam -> {0, 1}] /\ played \in [Cam -> {0, 1}] /\ pushed \in [Cam -> {0, 1}]
      /\ running \in [Cam -> Nat] /\ publishing \in [Cam -> Nat] /\ spinning \in [Cam -> Nat]
      /\ framed \in [Cam -> BOOLEAN] /\ threads \in [Cam -> Nat] /\ down \in BOOLEAN
      /\ \A d \in Cam : threads[d] = pushed[d] /\ running[d] <= threads[d]
  BY DEF IInv, TypeInv, LiveTypeOK, TableTypeOK, MainTypeOK, Flag, PusherInv
<1>00. ~down => c \notin culprits
  BY DEF CulpritInv
<1>1. CASE MainStep
  <2>1. /\ UNCHANGED <<alive, publishing, spinning, framed, culprits>> /\ ~down
        /\ running' = [d \in Cam |-> running[d] + (threads'[d] - threads[d])]
        /\ down' = down \/ down' = TRUE
    BY <1>1, <1>0, MainLeaves DEF MainStep
  <2>2. mainPc \in {"invited", "spawning"} => mainI \in Cam
    BY DEF IInv, TypeInv, PlaceInv
  <2> USE DEF At
  <2>3. CASE Wake \/ InviteNext \/ InviteSkip \/ InvitePassDone \/ WatchPass \/ WatchSkip
             \/ WatchFound
    <3>1. UNCHANGED <<played, threads>>
      BY <2>3 DEF Wake, InviteNext, InviteSkip, InvitePassDone, WatchPass, WatchSkip,
         WatchFound, tableVars, flagVars
    <3>2. running'[c] = running[c]
      BY <1>0, <2>1, <3>1
    <3>3. c \notin culprits /\ c \notin culprits'
      BY <1>00, <2>1
    <3> QED BY <2>1, <3>1, <3>2, <3>3, Untouched
  <2>4. CASE MarkPlayed
    <3>1. /\ threads' = threads /\ played' = [played EXCEPT ![mainI] = 1] /\ down' = down
          /\ mainI \in Cam /\ threads[mainI] = 0
      BY <1>0, <2>2, <2>4 DEF MarkPlayed, ThreadInv, Calling
    <3> QED BY <1>0, <1>00, <2>1, <3>1, FlagsChange
  <2>5. CASE Spawn
    <3>1. /\ threads' = [threads EXCEPT ![mainI] = @ + 1] /\ played' = played /\ down' = down
          /\ mainI \in Cam /\ threads[mainI] = 0
      BY <1>0, <2>2, <2>5 DEF Spawn, IInv, InviteInv
    <3>2. CASE c # mainI
      BY <1>0, <1>00, <2>1, <3>1, <3>2, Untouched
    <3>3. CASE c = mainI
      <4>1. ThreadOf(c) = "none" /\ ThreadOf(c)' = "connecting"
        BY <1>0, <2>1, <3>1, <3>3, OneThread DEF ThreadOf
      <4>2. EndedBy(c) = "no" /\ EndedBy(c)' = "no"
        BY <1>00, <2>1, <3>1 DEF EndedBy
      <4> QED BY <2>1, <3>1, <4>1, <4>2 DEF PT!PTNext, PT!Begin
    <3> QED BY <3>2, <3>3
  <2> QED BY <1>1, <2>3, <2>4, <2>5 DEF MainStep, MainNext
<1>2. CASE SipReceive
  <2>1. UNCHANGED <<alive, played, threads, running, publishing, spinning, framed, culprits, down>>
        /\ ~down
    BY <1>2, ReceiveLeaves DEF SipReceive, tableVars, flagVars, mainVars, pushVars
  <2> QED BY <1>00, <2>1, Untouched
<1>3. CASE SipHandle
  <2>1. UNCHANGED <<threads, running, publishing, spinning, framed, culprits>> /\ ~down
    BY <1>3, HandleLeaves DEF SipHandle, mainVars, pushVars
  <2>2. CASE UNCHANGED <<alive, played>>
    <3>1. down' \in BOOLEAN
      BY <1>3, TableTypeNext DEF IInv, LiveNext, TableTypeOK
    <3> QED BY <1>0, <1>00, <2>1, <2>2, <3>1, Untouched
  <2>3. CASE ~UNCHANGED <<alive, played>>
    <3>1. down' = down
      BY <1>3, <2>3 DEF SipHandle, Handle, MessageUnknownDevice, MessageWithoutBody,
         MessageQuery, MessageResponse, MessageFromLacks, MessageOther, KeepAliveAlive,
         KeepAliveRegistered, DispatchRegister, RegisterNothing, RegisterNameless,
         RegisterAlive, RegisterRegistered, ByeNothing, ByeNameless, ByeAlive, ByePlayed,
         CallAnswered, Ignored, Ends, tableVars, flagVars
    <3>2. alive'[c] = 1 /\ played'[c] = 1 => threads[c] = 0 \/ (alive[c] = 1 /\ played[c] = 1)
      BY <1>0, <1>3, <2>3, HandleFlags DEF ThreadInv, HasThread, HangingUp
    <3> QED BY <1>00, <2>1, <3>1, <3>2, FlagsChange
  <2> QED BY <2>2, <2>3
<1>4. CASE PushNext
  <2>1. UNCHANGED <<alive, played, threads>> /\ (down' = down \/ down' = TRUE)
    BY <1>4, PushLeaves DEF flagVars, mainVars
  <2>2. PICK d \in Cam : \/ PushPublish(d) \/ PushFrame(d) \/ PushGiveUp(d)
                         \/ PushStop(d) \/ SpinStop(d) \/ PushAbort(d)
    BY <1>4 DEF PushNext
  <2>3. ~down
    BY <2>2 DEF PushPublish, PushFrame, PushGiveUp, PushStop, SpinStop, PushAbort,
       Connecting, Publishing
  <2>4. CASE c # d
    <3>1. /\ running'[c] = running[c] /\ publishing'[c] = publishing[c]
          /\ spinning'[c] = spinning[c] /\ framed'[c] = framed[c]
          /\ culprits' = culprits \/ culprits' = {d}
      BY <1>0, <2>2, <2>4 DEF PushPublish, PushFrame, PushGiveUp, PushStop, SpinStop,
         PushAbort, Survives, Dies
    <3>2. c \notin culprits'
      BY <1>00, <2>3, <2>4, <3>1
    <3> QED BY <1>00, <2>1, <2>3, <3>1, <3>2, Untouched
  <2> QED BY <2>2, <2>3, <2>4, PushAsPromised
<1> QED BY <1>1, <1>2, <1>3, <1>4 DEF LiveNext

(* To every push thread the server keeps its side of PushThread, for any   *)
(* number of cameras and any events: the flags the thread polls do not     *)
(* come up again once it has seen them down.                               *)
THEOREM ThreadsAsPromisedHolds == LiveSpec => ThreadsAsPromised
<1>1. LiveInit => \A c \in Cam : PT(c)!PTInit
  BY DEF LiveInit, TableInit, MainInit, PT!PTInit, ThreadOf, EndedBy
<1>2. TInv /\ [LiveNext]_vars => [\A c \in Cam : PT(c)!PTNext \/ UNCHANGED PT(c)!ptVars]_vars
  BY StepsAsPromised
<1> QED BY <1>1, <1>2, TInvHolds, PTL DEF LiveSpec, ThreadsAsPromised
=============================================================================
