----------------------------- MODULE CameraPush -----------------------------
(***************************************************************************)
(* One push thread: CameraPush::Run with push_type_ = SRS on the copy of   *)
(* the CameraPush that std::thread made, from the first srs_rtmp_create to *)
(* the destructor.  The other threads reach it through alive and played    *)
(* only; LiveServer shows that both, once seen down, never come up again   *)
(* together, so they are one flag here, wanted, that can only fall.  Of    *)
(* the RTP session only complete frames are kept, with the NAL units the   *)
(* handler looks at.                                                       *)
(***************************************************************************)
EXTENDS Integers, Sequences

CONSTANTS
  MAX_RETRY_TIME,  \* the #define of srs_push.cpp
  Frames           \* reassembled frames: sequences of NAL units, or Garbage

Nal     == {"sps", "pps", "idr", "p", "other"}
Garbage == <<"garbage">>  \* does not begin with an annexb start code

ASSUME CameraPushAssumption ==
  /\ MAX_RETRY_TIME \in Nat
  /\ Frames \subseteq Seq(Nal) \cup {Garbage}

VARIABLES
  wanted,    \* campar_->played && campar_->alive
  pc,        \* where push_stream_srs stands
  rtmp,      \* rtmp_: 0 for nullptr, or an index into contexts
  status,    \* rtmp_status_
  retrys,    \* retrys_
  needKey,   \* need_keyframe_
  contexts,  \* every srs_rtmp_create called: url, how far it got, allocated
  aliased,   \* returnps points into frame
  first,     \* the first NAL unit written to the stream, "none" before it
  dead       \* the process has ended

vars == <<wanted, pc, rtmp, status, retrys, needKey, contexts, aliased, first,
          dead>>

Statuses == {"Init", "Handshaked", "Connected", "Published", "Closed"}

(* A context of librtmp: the address it was created with, how far its      *)
(* connection has got, whether it is still allocated.                      *)
Context == [url : {"literal", "StreamIp"}, step : Statuses, live : BOOLEAN]

(* The call that takes a context on from each status, and what follows. *)
Steps == [Init       |-> "Handshaked",
          Handshaked |-> "Connected",
          Connected  |-> "Published"]

Init ==
  /\ wanted \in BOOLEAN
  /\ pc = "start" /\ rtmp = 0 /\ status = "Init" /\ retrys = 0
  /\ needKey = TRUE /\ contexts = <<>>
  /\ aliased = FALSE /\ first = "none" /\ dead = FALSE

(* srs_rtmp_create(url) onto a list of contexts; it returns nullptr if no  *)
(* socket can be had.                                                      *)
Create(list, url) ==
  \E ok \in BOOLEAN :
    /\ contexts' = Append(list, [url |-> url, step |-> "Init", live |-> ok])
    /\ rtmp' = IF ok THEN Len(list) + 1 ELSE 0

(* Mutant of Destroyed: CallDisconnect only lets go of the pointer. *)
NothingDestroyed == contexts

(* srs_rtmp_destroy(rtmp_), which leaves a nullptr alone. *)
Destroyed == [i \in DOMAIN contexts |->
                [contexts[i] EXCEPT !.live = @ /\ i # rtmp]]

(* The first context: the address is written in the source. *)
Start ==
  /\ pc = "start"
  /\ Create(contexts, "literal")
  /\ pc' = "loop"
  /\ UNCHANGED <<wanted, status, retrys, needKey, aliased, first, dead>>

Working == pc = "loop" /\ wanted /\ rtmp # 0

(* srs_rtmp_handshake, _connect_app or _publish_stream succeeds; after the *)
(* last of them CallConnect.                                               *)
StepSucceeds ==
  /\ Working /\ status \in DOMAIN Steps
  /\ status' = Steps[status]
  /\ contexts' = [contexts EXCEPT ![rtmp].step = Steps[status]]
  /\ IF status' = "Published"
     THEN needKey' = TRUE /\ retrys' = 0
     ELSE UNCHANGED <<needKey, retrys>>
  /\ UNCHANGED <<wanted, pc, rtmp, aliased, first, dead>>

(* Mutant of Reset: the new context is taken for as far on as the old one. *)
ResetKeyOnly == needKey' = TRUE /\ UNCHANGED status

(* CallDisconnect begins anew, whatever had been reached. *)
Reset == status' = "Init" /\ needKey' = TRUE

(* Mutants of RetryLeft: compares before it counts; never stops. *)
RetryLeftBefore == retrys <= MAX_RETRY_TIME
RetryAlways     == TRUE

(* retrys_ is counted up, then compared. *)
RetryLeft == retrys + 1 <= MAX_RETRY_TIME

(* Mutant of StepFailsRetry: counts the retries down. *)
StepFailsCountsDown ==
  /\ Working /\ status \in DOMAIN Steps
  /\ RetryLeft
  /\ Create(Destroyed, "StreamIp")
  /\ retrys' = retrys - 1
  /\ Reset
  /\ UNCHANGED <<wanted, pc, aliased, first, dead>>

(* CallDisconnect with a retry left: the address is campar_->StreamIp. *)
StepFailsRetry ==
  /\ Working /\ status \in DOMAIN Steps
  /\ RetryLeft
  /\ Create(Destroyed, "StreamIp")
  /\ retrys' = retrys + 1
  /\ Reset
  /\ UNCHANGED <<wanted, pc, aliased, first, dead>>

(* CallDisconnect without: rtmp_ stays nullptr and the loop goes on. *)
StepFailsLast ==
  /\ Working /\ status \in DOMAIN Steps
  /\ ~RetryLeft
  /\ contexts' = Destroyed /\ rtmp' = 0
  /\ retrys' = retrys + 1
  /\ Reset
  /\ UNCHANGED <<wanted, pc, aliased, first, dead>>

(* The loop without a context touches nothing but the two flags; being a   *)
(* data race, the build may have it read them once and never again.        *)
SpinForGood ==
  /\ pc = "loop" /\ wanted /\ rtmp = 0
  /\ pc' = "spin"
  /\ UNCHANGED <<wanted, rtmp, status, retrys, needKey, contexts, aliased, first, dead>>

LeaveLoop ==
  /\ pc = "loop" /\ ~wanted
  /\ pc' = "return"
  /\ UNCHANGED <<wanted, rtmp, status, retrys, needKey, contexts, aliased, first, dead>>

-----------------------------------------------------------------------------
(* OnH264Data.  checkerror ends the process if there is no RTP session. *)
OpenSession ==
  /\ Working /\ status = "Published"
  /\ \/ pc' = "receive" /\ aliased' = FALSE /\ UNCHANGED dead
     \/ dead' = TRUE /\ UNCHANGED <<pc, aliased>>
  /\ UNCHANGED <<wanted, rtmp, status, retrys, needKey, contexts, first>>

(* Mutant of KeepReceiving: the loop condition that is commented out above *)
(* the one in force.                                                       *)
StillPublished == status = "Published"

(* The condition of the receive loop. *)
KeepReceiving == wanted

(* Mutant of Kept: does not wait for an SPS. *)
AllWritten(f) == {i \in DOMAIN f : f[i] # "other"}

(* The NAL units of a frame that srs_h264_write_raw_frames is called for:  *)
(* a unit of another type is passed over, and so is every one before an    *)
(* SPS if no SPS has come since the stream was published.                  *)
Kept(f) ==
  LET Written(i) == /\ f[i] # "other"
                    /\ ~needKey \/ \E j \in 1 .. i : f[j] = "sps"
  IN  {i \in DOMAIN f : Written(i)}

(* A packet with the marker completes a frame.  If its payload does not    *)
(* begin with a start code, read_h264_frame leaves the pointer null that   *)
(* is read next; if it is longer than the buffers, the copy runs past      *)
(* them, which the heap may or may not survive.  What a write returns is   *)
(* ignored.                                                                *)
ReceiveFrame(f) ==
  /\ pc = "receive" /\ KeepReceiving
  /\ aliased' = TRUE
  /\ IF f = Garbage
     THEN dead' = TRUE /\ UNCHANGED <<needKey, first>>
     ELSE /\ needKey' = (needKey /\ \A i \in DOMAIN f : f[i] # "sps")
          /\ IF first # "none" \/ Kept(f) = {}
             THEN UNCHANGED first
             ELSE \E i \in Kept(f) : /\ \A j \in Kept(f) : i <= j
                                     /\ first' = f[i]
          /\ dead' \in BOOLEAN
  /\ UNCHANGED <<wanted, pc, rtmp, status, retrys, contexts>>

(* checkerror after Poll. *)
PollFails ==
  /\ pc = "receive" /\ KeepReceiving
  /\ dead' = TRUE
  /\ UNCHANGED <<wanted, pc, rtmp, status, retrys, needKey, contexts, aliased, first>>

(* Mutant of EndReceive: one buffer is freed twice whether or not a frame  *)
(* was completed.                                                          *)
EndReceiveFreesTwice ==
  /\ pc = "receive" /\ ~KeepReceiving
  /\ pc' = "return"
  /\ dead' \in BOOLEAN
  /\ UNCHANGED <<wanted, rtmp, status, retrys, needKey, contexts, aliased, first>>

(* delete[] frame; delete[] returnps: the same buffer twice if a frame was *)
(* ever completed.  The loop around OnH264Data then finds the same two     *)
(* flags, which stay down, and is left as well.                            *)
EndReceive ==
  /\ pc = "receive" /\ ~KeepReceiving
  /\ pc' = "return"
  /\ dead' \in (IF aliased THEN BOOLEAN ELSE {FALSE})
  /\ UNCHANGED <<wanted, rtmp, status, retrys, needKey, contexts, aliased, first>>

(* Run returns and the thread destroys its copy of the CameraPush. *)
Destructor ==
  /\ pc = "return"
  /\ status' = "Closed"
  /\ contexts' = Destroyed /\ rtmp' = 0
  /\ pc' = "closed"
  /\ UNCHANGED <<wanted, retrys, needKey, aliased, first, dead>>

(* The SIP thread clears a flag. *)
Unwanted ==
  /\ wanted /\ pc # "closed"
  /\ wanted' = FALSE
  /\ UNCHANGED <<pc, rtmp, status, retrys, needKey, contexts, aliased, first, dead>>

ThreadStep ==
  \/ Start \/ StepSucceeds \/ StepFailsRetry \/ StepFailsLast
  \/ LeaveLoop \/ OpenSession \/ EndReceive \/ Destructor

Next == \/ ~dead /\ ThreadStep
        \/ ~dead /\ \E f \in Frames : ReceiveFrame(f)
        \/ ~dead /\ PollFails
        \/ ~dead /\ SpinForGood
        \/ ~dead /\ Unwanted

(* Calls into librtmp and the RTP session return; frames, errors of the    *)
(* session, the end of the camera's video and a build that hoists the      *)
(* flags need not come.                                                    *)
Spec == Init /\ [][Next]_vars /\ WF_vars(~dead /\ ThreadStep)

-----------------------------------------------------------------------------
(* What the variables of the push thread hold. *)
TypeOK ==
  /\ wanted \in BOOLEAN
  /\ pc \in {"start", "loop", "spin", "receive", "return", "closed"}
  /\ rtmp \in 0 .. Len(contexts)
  /\ status \in Statuses
  /\ retrys \in Nat
  /\ needKey \in BOOLEAN
  /\ contexts \in Seq(Context)
  /\ aliased \in BOOLEAN
  /\ first \in Nal \cup {"none"}
  /\ dead \in BOOLEAN

(* rtmp_status_ belongs to CameraPush, the progress of the connection to   *)
(* the librtmp context, and CallDisconnect replaces the second: the two    *)
(* always agree, so that no context is asked for a step before its turn,   *)
(* and rtmp_ never names a context that has been destroyed.                *)
StatusMatchesContext ==
  rtmp # 0 => contexts[rtmp].live /\ contexts[rtmp].step = status

(* Whatever fails, whenever the video ends: each context is destroyed      *)
(* before the next is created, and none outlives the thread.               *)
NoContextLeft == \A i \in DOMAIN contexts : contexts[i].live => i = rtmp

(* At most MAX_RETRY_TIME retries follow the first attempt, all told, and  *)
(* a stream that was published was published within them.                  *)
AttemptsBounded == Len(contexts) <= MAX_RETRY_TIME + 1

(* The stream a viewer joins begins with an SPS, however the NAL units     *)
(* that arrive first are mixed.                                            *)
StreamBeginsWithSps == first \in {"none", "sps"}

(* What can be told of the thread from outside. *)
Phase == IF pc = "closed" THEN "ended"
         ELSE IF status = "Published" THEN "publishing"
         ELSE IF pc # "start" /\ rtmp = 0 THEN "gaveUp"
         ELSE "connecting"

PC == INSTANCE PushContract
        WITH Tries <- MAX_RETRY_TIME + 1, phase <- Phase,
             attempts <- Len(contexts)

(* The retry loop implements the contract: publish or give up in a bounded *)
(* number of tries, and never go back.                                     *)
ImplementsContract == PC!PCSpec

(* Once out of its loops the thread has nothing left to free but its       *)
(* context.                                                                *)
Thread == IF pc \in {"return", "closed"} THEN "ended"
          ELSE IF pc # "start" /\ rtmp = 0 THEN "spinning"
          ELSE IF status = "Published" THEN "publishing" ELSE "connecting"

PT == INSTANCE PushThread
        WITH thread <- Thread, framed <- aliased,
             down <- IF dead THEN "thread" ELSE "no"

(* The thread is one of those LiveServer puts in its place: it frees its   *)
(* buffers after the flags have fallen only, never gives up once it has    *)
(* published, and ends the process in three places only: where a frame is  *)
(* taken apart, where checkerror finds the RTP session broken, and where   *)
(* it frees the buffer of a frame twice.  Without a frame the end of the   *)
(* video costs nothing but the thread.                                     *)
IsPushThread == PT!PTSpec

(* When the camera's video ends, so does its thread, unless it had given   *)
(* up and spins on flags it no longer reads, or took the process with it.  *)
UnwantedEnds == ~wanted ~> (pc \in {"closed", "spin"} \/ dead)
=============================================================================
