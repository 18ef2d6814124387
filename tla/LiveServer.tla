----------------------------- MODULE LiveServer -----------------------------
(***************************************************************************)
(* The running server: the SIP thread, the main thread and the push        *)
(* threads main starts, sharing the camera table.  Of a push thread        *)
(* (CameraPush::Run) only what the rest of the server can see is kept: it  *)
(* looks at alive and played, may publish and work on video frames, may    *)
(* give up connecting, may end, may end the whole process.                 *)
(***************************************************************************)
EXTENDS SipServer, MainThread

VARIABLES
  running,     \* push threads of a camera that have not ended
  publishing,  \* those of them whose stream is published
  spinning,    \* those of them that gave up and loop with rtmp_ = nullptr
  framed,      \* a push thread of the camera has worked on a frame
  culprits     \* the cameras whose push thread ended the process

pushVars == <<running, publishing, spinning, framed, culprits>>
vars     == <<tableVars, sipVars, mainVars, pushVars>>

LiveInit ==
  /\ TableInit /\ SipInit /\ MainInit
  /\ running    = [c \in Cam |-> 0]
  /\ publishing = [c \in Cam |-> 0]
  /\ spinning   = [c \in Cam |-> 0]
  /\ framed     = [c \in Cam |-> FALSE]
  /\ culprits   = {}

(* The thread main starts is one more that runs. *)
MainStep ==
  /\ ~down
  /\ MainNext
  /\ running' = [c \in Cam |-> running[c] + (threads'[c] - threads[c])]
  /\ UNCHANGED <<sipVars, publishing, spinning, framed, culprits>>

SipReceive == /\ ~down
              /\ \E e \in PeerEvents : Receive(e)
              /\ UNCHANGED <<mainVars, pushVars>>

SipHandle == ~down /\ Handle /\ UNCHANGED <<mainVars, pushVars>>

-----------------------------------------------------------------------------
Connecting(c) == ~down /\ running[c] > publishing[c] + spinning[c]
Publishing(c) == ~down /\ publishing[c] > 0

(* A push thread of the camera ends the process. *)
Dies(c) == down' = TRUE /\ culprits' = {c}

Survives == UNCHANGED <<down, culprits>>

PushPublish(c) ==
  /\ Connecting(c)
  /\ publishing' = [publishing EXCEPT ![c] = @ + 1]
  /\ UNCHANGED <<tableVars, sipVars, mainVars, running, spinning, framed, culprits>>

(* OnH264Data has reassembled a frame; from here on returnps and frame are *)
(* the same buffer, because GetH246FromPs returns the one it was given.    *)
(* A frame that has no start code, or is longer than the buffers, may end  *)
(* the process.                                                            *)
PushFrame(c) ==
  /\ Publishing(c)
  /\ framed' = [framed EXCEPT ![c] = TRUE]
  /\ Survives \/ Dies(c)
  /\ UNCHANGED <<flagVars, camMutex, invites, sipVars, mainVars, running, publishing, spinning>>

(* The retries are used up, or no socket is left for the next. *)
PushGiveUp(c) ==
  /\ Connecting(c)
  /\ spinning' = [spinning EXCEPT ![c] = @ + 1]
  /\ UNCHANGED <<tableVars, sipVars, mainVars, running, publishing, framed, culprits>>

(* Mutant of StopWanted: the loops go on while either flag is up. *)
StopWantedByBoth(c) == played[c] = 0 /\ alive[c] = 0

StopWanted(c) == played[c] = 0 \/ alive[c] = 0

(* The loop condition is false.  A thread that publishes frees its         *)
(* buffers, one of them twice if they are the same, which the heap may or  *)
(* may not survive.                                                        *)
PushStop(c) ==
  /\ StopWanted(c)
  /\ \/ Connecting(c) /\ Survives /\ UNCHANGED publishing
     \/ /\ Publishing(c)
        /\ Survives \/ (framed[c] /\ Dies(c))
        /\ publishing' = [publishing EXCEPT ![c] = @ - 1]
  /\ running' = [running EXCEPT ![c] = @ - 1]
  /\ UNCHANGED <<flagVars, camMutex, invites, sipVars, mainVars, spinning, framed>>

(* A thread with rtmp_ = nullptr reads the two plain ints in a loop that   *)
(* does nothing else: the build may or may not read them again.            *)
SpinStop(c) ==
  /\ ~down /\ spinning[c] > 0 /\ StopWanted(c)
  /\ running'  = [running EXCEPT ![c] = @ - 1]
  /\ spinning' = [spinning EXCEPT ![c] = @ - 1]
  /\ UNCHANGED <<tableVars, sipVars, mainVars, publishing, framed, culprits>>

(* checkerror: the RTP session could not be created or polled; exit(-1).   *)
PushAbort(c) ==
  /\ Publishing(c) /\ Dies(c)
  /\ UNCHANGED <<flagVars, camMutex, invites, sipVars, mainVars,
                 running, publishing, spinning, framed>>

PushNext ==
  \E c \in Cam : \/ PushPublish(c) \/ PushFrame(c) \/ PushGiveUp(c)
                 \/ PushStop(c) \/ SpinStop(c) \/ PushAbort(c)

LiveNext == MainStep \/ SipReceive \/ SipHandle \/ PushNext

(* Every sleep ends, no handler blocks, and a push thread that is not      *)
(* spinning comes back to its loop condition: every socket call of         *)
(* librtmp has a timeout, every pass of OnH264Data is finite.  Peers owe   *)
(* the server nothing.                                                     *)
LiveSpec ==
  /\ LiveInit /\ [][LiveNext]_vars
  /\ WF_vars(MainStep) /\ WF_vars(SipHandle)
  /\ \A c \in Cam : WF_vars(PushStop(c))

-----------------------------------------------------------------------------
(* What the variables of the whole server hold. *)
LiveTypeOK ==
  /\ TableTypeOK /\ SipTypeOK /\ MainTypeOK
  /\ running    \in [Cam -> Nat]
  /\ publishing \in [Cam -> Nat]
  /\ spinning   \in [Cam -> Nat]
  /\ framed     \in [Cam -> BOOLEAN]
  /\ culprits \subseteq Cam

(* Two push threads of one camera would bind the same RTP port (the second *)
(* ends the process) and publish the same stream.  Nothing but the flag    *)
(* pushed prevents it, which main reads and writes without the mutex.      *)
SinglePusher == \A c \in Cam : threads[c] <= 1 /\ running[c] <= threads[c]

(* A camera is asked for its video at most once, and is marked as playing  *)
(* or pushed only if main tried to ask it: whatever BYEs and REGISTERs     *)
(* arrive during the invite pass, the played flag main trusts when it      *)
(* starts a thread stems from a call of Send_Invite_Play_Single.  That the *)
(* camera was really asked does not follow: the call may send nothing.     *)
PushOnlyAsked ==
  \A c \in Cam : /\ invites[c] <= tries[c] /\ tries[c] <= 1
                 /\ threads[c] > 0 \/ played[c] = 1 => tries[c] = 1

(* Outside the critical sections of the SIP thread a camera on line is     *)
(* registered: REGISTER, a heartbeat and BYE never leave the pair in the   *)
(* state alive without registered, which the guard of RegisterSuccess      *)
(* would otherwise have to repair.                                         *)
OnlineIsRegistered ==
  camMutex = "free" => \A c \in Cam : alive[c] = 1 => registered[c] = 1

(* An earlier entry has the same sipid. *)
Repeated(c) == \E d \in Cam : d < c /\ SipOf[d] = SipOf[c]

(* FindSipIndex stops at the first entry with the name it looks for.  A    *)
(* second entry with the same sipid is therefore dead: it never registers, *)
(* is never invited and never pushed.                                      *)
FirstEntryOnly ==
  \A c \in Cam : Repeated(c) =>
    alive[c] = 0 /\ registered[c] = 0 /\ played[c] = 0 /\ threads[c] = 0

(* A push thread is told to stop by the flags alone, which the SIP thread  *)
(* writes and nothing resets afterwards: it ends, unless it already spins  *)
(* or the process has died.                                                *)
StopReachesPusher ==
  \A c \in Cam : (running[c] > spinning[c] /\ played[c] = 0)
                   ~> (running[c] = spinning[c] \/ down)

(* Every camera main finds on line and playing gets its push thread,       *)
(* unless it goes off line or the process dies first.                      *)
OnlineIsPushed ==
  \A c \in Cam : (mainPc = "watching" /\ WantsPush(c))
                   ~> (pushed[c] = 1 \/ alive[c] = 0 \/ down)

(* What can be told of the push thread of a camera. *)
ThreadOf(c) == IF threads[c] = 0 THEN "none"
               ELSE IF running[c] = 0 THEN "ended"
               ELSE IF spinning[c] > 0 THEN "spinning"
               ELSE IF publishing[c] > 0 THEN "publishing" ELSE "connecting"

EndedBy(c) == IF c \in culprits THEN "thread" ELSE IF down THEN "others" ELSE "no"

PT(c) == INSTANCE PushThread
           WITH wanted <- alive[c] = 1 /\ played[c] = 1, thread <- ThreadOf(c),
                framed <- framed[c], down <- EndedBy(c)

(* To each push thread the server keeps what CameraPush relies on: it is   *)
(* one at most, and the two flags it polls, once seen down, never come up  *)
(* again together, whatever REGISTERs and heartbeats follow the BYE.       *)
(* Whoever ends the process, no push thread does it but in its three       *)
(* places.                                                                 *)
ThreadsAsPromised ==
  /\ \A c \in Cam : PT(c)!PTInit
  /\ [][\A c \in Cam : PT(c)!PTNext \/ UNCHANGED PT(c)!ptVars]_vars
=============================================================================
