------------------------------ MODULE PushThread ------------------------------
(***************************************************************************)
(* A push thread as the server and its camera know it, between LiveServer  *)
(* and CameraPush: LiveServer is checked to run threads like this one      *)
(* only, and CameraPush to be one of them.  What each assumes of the other *)
(* is written down here: the thread, that it is not wanted again once it   *)
(* is not; the server, that the thread then comes to its end, and that it  *)
(* takes the process with it in three places only (Work, Fail and Stop).   *)
(***************************************************************************)

VARIABLES
  wanted,  \* the camera plays and is alive
  thread,  \* where it stands; "spinning" is without a context, "ended" from
           \* where it frees its buffers on
  framed,  \* a frame has been taken apart
  down     \* "no", or who ended the process: this "thread", or "others"

ptVars == <<wanted, thread, framed, down>>

PTInit == /\ wanted \in BOOLEAN /\ thread \in {"none", "connecting"}
          /\ framed = FALSE /\ down = "no"

Begin == thread = "none" /\ thread' = "connecting" /\ UNCHANGED <<wanted, framed, down>>

(* The flags rise before the thread is there, and only fall afterwards. *)
Wish == /\ wanted' = (thread = "none" /\ ~wanted)
        /\ UNCHANGED <<thread, framed, down>>

Publish == /\ thread = "connecting" /\ thread' = "publishing"
           /\ UNCHANGED <<wanted, framed, down>>

(* A frame is taken apart, which may end the process. *)
Work == /\ thread = "publishing" /\ framed' = TRUE
        /\ down' \in {"no", "thread"}
        /\ UNCHANGED <<wanted, thread>>

(* The RTP session cannot be opened, or no longer be polled. *)
Fail == /\ thread = "publishing" /\ down' = "thread"
        /\ UNCHANGED <<wanted, thread, framed>>

(* No context is left to publish with. *)
GiveUp == /\ thread = "connecting" /\ thread' = "spinning"
          /\ UNCHANGED <<wanted, framed, down>>

(* The buffers are freed once the camera is not wanted, and not before;    *)
(* only if a frame was taken apart is one of them freed twice.             *)
Stop == /\ thread \in {"connecting", "publishing", "spinning"} /\ ~wanted
        /\ thread' = "ended"
        /\ \/ down' = "no"
           \/ thread = "publishing" /\ framed /\ down' = "thread"
        /\ UNCHANGED <<wanted, framed>>

(* Another thread ends the process. *)
Gone == down' = "others" /\ UNCHANGED <<wanted, thread, framed>>

PTNext == /\ down = "no"
          /\ Begin \/ Wish \/ Publish \/ Work \/ Fail \/ GiveUp \/ Stop \/ Gone

(* A thread that spins may do so for good. *)
PTSpec ==
  /\ PTInit /\ [][PTNext]_ptVars
  /\ WF_ptVars(down = "no" /\ thread \in {"connecting", "publishing"} /\ Stop)
=============================================================================
