----------------------------- MODULE LiveClaims -----------------------------
(***************************************************************************)
(* What the README and the comments of the sources say of the camera flags *)
(* and the code does not do.  Each is checked by a run that shows a        *)
(* behaviour of LiveServer against it.                                     *)
(***************************************************************************)
EXTENDS LiveServer

(* demo.h:79: alive is set to 0 on receipt of a bye.  A BYE within the     *)
(* call the server placed arrives as EXOSIP_CALL_CLOSED, which changes     *)
(* nothing: the camera stays on line and its push thread stays up.         *)
ByeTakesOffline ==
  [][ Finished /\ ev.type = "CALL_CLOSED" /\ Device \in Cam
        => alive'[Device] = 0 ]_vars

(* README.md:3: the server keeps up the heartbeat with the cameras.  When  *)
(* one camera leaves, its push thread frees one buffer twice, and the      *)
(* process can end with it, for every other camera too.                    *)
OneStopSparesServer ==
  [][ (\E c \in Cam : PushStop(c)) => ~down' ]_vars
=============================================================================
