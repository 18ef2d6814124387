----------------------------- MODULE SipClaims -----------------------------
(***************************************************************************)
(* What the README, the comments and the asserts of the sources say of the *)
(* SIP thread, and the code does not do.  Each is checked by a run that    *)
(* shows a behaviour of SipServer against it.                              *)
(***************************************************************************)
EXTENDS SipServer

(* gb28281_demo.cpp:164 and 238: the answer of a camera is forwarded to    *)
(* the clients that asked for it.  DelClientReq returns every client it    *)
(* has ever seen.                                                          *)
OnlyAskersTold ==
  [][ MessageResponse =>
        ForwardedTo(sent' \cup refused') = PQ!Waiting(ev.from, ev.cmd) ]_allSipVars

(* gb28281_demo.cpp:152-157 describes the body of an easy control, which   *)
(* line 235 turns into a PTZ command; the branch for Control takes it      *)
(* first, and the command is dropped.                                      *)
EasyControlObeyed ==
  [][ Finished /\ ev.type = "MESSAGE" /\ ev.value = "EasyControl" /\ Device \in Cam
        => ToCamera("ptz", Device) \in sent' \cup refused' ]_allSipVars
=============================================================================
