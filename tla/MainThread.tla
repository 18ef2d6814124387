----------------------------- MODULE MainThread -----------------------------
(***************************************************************************)
(* The main thread once the SIP thread runs: five seconds after start one  *)
(* pass over the cameras that invites those registered by then             *)
(* (Send_Invite_Play), then for ever a pass per second that starts a push  *)
(* thread for every camera that is on line, playing and not pushed yet.    *)
(* It never takes camMutex: each read of the flags and each write of one   *)
(* is a step between those of the SIP thread.                              *)
(***************************************************************************)
EXTENDS CameraTable

VARIABLES
  mainPc,  \* where main stands
  mainI,   \* i of the loop it is in: a camera, or CameraNum at its end
  tries,   \* calls of Send_Invite_Play_Single for each camera
  threads  \* push threads started for each camera since the start

mainVars == <<mainPc, mainI, tries, threads>>

MainPcs == {"starting", "inviting", "invited", "settling", "watching",
            "spawning"}

MainInit ==
  /\ mainPc = "starting"
  /\ mainI = 0
  /\ tries   = [c \in Cam |-> 0]
  /\ threads = [c \in Cam |-> 0]

At(pc) == mainPc = pc

(* Sleep(5000) is over. *)
Wake ==
  /\ At("starting")
  /\ mainPc' = "inviting"
  /\ UNCHANGED <<mainI, tries, threads, tableVars>>

(* Send_Invite_Play_Single.  The stack may take the INVITE or refuse it,   *)
(* which the code does not look at; if the INVITE cannot even be built,    *)
(* this is printed, and a body is put into the message that is not there,  *)
(* which may end the process.                                              *)
InviteNext ==
  /\ At("inviting") /\ mainI \in Cam
  /\ registered[mainI] = 1 /\ played[mainI] = 0
  /\ tries' = [tries EXCEPT ![mainI] = @ + 1]
  /\ \/ invites' = [invites EXCEPT ![mainI] = @ + 1] /\ UNCHANGED down
     \/ down' \in BOOLEAN /\ UNCHANGED invites
  /\ mainPc' = "invited"
  /\ UNCHANGED <<mainI, threads, flagVars, camMutex>>

(* Mutant of InviteSkip: played = 1 outside the braces of the if. *)
InviteSkipMarks ==
  /\ At("inviting") /\ mainI \in Cam
  /\ ~(registered[mainI] = 1 /\ played[mainI] = 0)
  /\ played' = [played EXCEPT ![mainI] = 1]
  /\ mainI' = mainI + 1
  /\ UNCHANGED <<mainPc, tries, threads, alive, registered, pushed, camMutex, invites, down>>

InviteSkip ==
  /\ At("inviting") /\ mainI \in Cam
  /\ ~(registered[mainI] = 1 /\ played[mainI] = 0)
  /\ mainI' = mainI + 1
  /\ UNCHANGED <<mainPc, tries, threads, tableVars>>

(* The flag is set after the try, whatever came of it, without the mutex. *)
MarkPlayed ==
  /\ At("invited")
  /\ played' = [played EXCEPT ![mainI] = 1]
  /\ mainI' = mainI + 1
  /\ mainPc' = "inviting"
  /\ UNCHANGED <<tries, threads, alive, registered, pushed, camMutex, invites, down>>

InvitePassDone ==
  /\ At("inviting") /\ mainI \notin Cam
  /\ mainPc' = "settling"
  /\ UNCHANGED <<mainI, tries, threads, tableVars>>

(* Mutant of WatchPass: one pass over the cameras and no loop around it. *)
WatchOnce ==
  /\ At("settling")
  /\ mainPc' = "watching"
  /\ mainI' = 0
  /\ UNCHANGED <<tries, threads, tableVars>>

(* Sleep(1000) before the watch loop, and between two of its passes. *)
WatchPass ==
  /\ At("settling") \/ (At("watching") /\ mainI \notin Cam)
  /\ mainPc' = "watching"
  /\ mainI' = 0
  /\ UNCHANGED <<tries, threads, tableVars>>

(* Mutant of WantsPush: forgets that the camera is pushed already. *)
WantsPushAgain(c) == alive[c] = 1 /\ played[c] = 1

WantsPush(c) == alive[c] = 1 /\ played[c] = 1 /\ pushed[c] = 0

WatchSkip ==
  /\ At("watching") /\ mainI \in Cam /\ ~WantsPush(mainI)
  /\ mainI' = mainI + 1
  /\ UNCHANGED <<mainPc, tries, threads, tableVars>>

WatchFound ==
  /\ At("watching") /\ mainI \in Cam /\ WantsPush(mainI)
  /\ mainPc' = "spawning"
  /\ UNCHANGED <<mainI, tries, threads, tableVars>>

(* The thread starts before pushed is set, but only main reads pushed. *)
Spawn ==
  /\ At("spawning")
  /\ threads' = [threads EXCEPT ![mainI] = @ + 1]
  /\ pushed' = [pushed EXCEPT ![mainI] = 1]
  /\ mainI' = mainI + 1
  /\ mainPc' = "watching"
  /\ UNCHANGED <<tries, alive, registered, played, camMutex, invites, down>>

MainNext ==
  \/ Wake \/ InviteNext \/ InviteSkip \/ MarkPlayed \/ InvitePassDone
  \/ WatchPass \/ WatchSkip \/ WatchFound \/ Spawn

MainTypeOK ==
  /\ mainPc \in MainPcs
  /\ mainI \in 0 .. CameraNum
  /\ tries   \in [Cam -> Nat]
  /\ threads \in [Cam -> Nat]
=============================================================================
