---------------------------- MODULE PushContract ----------------------------
(***************************************************************************)
(* What the push thread of a camera promises whoever starts it: it tries   *)
(* to publish a bounded number of times, either publishes or gives up, and *)
(* once it publishes it never goes back to connecting.  Only its end       *)
(* follows on either.                                                      *)
(***************************************************************************)
EXTENDS Naturals

CONSTANT Tries  \* a natural number

VARIABLES phase, attempts

pcVars == <<phase, attempts>>

PCInit == phase = "connecting" /\ attempts = 0

Try == /\ phase = "connecting" /\ attempts < Tries
       /\ attempts' = attempts + 1
       /\ phase' \in {"connecting", "gaveUp"}

Publish == phase = "connecting" /\ phase' = "publishing" /\ UNCHANGED attempts

GiveUp == phase = "connecting" /\ phase' = "gaveUp" /\ UNCHANGED attempts

End == phase # "ended" /\ phase' = "ended" /\ UNCHANGED attempts

PCNext == Try \/ Publish \/ GiveUp \/ End

Settle == phase = "connecting" /\ PCNext /\ phase' # "connecting"

(* It does not go on connecting for ever. *)
PCSpec == PCInit /\ [][PCNext]_pcVars /\ WF_pcVars(Settle)
=============================================================================
