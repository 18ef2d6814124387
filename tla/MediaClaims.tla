------------------------------ MODULE MediaClaims ------------------------------
(***************************************************************************)
(* What comments of the sources say of the media path and the code does    *)
(* not do.                                                                 *)
(***************************************************************************)
EXTENDS MediaPath

(* rtp.h:247 says of the branch for an unknown element that the last 14    *)
(* bytes of the test stream cannot be recognised: what is not recognised   *)
(* would be bytes of the frame.  After a system header the count of what   *)
(* is left includes the 14 bytes of the pack header once too often, and    *)
(* the scan looks behind the end of a frame it has read completely.        *)
UnrecognisedIsInFrame ==
  scanning /\ Unrecognised /\ frame.whole => NextPack < Len(frame.cells)

(* srs_librtmp.cpp:33442 says that SPS and PPS are sent before the frames  *)
(* when they have changed.  The changes count as sent before the header is *)
(* written (33376-33378): when that write fails nothing sends it again,    *)
(* and the frames that follow come under the parameters from before.       *)
SentWhenChanged ==
  \A r \in received : Len(r.given.sps) >= 4 => r.under = r.given
=============================================================================
