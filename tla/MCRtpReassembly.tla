--------------------------- MODULE MCRtpReassembly ---------------------------
(***************************************************************************)
(* RtpReassembly for TLC: four frames of one, two, one and three packets,  *)
(* the last of them longer than the frame buffer.                          *)
(***************************************************************************)
EXTENDS RtpReassembly

MCSizes == <<1, 2, 1, 3>>

MCVideo ==
  LET Frame(f) == [i \in 1 .. MCSizes[f] |->
                     [frame |-> f, marker |-> i = MCSizes[f]]]
  IN  Frame(1) \o Frame(2) \o Frame(3) \o Frame(4)
=============================================================================
