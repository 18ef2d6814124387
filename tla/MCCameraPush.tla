---------------------------- MODULE MCCameraPush ----------------------------
(***************************************************************************)
(* CameraPush for TLC: the frames a camera sends.                          *)
(***************************************************************************)
EXTENDS CameraPush

MCFrames ==
  { <<"sps", "pps", "idr">>, <<"p">>, <<"other", "idr">>, <<"p", "sps", "p">>,
    <<>>, Garbage }
=============================================================================
