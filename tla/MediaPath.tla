------------------------------- MODULE MediaPath -------------------------------
(***************************************************************************)
(* The body of the receive loop for a complete frame: PsDemux takes it     *)
(* apart, the loop of srs_push.cpp splits what comes out into NAL units,   *)
(* and each goes to H264Writer.                                            *)
(***************************************************************************)
EXTENDS PsDemux, H264Writer

CONSTANT MaxFrames  \* bound: frames received

ASSUME MediaAssumption == MaxFrames \in Nat

VARIABLES
  p,         \* the offset the splitting has come to
  nframes    \* frames received

mediaVars == <<psVars, writerVars, p, nframes>>

MediaInit == PsInit /\ WriterInit /\ p = 0 /\ nframes = 0

(* Behind an access outside the buffer the model says nothing. *)
Alive == ~crashed /\ ~aborted /\ ~outside

Receive ==
  /\ Alive /\ ~scanning /\ p = h264length
  /\ nframes < MaxFrames /\ nframes' = nframes + 1
  /\ \E f \in Frames : Begin(f)
  /\ p' = 0
  /\ UNCHANGED writerVars

Demux ==
  /\ Alive /\ Scan
  /\ UNCHANGED <<writerVars, p, nframes>>

-----------------------------------------------------------------------------
(* srs_h264_startswith_annexb: the headers of the program stream begin     *)
(* like a start code, too.                                                 *)
StartCodeLen(o) == IF At(buf, o).kind = "nal" THEN StartCode ELSE StartCode - 1

IsStart(o) ==
  /\ At(buf, o).kind \notin {"in", "byte"}
  /\ \A j \in 1 .. StartCodeLen(o) - 1 : At(buf, o + j).kind = "in"
  /\ o + StartCodeLen(o) <= h264length

(* read_h264_frame: from the start code at p to the next one. *)
Ends  == {o \in p + StartCodeLen(p) .. h264length : o = h264length \/ IsStart(o)}
Data  == [j \in 1 .. Least(Ends) - p - StartCodeLen(p)
            |-> At(buf, p + StartCodeLen(p) + j - 1)]

(* nut; behind the end of the payload it is whatever lies there. *)
Types == IF Data = <<>> THEN NalTypes ELSE {At(buf, p).type}

SplitUnit ==
  /\ Alive /\ ~scanning /\ p < h264length
  /\ IsStart(p)
  /\ \E type \in Types : PushUnit([type |-> type, data |-> Data])
  /\ p' = Least(Ends)
  /\ UNCHANGED <<psVars, nframes>>

(* It fails, and the loop reads through the null pointer. *)
SplitFails ==
  /\ Alive /\ ~scanning /\ p < h264length
  /\ ~IsStart(p)
  /\ crashed' = TRUE
  /\ UNCHANGED <<writerVars, p, nframes, buf, frame, scanning, NextPack,
                 leftlength, i, h264length, pts, goesOn, outside>>

MediaNext == Receive \/ Demux \/ SplitUnit \/ SplitFails

MediaSpec == MediaInit /\ [][MediaNext]_mediaVars

-----------------------------------------------------------------------------
(* What the variables of the media path hold. *)
MediaTypeOK == /\ PsTypeOK /\ WriterTypeOK
               /\ p \in 0 .. h264length /\ nframes \in 0 .. MaxFrames

(* Of the frames the camera made, whatever damaged frames came before, the *)
(* demultiplexer and the splitting end the process, or leave the buffer,   *)
(* on one that is too long for it only, or behind a system header, where   *)
(* the scan goes on; and librtmp ends it only while the last SPS it was    *)
(* given was cut short.                                                    *)
WholeFramesSurvive ==
  /\ crashed \/ outside => ~frame.whole \/ goesOn \/ TooLong(frame)
  /\ aborted => shortSps /\ Len(given.sps) < 4
=============================================================================
