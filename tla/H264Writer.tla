------------------------------ MODULE H264Writer ------------------------------
(***************************************************************************)
(* The way of a NAL unit from the loop of CameraPush::OnH264Data to the    *)
(* RTMP server: the SPS gate of srs_push.cpp and, of librtmp, what         *)
(* srs_h264_write_raw_frames keeps in the context to decide when a         *)
(* sequence header goes before a frame.  One context only: OnH264Data      *)
(* does not return to the connection while the camera is wanted.  Time     *)
(* stamps are left out.                                                    *)
(***************************************************************************)
EXTENDS PsFormat

(* A NAL unit, its data without the start code. *)
Unit == [type : NalTypes, data : Seq(Cell)]

NoHeader == [sps |-> <<>>, pps |-> <<>>]

VARIABLES
  need_keyframe_,
  h264_sps, h264_pps, h264_sps_changed, h264_pps_changed, h264_sps_pps_sent,
  torn,        \* a message was sent in part: the server can read no more
  aborted,     \* an assertion of librtmp has ended the process
  header,      \* the sequence header the server has, NoHeader before the first
  lostHeader,  \* the header written last did not reach it
  received,    \* the frames it got, each with the header it came under
  lost,        \* the frames whose write failed
  given,       \* what was handed to librtmp: the last SPS and PPS, the
               \* number of frames
  shortSps     \* an SPS of less than four bytes came

writerVars == <<need_keyframe_, h264_sps, h264_pps, h264_sps_changed,
                h264_pps_changed, h264_sps_pps_sent, torn, aborted, header,
                lostHeader, received, lost, given, shortSps>>

WriterInit ==
  /\ need_keyframe_ = TRUE
  /\ h264_sps = <<>> /\ h264_pps = <<>>
  /\ h264_sps_changed = FALSE /\ h264_pps_changed = FALSE
  /\ h264_sps_pps_sent = FALSE
  /\ torn = FALSE /\ aborted = FALSE
  /\ header = NoHeader /\ lostHeader = FALSE
  /\ received = {} /\ lost = {}
  /\ given = [sps |-> <<>>, pps |-> <<>>, frames |-> 0]
  /\ shortSps = FALSE

toServer == <<torn, header, lostHeader, received, lost>>

-----------------------------------------------------------------------------
(* sps_demux: an SPS of less than four bytes counts as an empty one. *)
Stored(sps) == IF Len(sps) < 4 THEN <<>> ELSE sps

(* Mutant of WriteSps: the SPS is kept without a note that it changed. *)
WriteSpsSilently(data) ==
  /\ h264_sps' = Stored(data)
  /\ given' = [given EXCEPT !.sps = data]
  /\ UNCHANGED <<h264_pps, h264_sps_changed, h264_pps_changed, h264_sps_pps_sent,
                 toServer, aborted>>

(* srs_write_h264_raw_frame of an SPS: one that is already known is an     *)
(* error nobody looks at.                                                  *)
WriteSps(data) ==
  /\ h264_sps' = Stored(data)
  /\ h264_sps_changed' = (h264_sps_changed \/ Stored(data) # h264_sps)
  /\ given' = [given EXCEPT !.sps = data]
  /\ UNCHANGED <<h264_pps, h264_pps_changed, h264_sps_pps_sent, toServer, aborted>>

WritePps(data) ==
  /\ h264_pps' = data
  /\ h264_pps_changed' = (h264_pps_changed \/ data # h264_pps)
  /\ given' = [given EXCEPT !.pps = data]
  /\ UNCHANGED <<h264_sps, h264_sps_changed, h264_sps_pps_sent, toServer, aborted>>

(* Mutant of Changed: a header goes out only when both are new. *)
ChangedBoth == h264_sps_changed /\ h264_pps_changed

Changed == h264_sps_changed \/ h264_pps_changed

NoteFrame == given' = [given EXCEPT !.frames = @ + 1]

(* A frame before any SPS or PPS is dropped with an error. *)
DropFrame ==
  /\ ~Changed /\ ~h264_sps_pps_sent
  /\ NoteFrame
  /\ UNCHANGED <<h264_sps, h264_pps, h264_sps_changed, h264_pps_changed,
                 h264_sps_pps_sent, toServer, aborted>>

(* mux_sequence_header asserts that the SPS has four bytes, in a build     *)
(* that has assertions.                                                    *)
AbortFrame ==
  /\ Changed /\ Len(h264_sps) < 4
  /\ aborted' = TRUE
  /\ NoteFrame
  /\ UNCHANGED <<h264_sps, h264_pps, h264_sps_changed, h264_pps_changed,
                 h264_sps_pps_sent, toServer>>

(* One message to the server: it gets there; or nothing of it does and the *)
(* error is returned, the connection reset or the send timeout over; or it *)
(* is sent in part, which counts as a success.                             *)
Outcomes == IF torn THEN {"lost"} ELSE {"sent", "lost", "torn"}

(* The frame just handed over comes to the server under a header, which is *)
(* stale if a newer one was lost, or does not come.                        *)
Arrives(comes, under, stale) ==
  IF comes
  THEN /\ received' = received \cup
            {[n |-> given.frames + 1, under |-> under, stale |-> stale,
              given |-> [sps |-> given.sps, pps |-> given.pps]]}
       /\ UNCHANGED lost
  ELSE lost' = lost \cup {given.frames + 1} /\ UNCHANGED received

(* srs_write_h264_sps_pps, then srs_write_h264_ipb_frame.  The flags are   *)
(* reset before the header is written; if that fails the frame is not, and *)
(* nobody looks at the error: the next frame is written as if the server   *)
(* had the header.                                                         *)
WriteFrame ==
  /\ Changed \/ h264_sps_pps_sent
  /\ h264_sps_changed' = FALSE /\ h264_pps_changed' = FALSE
  /\ h264_sps_pps_sent' = TRUE
  /\ NoteFrame
  /\ \E h \in IF Changed THEN Outcomes ELSE {"sent"}, f \in Outcomes :
       /\ h # "sent" => f = "lost"
       /\ torn' = (torn \/ "torn" \in {h, f})
       /\ header' = IF Changed /\ h = "sent"
                    THEN [sps |-> h264_sps, pps |-> h264_pps] ELSE header
       /\ lostHeader' = IF Changed THEN h # "sent" ELSE lostHeader
       /\ Arrives(f = "sent", header', lostHeader')
  /\ UNCHANGED <<h264_sps, h264_pps, aborted>>

libVars == <<h264_sps, h264_pps, h264_sps_changed, h264_pps_changed,
             h264_sps_pps_sent, toServer, aborted, given>>

(* need_keyframe_ is cleared by an SPS. *)
Opens(u) == u.type = "sps"

(* What goes on to librtmp: one of four types, once the gate is open. *)
Admitted(u) == u.type # "other" /\ (~need_keyframe_ \/ Opens(u)) /\ u.data # <<>>

(* The body of the loop over the NAL units of a frame. *)
PushUnit(u) ==
  /\ need_keyframe_' = (need_keyframe_ /\ ~Opens(u))
  /\ shortSps' = (shortSps \/ (u.type = "sps" /\ Len(u.data) < 4))
  /\ \/ ~Admitted(u) /\ UNCHANGED libVars
     \/ Admitted(u) /\ u.type = "sps" /\ WriteSps(u.data)
     \/ Admitted(u) /\ u.type = "pps" /\ WritePps(u.data)
     \/ /\ Admitted(u) /\ u.type \in {"idr", "p"}
        /\ DropFrame \/ AbortFrame \/ WriteFrame

-----------------------------------------------------------------------------
(* What the variables of the gate, the context and the server hold. *)
Header == [sps : Seq(Cell), pps : Seq(Cell)]

WriterTypeOK ==
  /\ need_keyframe_ \in BOOLEAN
  /\ h264_sps \in Seq(Cell) /\ h264_pps \in Seq(Cell)
  /\ h264_sps_changed \in BOOLEAN /\ h264_pps_changed \in BOOLEAN
  /\ h264_sps_pps_sent \in BOOLEAN
  /\ torn \in BOOLEAN /\ aborted \in BOOLEAN
  /\ header \in Header /\ lostHeader \in BOOLEAN
  /\ received \subseteq [n : Nat, under : Header, stale : BOOLEAN, given : Header]
  /\ lost \subseteq Nat
  /\ given \in [sps : Seq(Cell), pps : Seq(Cell), frames : Nat]
  /\ shortSps \in BOOLEAN

(* Every frame reaches the server under the SPS and PPS that were handed   *)
(* to librtmp last before it, through any order of new, repeated and       *)
(* missing parameter sets and of failing writes.  The flags of change are  *)
(* reset before the header is written: one that gets lost is not sent      *)
(* again, and frames come under the older one, until the parameters change *)
(* once more.  That, and an SPS cut short, which librtmp forgets without   *)
(* an error, are the exceptions.                                           *)
ParametersInForce ==
  \A r \in received :
    Len(r.given.sps) >= 4 /\ ~r.stale => r.under = r.given

(* Once the gate is open a frame is lost between it and the server in a    *)
(* write that fails and in no other way; only an SPS cut short can make    *)
(* librtmp drop one without writing anything.                              *)
EveryFrameWritten ==
  ~shortSps => 1 .. given.frames = lost \cup {r.n : r \in received}
=============================================================================
