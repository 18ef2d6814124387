---------------------------- MODULE RtpReassembly ----------------------------
(***************************************************************************)
(* The receive loop of CameraPush::OnH264Data down to complete frames: the *)
(* packets a camera sends, what UDP makes of them, the queue jrtplib keeps *)
(* for each source, and FrameVector, in which the loop collects payloads   *)
(* until a packet with the marker completes a frame.  The code looks at    *)
(* the payload type and the marker only; it never asks for a sequence      *)
(* number or a source.  The condition of the loop is CameraPush's matter.  *)
(***************************************************************************)
EXTENDS Integers, Sequences, FiniteSets

CONSTANTS
  Video,     \* the packets of the camera, in order: their frame and marker
  Longest,   \* no frame of the camera has more packets
  BufSize,   \* the size of the frame buffer, in payloads of one packet
  MaxFaults  \* bound: how often the network or a stranger interferes

Kinds   == {"lost", "lostMarker", "late", "copied", "stray"}
Sources == {"camera", "stranger"}

CameraPacket(n) == [n |-> n, frame |-> Video[n].frame,
                    marker |-> Video[n].marker, type |-> 96]

LastFrame == Video[Len(Video)].frame

(* Frames have rising numbers, 0 is none.  A frame is one or more packets, *)
(* only the last of them with the marker.  The code asks nowhere whether   *)
(* it fits the buffer, and nothing is assumed of that here.                *)
ASSUME VideoAssumption ==
  /\ BufSize \in Nat /\ MaxFaults \in Nat /\ Longest \in Nat /\ Longest > 1
  /\ Video \in Seq([frame : Nat \ {0}, marker : BOOLEAN])
  /\ Len(Video) > 0 /\ Video[Len(Video)].marker
  /\ \A m, n \in DOMAIN Video : m <= n =>
       /\ Video[m].frame <= Video[n].frame
       /\ Video[m].frame = Video[n].frame <=> \A k \in m .. n - 1 : ~Video[k].marker
       /\ Video[m].frame = Video[n].frame => n - m < Longest

VARIABLES
  next,         \* the next packet the camera sends
  late,         \* packets, and copies of packets, still under way
  queue,        \* for each source the packets jrtplib holds
  cur,          \* the source the loop reads, "none" outside the data access
  FrameVector,  \* the packets collected
  out,          \* the frames taken apart: a number if whole, else 0
  overrun,      \* something was copied beyond the frame buffer
  down,         \* the process has ended, or nothing is known of it any more
  faults        \* how often each kind of fault has happened

rtpVars == <<next, late, queue, cur, FrameVector, out, overrun, down,
             faults>>

RtpInit ==
  /\ next = 1 /\ late = {} /\ queue = [s \in Sources |-> {}]
  /\ cur = "none" /\ FrameVector = <<>> /\ out = <<>> /\ overrun = FALSE
  /\ down = FALSE /\ faults = [k \in Kinds |-> 0]

-----------------------------------------------------------------------------
(* The network and jrtplib.  Nothing reaches a queue within BeginDataAccess *)
(* and EndDataAccess.  jrtplib keeps a queue in the order of the sequence  *)
(* numbers and drops what it already holds: a set of numbered packets.     *)
Polling == cur = "none"

AllFaults == faults["lost"] + faults["lostMarker"] + faults["late"]
               + faults["copied"] + faults["stray"]

Fault(kind) == /\ AllFaults < MaxFaults
               /\ faults' = [faults EXCEPT ![kind] = @ + 1]

Enqueue(source, p) == queue' = [queue EXCEPT ![source] = @ \cup {p}]

Send == next <= Len(Video) /\ next' = next + 1

Arrive ==
  /\ Polling /\ Send
  /\ Enqueue("camera", CameraPacket(next))
  /\ UNCHANGED <<late, cur, FrameVector, out, overrun, down, faults>>

Lose ==
  /\ Send
  /\ Fault(IF CameraPacket(next).marker THEN "lostMarker" ELSE "lost")
  /\ UNCHANGED <<late, queue, cur, FrameVector, out, overrun, down>>

(* The packet is overtaken by those sent after it. *)
Delay ==
  /\ Send /\ Fault("late")
  /\ late' = late \cup {CameraPacket(next)}
  /\ UNCHANGED <<queue, cur, FrameVector, out, overrun, down>>

(* A copy of it is. *)
Duplicate ==
  /\ Polling /\ Send /\ Fault("copied")
  /\ Enqueue("camera", CameraPacket(next))
  /\ late' = late \cup {CameraPacket(next)}
  /\ UNCHANGED <<cur, FrameVector, out, overrun, down>>

ArriveLate ==
  /\ Polling
  /\ \E p \in late : Enqueue("camera", p) /\ late' = late \ {p}
  /\ UNCHANGED <<next, cur, FrameVector, out, overrun, down, faults>>

(* Another sender finds the port; what is not of type 96 does no harm. *)
Stray ==
  /\ Polling
  /\ \E marker \in BOOLEAN, type \in {8, 96} :
       /\ IF type = 96 THEN Fault("stray")
          ELSE queue["stranger"] = {} /\ UNCHANGED faults
       /\ Enqueue("stranger", [n |-> AllFaults, frame |-> 0,
                               marker |-> marker, type |-> type])
  /\ UNCHANGED <<next, late, cur, FrameVector, out, overrun, down>>

-----------------------------------------------------------------------------
(* The loop. *)
WithData == {s \in Sources : queue[s] # {}}

(* GotoFirstSourceWithData: the table of sources has an order of its own. *)
BeginDataAccess ==
  /\ Polling /\ cur' \in WithData
  /\ UNCHANGED <<next, late, queue, FrameVector, out, overrun, down, faults>>

(* Mutant of Taken: a queue without an order. *)
TakenAnyhow(p) ==
  /\ cur # "none" /\ p \in queue[cur]
  /\ queue' = [queue EXCEPT ![cur] = @ \ {p}]

(* GetNextPacket of a source with data, and DeletePacket. *)
Taken(p) ==
  /\ cur # "none" /\ p \in queue[cur]
  /\ \A q \in queue[cur] : p.n <= q.n
  /\ queue' = [queue EXCEPT ![cur] = @ \ {p}]

(* Mutant of IsVideo: every packet is taken for video. *)
IsAnything(p) == TRUE

IsVideo(p) == p.type = 96

Skip ==
  /\ \E p \in queue[cur] : Taken(p) /\ ~IsVideo(p)
  /\ UNCHANGED <<next, late, cur, FrameVector, out, overrun, down, faults>>

Collect ==
  /\ \E p \in queue[cur] :
       /\ Taken(p) /\ IsVideo(p) /\ ~p.marker
       /\ FrameVector' = Append(FrameVector, p)
  /\ UNCHANGED <<next, late, cur, out, overrun, down, faults>>

Starts(n) == n = 1 \/ Video[n - 1].marker

(* The packets from the first of a frame on, without a gap. *)
FromStart(ps) ==
  \E n \in DOMAIN Video :
    Starts(n) /\ \A k \in DOMAIN ps :
                   n + k - 1 \in DOMAIN Video /\ ps[k] = CameraPacket(n + k - 1)

(* The frame as copied to the buffer: which frame of the camera it is, if  *)
(* it is one.  Only the last packet has the marker.                        *)
Recognised(ps) == IF FromStart(ps) THEN ps[1].frame ELSE 0

(* All payloads go to the frame buffer one behind the other, with no look  *)
(* at its size; beyond it lies the heap, and what becomes of the process   *)
(* then is anybody's guess.  Taking the frame apart may end it in any case *)
(* (a null pointer is read, or librtmp asserts): MediaPath says when.      *)
TakeApart(ps) ==
  /\ overrun' = (Len(ps) > BufSize)
  /\ down' \in IF overrun' THEN {TRUE} ELSE BOOLEAN

(* Mutants of Complete: FrameVector is not cleared; only a frame of more   *)
(* than one packet is taken apart.                                         *)
CompleteKeeps ==
  /\ \E p \in queue[cur] :
       /\ Taken(p) /\ IsVideo(p) /\ p.marker
       /\ LET ps == Append(FrameVector, p)
          IN  /\ out' = Append(out, Recognised(ps))
              /\ TakeApart(ps)
  /\ UNCHANGED <<next, late, cur, FrameVector, faults>>

CompleteCollected ==
  /\ \E p \in queue[cur] :
       /\ Taken(p) /\ IsVideo(p) /\ p.marker
       /\ LET ps == Append(FrameVector, p)
          IN  /\ out' = IF Len(ps) = 1 THEN out ELSE Append(out, Recognised(ps))
              /\ TakeApart(ps)
  /\ FrameVector' = <<>>
  /\ UNCHANGED <<next, late, cur, faults>>

(* The packets of FrameVector and the marker's are taken apart as a frame, *)
(* and FrameVector is emptied.                                             *)
Complete ==
  /\ \E p \in queue[cur] :
       /\ Taken(p) /\ IsVideo(p) /\ p.marker
       /\ LET ps == Append(FrameVector, p)
          IN  /\ out' = Append(out, Recognised(ps))
              /\ TakeApart(ps)
  /\ FrameVector' = <<>>
  /\ UNCHANGED <<next, late, cur, faults>>

(* GotoNextSourceWithData, or EndDataAccess. *)
NextSource ==
  /\ cur # "none" /\ queue[cur] = {}
  /\ IF WithData = {} THEN cur' = "none" ELSE cur' \in WithData
  /\ UNCHANGED <<next, late, queue, FrameVector, out, overrun, down, faults>>

Network == Arrive \/ Lose \/ Delay \/ Duplicate \/ ArriveLate \/ Stray
Loop    == BeginDataAccess \/ NextSource
             \/ (cur # "none" /\ (Skip \/ Collect \/ Complete))

RtpNext == ~down /\ (Network \/ Loop)

(* The thread goes round its loop; nothing need be sent. *)
RtpSpec == RtpInit /\ [][RtpNext]_rtpVars /\ WF_rtpVars(~down /\ Loop)

-----------------------------------------------------------------------------
Packet == [n : Nat, frame : Nat, marker : BOOLEAN, type : {8, 96}]

(* What the variables of the receive loop hold; what is queued for the     *)
(* camera is its own, what is collected has no marker.                     *)
RtpTypeOK ==
  /\ next \in 1 .. Len(Video) + 1
  /\ late \subseteq Packet
  /\ queue \in [Sources -> SUBSET Packet]
  /\ \A p \in queue["camera"] \cup late : p.n \in 1 .. next - 1 /\ p = CameraPacket(p.n)
  /\ cur \in Sources \cup {"none"}
  /\ FrameVector \in Seq(Packet)
  /\ \A i \in DOMAIN FrameVector :
       FrameVector[i].type = 96 /\ ~FrameVector[i].marker
  /\ out \in Seq(0 .. LastFrame)
  /\ overrun \in BOOLEAN /\ down \in BOOLEAN
  /\ faults \in [Kinds -> 0 .. MaxFaults]

(* Everything that was sent and not lost has been through the loop. *)
Quiet == Polling /\ WithData = {} /\ late = {}

Whole    == {out[i] : i \in DOMAIN out} \ {0}
SentOff  == {Video[n].frame : n \in {m \in 1 .. next - 1 : Video[m].marker}}

(* As long as the process lives, the loop finds its way back by itself: a  *)
(* lost packet spoils its frame, with a lost marker also the next one, a   *)
(* packet overtaken by later ones up to three frames, a copy or a          *)
(* stranger's packet one.  Every other frame of the camera is put together *)
(* whole, whatever the order in which the sources are read and however     *)
(* many packets one pass finds.                                            *)
DamageContained ==
  Quiet /\ ~down => Cardinality(SentOff \ Whole)
                      <= faults["lost"] + faults["copied"] + faults["stray"]
                         + 2 * faults["lostMarker"] + 3 * faults["late"]

(* What is copied in one go is one frame, with another for each marker     *)
(* that is lost or late and a packet for each copy and each of a           *)
(* stranger's.  Losses within frames do not add up, and the frame buffer   *)
(* is overrun only where that sum is beyond it: without faults only by a   *)
(* frame that is too long by itself, which nothing in the code prevents.   *)
LargestCopy ==
  1 + (Longest - 1) * (1 + faults["lostMarker"] + faults["late"])
    + faults["copied"] + faults["stray"]

CopyBounded ==
  Len(FrameVector) < LargestCopy /\ (overrun => BufSize < LargestCopy)

(* Whole frames come out in the order they were sent, each of them once,   *)
(* unless the network itself reorders or repeats packets.                  *)
WholeInOrder ==
  faults["late"] = 0 /\ faults["copied"] = 0 =>
    \A i, j \in DOMAIN out : i < j /\ out[i] # 0 /\ out[j] # 0 => out[i] < out[j]

(* No frame waits in a queue or in FrameVector for ever: once all of it is *)
(* sent it is put together, as long as nothing has interfered and the      *)
(* process lives.                                                          *)
SentComesThrough ==
  \A f \in 1 .. LastFrame :
    f \in SentOff ~> (f \in Whole \/ AllFaults > 0 \/ down)
=============================================================================
