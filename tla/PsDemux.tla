-------------------------------- MODULE PsDemux --------------------------------
(***************************************************************************)
(* GetH246FromPs: takes the frame in buf apart in place, the payloads of   *)
(* its video elements moving to the front.  The loop is one action for     *)
(* each branch.  buf keeps what earlier frames left behind the end of this *)
(* one.  The flag for a key frame, which nobody reads, is left out; pts is *)
(* kept as the place the time stamp is read from.                          *)
(***************************************************************************)
EXTENDS PsFormat

CONSTANTS
  Capacity,  \* the cells of buf
  Frames     \* what FrameVector can hold when a marker comes

ASSUME FramesAssumption ==
  /\ Capacity \in Nat
  /\ Frames \subseteq PsFrame
  /\ \A f \in Frames : f.whole => AsMade(f)

VARIABLES
  buf,         \* the frame buffer, which returnps points to as well
  frame,       \* the frame copied to it last
  scanning,    \* GetH246FromPs is in its loop
  NextPack,    \* an offset in buf
  leftlength,
  i,           \* the elements behind the first pack header so far
  h264length,  \* how much has been moved to the front
  pts,         \* the offset pts was read at, 0 for none
  goesOn,      \* the scan goes on to what lies behind the frame
  outside,     \* bytes behind the buffer were read or written
  crashed      \* the process has ended

psVars == <<buf, frame, scanning, NextPack, leftlength, i, h264length, pts,
            goesOn, outside, crashed>>

Offsets == 0 .. Capacity - 1

PsInit ==
  /\ buf = [o \in Offsets |-> Byte(0)]
  /\ frame = [cells |-> <<>>, payload |-> <<>>, whole |-> TRUE, system |-> FALSE,
              parts |-> {}]
  /\ scanning = FALSE /\ NextPack = 0 /\ leftlength = 0 /\ i = 0
  /\ h264length = 0 /\ pts = 0 /\ goesOn = FALSE
  /\ outside = FALSE /\ crashed = FALSE

(* The cell at an offset.  Nothing is known of what lies behind the buffer, *)
(* and nothing follows from looking there but that outside holds, which    *)
(* ends what the model says.                                               *)
At(b, o) == IF o \in Offsets THEN b[o] ELSE Byte(0)

(* The four bytes 00 00 01 and the id of an element. *)
StartsAt(b, o, kind) == /\ At(b, o).kind = kind
                        /\ \A j \in 1 .. 3 : At(b, o + j).kind = "in"

Least(S) == CHOOSE x \in S : \A y \in S : x <= y

Filled(f) == [o \in Offsets |->
                IF o < Len(f.cells) THEN f.cells[o + 1] ELSE buf[o]]

Copied(dst, src, n) ==
  [o \in Offsets |-> IF o \in dst .. dst + n - 1 THEN At(buf, src + o - dst)
                     ELSE buf[o]]

-----------------------------------------------------------------------------
(* ProgramStreamPackHeader does not ask what it is called for: the number  *)
(* of stuffing bytes is what the last three bits of byte 13 say.           *)
Stuffings(b, o) == IF StartsAt(b, o, "ba") THEN {At(b, o).n} ELSE 0 .. 7

(* Mutant of PackHeaderFrom: does not know of stuffing. *)
PackHeaderPlain(b, o, length, stuffing) ==
  LET n == o + PackStruct IN
  IF StartsAt(b, n, "bb")
  THEN /\ NextPack' = n + SystemStruct + At(b, n).n
       /\ leftlength' = length - SystemStruct - At(b, n).n
  ELSE /\ NextPack' = n
       /\ leftlength' = length - PackStruct

(* A system header that follows is passed over, too; what is left is then  *)
(* counted from the length at the pack header.                             *)
PackHeaderFrom(b, o, length, stuffing) ==
  LET n == o + PackStruct + stuffing IN
  IF StartsAt(b, n, "bb")
  THEN /\ NextPack' = n + SystemStruct + At(b, n).n
       /\ leftlength' = length - SystemStruct - At(b, n).n
  ELSE /\ NextPack' = n
       /\ leftlength' = length - PackStruct - stuffing

(* How far that reads. *)
PackHeaderEnd(b, o, stuffing) ==
  LET n == o + PackStruct + stuffing IN
  IF StartsAt(b, n, "bb") THEN n + SystemStruct ELSE n + StartCode

(* What the scan knows.  Behind a frame with a system header it goes on,   *)
(* and finds what an earlier frame has left there.                         *)
Known == {"e0", "bc", "ba"}

GoesOnBehind(b, f) ==
  f.system /\ \E kind \in Known : StartsAt(b, Len(f.cells), kind)

(* Mutant of Begin: what was moved to the front last time stays there. *)
BeginBehind(f) ==
  /\ buf' = Filled(f) /\ frame' = f
  /\ i' = 0 /\ h264length' = h264length /\ pts' = 0
  /\ \E s \in Stuffings(buf', 0) :
       /\ PackHeaderFrom(buf', 0, Len(f.cells), s)
       /\ outside' = (Len(f.cells) > Capacity \/ PackHeaderEnd(buf', 0, s) > Capacity)
  /\ scanning' = (leftlength' >= StartCode)
  /\ goesOn' = GoesOnBehind(buf', f)
  /\ UNCHANGED crashed

(* FrameVector is copied to the buffer, whatever its size, and             *)
(* GetH246FromPs called.                                                   *)
Begin(f) ==
  /\ buf' = Filled(f) /\ frame' = f
  /\ i' = 0 /\ h264length' = 0 /\ pts' = 0
  /\ \E s \in Stuffings(buf', 0) :
       /\ PackHeaderFrom(buf', 0, Len(f.cells), s)
       /\ outside' = (Len(f.cells) > Capacity \/ PackHeaderEnd(buf', 0, s) > Capacity)
  /\ scanning' = (leftlength' >= StartCode)
  /\ goesOn' = GoesOnBehind(buf', f)
  /\ UNCHANGED crashed

(* The condition of the loop compares with a sizeof, hence as unsigned:    *)
(* a negative number of bytes left is a large one.                         *)
AtLeast(length, size) == length < 0 \/ length >= size

Scans(kind) == /\ scanning /\ AtLeast(leftlength, StartCode)
               /\ StartsAt(buf, NextPack, kind)

Video == At(buf, NextPack)

PayloadDataLen == Video.n - 3 - Video.m

(* Mutant of Plausible: a length field too small is taken as it is. *)
Anyhow == TRUE

(* The length field covers the header, at least. *)
Plausible == PayloadDataLen >= 0

(* Mutant of PayloadData: the padding of the struct counts as header. *)
PayloadDataPadded == NextPack + PesStruct + Video.m

PayloadData == NextPack + PesStruct - 1 + Video.m

(* pts is taken from the third element behind the pack header. *)
NotePts == pts' = IF i = 2 THEN NextPack ELSE pts

(* The ends of what the next turn of the loop looks at or copies: the id   *)
(* of an element, its header, its time stamp and its payload.              *)
TimeStamp == 5

Touched ==
  {NextPack + StartCode}
    \cup (IF Scans("e0") /\ i = 2 THEN {NextPack + PesStruct - 1 + TimeStamp} ELSE {})
    \cup (IF Scans("e0") /\ AtLeast(leftlength, PesStruct) /\ Plausible
          THEN {PayloadData + PayloadDataLen} ELSE {})
    \cup (IF Scans("bc") /\ AtLeast(leftlength, MapStruct)
          THEN {NextPack + MapStruct} ELSE {})
    \cup (IF Scans("ba") THEN {PackHeaderEnd(buf, NextPack, At(buf, NextPack).n)}
          ELSE {})

Within == AtLeast(leftlength, StartCode) => \A end \in Touched : end <= Capacity

(* A video element that fits: its payload moves to the front. *)
ScanPes ==
  /\ Scans("e0") /\ AtLeast(leftlength, PesStruct) /\ Plausible
  /\ NotePts
  /\ buf' = Copied(h264length, PayloadData, PayloadDataLen)
  /\ h264length' = h264length + PayloadDataLen
  /\ leftlength' = leftlength - Video.n - 6
  /\ IF leftlength' > 0
     THEN /\ NextPack' = NextPack + 6 + Video.n
          /\ i' = i + 1 /\ UNCHANGED scanning
     ELSE scanning' = FALSE /\ UNCHANGED <<NextPack, i>>
  /\ UNCHANGED <<frame, goesOn, outside, crashed>>

(* The struct does not fit in what is left. *)
ScanPesCut ==
  /\ Scans("e0") /\ ~AtLeast(leftlength, PesStruct)
  /\ NotePts
  /\ scanning' = FALSE
  /\ UNCHANGED <<buf, frame, NextPack, leftlength, i, h264length, goesOn,
                 outside, crashed>>

(* A length field that does not even cover the header: memcpy from a null  *)
(* pointer.                                                                *)
ScanPesEmpty ==
  /\ Scans("e0") /\ AtLeast(leftlength, PesStruct) /\ ~Plausible
  /\ crashed' = TRUE
  /\ UNCHANGED <<buf, frame, scanning, NextPack, leftlength, i, h264length, pts,
                 goesOn, outside>>

ScanMap ==
  /\ Scans("bc")
  /\ IF AtLeast(leftlength, MapStruct)
     THEN leftlength' = leftlength - At(buf, NextPack).n - MapStruct
     ELSE UNCHANGED leftlength
  /\ IF AtLeast(leftlength, MapStruct) /\ leftlength' > 0
     THEN /\ NextPack' = NextPack + At(buf, NextPack).n + MapStruct
          /\ i' = i + 1 /\ UNCHANGED scanning
     ELSE scanning' = FALSE /\ UNCHANGED <<NextPack, i>>
  /\ UNCHANGED <<buf, frame, h264length, pts, goesOn, outside,
                 crashed>>

(* The pack header again; what it returns is not looked at. *)
ScanPack ==
  /\ Scans("ba")
  /\ PackHeaderFrom(buf, NextPack, leftlength, At(buf, NextPack).n)
  /\ i' = i + 1
  /\ UNCHANGED <<buf, frame, scanning, h264length, pts, goesOn, outside,
                 crashed>>

(* Anything else, or too little left, ends the loop. *)
Unrecognised == /\ scanning /\ AtLeast(leftlength, StartCode)
                /\ \A kind \in Known : ~StartsAt(buf, NextPack, kind)

ScanEnd ==
  /\ scanning /\ (Unrecognised \/ ~AtLeast(leftlength, StartCode))
  /\ scanning' = FALSE
  /\ UNCHANGED <<buf, frame, NextPack, leftlength, i, h264length, pts, goesOn,
                 outside, crashed>>

(* Anything may happen when the loop leaves the buffer. *)
ScanOutside ==
  /\ scanning /\ ~Within
  /\ outside' = TRUE
  /\ UNCHANGED <<buf, frame, scanning, NextPack, leftlength, i, h264length, pts,
                 goesOn, crashed>>

Scan == \/ ScanOutside
        \/ Within /\ \/ ScanPes \/ ScanPesCut \/ ScanPesEmpty
                     \/ ScanMap \/ ScanPack \/ ScanEnd

-----------------------------------------------------------------------------
(* The loop looks as far as a time stamp behind the last element.          *)
TooLong(f) == Len(f.cells) + TimeStamp > Capacity

(* What the variables of the demultiplexer hold. *)
PsTypeOK ==
  /\ buf \in [Offsets -> Cell]
  /\ frame \in PsFrame
  /\ scanning \in BOOLEAN
  /\ NextPack \in Nat /\ leftlength \in Int /\ i \in Nat
  /\ h264length \in Nat /\ pts \in Nat
  /\ goesOn \in BOOLEAN /\ outside \in BOOLEAN /\ crashed \in BOOLEAN

(* The frame is taken apart in the buffer it lies in: whatever lengths its *)
(* headers claim, the payloads moved to the front never reach what has not *)
(* been read yet.                                                          *)
UnreadIntact ==
  scanning => \A o \in Offsets : o >= NextPack /\ o < Len(frame.cells) =>
                                   buf[o] = frame.cells[o + 1]

(* A frame as the camera made it yields the payloads of its video elements *)
(* in order, without a gap and with nothing else, whatever earlier frames  *)
(* left in the buffer, unless the scan goes on to it or leaves the buffer. *)
DemuxExact ==
  ~scanning /\ frame.whole /\ ~goesOn /\ ~outside =>
    [o \in 1 .. h264length |-> At(buf, o - 1)] = frame.payload
=============================================================================
