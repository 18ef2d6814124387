------------------------------- MODULE PsFormat -------------------------------
(***************************************************************************)
(* A program stream as the demultiplexer of rtp.h sees it: bytes, of which *)
(* only those matter that begin a header and those a header keeps a length *)
(* in.  A header is a first cell that holds what is read from it, followed *)
(* by cells that are inside it; all else is bytes of NAL units.  The start *)
(* code of a NAL unit is such a header, too.                               *)
(***************************************************************************)
EXTENDS Integers, Sequences

(* The sizes of the structs, as the compiler lays them out: the length of  *)
(* program_stream_e is a two-byte field, so that the struct is padded.     *)
PackStruct   == 14
SystemStruct == 6
MapStruct    == 6
PesStruct    == 10
StartCode    == 4

(* ba, bb, bc, e0: pack header, system header, map and video PES; c0: any  *)
(* other element; nal: a start code; in: inside one of these; byte.        *)
CellKinds == {"ba", "bb", "bc", "e0", "c0", "nal", "in", "byte"}

(* n: bytes of stuffing, the length field, or the value of a byte; m:      *)
(* stuffing_length of a PES; type: of a NAL unit.                          *)
NalTypes == {"sps", "pps", "idr", "p", "other"}
Cell     == [kind : CellKinds, n : Nat, m : Nat, type : NalTypes]

Byte(n) == [kind |-> "byte", n |-> n, m |-> 0, type |-> "other"]
Inside  == [kind |-> "in", n |-> 0, m |-> 0, type |-> "other"]

Element(first, size) == <<first>> \o [i \in 1 .. size - 1 |-> Inside]
First(kind, n, m)    == [kind |-> kind, n |-> n, m |-> m, type |-> "other"]

PackHeader(stuffing) == Element(First("ba", stuffing, 0), PackStruct + stuffing)
SystemHeader(n)      == Element(First("bb", n, 0), SystemStruct + n)
StreamMap(n)         == Element(First("bc", n, 0), MapStruct + n)
Audio(n)             == Element(First("c0", n, 0), PesStruct + n)

(* PackLength counts the three bytes behind it, the stuffing and the       *)
(* payload.                                                                *)
Pes(stuffing, payload) ==
  Element(First("e0", 3 + stuffing + Len(payload), stuffing),
          PesStruct - 1 + stuffing) \o payload

Nal(type, n, size) ==
  Element([First("nal", n, 0) EXCEPT !.type = type], StartCode)
    \o [i \in 1 .. size |-> Byte(n)]

-----------------------------------------------------------------------------
(* A frame: its bytes, whether they are as the camera made them, whether a *)
(* system header is among them, and the payload of its video elements.  Of *)
(* a whole frame also the places its elements begin at, and its end, with  *)
(* how much of the payload lies before each.                               *)
PsFrame == [cells : Seq(Cell), payload : Seq(Cell),
            whole : BOOLEAN, system : BOOLEAN,
            parts : SUBSET [at : Nat, moved : Nat]]

HeaderIn(f, o, kind) ==
  /\ o + StartCode <= Len(f.cells) /\ f.cells[o + 1].kind = kind
  /\ \A j \in 2 .. StartCode : f.cells[o + j].kind = "in"

(* A part of this size with so much payload is followed by another.        *)
FollowedBy(f, e, size, length) ==
  [at |-> e.at + size, moved |-> e.moved + length] \in f.parts

(* The elements as cameras make them: a pack header is not the last, and a *)
(* system header comes behind one only; nothing comes behind audio.        *)
MadePack(f, e) ==
  /\ HeaderIn(f, e.at, "ba")
  /\ LET n == e.at + PackStruct + f.cells[e.at + 1].n
     IN  /\ n < Len(f.cells)
         /\ IF HeaderIn(f, n, "bb")
            THEN f.system /\ FollowedBy(f, e, n - e.at + SystemStruct + f.cells[n + 1].n, 0)
            ELSE FollowedBy(f, e, n - e.at, 0)

MadeMap(f, e) ==
  /\ HeaderIn(f, e.at, "bc")
  /\ FollowedBy(f, e, MapStruct + f.cells[e.at + 1].n, 0)

MadePes(f, e) ==
  /\ HeaderIn(f, e.at, "e0")
  /\ LET c      == f.cells[e.at + 1]
         length == c.n - 3 - c.m
     IN  /\ length >= 0 /\ FollowedBy(f, e, 6 + c.n, length)
         /\ \A j \in 1 .. length :
              f.cells[e.at + PesStruct - 1 + c.m + j] = f.payload[e.moved + j]

MadeAudio(f, e) == HeaderIn(f, e.at, "c0") /\ e.moved = Len(f.payload)

(* The payload begins with a NAL unit, if there is any.                    *)
AsMade(f) ==
  /\ HeaderIn(f, 0, "ba") /\ [at |-> 0, moved |-> 0] \in f.parts
  /\ \A e \in f.parts :
       /\ e.at <= Len(f.cells) /\ e.moved <= Len(f.payload)
       /\ IF e.at = Len(f.cells) THEN e.moved = Len(f.payload)
          ELSE MadePack(f, e) \/ MadeMap(f, e) \/ MadePes(f, e) \/ MadeAudio(f, e)
  /\ f.payload # <<>> =>
       /\ Len(f.payload) >= StartCode /\ f.payload[1].kind = "nal"
       /\ \A j \in 2 .. StartCode : f.payload[j].kind = "in"
=============================================================================
