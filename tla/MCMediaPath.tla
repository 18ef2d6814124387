------------------------------ MODULE MCMediaPath ------------------------------
(***************************************************************************)
(* MediaPath for TLC: frames as cameras send them, and what is left of     *)
(* them when packets are lost.  A packet never ends within a header.       *)
(***************************************************************************)
EXTENDS MediaClaims, SequencesExt

Sps(n) == Nal("sps", n, 6)
Pps(n) == Nal("pps", n, 1)
Idr(n) == Nal("idr", n, 2)
P(n)   == Nal("p", n, 1)
Sei    == Nal("other", 6, 1)

(* Only the first element of a frame carries a time stamp. *)
Elements(payloads) ==
  [k \in DOMAIN payloads |-> Pes(IF k = 1 THEN 5 ELSE 0, payloads[k])]

(* Headers, video elements and what comes behind, each a sequence of       *)
(* elements.                                                               *)
Frame(headers, payloads, tail) ==
  LET elements == headers \o Elements(payloads) \o tail
      moved    == [k \in DOMAIN headers |-> <<>>] \o payloads
                    \o [k \in DOMAIN tail |-> <<>>]
      Before(s, k) == Len(FlattenSeq(SubSeq(s, 1, k)))
  IN  [cells   |-> FlattenSeq(elements),
       payload |-> FlattenSeq(payloads),
       whole   |-> TRUE,
       system  |-> \E k \in DOMAIN headers :
                     \E j \in DOMAIN headers[k] : headers[k][j].kind = "bb",
       parts   |-> {[at |-> Before(elements, k), moved |-> Before(moved, k)] :
                      k \in 0 .. Len(elements)}]

KeyHeaders == <<PackHeader(0) \o SystemHeader(6), StreamMap(4)>>

(* Key frames: an element for each unit; the same with one unit more; all  *)
(* in one element, the pack header twice; new parameters, the PPS first.   *)
Key       == Frame(KeyHeaders, <<Sps(1), Pps(1), Idr(1)>>, <<>>)
KeyLonger == Frame(KeyHeaders, <<Sps(1), Pps(1), Idr(1), Idr(2)>>, <<>>)
KeyInOne  == Frame(<<PackHeader(0), PackHeader(2) \o SystemHeader(6), StreamMap(4)>>,
                   <<Sps(2) \o Sei \o Pps(1) \o Idr(2)>>, <<>>)
KeyPps    == Frame(<<PackHeader(0), StreamMap(4)>>, <<Pps(2), Sps(1) \o Idr(3)>>, <<>>)

(* Others: one unit; with audio or a map behind it; a unit that goes on in *)
(* a second element; a last element without payload.                       *)
Inter == Frame(<<PackHeader(1)>>, <<P(1)>>, <<>>)
Sound == Frame(<<PackHeader(0)>>, <<P(2)>>, <<Audio(3)>>)
Map   == Frame(<<PackHeader(0)>>, <<P(2)>>, <<StreamMap(4)>>)
Long  == Frame(<<PackHeader(0)>>, <<P(3) \o <<Byte(3)>>, <<Byte(3)>>>>, <<>>)
Empty == Frame(<<PackHeader(0)>>, <<P(4), <<>>>>, <<>>)

(* f without the cells from a to b. *)
Without(f, a, b) ==
  [f EXCEPT !.cells = SubSeq(@, 1, a - 1) \o SubSeq(@, b + 1, Len(@)),
            !.whole = FALSE]

(* The first packet lost; the element with the SPS; the end of the SPS;    *)
(* the first element of a long unit; the marker, so that two frames join.  *)
HeadLost   == Without(Key, 1, 26)
SpsLost    == Without(Key, 37, 60)
SpsCut     == Without(Key, 57, 60)
StartLost  == Without(Long, 15, 34)
MarkerLost == [KeyLonger EXCEPT !.cells = SubSeq(@, 1, Len(Key.cells)) \o Inter.cells,
                                !.whole = FALSE]

(* A length left open, as a transport stream may have it. *)
Open == [Inter EXCEPT !.cells = [@ EXCEPT ![16].n = 0], !.whole = FALSE]

(* A length that claims more than the buffer holds. *)
Beyond == [Inter EXCEPT !.cells = [@ EXCEPT ![16].n = 200], !.whole = FALSE]

(* One longer than the buffer; one that fits, but for the time stamp of    *)
(* its last element.                                                       *)
Huge  == Frame(KeyHeaders, <<Sps(1), Pps(1), Nal("idr", 4, 70)>>, <<>>)
Brink == Frame(<<PackHeader(0)>>, <<Sps(3), Nal("p", 5, 69), <<>>>>, <<>>)

(* An open length behind audio, where the scan does not come; it stays in  *)
(* the buffer where Key ends.                                              *)
OpenLeft == [Sound EXCEPT !.cells = PackHeader(0) \o Audio(65) \o Element(First("e0", 0, 0), 14),
                          !.whole = FALSE]

MCFrames == { Key, KeyLonger, KeyInOne, KeyPps, Inter, Sound, Map, Long, Empty,
              HeadLost, SpsLost, SpsCut, StartLost, MarkerLost,
              Open, OpenLeft, Beyond, Huge, Brink }
=============================================================================
