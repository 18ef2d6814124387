---------------------------- MODULE MediaPathProofs ----------------------------
(***************************************************************************)
(* Proofs about MediaPath for every buffer, every set of frames, damaged   *)
(* or not, and any number of them: its types, that the scan in place does  *)
(* not run into what it moves, that frames as cameras make them yield      *)
(* exactly their video, and what the server gets.                          *)
(***************************************************************************)
EXTENDS MediaPath, SequenceTheorems, WellFoundedInduction, TLAPS

-----------------------------------------------------------------------------
(* The demultiplexer. *)

(* Cells, wherever they are looked up. *)
LEMMA AtIsCell ==
  ASSUME NEW b \in [Offsets -> Cell], NEW o \in Int
  PROVE  At(b, o) \in Cell
<1>1. Byte(0) \in Cell
  BY DEF Byte, Cell, CellKinds, NalTypes
<1> QED
  BY <1>1 DEF At

(* What a cell says of itself. *)
LEMMA CellFields ==
  ASSUME NEW c \in Cell
  PROVE  c.n \in Nat /\ c.m \in Nat /\ c.type \in NalTypes
BY DEF Cell

(* A pack header, with or without a system header behind it, takes the     *)
(* scan forward.                                                           *)
LEMMA PackHeaderForward ==
  ASSUME NEW b \in [Offsets -> Cell], NEW o \in Nat, NEW length \in Int,
         NEW s \in Nat, PackHeaderFrom(b, o, length, s)
  PROVE  NextPack' \in Nat /\ NextPack' >= o /\ leftlength' \in Int
<1> DEFINE n == o + PackStruct + s
<1>1. n \in Nat /\ n >= o
  BY DEF PackStruct
<1>2. At(b, n).n \in Nat
  BY <1>1, AtIsCell, CellFields
<1> QED
  BY <1>1, <1>2 DEF PackHeaderFrom, PackStruct, SystemStruct

(* What is moved to the front has not come as far as the scan, and what    *)
(* the scan has not come to is as it was received.                         *)
PsIInv ==
  /\ PsTypeOK
  /\ scanning => h264length <= NextPack
  /\ UnreadIntact

(* It holds at the start. *)
LEMMA PsInitInv == PsInit => PsIInv
<1> SUFFICES ASSUME PsInit PROVE PsIInv
  OBVIOUS
<1>1. Byte(0) \in Cell
  BY DEF Byte, Cell, CellKinds, NalTypes
<1>2. buf \in [Offsets -> Cell]
  BY <1>1 DEF PsInit
<1>3. frame \in PsFrame
  BY EmptySeq DEF PsInit, PsFrame
<1>4. ~scanning /\ scanning \in BOOLEAN
  BY DEF PsInit
<1>5. UnreadIntact
  BY <1>4 DEF UnreadIntact
<1>6. /\ NextPack \in Nat /\ leftlength \in Int /\ i \in Nat
      /\ h264length \in Nat /\ pts \in Nat
  BY DEF PsInit
<1>9. goesOn \in BOOLEAN /\ outside \in BOOLEAN /\ crashed \in BOOLEAN
  BY DEF PsInit
<1>7. scanning => h264length <= NextPack
  BY <1>4
<1>8. PsTypeOK
  BY <1>2, <1>3, <1>4, <1>6, <1>9, Zenon DEF PsTypeOK
<1> QED
  BY <1>5, <1>7, <1>8, Zenon DEF PsIInv

(* A frame copied to the buffer is all unread. *)
LEMMA BeginInv ==
  ASSUME PsIInv, NEW f \in Frames, Begin(f)
  PROVE  PsIInv'
<1> USE DEF PsIInv, PsTypeOK
<1>1. /\ f \in PsFrame /\ f.cells \in Seq(Cell)
      /\ Len(f.cells) \in Nat /\ Capacity \in Nat
  BY FramesAssumption DEF PsFrame
<1>2. buf' \in [Offsets -> Cell]
  <2>1. \A o \in Offsets : o < Len(f.cells) => f.cells[o + 1] \in Cell
    BY <1>1 DEF Offsets
  <2> QED
    BY <2>1 DEF Begin, Filled
<1>3. PICK s \in Stuffings(buf', 0) : PackHeaderFrom(buf', 0, Len(f.cells), s)
  BY DEF Begin
<1>4. s \in Nat
  <2>1. At(buf', 0).n \in Nat
    BY <1>2, AtIsCell, CellFields
  <2> QED
    BY <1>3, <2>1 DEF Stuffings
<1>5. NextPack' \in Nat /\ leftlength' \in Int
  BY <1>1, <1>2, <1>3, <1>4, PackHeaderForward
<1>6. UnreadIntact'
  BY <1>1 DEF UnreadIntact, Begin, Filled, Offsets
<1>7. goesOn' \in BOOLEAN /\ outside' \in BOOLEAN
  BY <1>1 DEF Begin, GoesOnBehind, PsFrame
<1> QED
  BY <1>1, <1>2, <1>5, <1>6, <1>7 DEF Begin, StartCode

(* A payload moves to before what is read next, whatever the length fields *)
(* are.                                                                    *)
LEMMA ScanPesInv ==
  ASSUME PsIInv, ScanPes
  PROVE  PsIInv'
<1> USE DEF PsIInv, PsTypeOK
<1>1. Video \in Cell
  BY AtIsCell DEF Video
<1>2. Video.n \in Nat /\ Video.m \in Nat
  BY <1>1, CellFields
<1> DEFINE n == Video.n
           m == Video.m
<1> HIDE DEF n, m
<1>3. n \in Nat /\ m \in Nat
  BY <1>2 DEF n, m
<1>4. PayloadDataLen = n - 3 - m /\ PayloadDataLen \in Nat
  BY <1>3 DEF PayloadDataLen, ScanPes, Plausible, n, m
<1>5. PayloadData \in Nat
  BY <1>3 DEF PayloadData, PesStruct, n, m
<1>6. buf' = Copied(h264length, PayloadData, PayloadDataLen)
  BY DEF ScanPes
<1>7. buf' \in [Offsets -> Cell]
  <2>1. \A o \in Offsets : At(buf, PayloadData + o - h264length) \in Cell
    BY <1>5, AtIsCell, FramesAssumption DEF Offsets
  <2> QED
    BY <2>1, <1>6 DEF Copied
<1>8. /\ h264length' = h264length + PayloadDataLen
      /\ leftlength' = leftlength - n - 6
      /\ IF leftlength' > 0
         THEN NextPack' = NextPack + 6 + n /\ i' = i + 1 /\ scanning' = scanning
         ELSE scanning' = FALSE /\ NextPack' = NextPack /\ i' = i
      /\ frame' = frame /\ goesOn' = goesOn /\ outside' = outside /\ crashed' = crashed
      /\ pts' \in {NextPack, pts} /\ scanning
  BY DEF ScanPes, NotePts, Scans, n
<1>9. h264length' \in Nat /\ leftlength' \in Int
  BY <1>3, <1>4, <1>8
<1>10. /\ NextPack' \in Nat /\ i' \in Nat /\ scanning' \in BOOLEAN
       /\ scanning' => NextPack' = NextPack + 6 + n
  <2>1. CASE leftlength' > 0
    <3>1. NextPack' = NextPack + 6 + n /\ i' = i + 1
      BY <1>8, <2>1
    <3>2. scanning' = scanning
      BY <1>8, <2>1
    <3>3. NextPack' \in Nat /\ i' \in Nat
      BY <1>3, <3>1
    <3> QED
      BY <3>1, <3>2, <3>3
  <2>2. CASE ~(leftlength' > 0)
    BY <1>8, <2>2
  <2> QED
    BY <2>1, <2>2
<1>11. scanning' => h264length' <= NextPack'
  <2> SUFFICES ASSUME scanning' PROVE h264length' <= NextPack'
    OBVIOUS
  <2>1. NextPack' = NextPack + 6 + n /\ h264length <= NextPack
    BY <1>8, <1>10
  <2> QED
    BY <2>1, <1>3, <1>4, <1>8
<1>12. UnreadIntact'
  <2> SUFFICES ASSUME scanning', NEW o \in Offsets,
                      o >= NextPack', o < Len(frame'.cells)
               PROVE  buf'[o] = frame'.cells[o + 1]
    BY DEF UnreadIntact
  <2>0. NextPack' = NextPack + 6 + n /\ h264length <= NextPack
    BY <1>8, <1>10
  <2>1. o \in Nat /\ o >= NextPack /\ o > h264length + PayloadDataLen - 1
    BY <2>0, <1>3, <1>4, FramesAssumption DEF Offsets
  <2>2. buf'[o] = buf[o]
    BY <2>1, <1>4, <1>6 DEF Copied
  <2> QED
    BY <2>1, <2>2, <1>8 DEF UnreadIntact
<1> QED
  BY <1>7, <1>8, <1>9, <1>10, <1>11, <1>12

(* The other branches move nothing. *)
LEMMA ScanInv ==
  ASSUME PsIInv, Scan
  PROVE  PsIInv'
<1> USE DEF PsIInv, PsTypeOK
<1>0. At(buf, NextPack).n \in Nat
  BY AtIsCell, CellFields
<1>1. CASE ScanPes
  BY <1>1, ScanPesInv
<1>2. CASE ScanPesCut
  BY <1>2 DEF ScanPesCut, NotePts, UnreadIntact
<1>3. CASE ScanPesEmpty
  BY <1>3 DEF ScanPesEmpty, UnreadIntact
<1>4. CASE ScanMap
  <2>0. leftlength' \in Int
    BY <1>0, <1>4 DEF ScanMap, MapStruct
  <2>1. \/ /\ NextPack' = NextPack + At(buf, NextPack).n + MapStruct
           /\ i' = i + 1 /\ scanning' = scanning
        \/ scanning' = FALSE /\ NextPack' = NextPack /\ i' = i
    BY <1>4 DEF ScanMap
  <2>2. NextPack' \in Nat /\ NextPack' >= NextPack /\ i' \in Nat
    BY <1>0, <2>1 DEF MapStruct
  <2>3. scanning /\ scanning' \in BOOLEAN
    BY <1>4, <2>1 DEF ScanMap, Scans
  <2>4. h264length <= NextPack /\ buf' = buf /\ frame' = frame
        /\ h264length' = h264length /\ pts' = pts
        /\ goesOn' = goesOn /\ outside' = outside /\ crashed' = crashed
    BY <1>4, <2>3 DEF ScanMap
  <2>5. h264length' <= NextPack'
    BY <2>2, <2>4
  <2>6. UnreadIntact'
    BY <2>2, <2>3, <2>4, FramesAssumption DEF UnreadIntact, Offsets
  <2> QED
    BY <2>0, <2>2, <2>3, <2>4, <2>5, <2>6
<1>5. CASE ScanPack
  <2>1. NextPack' \in Nat /\ NextPack' >= NextPack /\ leftlength' \in Int
    BY <1>0, <1>5, PackHeaderForward DEF ScanPack
  <2>2. /\ buf' = buf /\ frame' = frame /\ scanning' = scanning
        /\ h264length' = h264length /\ pts' = pts /\ i' = i + 1
        /\ goesOn' = goesOn /\ outside' = outside /\ crashed' = crashed
    BY <1>5 DEF ScanPack
  <2>3. UnreadIntact'
    BY <2>1, <2>2, FramesAssumption DEF UnreadIntact, Offsets
  <2> QED
    BY <2>1, <2>2, <2>3
<1>6. CASE ScanEnd
  BY <1>6 DEF ScanEnd, UnreadIntact
<1>7. CASE ScanOutside
  BY <1>7 DEF ScanOutside, UnreadIntact
<1> QED
  BY <1>1, <1>2, <1>3, <1>4, <1>5, <1>6, <1>7 DEF Scan

(* What only reads the buffer keeps it. *)
LEMMA PsStutterInv ==
  ASSUME PsIInv, UNCHANGED psVars
  PROVE  PsIInv'
BY DEF PsIInv, PsTypeOK, UnreadIntact, psVars

-----------------------------------------------------------------------------
(* Frames as cameras make them: the scan goes from one part to the next,   *)
(* and what lies before it is at the front.                                *)

PsWhole ==
  /\ frame \in Frames \/ (frame.payload = <<>> /\ ~scanning)
  /\ frame.whole /\ ~goesOn /\ outside => TooLong(frame)
  /\ frame.whole /\ ~goesOn /\ ~outside =>
       /\ Len(frame.cells) <= Capacity
       /\ \A o \in 0 .. h264length - 1 : At(buf, o) = frame.payload[o + 1]
       /\ IF scanning
          THEN /\ [at |-> NextPack, moved |-> h264length] \in frame.parts
               /\ leftlength >= Len(frame.cells) - NextPack
               /\ IF frame.system
                  THEN \A kind \in Known : ~StartsAt(buf, Len(frame.cells), kind)
                  ELSE leftlength = Len(frame.cells) - NextPack
          ELSE h264length = Len(frame.payload)

(* A part is an element, or the end. *)
LEMMA PartFacts ==
  ASSUME NEW f \in Frames, f.whole, NEW e \in f.parts
  PROVE  /\ f \in PsFrame /\ Len(f.cells) \in Nat /\ Len(f.payload) \in Nat
         /\ \A k \in 1 .. Len(f.cells) : f.cells[k] \in Cell
         /\ e.at \in Nat /\ e.moved \in Nat
         /\ e.at <= Len(f.cells) /\ e.moved <= Len(f.payload)
         /\ e.at = Len(f.cells) => e.moved = Len(f.payload)
         /\ e.at < Len(f.cells) =>
              MadePack(f, e) \/ MadeMap(f, e) \/ MadePes(f, e) \/ MadeAudio(f, e)
<1>1. f \in PsFrame /\ AsMade(f)
  BY FramesAssumption
<1>2. /\ f.cells \in Seq(Cell) /\ f.payload \in Seq(Cell)
      /\ f.parts \subseteq [at : Nat, moved : Nat]
  BY <1>1 DEF PsFrame
<1>3. /\ Len(f.cells) \in Nat /\ Len(f.payload) \in Nat
      /\ \A k \in 1 .. Len(f.cells) : f.cells[k] \in Cell
      /\ e.at \in Nat /\ e.moved \in Nat
  BY <1>2, LenProperties, ElementOfSeq
<1>4. /\ e.at <= Len(f.cells) /\ e.moved <= Len(f.payload)
      /\ IF e.at = Len(f.cells) THEN e.moved = Len(f.payload)
         ELSE MadePack(f, e) \/ MadeMap(f, e) \/ MadePes(f, e) \/ MadeAudio(f, e)
  BY <1>1 DEF AsMade
<1> QED
  BY <1>1, <1>3, <1>4

(* The part behind a part. *)
LEMMA FollowingPart ==
  ASSUME NEW f \in Frames, f.whole, NEW e \in f.parts,
         NEW size \in Nat, NEW length \in Nat, FollowedBy(f, e, size, length)
  PROVE  /\ e.at + size <= Len(f.cells) /\ e.moved + length <= Len(f.payload)
         /\ e.at + size = Len(f.cells) => e.moved + length = Len(f.payload)
         /\ e.at + size < Len(f.cells) =>
              \E kind \in Known \cup {"c0"} : HeaderIn(f, e.at + size, kind)
<1> DEFINE d == [at |-> e.at + size, moved |-> e.moved + length]
<1>1. d \in f.parts /\ d.at = e.at + size /\ d.moved = e.moved + length
  BY DEF FollowedBy
<1> HIDE DEF d
<1>2. /\ d.at <= Len(f.cells) /\ d.moved <= Len(f.payload)
      /\ d.at = Len(f.cells) => d.moved = Len(f.payload)
      /\ d.at < Len(f.cells) =>
           MadePack(f, d) \/ MadeMap(f, d) \/ MadePes(f, d) \/ MadeAudio(f, d)
  BY <1>1, PartFacts
<1>3. d.at < Len(f.cells) => \E kind \in Known \cup {"c0"} : HeaderIn(f, d.at, kind)
  BY <1>2 DEF MadePack, MadeMap, MadePes, MadeAudio, Known
<1> QED
  BY <1>1, <1>2, <1>3

(* The buffer b holds frame f from o on. *)
Holds(b, f, o) == \A x \in Offsets : x >= o /\ x < Len(f.cells) => b[x] = f.cells[x + 1]

(* A header of the frame is recognised for what it is. *)
LEMMA HeaderSeen ==
  ASSUME NEW f \in Frames, Len(f.cells) <= Capacity,
         NEW b, NEW o \in Nat, NEW kind, HeaderIn(f, o, kind), Holds(b, f, o)
  PROVE  /\ o + StartCode <= Len(f.cells) /\ At(b, o) = f.cells[o + 1]
         /\ StartsAt(b, o, kind)
         /\ \A other : other # kind => ~StartsAt(b, o, other)
<1>1. /\ Capacity \in Nat /\ Len(f.cells) <= Capacity /\ Len(f.cells) \in Nat
      /\ o + 4 <= Len(f.cells)
  <2>1. f.cells \in Seq(Cell)
    BY FramesAssumption DEF PsFrame
  <2> QED
    BY <2>1, FramesAssumption, LenProperties DEF HeaderIn, StartCode
<1>2. ASSUME NEW j \in 0 .. 3 PROVE At(b, o + j) = f.cells[o + j + 1]
  <2>1. o + j \in Offsets /\ o + j >= o /\ o + j < Len(f.cells)
    BY <1>1 DEF Offsets
  <2> QED
    BY <2>1 DEF At, Holds
<1>3. At(b, o) = f.cells[o + 1] /\ At(b, o).kind = kind
  <2>1. o + 0 = o /\ 0 \in 0 .. 3
    OBVIOUS
  <2> QED
    BY <1>2, <2>1 DEF HeaderIn
<1>4. ASSUME NEW j \in 1 .. 3 PROVE At(b, o + j).kind = "in"
  <2>1. j \in 0 .. 3 /\ j + 1 \in 2 .. StartCode /\ o + j + 1 = o + (j + 1)
    BY DEF StartCode
  <2> QED
    BY <1>2, <2>1 DEF HeaderIn
<1> QED
  BY <1>1, <1>3, <1>4 DEF StartsAt, StartCode

(* Behind a pack header, and the system header it may have, the next part  *)
(* begins; the count of what is left is not too low.                       *)
LEMMA PackForward ==
  ASSUME NEW f \in Frames, f.whole, Len(f.cells) <= Capacity, NEW a, NEW moved,
         [at |-> a, moved |-> moved] \in f.parts,
         MadePack(f, [at |-> a, moved |-> moved]),
         NEW b, Holds(b, f, a), NEW length \in Int,
         length >= Len(f.cells) - a, f.system \/ length = Len(f.cells) - a,
         PackHeaderFrom(b, a, length, f.cells[a + 1].n)
  PROVE  /\ [at |-> NextPack', moved |-> moved] \in f.parts
         /\ leftlength' >= Len(f.cells) - NextPack'
         /\ f.system \/ leftlength' = Len(f.cells) - NextPack'
         /\ leftlength' >= StartCode
<1> DEFINE e == [at |-> a, moved |-> moved]
           s == f.cells[a + 1].n
           n == a + PackStruct + s
<1>0. e \in f.parts /\ MadePack(f, e) /\ e.at = a /\ e.moved = moved
  OBVIOUS
<1> HIDE DEF e
<1>1. /\ Len(f.cells) \in Nat /\ a \in Nat /\ moved \in Nat
      /\ \A k \in 1 .. Len(f.cells) : f.cells[k] \in Cell
  BY <1>0, PartFacts
<1>2. s \in Nat
  <2>1. a + 1 \in 1 .. Len(f.cells)
    BY <1>0, <1>1 DEF MadePack, HeaderIn, StartCode
  <2> QED
    BY <1>1, <2>1, CellFields
<1>3. /\ n < Len(f.cells)
      /\ IF HeaderIn(f, n, "bb")
         THEN f.system /\ FollowedBy(f, e, n - a + SystemStruct + f.cells[n + 1].n, 0)
         ELSE FollowedBy(f, e, n - a, 0)
  BY <1>0 DEF MadePack
<1>4. IF StartsAt(b, n, "bb")
      THEN /\ NextPack' = n + 6 + At(b, n).n
           /\ leftlength' = length - 6 - At(b, n).n
      ELSE /\ NextPack' = n
           /\ leftlength' = length - 14 - s
  BY DEF PackHeaderFrom, PackStruct, SystemStruct
<1>5. length >= Len(f.cells) - a /\ (f.system \/ length = Len(f.cells) - a)
      /\ Holds(b, f, a)
  OBVIOUS
<1> HIDE DEF s
<1>6. n \in Nat /\ n >= a /\ n = a + 14 + s
  BY <1>1, <1>2 DEF PackStruct
<1> HIDE DEF n
<1>7. Holds(b, f, n)
  BY <1>1, <1>5, <1>6, FramesAssumption DEF Holds, Offsets
<1>8. ASSUME NEW size \in Nat, FollowedBy(f, e, size, 0)
      PROVE  /\ [at |-> a + size, moved |-> moved] \in f.parts
             /\ a + size <= Len(f.cells)
             /\ a + size < Len(f.cells) =>
                  \E kind \in Known \cup {"c0"} : HeaderIn(f, a + size, kind)
  <2>1. moved + 0 = moved /\ 0 \in Nat
    BY <1>1
  <2> QED
    BY <1>0, <1>8, <2>1, FollowingPart DEF FollowedBy
<1>9. CASE HeaderIn(f, n, "bb")
  <2>1. StartsAt(b, n, "bb") /\ At(b, n) = f.cells[n + 1] /\ n + 4 <= Len(f.cells)
    BY <1>6, <1>7, <1>9, HeaderSeen DEF StartCode
  <2> DEFINE m == f.cells[n + 1].n
  <2>2. m \in Nat
    <3>1. n + 1 \in 1 .. Len(f.cells)
      BY <1>1, <1>6, <2>1
    <3> QED
      BY <1>1, <3>1, CellFields
  <2>3. NextPack' = n + 6 + m /\ leftlength' = length - 6 - m
    BY <1>4, <2>1
  <2>4. f.system /\ FollowedBy(f, e, n - a + 6 + m, 0)
    BY <1>3, <1>9 DEF SystemStruct
  <2> HIDE DEF m
  <2>5. a + (n - a + 6 + m) = n + 6 + m /\ n - a + 6 + m \in Nat
    BY <1>1, <1>6, <2>2
  <2>6. /\ n + 6 + m <= Len(f.cells)
        /\ [at |-> n + 6 + m, moved |-> moved] \in f.parts
    BY <1>8, <2>4, <2>5
  <2>7. leftlength' >= Len(f.cells) - NextPack' /\ leftlength' >= StartCode
    BY <1>1, <1>2, <1>5, <1>6, <2>2, <2>3, <2>6 DEF StartCode
  <2> QED
    BY <2>3, <2>4, <2>6, <2>7
<1>10. CASE ~HeaderIn(f, n, "bb")
  <2>1. FollowedBy(f, e, n - a, 0) /\ n - a \in Nat /\ a + (n - a) = n
    BY <1>1, <1>3, <1>6, <1>10
  <2>2. PICK kind \in Known \cup {"c0"} : HeaderIn(f, n, kind)
    BY <1>3, <1>8, <2>1
  <2>3. ~StartsAt(b, n, "bb") /\ n + 4 <= Len(f.cells)
    BY <1>6, <1>7, <2>2, HeaderSeen DEF Known, StartCode
  <2>4. NextPack' = n /\ leftlength' = length - 14 - s
    BY <1>4, <2>3
  <2>5. [at |-> n, moved |-> moved] \in f.parts
    BY <1>8, <2>1
  <2>6. /\ leftlength' >= Len(f.cells) - NextPack'
        /\ f.system \/ leftlength' = Len(f.cells) - NextPack'
        /\ leftlength' >= StartCode
    BY <1>1, <1>2, <1>5, <1>6, <2>3, <2>4 DEF StartCode
  <2> QED
    BY <2>4, <2>5, <2>6
<1> QED
  BY <1>9, <1>10

(* Reading it, the scan does not leave the frame. *)
LEMMA PackWithin ==
  ASSUME NEW f \in Frames, f.whole, Len(f.cells) <= Capacity, NEW e \in f.parts,
         MadePack(f, e), NEW b, Holds(b, f, e.at)
  PROVE  /\ PackHeaderEnd(b, e.at, f.cells[e.at + 1].n) \in Nat
         /\ PackHeaderEnd(b, e.at, f.cells[e.at + 1].n) <= Len(f.cells)
<1> DEFINE a == e.at
           s == f.cells[a + 1].n
           n == a + PackStruct + s
<1>1. /\ Len(f.cells) \in Nat /\ a \in Nat /\ e.moved \in Nat
      /\ \A k \in 1 .. Len(f.cells) : f.cells[k] \in Cell
  BY PartFacts
<1>2. s \in Nat
  <2>1. a + 1 \in 1 .. Len(f.cells)
    BY <1>1 DEF MadePack, HeaderIn, StartCode
  <2> QED
    BY <1>1, <2>1, CellFields
<1>3. /\ n < Len(f.cells)
      /\ IF HeaderIn(f, n, "bb")
         THEN FollowedBy(f, e, n - a + SystemStruct + f.cells[n + 1].n, 0)
         ELSE FollowedBy(f, e, n - a, 0)
  BY DEF MadePack
<1>4. PackHeaderEnd(b, a, s) = IF StartsAt(b, n, "bb") THEN n + 6 ELSE n + 4
  BY DEF PackHeaderEnd, PackStruct, SystemStruct, StartCode
<1> HIDE DEF s
<1>5. n \in Nat /\ n >= a
  BY <1>1, <1>2 DEF PackStruct
<1> HIDE DEF n
<1>6. Holds(b, f, n)
  BY <1>1, <1>5, FramesAssumption DEF Holds, Offsets
<1>7. ASSUME NEW size \in Nat, FollowedBy(f, e, size, 0)
      PROVE  /\ a + size <= Len(f.cells)
             /\ a + size < Len(f.cells) =>
                  \E kind \in Known \cup {"c0"} : HeaderIn(f, a + size, kind)
  <2>1. e.moved + 0 = e.moved /\ 0 \in Nat
    BY <1>1
  <2> QED
    BY <1>7, <2>1, FollowingPart
<1>8. CASE HeaderIn(f, n, "bb")
  <2>1. StartsAt(b, n, "bb") /\ n + 4 <= Len(f.cells)
    BY <1>5, <1>6, <1>8, HeaderSeen DEF StartCode
  <2> DEFINE m == f.cells[n + 1].n
  <2>2. m \in Nat
    <3>1. n + 1 \in 1 .. Len(f.cells)
      BY <1>1, <1>5, <2>1
    <3> QED
      BY <1>1, <3>1, CellFields
  <2>3. FollowedBy(f, e, n - a + 6 + m, 0)
    BY <1>3, <1>8 DEF SystemStruct
  <2> HIDE DEF m
  <2>4. n - a + 6 + m \in Nat /\ a + (n - a + 6 + m) = n + 6 + m
    BY <1>1, <1>5, <2>2
  <2>5. n + 6 + m <= Len(f.cells)
    BY <1>7, <2>3, <2>4
  <2> QED
    BY <1>1, <1>4, <1>5, <2>1, <2>2, <2>5 DEF s
<1>9. CASE ~HeaderIn(f, n, "bb")
  <2>1. FollowedBy(f, e, n - a, 0) /\ n - a \in Nat /\ a + (n - a) = n
    BY <1>1, <1>3, <1>5, <1>9
  <2>2. PICK kind \in Known \cup {"c0"} : HeaderIn(f, n, kind)
    BY <1>3, <1>7, <2>1
  <2>3. ~StartsAt(b, n, "bb") /\ n + 4 <= Len(f.cells)
    BY <1>5, <1>6, <2>2, HeaderSeen DEF Known, StartCode
  <2> QED
    BY <1>4, <1>5, <2>3 DEF s
<1> QED
  BY <1>8, <1>9

(* A frame is filled in and its first pack header passed: the second part  *)
(* comes next.                                                             *)
LEMMA BeginWhole ==
  ASSUME NEW f \in Frames, Begin(f)
  PROVE  PsWhole'
<1>1. frame' = f /\ h264length' = 0 /\ buf' = Filled(f)
  BY DEF Begin
<1>11. ASSUME Len(f.cells) > Capacity PROVE PsWhole'
  <2>1. outside' /\ (f.whole => TooLong(f))
    <3>1. Len(f.cells) \in Nat /\ Capacity \in Nat
      BY FramesAssumption, LenProperties DEF PsFrame
    <3>2. outside'
      BY <1>11, Zenon DEF Begin
    <3> QED
      BY <1>11, <3>1, <3>2 DEF TooLong, TimeStamp
  <2> QED
    BY <1>1, <2>1 DEF PsWhole, TooLong
<1> SUFFICES ASSUME f.whole, ~goesOn', ~(Len(f.cells) > Capacity)
             PROVE  /\ scanning'
                    /\ ~outside'
                    /\ Len(f.cells) <= Capacity
                    /\ [at |-> NextPack', moved |-> 0] \in f.parts
                    /\ leftlength' >= Len(f.cells) - NextPack'
                    /\ IF f.system
                       THEN \A kind \in Known : ~StartsAt(buf', Len(f.cells), kind)
                       ELSE leftlength' = Len(f.cells) - NextPack'
  BY <1>1, <1>11 DEF PsWhole
<1> DEFINE e == [at |-> 0, moved |-> 0]
<1>2. HeaderIn(f, 0, "ba") /\ e \in f.parts
  BY FramesAssumption DEF AsMade
<1>3. e.at = 0 /\ e.moved = 0
  OBVIOUS
<1> HIDE DEF e
<1>4. /\ Len(f.cells) \in Nat /\ Len(f.cells) > 0 /\ Len(f.cells) <= Capacity
      /\ MadePack(f, e) \/ MadeMap(f, e) \/ MadePes(f, e) \/ MadeAudio(f, e)
  BY <1>2, <1>3, PartFacts, FramesAssumption DEF HeaderIn, StartCode
<1>5. MadePack(f, e)
  BY <1>2, <1>3, <1>4 DEF HeaderIn, MadeMap, MadePes, MadeAudio
<1>6. Holds(buf', f, 0)
  BY <1>1, <1>4, FramesAssumption DEF Holds, Filled, Offsets
<1>7. StartsAt(buf', 0, "ba") /\ At(buf', 0) = f.cells[0 + 1]
  BY <1>2, <1>4, <1>6, HeaderSeen
<1>8. /\ PackHeaderFrom(buf', 0, Len(f.cells), f.cells[0 + 1].n)
      /\ outside' = (Len(f.cells) > Capacity
                     \/ PackHeaderEnd(buf', 0, f.cells[0 + 1].n) > Capacity)
  BY <1>7 DEF Begin, Stuffings
<1>9. /\ [at |-> NextPack', moved |-> 0] \in f.parts
      /\ leftlength' >= Len(f.cells) - NextPack'
      /\ f.system \/ leftlength' = Len(f.cells) - NextPack'
      /\ leftlength' >= StartCode
  <2>1. /\ Len(f.cells) \in Int /\ Len(f.cells) >= Len(f.cells) - 0
        /\ Len(f.cells) = Len(f.cells) - 0
    BY <1>4
  <2> QED
    BY <1>2, <1>4, <1>5, <1>6, <1>8, <2>1, PackForward DEF e
<1>10. f.system => \A kind \in Known : ~StartsAt(buf', Len(f.cells), kind)
  BY DEF Begin, GoesOnBehind
<1>12. ~outside'
  <2> DEFINE end == PackHeaderEnd(buf', 0, f.cells[0 + 1].n)
  <2>1. end \in Nat /\ end <= Len(f.cells)
    BY <1>2, <1>3, <1>4, <1>5, <1>6, PackWithin
  <2>2. outside' = (Len(f.cells) > Capacity \/ end > Capacity)
    BY <1>8
  <2> HIDE DEF end
  <2>3. ~(Len(f.cells) > Capacity) /\ ~(end > Capacity)
    BY <1>4, <2>1, FramesAssumption
  <2> QED
    BY <2>2, <2>3, Zenon
<1> QED
  BY <1>4, <1>9, <1>10, <1>12 DEF Begin

(* Where the scan of a whole frame stands, *)
Scanned == [at |-> NextPack, moved |-> h264length]

(* is one of its parts, with the rest of the frame unread behind it. *)
LEMMA ScanStands ==
  ASSUME PsIInv, PsWhole, frame.whole, ~goesOn, ~outside, scanning
  PROVE  /\ frame \in Frames /\ Scanned \in frame.parts
         /\ Len(frame.cells) \in Nat /\ Len(frame.cells) <= Capacity /\ Capacity \in Nat
         /\ Len(frame.payload) \in Nat
         /\ NextPack \in Nat /\ h264length \in Nat /\ leftlength \in Int
         /\ h264length <= NextPack /\ NextPack <= Len(frame.cells)
         /\ leftlength >= Len(frame.cells) - NextPack
         /\ Holds(buf, frame, NextPack)
         /\ \/ /\ h264length = Len(frame.payload)
               /\ \A kind \in Known : ~Scans(kind)
            \/ \E kind \in Known :
                 /\ kind = "ba" => MadePack(frame, Scanned)
                 /\ kind = "bc" => MadeMap(frame, Scanned)
                 /\ kind = "e0" => MadePes(frame, Scanned)
                 /\ NextPack + StartCode <= Len(frame.cells)
                 /\ At(buf, NextPack) = frame.cells[NextPack + 1]
                 /\ StartsAt(buf, NextPack, kind)
                 /\ \A other : other # kind => ~StartsAt(buf, NextPack, other)
<1>1. /\ frame \in Frames /\ Scanned \in frame.parts
      /\ leftlength >= Len(frame.cells) - NextPack
      /\ IF frame.system
         THEN \A kind \in Known : ~StartsAt(buf, Len(frame.cells), kind)
         ELSE leftlength = Len(frame.cells) - NextPack
  BY DEF PsWhole, Scanned
<1>2. Scanned.at = NextPack /\ Scanned.moved = h264length
  BY DEF Scanned
<1>12. Len(frame.cells) <= Capacity /\ Capacity \in Nat
  BY FramesAssumption DEF PsWhole
<1>3. /\ Len(frame.cells) \in Nat /\ Len(frame.cells) <= Capacity /\ Capacity \in Nat
      /\ Len(frame.payload) \in Nat
      /\ NextPack \in Nat /\ h264length \in Nat /\ NextPack <= Len(frame.cells)
      /\ NextPack = Len(frame.cells) => h264length = Len(frame.payload)
      /\ NextPack < Len(frame.cells) =>
           \/ MadePack(frame, Scanned) \/ MadeMap(frame, Scanned)
           \/ MadePes(frame, Scanned) \/ MadeAudio(frame, Scanned)
  BY <1>1, <1>2, <1>12, PartFacts
<1>4. h264length <= NextPack /\ leftlength \in Int
  BY DEF PsIInv, PsTypeOK
<1>5. Holds(buf, frame, NextPack)
  BY DEF PsIInv, UnreadIntact, Holds
<1>6. CASE NextPack = Len(frame.cells)
  <2>1. \A kind \in Known : ~Scans(kind)
    BY <1>1, <1>3, <1>6 DEF Scans, AtLeast, StartCode
  <2> QED
    BY <1>1, <1>3, <1>4, <1>5, <1>6, <2>1
<1>7. ASSUME NEW kind, HeaderIn(frame, NextPack, kind)
      PROVE  /\ NextPack + StartCode <= Len(frame.cells)
             /\ At(buf, NextPack) = frame.cells[NextPack + 1]
             /\ StartsAt(buf, NextPack, kind)
             /\ \A other : other # kind => ~StartsAt(buf, NextPack, other)
  BY <1>1, <1>3, <1>5, <1>7, HeaderSeen
<1>8. CASE MadeAudio(frame, Scanned)
  <2>1. h264length = Len(frame.payload) /\ HeaderIn(frame, NextPack, "c0")
    BY <1>2, <1>8 DEF MadeAudio
  <2>2. \A kind \in Known : ~Scans(kind)
    BY <1>7, <2>1 DEF Scans, Known
  <2> QED
    BY <1>1, <1>3, <1>4, <1>5, <2>1, <2>2
<1>9. CASE MadePack(frame, Scanned)
  <2>1. HeaderIn(frame, NextPack, "ba") /\ "ba" \in Known
    BY <1>2, <1>9 DEF MadePack, Known
  <2> QED
    BY <1>1, <1>3, <1>4, <1>5, <1>7, <1>9, <2>1
<1>10. CASE MadeMap(frame, Scanned)
  <2>1. HeaderIn(frame, NextPack, "bc") /\ "bc" \in Known
    BY <1>2, <1>10 DEF MadeMap, Known
  <2> QED
    BY <1>1, <1>3, <1>4, <1>5, <1>7, <1>10, <2>1
<1>11. CASE MadePes(frame, Scanned)
  <2>1. HeaderIn(frame, NextPack, "e0") /\ "e0" \in Known
    BY <1>2, <1>11 DEF MadePes, Known
  <2> QED
    BY <1>1, <1>3, <1>4, <1>5, <1>7, <1>11, <2>1
<1> QED
  BY <1>3, <1>6, <1>8, <1>9, <1>10, <1>11

(* A video element: its payload goes behind what was moved before.         *)
LEMMA ScanPesWhole ==
  ASSUME PsIInv, PsWhole, ScanPes, frame.whole, ~goesOn, ~outside
  PROVE  PsWhole'
<1> DEFINE n == Video.n
           m == Video.m
           length == n - 3 - m
           len == Len(frame.cells)
<1>1. /\ frame \in Frames /\ Scanned \in frame.parts
      /\ Scanned.at = NextPack /\ Scanned.moved = h264length
      /\ len \in Nat /\ len <= Capacity /\ Capacity \in Nat /\ Len(frame.payload) \in Nat
      /\ NextPack \in Nat /\ h264length \in Nat /\ leftlength \in Int
      /\ h264length <= NextPack /\ NextPack <= len
      /\ leftlength >= len - NextPack
      /\ Holds(buf, frame, NextPack)
      /\ MadePes(frame, Scanned)
      /\ At(buf, NextPack) = frame.cells[NextPack + 1]
  <2>1. scanning /\ Scans("e0") /\ StartsAt(buf, NextPack, "e0") /\ "e0" \in Known
    BY DEF ScanPes, Scans, Known
  <2>2. Scanned.at = NextPack /\ Scanned.moved = h264length
    BY DEF Scanned
  <2> QED
    BY <2>1, <2>2, ScanStands
<1>2. n \in Nat /\ m \in Nat
  BY AtIsCell, CellFields DEF Video, PsIInv, PsTypeOK
<1>3. /\ length >= 0 /\ FollowedBy(frame, Scanned, 6 + n, length)
      /\ \A j \in 1 .. length :
           frame.cells[NextPack + 9 + m + j] = frame.payload[h264length + j]
  <2>1. frame.cells[Scanned.at + 1] = Video
    BY <1>1 DEF Video
  <2>2. /\ length >= 0 /\ FollowedBy(frame, Scanned, 6 + n, length)
        /\ \A j \in 1 .. length :
             frame.cells[Scanned.at + PesStruct - 1 + m + j] = frame.payload[Scanned.moved + j]
    BY <1>1, <2>1 DEF MadePes
  <2>3. NextPack + PesStruct - 1 + m = NextPack + 9 + m
    BY <1>1, <1>2 DEF PesStruct
  <2> QED
    BY <1>1, <2>2, <2>3
<1>4. /\ buf' = Copied(h264length, NextPack + 9 + m, length)
      /\ h264length' = h264length + length
      /\ leftlength' = leftlength - n - 6
      /\ IF leftlength' > 0
         THEN NextPack' = NextPack + 6 + n /\ scanning' = scanning
         ELSE scanning' = FALSE
      /\ frame' = frame /\ goesOn' = goesOn /\ outside' = outside /\ scanning
  <2>1. PayloadData = NextPack + 9 + m
    BY <1>1, <1>2 DEF PayloadData, PesStruct
  <2> QED
    BY <2>1 DEF ScanPes, PayloadDataLen, Scans
<1> HIDE DEF n, m, len
<1>5. length \in Nat /\ length = n - 3 - m
  BY <1>2, <1>3
<1> HIDE DEF length
<1>6. /\ NextPack + 6 + n <= len /\ h264length + length <= Len(frame.payload)
      /\ NextPack + 6 + n = len => h264length + length = Len(frame.payload)
      /\ [at |-> NextPack + 6 + n, moved |-> h264length + length] \in frame.parts
  <2>1. 6 + n \in Nat /\ NextPack + (6 + n) = NextPack + 6 + n
    BY <1>1, <1>2
  <2>2. /\ Scanned.at + (6 + n) <= len
        /\ Scanned.moved + length <= Len(frame.payload)
        /\ Scanned.at + (6 + n) = len => Scanned.moved + length = Len(frame.payload)
    BY <1>1, <1>3, <1>5, <2>1, FollowingPart DEF len
  <2>3. [at |-> Scanned.at + (6 + n), moved |-> Scanned.moved + length] \in frame.parts
    BY <1>3 DEF FollowedBy
  <2> QED
    BY <1>1, <2>1, <2>2, <2>3
<1>7. ASSUME NEW o \in Nat, o < h264length \/ o >= h264length + length
      PROVE  At(buf', o) = At(buf, o)
  BY <1>1, <1>4, <1>5, <1>7 DEF At, Copied
<1>8. ASSUME NEW o \in 0 .. h264length + length - 1
      PROVE  At(buf', o) = frame.payload[o + 1]
  <2>1. CASE o < h264length
    <3>1. o \in Nat /\ o \in 0 .. h264length - 1
      BY <1>1, <2>1
    <3>2. At(buf, o) = frame.payload[o + 1]
      BY <3>1 DEF PsWhole
    <3> QED
      BY <1>7, <2>1, <3>1, <3>2
  <2>2. CASE o >= h264length
    <3> DEFINE j == o - h264length + 1
               x == NextPack + 9 + m + j - 1
    <3>1. j \in 1 .. length /\ o \in h264length .. h264length + length - 1
      BY <1>1, <1>5, <2>2
    <3>2. /\ x \in Offsets /\ x >= NextPack /\ x < len
          /\ x + 1 = NextPack + 9 + m + j /\ o \in Offsets
          /\ NextPack + 9 + m + o - h264length = x
      BY <1>1, <1>2, <1>5, <1>6, <3>1 DEF Offsets
    <3>3. buf'[o] = At(buf, x)
      BY <1>4, <3>1, <3>2 DEF Copied
    <3>4. At(buf, x) = frame.cells[x + 1]
      BY <1>1, <3>2 DEF At, Holds, len
    <3>5. frame.cells[x + 1] = frame.payload[h264length + j]
      BY <1>3, <3>1, <3>2
    <3>6. h264length + j = o + 1
      BY <1>1, <3>1
    <3> QED
      BY <3>2, <3>3, <3>4, <3>5, <3>6 DEF At
  <2> QED
    BY <1>1, <1>5, <2>1, <2>2
<1>9. ASSUME frame.system, leftlength' > 0, NEW kind \in Known
      PROVE  ~StartsAt(buf', len, kind)
  <2>1. ~StartsAt(buf, len, kind)
    BY <1>4, <1>9 DEF PsWhole, len
  <2>2. \A j \in 0 .. 3 : At(buf', len + j) = At(buf, len + j)
    <3> SUFFICES ASSUME NEW j \in 0 .. 3
                 PROVE  At(buf', len + j) = At(buf, len + j)
      OBVIOUS
    <3>1. len + j \in Nat /\ len + j >= h264length + length
      BY <1>1, <1>2, <1>5, <1>6
    <3> QED
      BY <1>7, <3>1
  <2>3. At(buf', len) = At(buf, len)
    <3>1. len + 0 = len /\ 0 \in 0 .. 3
      BY <1>1
    <3> QED
      BY <2>2, <3>1
  <2> QED
    BY <2>1, <2>2, <2>3 DEF StartsAt
<1>10. /\ frame' \in Frames /\ frame' = frame
       /\ \A o \in 0 .. h264length' - 1 : At(buf', o) = frame.payload[o + 1]
  <2>1. h264length' = h264length + length /\ frame' = frame
    BY <1>4
  <2>2. 0 .. h264length' - 1 = 0 .. h264length + length - 1
    BY <1>1, <1>5, <2>1
  <2> QED
    BY <1>1, <1>8, <2>1, <2>2, Zenon
<1>11. CASE leftlength' > 0
  <2>1. /\ scanning' /\ NextPack' = NextPack + 6 + n
        /\ leftlength' >= len - NextPack'
    BY <1>1, <1>2, <1>4, <1>11
  <2>2. ~frame.system => leftlength' = len - NextPack'
    <3>1. ~frame.system => leftlength = len - NextPack
      BY <1>4 DEF PsWhole, len
    <3> QED
      BY <1>1, <1>2, <1>4, <2>1, <3>1
  <2>3. \A kind \in Known : frame.system => ~StartsAt(buf', Len(frame.cells), kind)
    BY <1>9, <1>11 DEF len
  <2>4. leftlength' >= Len(frame.cells) - NextPack'
        /\ (~frame.system => leftlength' = Len(frame.cells) - NextPack')
    BY <2>1, <2>2 DEF len
  <2> QED
    BY <1>1, <1>4, <1>6, <1>10, <2>1, <2>3, <2>4 DEF PsWhole
<1>12. CASE ~(leftlength' > 0)
  <2>1. ~scanning'
    BY <1>4, <1>12
  <2>2. NextPack + 6 + n = len
    BY <1>1, <1>2, <1>4, <1>6, <1>12
  <2>3. h264length' = Len(frame.payload) /\ ~outside' /\ Len(frame.cells) <= Capacity
    BY <1>1, <1>4, <1>6, <2>2 DEF len
  <2> QED
    BY <1>10, <2>1, <2>3 DEF PsWhole
<1> QED
  BY <1>11, <1>12

(* Nor does the scan, looking for the next element, reading its header or  *)
(* moving its payload, leave the buffer.                                   *)
LEMMA WithinWhole ==
  ASSUME PsIInv, PsWhole, frame.whole, ~goesOn, ~outside, scanning, ~TooLong(frame)
  PROVE  Within
<1> DEFINE len == Len(frame.cells)
           n == At(buf, NextPack).n
           m == At(buf, NextPack).m
<1>1. /\ frame \in Frames /\ Scanned \in frame.parts
      /\ Scanned.at = NextPack /\ Scanned.moved = h264length
      /\ len \in Nat /\ len <= Capacity /\ Capacity \in Nat
      /\ NextPack \in Nat /\ h264length \in Nat /\ NextPack <= len
      /\ Holds(buf, frame, NextPack)
  BY ScanStands DEF Scanned
<1>2. len + 5 <= Capacity
  BY <1>1 DEF TooLong, TimeStamp
<1>3. n \in Nat /\ m \in Nat
  BY AtIsCell, CellFields DEF PsIInv, PsTypeOK
<1>4. ASSUME NEW kind \in Known, Scans(kind)
      PROVE  /\ kind = "ba" => MadePack(frame, Scanned)
             /\ kind = "bc" => MadeMap(frame, Scanned)
             /\ kind = "e0" => MadePes(frame, Scanned)
             /\ At(buf, NextPack) = frame.cells[NextPack + 1]
  BY <1>4, ScanStands DEF Scans
<1>5. ASSUME Scans("e0")
      PROVE  NextPack + 14 <= Capacity /\ PayloadData + PayloadDataLen <= Capacity
  <2>1. MadePes(frame, Scanned) /\ At(buf, NextPack) = frame.cells[Scanned.at + 1]
    BY <1>1, <1>4, <1>5 DEF Known
  <2>2. n - 3 - m >= 0 /\ FollowedBy(frame, Scanned, 6 + n, n - 3 - m)
    BY <2>1 DEF MadePes
  <2>3. PayloadData = NextPack + 9 + m /\ PayloadDataLen = n - 3 - m
    BY <1>1, <1>3 DEF PayloadData, PayloadDataLen, Video, PesStruct
  <2> HIDE DEF n, m, len
  <2>4. 6 + n \in Nat /\ n - 3 - m \in Nat
    BY <1>3, <2>2
  <2>5. Scanned.at + (6 + n) <= len
    BY <1>1, <2>2, <2>4, FollowingPart DEF len
  <2> QED
    BY <1>1, <1>2, <1>3, <2>2, <2>3, <2>5
<1>6. ASSUME Scans("bc") PROVE NextPack + 6 <= Capacity
  <2>1. FollowedBy(frame, Scanned, 6 + n, 0)
    BY <1>1, <1>4, <1>6 DEF MadeMap, MapStruct, Known
  <2> HIDE DEF n, m, len
  <2>2. 6 + n \in Nat /\ 0 \in Nat
    BY <1>3
  <2>3. Scanned.at + (6 + n) <= len
    BY <1>1, <2>1, <2>2, FollowingPart DEF len
  <2> QED
    BY <1>1, <1>2, <1>3, <2>3
<1>7. ASSUME Scans("ba") PROVE PackHeaderEnd(buf, NextPack, n) <= Capacity
  <2>1. MadePack(frame, Scanned) /\ n = frame.cells[NextPack + 1].n
    BY <1>4, <1>7 DEF Known
  <2>2. /\ PackHeaderEnd(buf, NextPack, n) \in Nat
        /\ PackHeaderEnd(buf, NextPack, n) <= len
    BY <1>1, <2>1, PackWithin
  <2> HIDE DEF len
  <2> QED
    BY <1>1, <2>2
<1>8. NextPack + StartCode <= Capacity
  BY <1>1, <1>2 DEF StartCode
<1>9. /\ Scans("e0") => NextPack + PesStruct - 1 + TimeStamp <= Capacity
      /\ Scans("bc") => NextPack + MapStruct <= Capacity
  BY <1>1, <1>5, <1>6 DEF PesStruct, TimeStamp, MapStruct
<1>10. ASSUME NEW end \in Touched PROVE end <= Capacity
  BY <1>5, <1>7, <1>8, <1>9, <1>10 DEF Touched
<1> QED
  BY <1>10 DEF Within

(* A map and a repeated pack header are passed over; the scan ends where   *)
(* nothing is left, behind the last payload.                               *)
LEMMA ScanWhole ==
  ASSUME PsIInv, PsWhole, Scan, ~outside
  PROVE  /\ PsWhole'
         /\ frame.whole /\ ~goesOn => ~ScanPesEmpty
<1>1. scanning /\ frame' = frame /\ goesOn' = goesOn /\ frame \in Frames
  BY DEF Scan, ScanPes, ScanPesCut, ScanPesEmpty, ScanMap, ScanPack, ScanEnd,
         ScanOutside, Scans, PsWhole
<1>14. ~ScanOutside => ~outside'
  BY DEF Scan, ScanPes, ScanPesCut, ScanPesEmpty, ScanMap, ScanPack, ScanEnd
<1> SUFFICES ASSUME frame.whole, ~goesOn
             PROVE  PsWhole' /\ ~ScanPesEmpty
  BY <1>1 DEF PsWhole, TooLong
<1> DEFINE len == Len(frame.cells)
           n == At(buf, NextPack).n
           m == At(buf, NextPack).m
<1>2. /\ frame \in Frames /\ Scanned \in frame.parts
      /\ Scanned.at = NextPack /\ Scanned.moved = h264length
      /\ len \in Nat /\ len <= Capacity /\ Capacity \in Nat /\ Len(frame.payload) \in Nat
      /\ NextPack \in Nat /\ h264length \in Nat /\ leftlength \in Int
      /\ h264length <= NextPack /\ NextPack <= len
      /\ leftlength >= len - NextPack
      /\ Holds(buf, frame, NextPack)
  BY <1>1, ScanStands DEF Scanned
<1>3. n \in Nat /\ m \in Nat
  BY AtIsCell, CellFields DEF PsIInv, PsTypeOK
<1>4. ASSUME NEW kind \in Known, Scans(kind)
      PROVE  /\ kind = "ba" => MadePack(frame, Scanned)
             /\ kind = "bc" => MadeMap(frame, Scanned)
             /\ kind = "e0" => MadePes(frame, Scanned)
             /\ At(buf, NextPack) = frame.cells[NextPack + 1]
  BY <1>1, <1>4, ScanStands DEF Scans
<1>5. /\ len <= Capacity
      /\ \A o \in 0 .. h264length - 1 : At(buf, o) = frame.payload[o + 1]
      /\ IF frame.system
         THEN \A kind \in Known : ~StartsAt(buf, len, kind)
         ELSE leftlength = len - NextPack
  BY <1>1 DEF PsWhole
<1>6. ASSUME Scans("e0")
      PROVE  /\ n - 3 - m >= 0
             /\ NextPack + 6 + n <= len
             /\ NextPack + 6 + n = len => h264length + (n - 3 - m) = Len(frame.payload)
  <2>1. MadePes(frame, Scanned) /\ At(buf, NextPack) = frame.cells[Scanned.at + 1]
    BY <1>2, <1>4, <1>6 DEF Known
  <2>2. n - 3 - m >= 0 /\ FollowedBy(frame, Scanned, 6 + n, n - 3 - m)
    BY <2>1 DEF MadePes
  <2> HIDE DEF n, m, len
  <2>3. 6 + n \in Nat /\ n - 3 - m \in Nat /\ NextPack + (6 + n) = NextPack + 6 + n
    BY <1>2, <1>3, <2>2
  <2>4. /\ Scanned.at + (6 + n) <= len
        /\ Scanned.at + (6 + n) = len => Scanned.moved + (n - 3 - m) = Len(frame.payload)
    BY <1>2, <2>2, <2>3, FollowingPart DEF len
  <2> QED
    BY <1>2, <2>2, <2>3, <2>4
<1>7. ~ScanPesEmpty
  <2> SUFFICES ASSUME ScanPesEmpty PROVE FALSE
    OBVIOUS
  <2>1. Scans("e0") /\ ~(n - 3 - m >= 0)
    BY DEF ScanPesEmpty, Plausible, PayloadDataLen, Video
  <2> QED
    BY <1>6, <2>1
<1>8. ASSUME h264length = Len(frame.payload), ~scanning', ~ScanOutside,
             UNCHANGED <<buf, h264length>>
      PROVE  PsWhole'
  BY <1>1, <1>5, <1>8, <1>14 DEF PsWhole
<1>15. ScanOutside => PsWhole'
  <2>1. ScanOutside => TooLong(frame) /\ outside'
    BY <1>1, WithinWhole DEF ScanOutside
  <2> QED
    BY <1>1, <2>1 DEF PsWhole, TooLong
<1> SUFFICES ASSUME ~ScanOutside PROVE PsWhole'
  BY <1>7, <1>15
<1>9. CASE ScanPes
  BY <1>7, <1>9, ScanPesWhole
<1>10. CASE ScanPesCut
  <2>1. Scans("e0") /\ ~AtLeast(leftlength, 10) /\ ~scanning'
        /\ UNCHANGED <<buf, h264length>>
    BY <1>10 DEF ScanPesCut, PesStruct
  <2>2. leftlength < 10
    BY <1>2, <2>1 DEF AtLeast
  <2> HIDE DEF n, m, len
  <2>3. n - 3 - m = 0 /\ NextPack + 6 + n = len
    BY <1>2, <1>3, <1>6, <2>1, <2>2
  <2>4. h264length = Len(frame.payload)
    BY <1>2, <1>3, <1>6, <2>1, <2>3
  <2> QED
    BY <1>7, <1>8, <2>1, <2>4
<1>11. CASE ScanMap
  <2>1. Scans("bc") /\ "bc" \in Known
    BY <1>11 DEF ScanMap, Known
  <2>2. FollowedBy(frame, Scanned, 6 + n, 0)
    BY <1>2, <1>4, <2>1 DEF MadeMap, MapStruct
  <2>3. /\ IF AtLeast(leftlength, 6) THEN leftlength' = leftlength - n - 6
           ELSE UNCHANGED leftlength
        /\ IF AtLeast(leftlength, 6) /\ leftlength' > 0
           THEN NextPack' = NextPack + n + 6 /\ scanning' = scanning
           ELSE scanning' = FALSE
        /\ UNCHANGED <<buf, h264length>>
    BY <1>11 DEF ScanMap, MapStruct
  <2> HIDE DEF n, m, len
  <2>4. 6 + n \in Nat /\ NextPack + (6 + n) = NextPack + n + 6 /\ h264length + 0 = h264length
        /\ 0 \in Nat
    BY <1>2, <1>3
  <2>5. /\ Scanned.at + (6 + n) <= len
        /\ Scanned.at + (6 + n) = len => Scanned.moved + 0 = Len(frame.payload)
    BY <1>2, <2>2, <2>4, FollowingPart DEF len
  <2>6. [at |-> Scanned.at + (6 + n), moved |-> Scanned.moved + 0] \in frame.parts
    BY <2>2 DEF FollowedBy
  <2>7. /\ NextPack + n + 6 <= len
        /\ NextPack + n + 6 = len => h264length = Len(frame.payload)
        /\ [at |-> NextPack + n + 6, moved |-> h264length] \in frame.parts
    BY <1>2, <2>4, <2>5, <2>6
  <2>8. AtLeast(leftlength, 6) /\ leftlength' = leftlength - n - 6
    BY <1>2, <1>3, <2>3, <2>7 DEF AtLeast
  <2>9. CASE leftlength' > 0
    <3>1. NextPack' = NextPack + n + 6 /\ scanning' /\ buf' = buf /\ h264length' = h264length
      BY <1>1, <2>3, <2>8, <2>9
    <3>2. leftlength' >= len - NextPack' /\ (~frame.system => leftlength' = len - NextPack')
      BY <1>2, <1>3, <1>5, <2>8, <3>1
    <3> QED
      BY <1>1, <1>5, <1>14, <2>7, <3>1, <3>2 DEF PsWhole, len
  <2>10. CASE ~(leftlength' > 0)
    <3>1. ~scanning' /\ NextPack + n + 6 = len
      BY <1>2, <1>3, <2>3, <2>7, <2>8, <2>10
    <3> QED
      BY <1>7, <1>8, <2>3, <2>7, <3>1
  <2> QED
    BY <2>9, <2>10
<1>12. CASE ScanPack
  <2>1. Scans("ba") /\ "ba" \in Known /\ PackHeaderFrom(buf, NextPack, leftlength, n)
        /\ UNCHANGED <<buf, h264length, scanning>>
    BY <1>12 DEF ScanPack, Known
  <2>2. MadePack(frame, Scanned) /\ n = frame.cells[NextPack + 1].n
    BY <1>4, <2>1
  <2>3. PackHeaderFrom(buf, NextPack, leftlength, frame.cells[NextPack + 1].n)
    BY <2>1, <2>2
  <2>4. frame.system \/ leftlength = len - NextPack
    BY <1>5
  <2>5. /\ [at |-> NextPack', moved |-> h264length] \in frame.parts
        /\ leftlength' >= len - NextPack'
        /\ frame.system \/ leftlength' = len - NextPack'
    BY <1>2, <2>2, <2>3, <2>4, PackForward DEF Scanned
  <2>6. buf' = buf /\ h264length' = h264length /\ scanning'
    BY <1>1, <2>1
  <2> QED
    BY <1>1, <1>5, <1>14, <2>5, <2>6 DEF PsWhole
<1>13. CASE ScanEnd
  <2>1. Unrecognised \/ ~AtLeast(leftlength, StartCode)
    BY <1>13 DEF ScanEnd
  <2>2. ASSUME NEW kind \in Known, StartsAt(buf, NextPack, kind),
               NextPack + StartCode <= len
        PROVE  FALSE
    BY <1>2, <2>1, <2>2 DEF Unrecognised, AtLeast, StartCode
  <2>3. h264length = Len(frame.payload)
    BY <1>1, <2>2, ScanStands
  <2> QED
    BY <1>7, <1>8, <1>13, <2>3 DEF ScanEnd
<1> QED
  BY <1>7, <1>9, <1>10, <1>11, <1>12, <1>13, Zenon DEF Scan

-----------------------------------------------------------------------------
(* The gate and the context of librtmp. *)

(* What librtmp stores is what it was last given, and the server has it    *)
(* unless a flag says that it changed or the header got lost.  Once the    *)
(* gate is open with an SPS of proper length, a header is out or will go   *)
(* before the next frame.                                                  *)
WriterIInv ==
  /\ WriterTypeOK
  /\ h264_sps = Stored(given.sps) /\ h264_pps = given.pps
  /\ h264_sps_pps_sent /\ ~Changed /\ ~lostHeader =>
       header = [sps |-> h264_sps, pps |-> h264_pps]
  /\ need_keyframe_ => h264_sps = <<>>
  /\ ~need_keyframe_ /\ ~shortSps =>
       Len(given.sps) >= 4 /\ (Changed \/ h264_sps_pps_sent)
  /\ aborted => shortSps /\ Len(given.sps) < 4
  /\ ParametersInForce
  /\ EveryFrameWritten

(* sps_demux and pps_demux keep what they are given, if it is long enough. *)
LEMMA StoredType ==
  ASSUME NEW s \in Seq(Cell)
  PROVE  /\ Stored(s) \in Seq(Cell)
         /\ Len(s) >= 4 => Stored(s) = s /\ s # <<>>
BY EmptySeq DEF Stored

(* What was handed to librtmp, and what comes of a frame. *)
GivenType == [sps : Seq(Cell), pps : Seq(Cell), frames : Nat]
Receipt   == [n : Nat, under : Header, stale : BOOLEAN, given : Header]

LEMMA GivenFacts ==
  ASSUME WriterTypeOK
  PROVE  /\ given \in GivenType
         /\ given.sps \in Seq(Cell) /\ given.pps \in Seq(Cell) /\ given.frames \in Nat
BY DEF WriterTypeOK, GivenType

(* It holds at the start. *)
LEMMA WriterInitInv == WriterInit => WriterIInv
<1> SUFFICES ASSUME WriterInit PROVE WriterIInv
  OBVIOUS
<1>1. <<>> \in Seq(Cell) /\ Len(<<>>) = 0
  BY EmptySeq
<1>2. given = [sps |-> <<>>, pps |-> <<>>, frames |-> 0] /\ received = {} /\ lost = {}
  BY DEF WriterInit
<1>3. WriterTypeOK
  <2>1. /\ need_keyframe_ \in BOOLEAN /\ h264_sps_changed \in BOOLEAN
        /\ h264_pps_changed \in BOOLEAN /\ h264_sps_pps_sent \in BOOLEAN
        /\ torn \in BOOLEAN /\ aborted \in BOOLEAN /\ shortSps \in BOOLEAN
        /\ lostHeader \in BOOLEAN
    BY Zenon DEF WriterInit
  <2>2. h264_sps \in Seq(Cell) /\ h264_pps \in Seq(Cell) /\ header \in Header
    BY <1>1 DEF WriterInit, NoHeader, Header
  <2>3. received \subseteq [n : Nat, under : Header, stale : BOOLEAN, given : Header]
        /\ lost \subseteq Nat
    BY <1>2, Zenon
  <2>4. given \in [sps : Seq(Cell), pps : Seq(Cell), frames : Nat]
    BY <1>1, <1>2
  <2> QED
    BY <2>1, <2>2, <2>3, <2>4, Zenon DEF WriterTypeOK
<1>4. ParametersInForce /\ EveryFrameWritten
  BY <1>2 DEF ParametersInForce, EveryFrameWritten
<1>5. h264_sps = Stored(given.sps) /\ h264_pps = given.pps
  BY <1>1 DEF WriterInit, Stored
<1>6. need_keyframe_ = TRUE /\ h264_sps_pps_sent = FALSE /\ h264_sps = <<>>
      /\ aborted = FALSE
  BY DEF WriterInit
<1> QED
  BY <1>3, <1>4, <1>5, <1>6, Zenon DEF WriterIInv

(* What is not a write leaves the writer as it is. *)
LEMMA WriterStutterInv ==
  ASSUME WriterIInv, UNCHANGED writerVars
  PROVE  WriterIInv'
BY DEF WriterIInv, WriterTypeOK, Changed, ParametersInForce, EveryFrameWritten,
       Stored, writerVars

(* A unit that does not go to librtmp can be an SPS cut short, at most.    *)
LEMMA NotAdmittedInv ==
  ASSUME WriterIInv, NEW u \in Unit, PushUnit(u), ~Admitted(u), UNCHANGED libVars
  PROVE  WriterIInv'
<1> USE DEF WriterIInv
<1>1. u.type \in NalTypes /\ u.data \in Seq(Cell)
  BY DEF Unit
<1>2. /\ h264_sps' = h264_sps /\ h264_pps' = h264_pps
      /\ h264_sps_changed' = h264_sps_changed
      /\ h264_pps_changed' = h264_pps_changed
      /\ h264_sps_pps_sent' = h264_sps_pps_sent
      /\ torn' = torn /\ aborted' = aborted /\ header' = header
      /\ lostHeader' = lostHeader /\ lost' = lost
      /\ received' = received /\ given' = given
  BY DEF libVars, toServer
<1>3. /\ need_keyframe_' = (need_keyframe_ /\ ~Opens(u))
      /\ shortSps' = (shortSps \/ (u.type = "sps" /\ Len(u.data) < 4))
  BY DEF PushUnit
<1>4. WriterTypeOK'
  <2>1. need_keyframe_' \in BOOLEAN /\ shortSps' \in BOOLEAN
    BY <1>3, Zenon
  <2> QED
    BY <1>2, <2>1, Zenon DEF WriterTypeOK
<1>5. ~need_keyframe_' /\ ~shortSps' => ~need_keyframe_ /\ ~shortSps
  <2> SUFFICES ASSUME ~need_keyframe_', ~shortSps', need_keyframe_ PROVE FALSE
    BY <1>3, Zenon
  <2>1. u.type = "sps"
    BY <1>3 DEF Opens, WriterTypeOK
  <2>2. u.data = <<>>
    BY <2>1 DEF Admitted, Opens
  <2>3. Len(u.data) < 4
    BY <2>2
  <2> QED
    BY <1>3, <2>1, <2>3, Zenon
<1>6. (need_keyframe_' => need_keyframe_) /\ (shortSps => shortSps')
  BY <1>3, Zenon
<1>7. Changed' = Changed
  BY <1>2, Zenon DEF Changed
<1>8. ParametersInForce'
  BY <1>2 DEF ParametersInForce
<1>9. EveryFrameWritten'
  BY <1>2, <1>3 DEF EveryFrameWritten, WriterTypeOK
<1>10. h264_sps' = Stored(given'.sps) /\ h264_pps' = given'.pps
  BY <1>2
<1>11. ~need_keyframe_' /\ ~shortSps' =>
         Len(given'.sps) >= 4 /\ (Changed' \/ h264_sps_pps_sent')
  BY <1>2, <1>5, <1>7, Zenon
<1>12. h264_sps_pps_sent' /\ ~Changed' /\ ~lostHeader' =>
         header' = [sps |-> h264_sps', pps |-> h264_pps']
  BY <1>2, <1>7, Zenon
<1>13. need_keyframe_' => h264_sps' = <<>>
  BY <1>2, <1>6, Zenon
<1>14. aborted' => shortSps' /\ Len(given'.sps) < 4
  BY <1>2, <1>6, Zenon
<1> QED
  BY <1>4, <1>8, <1>9, <1>10, <1>11, <1>12, <1>13, <1>14, Zenon DEF Changed

(* A new SPS, or the known one again. *)
LEMMA WriteSpsInv ==
  ASSUME WriterIInv, ~aborted, NEW u \in Unit, PushUnit(u), u.type = "sps",
         WriteSps(u.data)
  PROVE  WriterIInv'
<1> USE DEF WriterIInv
<1>1. u.data \in Seq(Cell) /\ Stored(u.data) \in Seq(Cell)
  BY StoredType DEF Unit
<1>2. /\ h264_sps' = Stored(u.data) /\ h264_pps' = h264_pps
      /\ h264_sps_changed' = (h264_sps_changed \/ Stored(u.data) # h264_sps)
      /\ h264_pps_changed' = h264_pps_changed
      /\ h264_sps_pps_sent' = h264_sps_pps_sent
      /\ torn' = torn /\ aborted' = aborted /\ header' = header
      /\ lostHeader' = lostHeader /\ lost' = lost
      /\ received' = received
      /\ given' = [given EXCEPT !.sps = u.data]
  BY DEF WriteSps, toServer
<1>3. need_keyframe_' = FALSE /\ shortSps' = (shortSps \/ Len(u.data) < 4)
  BY DEF PushUnit, Opens
<1>4. /\ given' \in GivenType
      /\ given'.sps = u.data /\ given'.pps = given.pps
      /\ given'.frames = given.frames
  BY <1>1, <1>2, GivenFacts DEF GivenType
<1>5. WriterTypeOK'
  <2>1. /\ need_keyframe_' \in BOOLEAN /\ shortSps' \in BOOLEAN
        /\ h264_sps_changed' \in BOOLEAN
    BY <1>2, <1>3, Zenon
  <2> QED
    BY <1>1, <1>2, <1>4, <2>1, Zenon DEF WriterTypeOK, GivenType
<1>6. h264_sps' = Stored(given'.sps) /\ h264_pps' = given'.pps
  BY <1>2, <1>4
<1>7. ASSUME h264_sps_pps_sent', ~Changed', ~lostHeader'
      PROVE  header' = [sps |-> h264_sps', pps |-> h264_pps']
  <2>1. Stored(u.data) = h264_sps /\ ~Changed
    BY <1>2, <1>7, Zenon DEF Changed
  <2>2. header = [sps |-> h264_sps, pps |-> h264_pps]
    BY <1>2, <1>7, <2>1, Zenon
  <2> QED
    BY <1>2, <2>1, <2>2
<1>8. ASSUME ~shortSps'
      PROVE  Len(given'.sps) >= 4 /\ (Changed' \/ h264_sps_pps_sent')
  <2>1. ~shortSps /\ ~(Len(u.data) < 4)
    BY <1>3, <1>8, Zenon
  <2>2. Len(u.data) >= 4
    BY <1>1, <2>1
  <2>3. Changed' \/ h264_sps_pps_sent'
    <3>1. CASE need_keyframe_
      <4>1. h264_sps # Stored(u.data)
        BY <1>1, <2>2, <3>1, StoredType
      <4> QED
        BY <1>2, <4>1, Zenon DEF Changed
    <3>2. CASE ~need_keyframe_
      <4>1. Changed \/ h264_sps_pps_sent
        BY <2>1, <3>2, Zenon
      <4> QED
        BY <1>2, <4>1, Zenon DEF Changed
    <3> QED
      BY <3>1, <3>2, Zenon
  <2> QED
    BY <1>4, <2>2, <2>3
<1>9. ParametersInForce'
  BY <1>2 DEF ParametersInForce
<1>10. EveryFrameWritten'
  <2>1. ~shortSps' => ~shortSps
    BY <1>3, Zenon
  <2> QED
    BY <1>2, <1>4, <2>1 DEF EveryFrameWritten
<1>11. ~aborted'
  BY <1>2
<1> QED
  BY <1>3, <1>5, <1>6, <1>7, <1>8, <1>9, <1>10, <1>11, Zenon DEF Changed

(* A new PPS, or the known one again. *)
LEMMA WritePpsInv ==
  ASSUME WriterIInv, NEW u \in Unit, PushUnit(u), Admitted(u), u.type = "pps",
         WritePps(u.data)
  PROVE  WriterIInv'
<1> USE DEF WriterIInv
<1>1. u.data \in Seq(Cell)
  BY DEF Unit
<1>2. /\ h264_pps' = u.data /\ h264_sps' = h264_sps
      /\ h264_pps_changed' = (h264_pps_changed \/ u.data # h264_pps)
      /\ h264_sps_changed' = h264_sps_changed
      /\ h264_sps_pps_sent' = h264_sps_pps_sent
      /\ torn' = torn /\ aborted' = aborted /\ header' = header
      /\ lostHeader' = lostHeader /\ lost' = lost
      /\ received' = received
      /\ given' = [given EXCEPT !.pps = u.data]
  BY DEF WritePps, toServer
<1>3. need_keyframe_ = FALSE /\ need_keyframe_' = FALSE
  BY DEF PushUnit, Admitted, Opens, WriterTypeOK
<1>4. shortSps' = shortSps
  BY DEF PushUnit, WriterTypeOK
<1>5. /\ given' \in GivenType
      /\ given'.pps = u.data /\ given'.sps = given.sps
      /\ given'.frames = given.frames
  BY <1>1, <1>2, GivenFacts DEF GivenType
<1>6. WriterTypeOK'
  <2>1. need_keyframe_' \in BOOLEAN /\ h264_pps_changed' \in BOOLEAN
    BY <1>2, <1>3, Zenon
  <2> QED
    BY <1>1, <1>2, <1>4, <1>5, <2>1, Zenon DEF WriterTypeOK, GivenType
<1>7. h264_sps' = Stored(given'.sps) /\ h264_pps' = given'.pps
  BY <1>2, <1>5
<1>8. ASSUME h264_sps_pps_sent', ~Changed', ~lostHeader'
      PROVE  header' = [sps |-> h264_sps', pps |-> h264_pps']
  <2>1. u.data = h264_pps /\ ~Changed
    BY <1>2, <1>8, Zenon DEF Changed
  <2>2. header = [sps |-> h264_sps, pps |-> h264_pps]
    BY <1>2, <1>8, <2>1, Zenon
  <2> QED
    BY <1>2, <2>1, <2>2
<1>9. ASSUME ~shortSps'
      PROVE  Len(given'.sps) >= 4 /\ (Changed' \/ h264_sps_pps_sent')
  <2>1. Len(given.sps) >= 4 /\ (Changed \/ h264_sps_pps_sent)
    BY <1>3, <1>4, <1>9, Zenon
  <2> QED
    BY <1>2, <1>5, <2>1, Zenon DEF Changed
<1>10. ParametersInForce'
  BY <1>2 DEF ParametersInForce
<1>11. EveryFrameWritten'
  BY <1>2, <1>4, <1>5 DEF EveryFrameWritten
<1>12. aborted' => shortSps' /\ Len(given'.sps) < 4
  BY <1>2, <1>4, <1>5, Zenon
<1> QED
  BY <1>3, <1>6, <1>7, <1>8, <1>9, <1>10, <1>11, <1>12, Zenon DEF Changed

(* One more frame is counted among those handed over. *)
LEMMA NoteFrameGiven ==
  ASSUME WriterTypeOK, NoteFrame
  PROVE  /\ given' \in GivenType
         /\ given'.sps = given.sps /\ given'.pps = given.pps
         /\ given'.frames = given.frames + 1
BY GivenFacts DEF NoteFrame, GivenType

(* With the gate open librtmp drops a frame, or ends the process, only     *)
(* after an SPS cut short.                                                 *)
LEMMA FrameKeptInv ==
  ASSUME WriterIInv, ~aborted, NEW u \in Unit, PushUnit(u), Admitted(u),
         u.type \in {"idr", "p"}, DropFrame \/ AbortFrame
  PROVE  WriterIInv'
<1> USE DEF WriterIInv
<1>2. need_keyframe_ = FALSE /\ need_keyframe_' = FALSE
  BY DEF PushUnit, Admitted, Opens, WriterTypeOK
<1>3. shortSps' = shortSps
  BY DEF PushUnit, WriterTypeOK
<1>0. AbortFrame => Len(given.sps) < 4
  <2> SUFFICES ASSUME AbortFrame, ~(Len(given.sps) < 4) PROVE FALSE
    OBVIOUS
  <2>1. Len(h264_sps) < 4 /\ h264_sps = Stored(given.sps)
    BY Zenon DEF AbortFrame
  <2>2. given.sps \in Seq(Cell) /\ Len(given.sps) >= 4
    BY GivenFacts
  <2> QED
    BY <2>1, <2>2, StoredType
<1>4. shortSps
  <2> SUFFICES ASSUME ~shortSps PROVE FALSE
    OBVIOUS
  <2>1. Len(given.sps) >= 4 /\ (Changed \/ h264_sps_pps_sent)
    BY <1>2, Zenon
  <2>2. AbortFrame
    BY <2>1, Zenon DEF DropFrame
  <2>3. given.sps \in Seq(Cell)
    BY GivenFacts
  <2> QED
    BY <1>0, <2>1, <2>2, <2>3
<1>5. /\ h264_sps' = h264_sps /\ h264_pps' = h264_pps
      /\ h264_sps_changed' = h264_sps_changed
      /\ h264_pps_changed' = h264_pps_changed
      /\ h264_sps_pps_sent' = h264_sps_pps_sent
      /\ torn' = torn /\ header' = header /\ received' = received
      /\ lostHeader' = lostHeader /\ lost' = lost
  BY DEF DropFrame, AbortFrame, toServer
<1>6. aborted' \in BOOLEAN
  BY Zenon DEF DropFrame, AbortFrame, WriterTypeOK
<1>7. NoteFrame
  BY DEF DropFrame, AbortFrame
<1>8. /\ given' \in GivenType
      /\ given'.sps = given.sps /\ given'.pps = given.pps
  BY <1>7, NoteFrameGiven
<1>9. WriterTypeOK'
  BY <1>2, <1>3, <1>5, <1>6, <1>8, Zenon DEF WriterTypeOK, GivenType
<1>10. ParametersInForce'
  BY <1>5 DEF ParametersInForce
<1>11. EveryFrameWritten'
  BY <1>3, <1>4, Zenon DEF EveryFrameWritten
<1>12. h264_sps' = Stored(given'.sps) /\ h264_pps' = given'.pps
  BY <1>5, <1>8
<1>13. Changed' = Changed
  BY <1>5, Zenon DEF Changed
<1>14. h264_sps_pps_sent' /\ ~Changed' /\ ~lostHeader' =>
         header' = [sps |-> h264_sps', pps |-> h264_pps']
  BY <1>5, <1>13, Zenon
<1>15. aborted' => shortSps' /\ Len(given'.sps) < 4
  <2>1. DropFrame => aborted' = aborted
    BY DEF DropFrame
  <2> QED
    BY <1>0, <1>3, <1>4, <1>8, <2>1, Zenon
<1> QED
  BY <1>2, <1>3, <1>4, <1>9, <1>10, <1>11, <1>12, <1>14, <1>15, Zenon DEF Changed

(* A frame written goes under the parameter sets in force, sent before it  *)
(* if they are new, unless that or the frame itself is lost.               *)
LEMMA WriteFrameInv ==
  ASSUME WriterIInv, ~aborted, NEW u \in Unit, PushUnit(u), Admitted(u),
         u.type \in {"idr", "p"}, WriteFrame
  PROVE  WriterIInv'
<1> USE DEF WriterIInv
<1> DEFINE h == [sps |-> h264_sps, pps |-> h264_pps]
           g == [sps |-> given.sps, pps |-> given.pps]
           x == [n |-> given.frames + 1, under |-> header', stale |-> lostHeader',
                 given |-> g]
<1>2. need_keyframe_ = FALSE /\ need_keyframe_' = FALSE
  BY DEF PushUnit, Admitted, Opens, WriterTypeOK
<1>3. shortSps' = shortSps
  BY DEF PushUnit, WriterTypeOK
<1>4. /\ h264_sps' = h264_sps /\ h264_pps' = h264_pps /\ aborted' = aborted
      /\ h264_sps_changed' = FALSE /\ h264_pps_changed' = FALSE
      /\ h264_sps_pps_sent' = TRUE
      /\ NoteFrame
  BY DEF WriteFrame
<1>5. /\ given.sps \in Seq(Cell) /\ given.pps \in Seq(Cell) /\ given.frames \in Nat
      /\ h264_sps \in Seq(Cell) /\ h264_pps \in Seq(Cell)
      /\ header \in Header /\ lost \subseteq Nat /\ lostHeader \in BOOLEAN
      /\ torn \in BOOLEAN /\ received \subseteq Receipt
  BY GivenFacts DEF WriterTypeOK, Receipt
<1>6. /\ given' \in GivenType
      /\ given'.sps = given.sps /\ given'.pps = given.pps
      /\ given'.frames = given.frames + 1
  BY <1>4, NoteFrameGiven
<1>7. h \in Header /\ g \in Header
  BY <1>5 DEF Header
<1>9. Len(given.sps) >= 4 => h = g
  BY <1>5, StoredType
<1>8. g.sps = given.sps
  OBVIOUS
<1>10. PICK o \in (IF Changed THEN Outcomes ELSE {"sent"}), f \in Outcomes :
         /\ torn' = (torn \/ "torn" \in {o, f})
         /\ header' = IF Changed /\ o = "sent" THEN h ELSE header
         /\ lostHeader' = IF Changed THEN o # "sent" ELSE lostHeader
         /\ Arrives(f = "sent", header', lostHeader')
  BY Zenon DEF WriteFrame
<1>11. \/ received' = received \cup {x} /\ lost' = lost
       \/ received' = received /\ lost' = lost \cup {given.frames + 1}
  BY <1>10, Zenon DEF Arrives
<1> HIDE DEF h, g
<1>12. header' \in Header /\ lostHeader' \in BOOLEAN /\ torn' \in BOOLEAN
  BY <1>5, <1>7, <1>10
<1>13. x \in Receipt
  BY <1>5, <1>7, <1>12 DEF Receipt
<1>14. x.n = given.frames + 1 /\ x.under = header' /\ x.given = g /\ x.stale = lostHeader'
  OBVIOUS
<1> HIDE DEF x
<1>15. received' \subseteq Receipt /\ lost' \subseteq Nat
  <2>1. given.frames + 1 \in Nat
    BY <1>5
  <2> QED
    BY <1>5, <1>11, <1>13, <2>1, Zenon
<1>16. WriterTypeOK'
  <2>1. /\ need_keyframe_' \in BOOLEAN /\ shortSps' \in BOOLEAN /\ aborted' \in BOOLEAN
        /\ h264_sps_changed' \in BOOLEAN /\ h264_pps_changed' \in BOOLEAN
        /\ h264_sps_pps_sent' \in BOOLEAN
    BY <1>2, <1>3, <1>4, Zenon DEF WriterTypeOK
  <2> QED
    BY <1>4, <1>5, <1>6, <1>12, <1>15, <2>1, Zenon DEF WriterTypeOK, GivenType, Receipt
<1>17. h264_sps' = Stored(given'.sps) /\ h264_pps' = given'.pps
  BY <1>4, <1>6
<1>18. ~Changed'
  BY <1>4, Zenon DEF Changed
<1>19. ~lostHeader' => header' = h
  <2>1. Changed \/ h264_sps_pps_sent
    BY DEF WriteFrame
  <2> QED
    BY <1>10, <2>1, Zenon DEF h
<1>20. ParametersInForce'
  <2> SUFFICES ASSUME NEW r \in received', Len(r.given.sps) >= 4, ~r.stale
               PROVE  r.under = r.given
    BY DEF ParametersInForce
  <2>1. CASE r \in received
    BY <2>1 DEF ParametersInForce
  <2>2. CASE r = x
    BY <1>8, <1>9, <1>14, <1>19, <2>2
  <2> QED
    BY <1>11, <2>1, <2>2
<1>21. EveryFrameWritten'
  <2> SUFFICES ASSUME ~shortSps
               PROVE  1 .. given.frames + 1 = lost' \cup {r.n : r \in received'}
    BY <1>3, <1>6 DEF EveryFrameWritten
  <2>1. 1 .. given.frames = lost \cup {r.n : r \in received}
    BY Zenon DEF EveryFrameWritten
  <2>2. 1 .. given.frames + 1 = (1 .. given.frames) \cup {given.frames + 1}
    BY <1>5
  <2>3. {r.n : r \in received \cup {x}} = {r.n : r \in received} \cup {given.frames + 1}
    BY <1>14
  <2> QED
    BY <1>11, <2>1, <2>2, <2>3, Zenon
<1>22. ~lostHeader' => header' = [sps |-> h264_sps', pps |-> h264_pps']
  BY <1>4, <1>19 DEF h
<1>23. ~shortSps' => Len(given'.sps) >= 4
  BY <1>2, <1>3, <1>6, Zenon
<1>24. ~aborted'
  BY <1>4
<1> QED
  BY <1>2, <1>4, <1>16, <1>17, <1>20, <1>21, <1>22, <1>23, <1>24, Zenon DEF Changed

(* Every unit keeps the invariant of the writer. *)
LEMMA PushUnitInv ==
  ASSUME WriterIInv, ~aborted, NEW u \in Unit, PushUnit(u)
  PROVE  WriterIInv'
<1>1. CASE ~Admitted(u) /\ UNCHANGED libVars
  BY <1>1, NotAdmittedInv, Zenon
<1>2. CASE Admitted(u) /\ u.type = "sps" /\ WriteSps(u.data)
  BY <1>2, WriteSpsInv, Zenon
<1>3. CASE Admitted(u) /\ u.type = "pps" /\ WritePps(u.data)
  BY <1>3, WritePpsInv, Zenon
<1>4. CASE /\ Admitted(u) /\ u.type \in {"idr", "p"}
           /\ DropFrame \/ AbortFrame
  BY <1>4, FrameKeptInv, Zenon
<1>5. CASE Admitted(u) /\ u.type \in {"idr", "p"} /\ WriteFrame
  BY <1>5, WriteFrameInv, Zenon
<1> QED
  BY <1>1, <1>2, <1>3, <1>4, <1>5, Zenon DEF PushUnit

-----------------------------------------------------------------------------
(* The two together. *)

(* Where there are ends of a unit, the least of them is one. *)
LEMMA LeastIsIn ==
  ASSUME NEW S \in SUBSET Nat, S # {}
  PROVE  Least(S) \in S /\ \A y \in S : Least(S) <= y
<1>1. PICK x \in S : \A y \in S : ~ (<<y, x>> \in OpToRel(<, Nat))
  BY NatLessThanWellFounded, WFMin
<1>2. \A y \in S : x <= y
  <2> SUFFICES ASSUME NEW y \in S, ~(x <= y) PROVE FALSE
    OBVIOUS
  <2>1. x \in Nat /\ y \in Nat /\ y < x
    OBVIOUS
  <2>2. <<y, x>> \in OpToRel(<, Nat)
    BY <2>1 DEF OpToRel
  <2> QED
    BY <1>1, <2>2
<1> QED
  BY <1>2 DEF Least

(* Behind the start code at p another one or the end of the payload is     *)
(* found,                                                                  *)
LEMMA EndFound ==
  ASSUME PsIInv, p \in 0 .. h264length, IsStart(p)
  PROVE  Least(Ends) \in Ends
<1>1. p \in Nat /\ h264length \in Nat
  BY DEF PsIInv, PsTypeOK
<1> DEFINE len == StartCodeLen(p)
<1>2. len \in Nat /\ p + len <= h264length
  BY <1>1 DEF IsStart, StartCodeLen, StartCode
<1>3. h264length \in Ends /\ Ends \in SUBSET Nat
  BY <1>1, <1>2 DEF Ends
<1> QED
  BY <1>3, LeastIsIn

(* and what lies between is a unit.                                        *)
LEMMA UnitFound ==
  ASSUME PsIInv, p \in 0 .. h264length, IsStart(p)
  PROVE  /\ Least(Ends) \in 0 .. h264length
         /\ Data \in Seq(Cell)
<1>1. p \in Nat /\ h264length \in Nat
  BY DEF PsIInv, PsTypeOK
<1> DEFINE len == StartCodeLen(p)
<1>2. len \in Nat /\ p + len <= h264length
  BY <1>1 DEF IsStart, StartCodeLen, StartCode
<1>4. Least(Ends) \in Ends
  BY EndFound
<1>5. Least(Ends) \in p + len .. h264length
  BY <1>4 DEF Ends
<1> DEFINE n == Least(Ends) - p - len
<1> HIDE DEF len
<1>6. Least(Ends) \in 0 .. h264length /\ n \in Nat
  BY <1>1, <1>2, <1>5
<1>7. Data = [j \in 1 .. n |-> At(buf, p + len + j - 1)]
  BY DEF Data, len
<1> HIDE DEF n
<1>8. \A j \in 1 .. n : At(buf, p + len + j - 1) \in Cell
  <2> SUFFICES ASSUME NEW j \in 1 .. n PROVE At(buf, p + len + j - 1) \in Cell
    OBVIOUS
  <2>1. p + len + j - 1 \in Int
    BY <1>1, <1>2, <1>6
  <2> QED
    BY <2>1, AtIsCell DEF PsIInv, PsTypeOK
<1>9. Data \in Seq(Cell)
  BY <1>6, <1>7, <1>8
<1> QED
  BY <1>6, <1>9

(* The inductive invariant of the media path. *)
MediaIInv ==
  /\ PsIInv /\ WriterIInv
  /\ p \in 0 .. h264length
  /\ nframes \in 0 .. MaxFrames

(* The invariant of the composition at the start. *)
LEMMA MediaInitInv == MediaInit => MediaIInv
<1> SUFFICES ASSUME MediaInit PROVE MediaIInv
  OBVIOUS
<1>1. PsIInv /\ WriterIInv
  BY PsInitInv, WriterInitInv DEF MediaInit
<1>2. h264length = 0 /\ p = 0 /\ nframes = 0
  BY DEF MediaInit, PsInit
<1>3. p \in 0 .. h264length /\ nframes \in 0 .. MaxFrames
  BY <1>2, MediaAssumption
<1> QED
  BY <1>1, <1>3, Zenon DEF MediaIInv

(* A new frame begins at its front. *)
LEMMA ReceiveInv ==
  ASSUME MediaIInv, Receive
  PROVE  MediaIInv'
<1>1. PICK f \in Frames : Begin(f)
  BY DEF Receive
<1>2. PsIInv'
  BY <1>1, BeginInv DEF MediaIInv
<1>3. WriterIInv'
  BY WriterStutterInv DEF MediaIInv, Receive
<1>4. p' = 0 /\ h264length' = 0
  BY <1>1 DEF Receive, Begin
<1>5. nframes' \in 0 .. MaxFrames
  BY MediaAssumption DEF MediaIInv, Receive
<1>6. p' \in 0 .. h264length'
  BY <1>4
<1> QED
  BY <1>2, <1>3, <1>5, <1>6, Zenon DEF MediaIInv

(* Taking apart does not touch the writer. *)
LEMMA DemuxInv ==
  ASSUME MediaIInv, Demux
  PROVE  MediaIInv'
<1>1. PsIInv'
  BY ScanInv DEF MediaIInv, Demux
<1>2. WriterIInv'
  BY WriterStutterInv DEF MediaIInv, Demux
<1>3. p' = p /\ nframes' = nframes
  BY DEF Demux
<1>4. h264length' >= h264length /\ h264length \in Nat /\ h264length' \in Nat
  <2>1. h264length \in Nat /\ h264length' \in Nat
    BY <1>1 DEF MediaIInv, PsIInv, PsTypeOK
  <2>2. CASE ScanPes
    <3>1. PayloadDataLen >= 0
      BY <2>2 DEF ScanPes, Plausible
    <3>2. PayloadDataLen \in Int
      BY AtIsCell, CellFields DEF PayloadDataLen, Video, MediaIInv, PsIInv, PsTypeOK
    <3>3. h264length' = h264length + PayloadDataLen
      BY <2>2 DEF ScanPes
    <3> QED
      BY <2>1, <3>1, <3>2, <3>3
  <2>3. CASE ~ScanPes
    <3>1. h264length' = h264length
      BY <2>3 DEF Demux, Scan, ScanPesCut, ScanPesEmpty, ScanMap, ScanPack, ScanEnd,
                  ScanOutside
    <3> QED
      BY <2>1, <3>1
  <2> QED
    BY <2>2, <2>3
<1>5. p' \in 0 .. h264length' /\ nframes' \in 0 .. MaxFrames
  BY <1>3, <1>4 DEF MediaIInv
<1> QED
  BY <1>1, <1>2, <1>5, Zenon DEF MediaIInv

(* Splitting does not touch the buffer. *)
LEMMA SplitUnitInv ==
  ASSUME MediaIInv, SplitUnit
  PROVE  MediaIInv'
<1>1. PsIInv'
  BY PsStutterInv DEF MediaIInv, SplitUnit
<1>2. Least(Ends) \in 0 .. h264length /\ Data \in Seq(Cell)
  BY UnitFound DEF MediaIInv, SplitUnit
<1>3. WriterIInv'
  <2>1. PICK type \in Types : PushUnit([type |-> type, data |-> Data])
    BY DEF SplitUnit
  <2>2. type \in NalTypes
    <3>1. CASE Data = <<>>
      BY <3>1 DEF Types
    <3>2. CASE Data # <<>>
      <4>1. type = At(buf, p).type /\ p \in Int
        BY <3>2 DEF Types, MediaIInv
      <4> QED
        BY <4>1, AtIsCell, CellFields DEF MediaIInv, PsIInv, PsTypeOK
    <3> QED
      BY <3>1, <3>2
  <2>3. [type |-> type, data |-> Data] \in Unit
    BY <1>2, <2>2 DEF Unit
  <2> QED
    BY <2>1, <2>3, PushUnitInv DEF MediaIInv, SplitUnit, Alive
<1>4. p' = Least(Ends) /\ h264length' = h264length /\ nframes' = nframes
  BY DEF SplitUnit, psVars
<1>5. p' \in 0 .. h264length' /\ nframes' \in 0 .. MaxFrames
  BY <1>2, <1>4, Zenon DEF MediaIInv
<1> QED
  BY <1>1, <1>3, <1>5, Zenon DEF MediaIInv

(* Reading through the null pointer changes nothing but crashed. *)
LEMMA SplitFailsInv ==
  ASSUME MediaIInv, SplitFails
  PROVE  MediaIInv'
<1>1. PsIInv'
  BY DEF MediaIInv, SplitFails, PsIInv, PsTypeOK, UnreadIntact
<1>2. WriterIInv'
  BY WriterStutterInv DEF MediaIInv, SplitFails
<1> QED
  BY <1>1, <1>2, Zenon DEF MediaIInv, SplitFails

(* The invariant is one of the specification. *)
LEMMA MediaInvariant == MediaSpec => []MediaIInv
<1>1. MediaInit => MediaIInv
  BY MediaInitInv
<1>2. MediaIInv /\ [MediaNext]_mediaVars => MediaIInv'
  <2> SUFFICES ASSUME MediaIInv, [MediaNext]_mediaVars PROVE MediaIInv'
    OBVIOUS
  <2>1. CASE Receive
    BY <2>1, ReceiveInv
  <2>2. CASE Demux
    BY <2>2, DemuxInv
  <2>3. CASE SplitUnit
    BY <2>3, SplitUnitInv
  <2>4. CASE SplitFails
    BY <2>4, SplitFailsInv
  <2>5. CASE UNCHANGED mediaVars
    <3>1. PsIInv'
      BY <2>5, PsStutterInv DEF MediaIInv, mediaVars
    <3>2. WriterIInv'
      BY <2>5, WriterStutterInv DEF MediaIInv, mediaVars
    <3>3. p' = p /\ nframes' = nframes /\ h264length' = h264length
      BY <2>5 DEF mediaVars, psVars
    <3> QED
      BY <3>1, <3>2, <3>3, Zenon DEF MediaIInv
  <2> QED
    BY <2>1, <2>2, <2>3, <2>4, <2>5, Zenon DEF MediaNext
<1> QED
  BY <1>1, <1>2, PTL DEF MediaSpec

(* The variables of the demultiplexer, the gate and the librtmp context    *)
(* keep their types, whatever the frames contain.                          *)
THEOREM MediaTypeCorrect == MediaSpec => []MediaTypeOK
<1>1. MediaIInv => MediaTypeOK
  BY Zenon DEF MediaIInv, PsIInv, WriterIInv, MediaTypeOK
<1> QED
  BY <1>1, MediaInvariant, PTL

(* GetH246FromPs never overwrites, in the buffer it shares with its input, *)
(* a byte of the frame that it has still to read: for every frame, every   *)
(* length field and every buffer.                                          *)
THEOREM UnreadIntactHolds == MediaSpec => []UnreadIntact
<1>1. MediaIInv => UnreadIntact
  BY Zenon DEF MediaIInv, PsIInv
<1> QED
  BY <1>1, MediaInvariant, PTL

(* srs_h264_write_raw_frames sends every frame under the parameter sets    *)
(* given last, for every order of units and of failing writes, unless the  *)
(* header with them got lost.                                              *)
THEOREM ParametersInForceHolds == MediaSpec => []ParametersInForce
<1>1. MediaIInv => ParametersInForce
  BY Zenon DEF MediaIInv, WriterIInv
<1> QED
  BY <1>1, MediaInvariant, PTL

(* Behind the SPS gate of OnH264Data a frame is lost in a failing write    *)
(* only: librtmp drops none, as long as no SPS was cut short.              *)
THEOREM EveryFrameWrittenHolds == MediaSpec => []EveryFrameWritten
<1>1. MediaIInv => EveryFrameWritten
  BY Zenon DEF MediaIInv, WriterIInv
<1> QED
  BY <1>1, MediaInvariant, PTL

-----------------------------------------------------------------------------
(* Frames as cameras make them, at the splitting: it begins at a start     *)
(* code, and from one it comes to the next or to the end.                  *)
MediaWhole ==
  /\ PsWhole
  /\ crashed => ~frame.whole \/ goesOn
  /\ frame.whole /\ ~goesOn /\ ~outside =>
       p = 0 \/ (~scanning /\ (p = h264length \/ IsStart(p)))

(* The video of a whole frame begins with a start code. *)
LEMMA PayloadStarts ==
  ASSUME PsIInv, PsWhole, frame.whole, ~goesOn, ~outside, ~scanning
  PROVE  h264length = 0 \/ IsStart(0)
<1>1. /\ h264length = Len(frame.payload) /\ frame.payload \in Seq(Cell)
      /\ \A o \in 0 .. h264length - 1 : At(buf, o) = frame.payload[o + 1]
  BY DEF PsWhole, PsIInv, PsTypeOK, PsFrame
<1>2. CASE frame.payload = <<>>
  BY <1>1, <1>2
<1>3. CASE frame.payload # <<>>
  <2>1. /\ h264length \in Nat /\ h264length >= 4 /\ frame.payload[1].kind = "nal"
        /\ \A j \in 2 .. 4 : frame.payload[j].kind = "in"
    <3>1. AsMade(frame)
      BY <1>3, FramesAssumption DEF PsWhole
    <3> QED
      BY <1>1, <1>3, <3>1, LenProperties DEF AsMade, StartCode
  <2>2. At(buf, 0).kind = "nal"
    BY <1>1, <2>1
  <2>3. ASSUME NEW j \in 1 .. 3 PROVE At(buf, 0 + j).kind = "in"
    <3>1. j \in 0 .. h264length - 1 /\ 0 + j = j /\ j + 1 \in 2 .. 4
      BY <2>1
    <3> QED
      BY <1>1, <2>1, <3>1
  <2> QED
    BY <2>1, <2>2, <2>3 DEF IsStart, StartCodeLen, StartCode
<1> QED
  BY <1>2, <1>3

(* No frame is there at the start. *)
LEMMA MediaWholeInit == MediaInit => MediaWhole
<1> SUFFICES ASSUME MediaInit PROVE MediaWhole
  OBVIOUS
<1>1. /\ frame.payload = <<>> /\ ~scanning /\ h264length = 0 /\ ~crashed /\ p = 0
      /\ ~outside /\ frame.cells = <<>> /\ 0 <= Capacity
  BY FramesAssumption DEF MediaInit, PsInit
<1> QED
  BY <1>1, EmptySeq DEF MediaWhole, PsWhole

(* Taking apart ends with exactly the video, and splitting does not fail on*)
(* it.                                                                     *)
LEMMA MediaWholeNext ==
  ASSUME MediaIInv, MediaWhole, [MediaNext]_mediaVars
  PROVE  MediaWhole'
<1>0. PsIInv /\ PsWhole
  BY DEF MediaIInv, MediaWhole
<1>1. ASSUME UNCHANGED <<buf, frame, scanning, NextPack, leftlength, h264length, goesOn,
                          outside>>
      PROVE  PsWhole'
  BY <1>0, <1>1 DEF PsWhole, StartsAt, At, TooLong
<1>2. CASE Receive
  <2>1. PICK f \in Frames : Begin(f)
    BY <1>2 DEF Receive
  <2>2. PsWhole' /\ p' = 0 /\ ~crashed'
    BY <1>2, <2>1, BeginWhole DEF Receive, Begin, Alive
  <2> QED
    BY <2>2 DEF MediaWhole
<1>3. CASE Demux
  <2>1. Scan /\ ~crashed /\ ~outside /\ scanning /\ p' = p
    BY <1>3 DEF Demux, Alive, Scan, ScanPes, ScanPesCut, ScanPesEmpty, ScanMap,
                ScanPack, ScanEnd, ScanOutside, Scans
  <2>2. PsWhole' /\ (frame.whole /\ ~goesOn => ~ScanPesEmpty)
    BY <1>0, <2>1, ScanWhole
  <2>3. frame' = frame /\ goesOn' = goesOn /\ (~ScanPesEmpty => crashed' = crashed)
    BY <2>1 DEF Scan, ScanPes, ScanPesCut, ScanPesEmpty, ScanMap, ScanPack, ScanEnd,
                ScanOutside
  <2> QED
    BY <2>1, <2>2, <2>3 DEF MediaWhole
<1>4. CASE SplitUnit
  <2>1. /\ UNCHANGED <<buf, frame, scanning, NextPack, leftlength, h264length, goesOn,
                    outside, crashed>>
        /\ p' = Least(Ends) /\ ~scanning /\ IsStart(p)
    BY <1>4 DEF SplitUnit, psVars
  <2>2. Least(Ends) = h264length \/ IsStart(Least(Ends))
    <3>1. Least(Ends) \in Ends
      BY <2>1, EndFound DEF MediaIInv
    <3> QED
      BY <3>1 DEF Ends
  <2>3. p' = h264length' \/ IsStart(p)'
    BY <2>1, <2>2 DEF IsStart, StartCodeLen, At
  <2> QED
    BY <1>1, <2>1, <2>3 DEF MediaWhole
<1>5. CASE SplitFails
  <2>1. ~scanning /\ p < h264length /\ ~IsStart(p) /\ h264length \in Nat /\ ~outside
    BY <1>0, <1>5 DEF SplitFails, Alive, PsIInv, PsTypeOK
  <2>2. ~frame.whole \/ goesOn
    BY <1>0, <2>1, PayloadStarts DEF MediaWhole
  <2>3. PsWhole' /\ frame' = frame /\ goesOn' = goesOn
    BY <1>1, <1>5 DEF SplitFails
  <2> QED
    BY <2>2, <2>3 DEF MediaWhole
<1>6. CASE UNCHANGED mediaVars
  <2>1. /\ UNCHANGED <<buf, frame, scanning, NextPack, leftlength, h264length, goesOn,
                    outside, crashed>>
        /\ p' = p
    BY <1>6 DEF mediaVars, psVars
  <2>2. PsWhole'
    BY <1>1, <2>1
  <2> QED
    BY <2>1, <2>2 DEF MediaWhole, IsStart, StartCodeLen, At
<1> QED
  BY <1>2, <1>3, <1>4, <1>5, <1>6, Zenon DEF MediaNext

(* So it is at any time. *)
LEMMA MediaWholeInvariant == MediaSpec => []MediaWhole
BY MediaInvariant, MediaWholeInit, MediaWholeNext, PTL DEF MediaSpec

(* Of every frame as a camera makes it, whatever its elements and whatever *)
(* came before it, GetH246FromPs returns the payloads of the video         *)
(* elements, exactly, unless the scan goes on behind it or the frame is    *)
(* too long for the buffer.                                                *)
THEOREM DemuxExactHolds == MediaSpec => []DemuxExact
<1>1. MediaIInv /\ MediaWhole => DemuxExact
  <2> SUFFICES ASSUME MediaIInv, MediaWhole, ~scanning, frame.whole, ~goesOn, ~outside
               PROVE  [o \in 1 .. h264length |-> At(buf, o - 1)] = frame.payload
    BY DEF DemuxExact
  <2>1. /\ h264length = Len(frame.payload) /\ frame.payload \in Seq(Cell)
        /\ \A o \in 0 .. h264length - 1 : At(buf, o) = frame.payload[o + 1]
    BY DEF MediaIInv, MediaWhole, PsWhole, PsIInv, PsTypeOK, PsFrame
  <2>2. h264length \in Nat /\ frame.payload = [o \in 1 .. h264length |-> frame.payload[o]]
    BY <2>1, LenProperties
  <2>3. ASSUME NEW o \in 1 .. h264length PROVE At(buf, o - 1) = frame.payload[o]
    <3>1. o - 1 \in 0 .. h264length - 1 /\ (o - 1) + 1 = o
      BY <2>2
    <3> QED
      BY <2>1, <3>1
  <2> QED
    BY <2>2, <2>3
<1> QED
  BY <1>1, MediaInvariant, MediaWholeInvariant, PTL

(* The process ends, or the buffer is left, in GetH246FromPs or in         *)
(* read_h264_frame on a damaged frame, one too long for the buffer or on   *)
(* what lies behind a frame with a system header, and in librtmp while the *)
(* last SPS is one cut short.                                              *)
THEOREM WholeFramesSurviveHolds == MediaSpec => []WholeFramesSurvive
<1>1. MediaIInv /\ MediaWhole => WholeFramesSurvive
  BY DEF MediaIInv, WriterIInv, MediaWhole, PsWhole, WholeFramesSurvive
<1> QED
  BY <1>1, MediaInvariant, MediaWholeInvariant, PTL
=============================================================================
