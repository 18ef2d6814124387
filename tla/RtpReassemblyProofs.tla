------------------------- MODULE RtpReassemblyProofs -------------------------
(***************************************************************************)
(* The safety properties of RtpReassembly hold for every video and any     *)
(* number of faults.  All of them are about the order in which the loop    *)
(* will come to the packets: what it has collected, then what jrtplib      *)
(* holds for the camera in the order of the numbers, then what the camera  *)
(* has yet to send.                                                        *)
(***************************************************************************)
EXTENDS RtpReassembly, FiniteSetTheorems, SequenceTheorems,
        WellFoundedInduction, TLAPS

-----------------------------------------------------------------------------
(* The packets of the camera the loop has yet to take, by their number. *)
Ahead == {q.n : q \in queue["camera"]} \cup next .. Len(Video)

PacketsOf(f) == {n \in DOMAIN Video : Video[n].frame = f}

(* What strangers send belongs to no frame; what is collected is theirs or *)
(* the camera's.                                                           *)
FromCamera(p) == p.n \in DOMAIN Video /\ p = CameraPacket(p.n)

TypeInv ==
  /\ RtpTypeOK
  /\ \A p \in queue["stranger"] : p.frame = 0
  /\ \A k \in DOMAIN FrameVector :
       FrameVector[k].frame = 0 \/ FromCamera(FrameVector[k])

(* As long as the network keeps the order nothing of a frame that is out,  *)
(* or of one before it, is collected or will be.                           *)
OrderInv ==
  faults["late"] = 0 /\ faults["copied"] = 0 =>
    /\ late = {}
    /\ WholeInOrder
    /\ \A i \in DOMAIN out : out[i] # 0 =>
         /\ \A m \in Ahead : out[i] < Video[m].frame
         /\ \A k \in DOMAIN FrameVector :
              FrameVector[k].frame = 0 \/ out[i] < FrameVector[k].frame

(* What comes in its time: packets T of the camera ahead and those at the  *)
(* places I of the collection are in the order of their numbers, and no    *)
(* marker has got lost before them but those of D.                         *)
Strays == {p \in queue["stranger"] : p.type = 96}

InTime(T, I, D) ==
  /\ T \subseteq Ahead /\ I \subseteq DOMAIN FrameVector /\ D \subseteq DOMAIN Video
  /\ \A i \in I :
       /\ FromCamera(FrameVector[i])
       /\ \A j \in I : i < j => FrameVector[i].n < FrameVector[j].n
       /\ \A m \in T : FrameVector[i].n < m
  /\ \A n \in DOMAIN Video \ (T \cup D) :
       Video[n].marker => /\ \A m \in T : n < m
                          /\ \A i \in I : n < FrameVector[i].n

(* Each marker of D, each packet without one in the collection, ahead or   *)
(* under way that is not in its time has a fault to account for it.        *)
Untimely(ps) == {p \in ps : ~p.marker}
Returned(T)  == {n \in Ahead \ T : ~Video[n].marker}

Paid(T, I, D) ==
  /\ IsFiniteSet(D) /\ IsFiniteSet(Untimely(late)) /\ IsFiniteSet(Untimely(Strays))
  /\ Cardinality(D) <= faults["lostMarker"] + faults["late"]
  /\ Cardinality(D) + Cardinality(DOMAIN FrameVector \ I) + Cardinality(Returned(T))
       + Cardinality(Untimely(late)) + Cardinality(Untimely(Strays))
       <= faults["lostMarker"] + faults["late"] + faults["copied"] + faults["stray"]

FlowInv == \E T, I, D : InTime(T, I, D) /\ Paid(T, I, D)

CopyInv == FlowInv /\ (overrun => down /\ BufSize < LargestCopy)

(* A frame that may still come out whole: all of it is ahead, behind a     *)
(* marker or with nothing collected before it; or the collection is its    *)
(* first part and all the rest is ahead, with nothing before it.           *)
Coming(f) ==
  /\ PacketsOf(f) \subseteq Ahead
  /\ \A m \in Ahead :
       Video[m].frame < f /\ (\A k \in Ahead : m < k => f <= Video[k].frame)
         => Video[m].marker
  /\ (\A m \in Ahead : f <= Video[m].frame) => FrameVector = <<>>

Begun(f) ==
  /\ FrameVector # <<>> /\ FrameVector[1].frame = f /\ FromStart(FrameVector)
  /\ \A m \in Ahead : FrameVector[Len(FrameVector)].n < m
  /\ \A m \in PacketsOf(f) : FrameVector[Len(FrameVector)].n < m => m \in Ahead

AllFrames == {Video[n].frame : n \in DOMAIN Video}

Spoiled == {f \in AllFrames : f \notin Whole /\ ~Coming(f) /\ ~Begun(f)}

(* Each fault has its share of the frames it spoils now or later: a packet *)
(* of a stranger or one behind its time spoils one frame when it is taken. *)
Charge == faults["lost"] + faults["copied"] + faults["stray"]
            + 2 * faults["lostMarker"] + 3 * faults["late"]

DamageInv ==
  /\ IsFiniteSet(late) /\ IsFiniteSet(queue["stranger"])
  /\ Cardinality(Spoiled) + Cardinality(late) + Cardinality(Strays) <= Charge

-----------------------------------------------------------------------------
(* The video, in the words of the proofs. *)
LEMMA VideoFacts ==
  /\ Len(Video) \in Nat /\ Len(Video) > 0 /\ DOMAIN Video = 1 .. Len(Video)
  /\ LastFrame \in Nat /\ BufSize \in Nat /\ MaxFaults \in Nat
  /\ Longest \in Nat /\ Longest > 1
  /\ \A n \in DOMAIN Video :
       /\ Video[n].frame \in Nat /\ Video[n].frame > 0 /\ Video[n].frame <= LastFrame
       /\ Video[n].marker \in BOOLEAN
  /\ Video[Len(Video)].marker
<1>1. Len(Video) \in Nat /\ Len(Video) > 0 /\ DOMAIN Video = 1 .. Len(Video)
  BY VideoAssumption, LenProperties
<1>2. \A n \in DOMAIN Video : Video[n] \in [frame : Nat \ {0}, marker : BOOLEAN]
  BY <1>1, VideoAssumption, ElementOfSeq
<1>3. \A n \in DOMAIN Video : Video[n].frame <= LastFrame
  BY <1>1, VideoAssumption DEF LastFrame
<1> QED
  BY <1>1, <1>2, <1>3, VideoAssumption DEF LastFrame

(* What a packet of the camera is made of.                                 *)
LEMMA CameraPacketType ==
  ASSUME NEW n \in DOMAIN Video
  PROVE  /\ CameraPacket(n) \in Packet /\ FromCamera(CameraPacket(n))
         /\ CameraPacket(n).n = n /\ CameraPacket(n).type = 96
         /\ CameraPacket(n).frame = Video[n].frame /\ CameraPacket(n).frame > 0
         /\ CameraPacket(n).marker = Video[n].marker
BY VideoFacts DEF CameraPacket, Packet, FromCamera

(* Only packets of the video are ahead.                                    *)
LEMMA AheadIsVideo ==
  ASSUME TypeInv
  PROVE  Ahead \subseteq DOMAIN Video
BY VideoFacts DEF TypeInv, RtpTypeOK, Ahead

(* What the camera sends next is ahead of all that is queued. *)
LEMMA SendFacts ==
  ASSUME TypeInv, Send
  PROVE  /\ next \in DOMAIN Video /\ next \in Ahead /\ next' = next + 1
         /\ next' \in 1 .. Len(Video) + 1
         /\ \A q \in queue["camera"] : q.n < next
         /\ \A n \in DOMAIN Video : next <= n => n \in Ahead
BY VideoFacts DEF TypeInv, RtpTypeOK, Ahead, Send

(* A packet that is taken is the camera's next one or a stranger's. *)
NextOfCamera(q) ==
  /\ FromCamera(q) /\ q.type = 96
  /\ q.n \in Ahead /\ \A m \in Ahead : q.n <= m
  /\ Ahead' = Ahead \ {q.n} /\ queue'["stranger"] = queue["stranger"]

OfStranger(q) ==
  /\ q.frame = 0 /\ q \in queue["stranger"]
  /\ Ahead' = Ahead /\ queue'["stranger"] = queue["stranger"] \ {q}

(* GetNextPacket gives the first packet of the queue.                      *)
LEMMA TakenFacts ==
  ASSUME TypeInv, cur # "none", NEW q \in queue[cur], Taken(q), next' = next
  PROVE  /\ q \in Packet /\ queue' \in [Sources -> SUBSET Packet]
         /\ queue'["camera"] \subseteq queue["camera"]
         /\ queue'["stranger"] \subseteq queue["stranger"]
         /\ NextOfCamera(q) \/ OfStranger(q)
<1> USE DEF TypeInv, RtpTypeOK
<1>1. /\ cur \in Sources /\ q \in Packet /\ \A r \in queue[cur] : q.n <= r.n
      /\ queue' = [queue EXCEPT ![cur] = queue[cur] \ {q}]
  BY DEF Taken
<1>2. queue' \in [Sources -> SUBSET Packet]
  BY <1>1
<1>3. CASE cur = "camera"
  <2>1. /\ queue'["camera"] = queue["camera"] \ {q}
        /\ queue'["stranger"] = queue["stranger"]
    BY <1>1, <1>3 DEF Sources
  <2>2. q.n \in 1 .. next - 1 /\ q = CameraPacket(q.n) /\ q.n \in DOMAIN Video
    BY <1>3, VideoFacts
  <2>3. \A r \in queue["camera"] : r.n = q.n => r = q
    BY <1>3, <2>2
  <2>4. q.n \in Ahead /\ \A m \in Ahead : q.n <= m
    BY <1>1, <1>3, <2>2, VideoFacts DEF Ahead
  <2>5. Ahead' = Ahead \ {q.n}
    BY <2>1, <2>2, <2>3, VideoFacts DEF Ahead
  <2>6. FromCamera(q) /\ q.type = 96
    BY <2>2, CameraPacketType DEF FromCamera
  <2> QED
    BY <1>1, <1>2, <2>1, <2>4, <2>5, <2>6 DEF NextOfCamera
<1>4. CASE cur = "stranger"
  <2>1. /\ queue'["stranger"] = queue["stranger"] \ {q}
        /\ queue'["camera"] = queue["camera"]
    BY <1>1, <1>4 DEF Sources
  <2>2. Ahead' = Ahead
    BY <2>1 DEF Ahead
  <2> QED
    BY <1>1, <1>2, <1>4, <2>1, <2>2 DEF OfStranger
<1> QED
  BY <1>1, <1>3, <1>4 DEF Sources

(* What each branch of the loop does with it: keeping it,                  *)
LEMMA CollectFacts ==
  ASSUME TypeInv, cur # "none", Collect
  PROVE  \E q \in Packet :
           /\ NextOfCamera(q) \/ OfStranger(q)
           /\ q.type = 96 /\ ~q.marker
           /\ FrameVector' = Append(FrameVector, q)
           /\ UNCHANGED <<late, out, overrun, down, faults>>
BY TakenFacts DEF Collect, IsVideo

(* completing a frame with it,                                             *)
LEMMA CompleteFacts ==
  ASSUME TypeInv, cur # "none", Complete
  PROVE  \E q \in Packet :
           /\ NextOfCamera(q) \/ OfStranger(q)
           /\ q.type = 96 /\ q.marker
           /\ FrameVector' = <<>>
           /\ out' = Append(out, Recognised(Append(FrameVector, q)))
           /\ overrun' = (Len(Append(FrameVector, q)) > BufSize)
           /\ overrun' \in BOOLEAN /\ down' \in BOOLEAN /\ (overrun' => down')
           /\ UNCHANGED <<late, faults>>
<1>1. PICK q \in queue[cur] :
        /\ Taken(q) /\ q.type = 96 /\ q.marker
        /\ out' = Append(out, Recognised(Append(FrameVector, q)))
        /\ TakeApart(Append(FrameVector, q))
  BY DEF Complete, IsVideo
<1>2. FrameVector' = <<>> /\ UNCHANGED <<next, late, faults>>
  BY DEF Complete
<1>3. overrun' = (Len(Append(FrameVector, q)) > BufSize)
  BY <1>1 DEF TakeApart
<1>4. overrun' \in BOOLEAN
  BY <1>3
<1>5. down' \in BOOLEAN /\ (overrun' => down')
  BY <1>1, <1>4 DEF TakeApart
<1>6. q \in Packet /\ (NextOfCamera(q) \/ OfStranger(q))
  BY <1>1, <1>2, TakenFacts
<1> QED
  BY <1>1, <1>2, <1>3, <1>4, <1>5, <1>6, Zenon

(* and leaving it alone.                                                   *)
LEMMA SkipFacts ==
  ASSUME TypeInv, cur # "none", Skip
  PROVE  \E q \in Packet :
           /\ OfStranger(q) /\ q.type # 96
           /\ UNCHANGED <<late, FrameVector, out, overrun, down, faults>>
BY TakenFacts DEF Skip, IsVideo, NextOfCamera

(* What is sent in time changes nothing; a packet that is lost or late is  *)
(* missing, a late one that comes is one more.                             *)
LEMMA NetworkFacts ==
  ASSUME TypeInv
  PROVE  /\ Arrive \/ Duplicate => Ahead' = Ahead
         /\ Lose \/ Delay => Ahead' = Ahead \ {next}
         /\ Stray \/ BeginDataAccess \/ NextSource => Ahead' = Ahead
         /\ ArriveLate => \E q \in late : /\ Ahead' = Ahead \cup {q.n}
                                          /\ late' = late \ {q}
         /\ Arrive \/ Duplicate \/ Lose \/ Delay \/ ArriveLate =>
              queue'["stranger"] = queue["stranger"]
<1> USE DEF TypeInv, RtpTypeOK, Ahead, Sources, Enqueue
<1>1. ASSUME Arrive \/ Duplicate
      PROVE  Ahead' = Ahead /\ queue'["stranger"] = queue["stranger"]
  <2>1. /\ queue' = [queue EXCEPT !["camera"] = @ \cup {CameraPacket(next)}]
        /\ Send
    BY <1>1 DEF Arrive, Duplicate
  <2>2. /\ queue'["camera"] = queue["camera"] \cup {CameraPacket(next)}
        /\ queue'["stranger"] = queue["stranger"]
    BY <2>1
  <2>3. CameraPacket(next).n = next /\ next' = next + 1 /\ next <= Len(Video)
    BY <2>1, VideoFacts DEF Send, CameraPacket
  <2> QED
    BY <2>2, <2>3, VideoFacts
<1>2. ASSUME Lose \/ Delay
      PROVE  Ahead' = Ahead \ {next} /\ queue'["stranger"] = queue["stranger"]
  <2>1. queue' = queue /\ Send
    BY <1>2 DEF Lose, Delay
  <2> QED
    BY <2>1, SendFacts, VideoFacts
<1>3. ASSUME Stray \/ BeginDataAccess \/ NextSource
      PROVE  Ahead' = Ahead
  <2>1. next' = next /\ queue'["camera"] = queue["camera"]
    BY <1>3 DEF Stray, BeginDataAccess, NextSource
  <2> QED
    BY <2>1
<1>4. ASSUME ArriveLate
      PROVE  /\ \E q \in late : Ahead' = Ahead \cup {q.n} /\ late' = late \ {q}
             /\ queue'["stranger"] = queue["stranger"]
  <2>1. PICK q \in late : /\ queue' = [queue EXCEPT !["camera"] = @ \cup {q}]
                          /\ late' = late \ {q} /\ next' = next
    BY <1>4 DEF ArriveLate
  <2>2. /\ queue'["camera"] = queue["camera"] \cup {q}
        /\ queue'["stranger"] = queue["stranger"]
    BY <2>1
  <2> QED
    BY <2>1, <2>2
<1> QED
  BY <1>1, <1>2, <1>3, <1>4

-----------------------------------------------------------------------------
(* Types. *)
LEMMA TypeInit == RtpInit => TypeInv
<1> SUFFICES ASSUME RtpInit PROVE TypeInv
  OBVIOUS
<1>1. /\ FrameVector \in Seq(Packet) /\ out \in Seq(0 .. LastFrame)
      /\ DOMAIN FrameVector = {}
  BY EmptySeq DEF RtpInit
<1>2. next \in 1 .. Len(Video) + 1 /\ late = {} /\ overrun = FALSE /\ down = FALSE /\ cur = "none"
  BY VideoFacts DEF RtpInit
<1>4. queue \in [Sources -> SUBSET Packet] /\ faults \in [Kinds -> 0 .. MaxFaults]
  BY VideoFacts DEF RtpInit
<1>3. queue["camera"] = {} /\ queue["stranger"] = {}
  BY DEF RtpInit, Sources
<1> QED
  BY <1>1, <1>2, <1>3, <1>4 DEF TypeInv, RtpTypeOK

(* Faults are counted in numbers.                                          *)
LEMMA FaultsType ==
  ASSUME TypeInv
  PROVE  /\ AllFaults \in Nat
         /\ \A k \in Kinds : faults[k] \in Nat /\ faults[k] <= AllFaults
<1>1. \A k \in Kinds : faults[k] \in Nat
  BY VideoFacts DEF TypeInv, RtpTypeOK
<1> QED
  BY <1>1 DEF AllFaults, Kinds

(* No kind of fault is counted beyond the bound.                           *)
LEMMA FaultType ==
  ASSUME TypeInv, NEW k \in Kinds, Fault(k)
  PROVE  faults' \in [Kinds -> 0 .. MaxFaults]
<1>1. faults[k] + 1 \in 0 .. MaxFaults
  BY FaultsType, VideoFacts DEF Fault
<1> QED
  BY <1>1 DEF TypeInv, RtpTypeOK, Fault

(* What is recognised is the number of a frame, or 0.                      *)
LEMMA RecognisedType ==
  ASSUME NEW q \in Packet, NEW ps \in Seq(Packet), Len(ps) > 0
  PROVE  /\ Recognised(ps) \in 0 .. LastFrame
         /\ Recognised(ps) # 0 => FromStart(ps) /\ Recognised(ps) = ps[1].frame
<1>1. 1 \in DOMAIN ps
  BY LenProperties
<1>2. CASE FromStart(ps)
  <2>1. PICK n \in DOMAIN Video : ps[1] = CameraPacket(n)
    <3>1. PICK n \in DOMAIN Video :
            n + 1 - 1 \in DOMAIN Video /\ ps[1] = CameraPacket(n + 1 - 1)
      BY <1>1, <1>2 DEF FromStart
    <3> QED
      BY <3>1
  <2> QED
    BY <1>2, <2>1, CameraPacketType, VideoFacts DEF Recognised
<1>3. CASE ~FromStart(ps)
  BY <1>3, VideoFacts DEF Recognised
<1> QED
  BY <1>2, <1>3

(* What is appended to the collection is the camera's or of no frame. *)
LEMMA AppendPacket ==
  ASSUME TypeInv, NEW q \in Packet, q.frame = 0 \/ FromCamera(q)
  PROVE  LET ps == Append(FrameVector, q)
         IN  /\ ps \in Seq(Packet) /\ Len(ps) = Len(FrameVector) + 1
             /\ DOMAIN ps = 1 .. Len(FrameVector) + 1 /\ Len(FrameVector) \in Nat
             /\ DOMAIN FrameVector = 1 .. Len(FrameVector)
             /\ \A k \in DOMAIN FrameVector : ps[k] = FrameVector[k]
             /\ ps[Len(FrameVector) + 1] = q
             /\ \A k \in DOMAIN ps : ps[k].frame = 0 \/ FromCamera(ps[k])
<1>1. FrameVector \in Seq(Packet)
  BY DEF TypeInv, RtpTypeOK
<1>2. Len(FrameVector) \in Nat /\ DOMAIN FrameVector = 1 .. Len(FrameVector)
  BY <1>1, LenProperties
<1> DEFINE ps == Append(FrameVector, q)
<1>3. /\ ps \in Seq(Packet) /\ Len(ps) = Len(FrameVector) + 1
      /\ \A k \in 1 .. Len(FrameVector) : ps[k] = FrameVector[k]
      /\ ps[Len(FrameVector) + 1] = q
  BY <1>1, AppendProperties
<1>4. DOMAIN ps = 1 .. Len(FrameVector) + 1
  BY <1>3, LenProperties
<1> HIDE DEF ps
<1>5. ASSUME NEW k \in DOMAIN ps PROVE ps[k].frame = 0 \/ FromCamera(ps[k])
  BY <1>2, <1>3, <1>4 DEF TypeInv
<1> QED
  BY <1>2, <1>3, <1>4, <1>5 DEF ps

(* Every step keeps the types.                                             *)
LEMMA TypeNext ==
  ASSUME TypeInv, [RtpNext]_rtpVars
  PROVE  TypeInv'
<1> USE DEF TypeInv, RtpTypeOK
<1>1. CASE Arrive \/ Duplicate
  <2>1. next \in DOMAIN Video /\ next' = next + 1 /\ next' \in 1 .. Len(Video) + 1
    BY <1>1, SendFacts DEF Arrive, Duplicate
  <2>2. queue' = [queue EXCEPT !["camera"] = @ \cup {CameraPacket(next)}]
    BY <1>1 DEF Arrive, Duplicate, Enqueue
  <2>3. /\ queue'["camera"] = queue["camera"] \cup {CameraPacket(next)}
        /\ queue'["stranger"] = queue["stranger"]
        /\ queue' \in [Sources -> SUBSET Packet]
    BY <2>1, <2>2, CameraPacketType DEF Sources
  <2>4. late' \subseteq late \cup {CameraPacket(next)}
    BY <1>1 DEF Arrive, Duplicate
  <2>5. faults' \in [Kinds -> 0 .. MaxFaults]
    BY <1>1, FaultType DEF Arrive, Duplicate, Kinds
  <2>6. \A q \in queue'["camera"] \cup late' :
          q \in Packet /\ q.n \in 1 .. next' - 1 /\ q = CameraPacket(q.n)
    BY <2>1, <2>3, <2>4, CameraPacketType, VideoFacts
  <2>7. UNCHANGED <<cur, FrameVector, out, overrun, down>>
    BY <1>1 DEF Arrive, Duplicate
  <2> QED
    BY <2>1, <2>3, <2>5, <2>6, <2>7
<1>2. CASE Lose \/ Delay
  <2>1. next \in DOMAIN Video /\ next' = next + 1 /\ next' \in 1 .. Len(Video) + 1
    BY <1>2, SendFacts DEF Lose, Delay
  <2>2. late' \subseteq late \cup {CameraPacket(next)}
    BY <1>2 DEF Lose, Delay
  <2>3. faults' \in [Kinds -> 0 .. MaxFaults]
    BY <1>2, FaultType DEF Lose, Delay, Kinds
  <2>4. UNCHANGED <<queue, cur, FrameVector, out, overrun, down>>
    BY <1>2 DEF Lose, Delay
  <2>5. \A q \in queue'["camera"] \cup late' :
          q \in Packet /\ q.n \in 1 .. next' - 1 /\ q = CameraPacket(q.n)
    BY <2>1, <2>2, <2>4, CameraPacketType, VideoFacts DEF Sources
  <2> QED
    BY <2>1, <2>3, <2>4, <2>5
<1>3. CASE ArriveLate
  <2>1. PICK q \in late : /\ queue' = [queue EXCEPT !["camera"] = @ \cup {q}]
                          /\ late' = late \ {q}
    BY <1>3 DEF ArriveLate, Enqueue
  <2>2. UNCHANGED <<next, cur, FrameVector, out, overrun, down, faults>>
    BY <1>3 DEF ArriveLate
  <2>3. /\ queue'["camera"] = queue["camera"] \cup {q}
        /\ queue'["stranger"] = queue["stranger"]
        /\ queue' \in [Sources -> SUBSET Packet]
    BY <2>1 DEF Sources
  <2> QED
    BY <2>1, <2>2, <2>3
<1>4. CASE Stray
  <2>1. PICK marker \in BOOLEAN, type \in {8, 96} :
          /\ IF type = 96 THEN Fault("stray")
             ELSE queue["stranger"] = {} /\ UNCHANGED faults
          /\ Enqueue("stranger", [n |-> AllFaults, frame |-> 0,
                                  marker |-> marker, type |-> type])
    BY <1>4, Zenon DEF Stray
  <2>2. AllFaults \in Nat
    BY FaultsType
  <2>3. faults' \in [Kinds -> 0 .. MaxFaults]
    BY <2>1, FaultType DEF Kinds
  <2> DEFINE q == [n |-> AllFaults, frame |-> 0, marker |-> marker, type |-> type]
  <2>4. q \in Packet /\ q.frame = 0
    BY <2>2 DEF Packet
  <2> HIDE DEF q
  <2>5. queue' = [queue EXCEPT !["stranger"] = @ \cup {q}]
    BY <2>1 DEF q, Enqueue
  <2>6. /\ queue' \in [Sources -> SUBSET Packet]
        /\ queue'["camera"] = queue["camera"]
        /\ queue'["stranger"] = queue["stranger"] \cup {q}
    BY <2>4, <2>5 DEF Sources
  <2>7. UNCHANGED <<next, late, cur, FrameVector, out, overrun, down>>
    BY <1>4 DEF Stray
  <2> QED
    BY <2>3, <2>4, <2>6, <2>7
<1>5. CASE BeginDataAccess \/ NextSource
  BY <1>5 DEF BeginDataAccess, NextSource, WithData
<1>6. CASE cur # "none" /\ (Skip \/ Collect \/ Complete)
  <2>1. UNCHANGED <<next, late, cur, faults>>
    BY <1>6 DEF Skip, Collect, Complete
  <2>2. /\ queue' \in [Sources -> SUBSET Packet]
        /\ queue'["camera"] \subseteq queue["camera"]
        /\ queue'["stranger"] \subseteq queue["stranger"]
    BY <1>6, <2>1, TakenFacts DEF Skip, Collect, Complete
  <2>3. CASE Skip
    <3>1. UNCHANGED <<FrameVector, out, overrun, down>>
      BY <2>3 DEF Skip
    <3> QED
      BY <2>1, <2>2, <3>1
  <2>4. CASE Collect
    <3>1. PICK q \in Packet :
            /\ NextOfCamera(q) \/ OfStranger(q)
            /\ q.type = 96 /\ ~q.marker /\ FrameVector' = Append(FrameVector, q)
            /\ UNCHANGED <<out, overrun, down>>
      BY <1>6, <2>4, CollectFacts
    <3>2. q.frame = 0 \/ FromCamera(q)
      BY <3>1 DEF NextOfCamera, OfStranger
    <3>3. /\ FrameVector' \in Seq(Packet)
          /\ \A k \in DOMAIN FrameVector' :
               /\ FrameVector'[k].frame = 0 \/ FromCamera(FrameVector'[k])
               /\ FrameVector'[k].type = 96 /\ ~FrameVector'[k].marker
      BY <3>1, <3>2, AppendPacket
    <3> QED
      BY <2>1, <2>2, <3>1, <3>3 DEF FromCamera
  <2>5. CASE Complete
    <3>1. PICK q \in Packet :
            /\ NextOfCamera(q) \/ OfStranger(q)
            /\ FrameVector' = <<>>
            /\ out' = Append(out, Recognised(Append(FrameVector, q)))
            /\ overrun' \in BOOLEAN /\ down' \in BOOLEAN
      BY <1>6, <2>5, CompleteFacts
    <3>2. q.frame = 0 \/ FromCamera(q)
      BY <3>1 DEF NextOfCamera, OfStranger
    <3>3. /\ Append(FrameVector, q) \in Seq(Packet)
          /\ Len(Append(FrameVector, q)) > 0
      BY <3>2, AppendPacket
    <3>4. Recognised(Append(FrameVector, q)) \in 0 .. LastFrame
      BY <3>3, RecognisedType
    <3>5. out' \in Seq(0 .. LastFrame)
      BY <3>1, <3>4, AppendProperties
    <3>6. FrameVector' \in Seq(Packet) /\ DOMAIN FrameVector' = {}
      BY <3>1, EmptySeq
    <3> QED
      BY <2>1, <2>2, <3>1, <3>5, <3>6
  <2> QED
    BY <1>6, <2>3, <2>4, <2>5
<1>7. CASE UNCHANGED rtpVars
  BY <1>7 DEF rtpVars, FromCamera
<1> QED
  BY <1>1, <1>2, <1>3, <1>4, <1>5, <1>6, <1>7 DEF RtpNext, Network, Loop

(* The variables of the receive loop keep their types; what is queued for  *)
(* the camera is its own.                                                  *)
THEOREM RtpTypeCorrect == RtpSpec => []RtpTypeOK
<1>1. TypeInv => RtpTypeOK
  BY DEF TypeInv
<1> QED
  BY <1>1, TypeInit, TypeNext, PTL DEF RtpSpec

-----------------------------------------------------------------------------
(* The frame buffer. *)
LEMMA FaultCounts ==
  ASSUME TypeInv, NEW k \in Kinds, Fault(k)
  PROVE  /\ faults'[k] = faults[k] + 1 /\ faults'[k] > 0
         /\ \A l \in Kinds : l # k => faults'[l] = faults[l]
<1>1. faults' = [faults EXCEPT ![k] = @ + 1] /\ faults \in [Kinds -> 0 .. MaxFaults]
  BY DEF Fault, TypeInv, RtpTypeOK
<1> QED
  BY <1>1, FaultsType

(* Between two packets of one frame, and only there, no marker lies. *)
LEMMA FrameOrder ==
  ASSUME NEW m \in DOMAIN Video, NEW n \in DOMAIN Video, m <= n
  PROVE  /\ Video[m].frame <= Video[n].frame
         /\ Video[m].marker /\ m < n => Video[m].frame < Video[n].frame
         /\ Video[m].frame # Video[n].frame =>
              \E k \in DOMAIN Video : m <= k /\ k < n /\ Video[k].marker
         /\ Video[m].frame = Video[n].frame =>
              /\ n - m < Longest
              /\ \A k \in DOMAIN Video : m <= k /\ k < n => ~Video[k].marker
<1>1. /\ Video[m].frame <= Video[n].frame
      /\ Video[m].frame = Video[n].frame <=> \A k \in m .. n - 1 : ~Video[k].marker
      /\ Video[m].frame = Video[n].frame => n - m < Longest
  BY VideoAssumption
<1>2. m .. n - 1 \subseteq DOMAIN Video
  BY VideoFacts
<1> QED
  BY <1>1, <1>2, VideoFacts

(* A set with at most one element more.                                    *)
LEMMA OneMore ==
  ASSUME NEW S, IsFiniteSet(S), NEW T, \A x, y \in T \ S : x = y
  PROVE  /\ IsFiniteSet(T)
         /\ Cardinality(S) \in Nat /\ Cardinality(T) \in Nat
         /\ Cardinality(T) <= Cardinality(S) + 1
<1>1. Cardinality(S) \in Nat
  BY FS_CardinalityType
<1>2. PICK x : T \subseteq S \cup {x}
  <2>1. CASE T \subseteq S
    BY <2>1
  <2>2. CASE ~(T \subseteq S)
    <3>1. PICK x \in T : x \notin S
      BY <2>2
    <3> QED
      BY <3>1
  <2> QED
    BY <2>1, <2>2
<1>3. /\ IsFiniteSet(S \cup {x})
      /\ Cardinality(S \cup {x}) <= Cardinality(S) + 1
      /\ Cardinality(S \cup {x}) \in Nat
  <2>1. /\ IsFiniteSet(S \cup {x})
        /\ Cardinality(S \cup {x}) = IF x \in S THEN Cardinality(S) ELSE Cardinality(S) + 1
    BY FS_AddElement
  <2> QED
    BY <1>1, <2>1
<1>4. IsFiniteSet(T) /\ Cardinality(T) <= Cardinality(S \cup {x})
  BY <1>2, <1>3, FS_Subset
<1> QED
  BY <1>1, <1>3, <1>4, FS_CardinalityType

(* A set with no element more.                                             *)
LEMMA NoMore ==
  ASSUME NEW S, IsFiniteSet(S), NEW T, T \subseteq S
  PROVE  /\ IsFiniteSet(T)
         /\ Cardinality(S) \in Nat /\ Cardinality(T) \in Nat
         /\ Cardinality(T) <= Cardinality(S)
BY FS_Subset, FS_CardinalityType

(* What the counts of the invariant are. *)
LEMMA PaidCounts ==
  ASSUME TypeInv, NEW T, NEW I, NEW D, InTime(T, I, D), Paid(T, I, D)
  PROVE  /\ IsFiniteSet(DOMAIN FrameVector) /\ IsFiniteSet(I)
         /\ IsFiniteSet(Returned(T)) /\ IsFiniteSet(DOMAIN FrameVector \ I)
         /\ Cardinality(D) \in Nat /\ Cardinality(DOMAIN FrameVector \ I) \in Nat
         /\ Cardinality(Returned(T)) \in Nat /\ Cardinality(Untimely(late)) \in Nat
         /\ Cardinality(Untimely(Strays)) \in Nat
         /\ \A k \in Kinds : faults[k] \in Nat
<1>1. Len(FrameVector) \in Nat /\ DOMAIN FrameVector = 1 .. Len(FrameVector)
  BY LenProperties DEF TypeInv, RtpTypeOK
<1>2. IsFiniteSet(DOMAIN FrameVector)
  BY <1>1, FS_Interval
<1>3. IsFiniteSet(I) /\ IsFiniteSet(DOMAIN FrameVector \ I)
  BY <1>2, FS_Subset DEF InTime
<1>4. IsFiniteSet(Returned(T))
  <2>1. IsFiniteSet(DOMAIN Video) /\ Returned(T) \subseteq DOMAIN Video
    BY VideoFacts, FS_Interval, AheadIsVideo DEF Returned
  <2> QED
    BY <2>1, FS_Subset
<1> QED
  BY <1>2, <1>3, <1>4, FS_CardinalityType, FaultsType DEF Paid

(* The invariant after a step that brings no fault, with the counts spelt  *)
(* out.                                                                    *)
LEMMA StillPaid ==
  ASSUME TypeInv, NEW T, NEW I, NEW D, InTime(T, I, D), Paid(T, I, D),
         faults' = faults, NEW U, NEW J,
         IsFiniteSet(Untimely(late)'), IsFiniteSet(Untimely(Strays)'),
         Cardinality(DOMAIN FrameVector' \ J) \in Nat, Cardinality(Returned(U)') \in Nat,
         Cardinality(Untimely(late)') \in Nat, Cardinality(Untimely(Strays)') \in Nat,
         Cardinality(DOMAIN FrameVector' \ J) + Cardinality(Returned(U)')
             + Cardinality(Untimely(late)') + Cardinality(Untimely(Strays)')
           <= Cardinality(DOMAIN FrameVector \ I) + Cardinality(Returned(T))
                + Cardinality(Untimely(late)) + Cardinality(Untimely(Strays))
  PROVE  Paid(U, J, D)'
<1>1. /\ Cardinality(D) \in Nat /\ Cardinality(DOMAIN FrameVector \ I) \in Nat
      /\ Cardinality(Returned(T)) \in Nat /\ Cardinality(Untimely(late)) \in Nat
      /\ Cardinality(Untimely(Strays)) \in Nat
      /\ faults["lostMarker"] \in Nat /\ faults["late"] \in Nat
      /\ faults["copied"] \in Nat /\ faults["stray"] \in Nat
  BY PaidCounts DEF Kinds
<1>2. Cardinality(D) + Cardinality(DOMAIN FrameVector' \ J) + Cardinality(Returned(U)')
        + Cardinality(Untimely(late)') + Cardinality(Untimely(Strays)')
        <= faults["lostMarker"] + faults["late"] + faults["copied"] + faults["stray"]
  BY <1>1 DEF Paid
<1> QED
  BY <1>2 DEF Paid

(* A frame has a marker, and fewer packets without one than it is long.    *)
LEMMA MarkerBehind ==
  ASSUME NEW n \in DOMAIN Video
  PROVE  \E k \in DOMAIN Video :
           n <= k /\ Video[k].marker /\ Video[k].frame = Video[n].frame
<1> DEFINE S == {k \in DOMAIN Video : n <= k /\ Video[k].marker}
<1>1. S \subseteq Nat /\ S # {}
  BY VideoFacts
<1>2. PICK k \in S : \A l \in S : ~(<<l, k>> \in OpToRel(<, Nat))
  BY <1>1, NatLessThanWellFounded, WFMin
<1>3. \A l \in S : k <= l
  <2> SUFFICES ASSUME NEW l \in S, ~(k <= l) PROVE FALSE
    OBVIOUS
  <2>1. k \in Nat /\ l \in Nat
    BY <1>1
  <2> HIDE DEF S
  <2>2. <<l, k>> \in OpToRel(<, Nat)
    BY <2>1 DEF OpToRel
  <2> QED
    BY <1>2, <2>2
<1>4. \A l \in DOMAIN Video : n <= l /\ l < k => ~Video[l].marker
  BY <1>3, VideoFacts
<1>5. Video[n].frame = Video[k].frame
  BY <1>4, FrameOrder
<1> QED
  BY <1>5

(* Products of numbers. *)
LEMMA Products ==
  ASSUME NEW a \in Nat, a > 0, NEW d \in Nat, NEW x \in Nat, d <= x
  PROVE  /\ a * (1 + x) \in Nat /\ (1 + d) * a \in Nat
         /\ (1 + d) * a + (x - d) <= a * (1 + x)
<1>1. PICK e \in Nat : x = d + e
  <2>1. x - d \in Nat /\ x = d + (x - d)
    OBVIOUS
  <2> QED
    BY <2>1
<1>2. PICK b \in Nat : a = b + 1
  <2>1. a - 1 \in Nat /\ a = (a - 1) + 1
    OBVIOUS
  <2> QED
    BY <2>1
<1>3. b * e \in Nat /\ a * e = b * e + e /\ a * (1 + d) \in Nat
  BY <1>2
<1>4. a * (1 + x) = a * (1 + d) + a * e /\ (1 + d) * a = a * (1 + d)
  BY <1>1
<1> QED
  BY <1>1, <1>3, <1>4

(* The collection is no longer than the faults account for: its packets in *)
(* their time belong to frames of which all but the last miss their        *)
(* marker.                                                                 *)
LEMMA FlowBounds ==
  ASSUME TypeInv, FlowInv
  PROVE  Len(FrameVector) < LargestCopy
<1>1. PICK T, I, D : InTime(T, I, D) /\ Paid(T, I, D)
  BY DEF FlowInv
<1>2. /\ IsFiniteSet(DOMAIN FrameVector) /\ IsFiniteSet(I) /\ IsFiniteSet(D)
      /\ Cardinality(D) \in Nat /\ Cardinality(DOMAIN FrameVector \ I) \in Nat
      /\ Cardinality(Returned(T)) \in Nat /\ Cardinality(Untimely(late)) \in Nat
      /\ Cardinality(Untimely(Strays)) \in Nat
      /\ \A k \in Kinds : faults[k] \in Nat
  BY <1>1, PaidCounts DEF Paid
<1>3. /\ Len(FrameVector) \in Nat /\ DOMAIN FrameVector = 1 .. Len(FrameVector)
      /\ Cardinality(DOMAIN FrameVector) = Len(FrameVector)
  <2>1. Len(FrameVector) \in Nat /\ DOMAIN FrameVector = 1 .. Len(FrameVector)
    BY LenProperties DEF TypeInv, RtpTypeOK
  <2>2. Cardinality(1 .. Len(FrameVector))
          = IF 1 > Len(FrameVector) THEN 0 ELSE Len(FrameVector) - 1 + 1
    BY <2>1, FS_Interval
  <2> QED
    BY <2>1, <2>2
<1>4. /\ Cardinality(I) \in Nat
      /\ Len(FrameVector) = Cardinality(I) + Cardinality(DOMAIN FrameVector \ I)
  <2>1. Cardinality(DOMAIN FrameVector \ I)
          = Cardinality(DOMAIN FrameVector) - Cardinality(DOMAIN FrameVector \cap I)
    BY <1>2, FS_Difference
  <2>2. DOMAIN FrameVector \cap I = I
    BY <1>1 DEF InTime
  <2>3. Cardinality(I) \in Nat
    BY <1>2, FS_CardinalityType
  <2>4. Cardinality(DOMAIN FrameVector \ I)
          = Cardinality(DOMAIN FrameVector) - Cardinality(I)
    BY <2>1, <2>2, Zenon
  <2> DEFINE all == Cardinality(DOMAIN FrameVector)
             rest == Cardinality(DOMAIN FrameVector \ I)
             own == Cardinality(I)
  <2>5. all = Len(FrameVector) /\ rest \in Nat /\ own \in Nat /\ all \in Nat
    BY <1>2, <1>3, <2>3
  <2>6. rest = all - own
    BY <2>4
  <2> HIDE DEF all, rest, own
  <2>7. all = own + rest
    BY <2>5, <2>6
  <2> QED
    BY <2>3, <2>5, <2>7, Zenon DEF all, rest, own
<1> DEFINE N(i)  == FrameVector[i].n
           Fr(n) == Video[n].frame
           F     == {Fr(N(i)) : i \in I}
           G     == {Fr(n) : n \in D}
<1>5. \A i \in I : /\ N(i) \in DOMAIN Video /\ N(i) \in Nat /\ ~Video[N(i)].marker
                   /\ i \in Nat /\ \A j \in I : i < j => N(i) < N(j)
  <2> SUFFICES ASSUME NEW i \in I
               PROVE  /\ N(i) \in DOMAIN Video /\ N(i) \in Nat /\ ~Video[N(i)].marker
                      /\ i \in Nat /\ \A j \in I : i < j => N(i) < N(j)
    OBVIOUS
  <2>1. FromCamera(FrameVector[i]) /\ ~FrameVector[i].marker /\ i \in Nat
    BY <1>1, <1>3 DEF InTime, TypeInv, RtpTypeOK
  <2> QED
    BY <1>1, <2>1, CameraPacketType, VideoFacts DEF FromCamera, InTime
<1>6. \A i, j \in I : Fr(N(i)) < Fr(N(j)) => Fr(N(i)) \in G
  <2> SUFFICES ASSUME NEW i \in I, NEW j \in I, Fr(N(i)) < Fr(N(j)) PROVE Fr(N(i)) \in G
    OBVIOUS
  <2>1. PICK k \in DOMAIN Video : N(i) <= k /\ Video[k].marker /\ Fr(k) = Fr(N(i))
    BY <1>5, MarkerBehind
  <2>2. k < N(j)
    <3> SUFFICES ASSUME N(j) <= k PROVE FALSE
      BY <1>5, <2>1, VideoFacts
    <3>1. Fr(N(j)) <= Fr(k)
      BY <1>5, <2>1, FrameOrder
    <3> QED
      BY <1>5, <2>1, <3>1, VideoFacts
  <2>3. k \notin T
    BY <1>1, <1>5, <2>1, <2>2, VideoFacts DEF InTime
  <2>4. k \in D
    <3> SUFFICES ASSUME k \notin D PROVE FALSE
      OBVIOUS
    <3>1. k < N(i)
      BY <1>1, <2>1, <2>3 DEF InTime
    <3> QED
      BY <1>5, <2>1, <3>1, VideoFacts
  <2> QED
    BY <2>1, <2>4
<1>7. /\ IsFiniteSet(G) /\ Cardinality(G) \in Nat /\ Cardinality(G) <= Cardinality(D)
  <2>1. IsFiniteSet(G) /\ Cardinality(G) <= Cardinality(D)
    <3> DEFINE h == [n \in D |-> Fr(n)]
    <3>1. h \in Surjection(D, G)
      BY DEF Surjection
    <3> HIDE DEF h, G
    <3> QED
      BY <1>2, <3>1, FS_Surjection
  <2> QED
    BY <2>1, FS_CardinalityType
<1>8. \A x, y \in F \ G : x = y
  <2> SUFFICES ASSUME NEW i \in I, NEW j \in I, Fr(N(i)) \notin G, Fr(N(j)) \notin G
               PROVE  Fr(N(i)) = Fr(N(j))
    OBVIOUS
  <2>1. ~(Fr(N(i)) < Fr(N(j))) /\ ~(Fr(N(j)) < Fr(N(i)))
    BY <1>6
  <2>2. Fr(N(i)) \in Nat /\ Fr(N(j)) \in Nat
    BY <1>5, VideoFacts
  <2> HIDE DEF Fr, N
  <2> QED
    BY <2>1, <2>2
<1> HIDE DEF G
<1>9. IsFiniteSet(F) /\ Cardinality(F) \in Nat /\ Cardinality(F) <= 1 + Cardinality(D)
  <2>1. IsFiniteSet(F) /\ Cardinality(F) \in Nat /\ Cardinality(F) <= Cardinality(G) + 1
    <3> HIDE DEF F
    <3> QED
      BY <1>7, <1>8, OneMore
  <2> HIDE DEF F
  <2> QED
    BY <1>2, <1>7, <2>1
<1>10. Cardinality(I) <= Cardinality(F) * (Longest - 1)
  <2> DEFINE L == 1 .. Longest - 1
             S == F \X L
  <2>1. /\ IsFiniteSet(S) /\ Cardinality(S) = Cardinality(F) * (Longest - 1)
    <3>1. IsFiniteSet(L) /\ Cardinality(L) = Longest - 1
      BY VideoFacts, FS_Interval
    <3> HIDE DEF L, F
    <3> QED
      BY <1>9, <3>1, FS_Product
  <2>2. \A i \in I : \E k \in DOMAIN Video :
          /\ Video[k].marker /\ Fr(k) = Fr(N(i)) /\ k - N(i) \in L
    <3> SUFFICES ASSUME NEW i \in I
                 PROVE  \E k \in DOMAIN Video :
                          /\ Video[k].marker /\ Fr(k) = Fr(N(i)) /\ k - N(i) \in L
      OBVIOUS
    <3>1. PICK k \in DOMAIN Video : N(i) <= k /\ Video[k].marker /\ Fr(k) = Fr(N(i))
      BY <1>5, MarkerBehind
    <3>2. k - N(i) < Longest
      BY <1>5, <3>1, FrameOrder
    <3>3. k # N(i)
      BY <1>5, <3>1
    <3> QED
      BY <1>5, <3>1, <3>2, <3>3, VideoFacts
  <2> DEFINE M(i) == CHOOSE k \in DOMAIN Video :
                       /\ Video[k].marker /\ Fr(k) = Fr(N(i)) /\ k - N(i) \in L
             h    == [i \in I |-> <<Fr(N(i)), M(i) - N(i)>>]
  <2>3. \A i \in I : /\ M(i) \in DOMAIN Video /\ Video[M(i)].marker
                     /\ Fr(M(i)) = Fr(N(i)) /\ M(i) - N(i) \in L
    BY <2>2
  <2> HIDE DEF M
  <2>4. h \in [I -> S]
    BY <2>3
  <2>5. \A i, j \in I : h[i] = h[j] => i = j
    <3> SUFFICES ASSUME NEW i \in I, NEW j \in I, h[i] = h[j] PROVE i = j
      OBVIOUS
    <3>1. Fr(N(i)) = Fr(N(j)) /\ M(i) - N(i) = M(j) - N(j)
      OBVIOUS
    <3>2. M(i) = M(j)
      <4>1. M(i) \in DOMAIN Video /\ M(j) \in DOMAIN Video /\ Fr(M(i)) = Fr(M(j))
            /\ Video[M(i)].marker /\ Video[M(j)].marker
        BY <2>3, <3>1
      <4> HIDE DEF h, N
      <4>2. M(i) \in Int /\ M(j) \in Int
        BY <4>1, VideoFacts
      <4>3. ~(M(i) < M(j)) /\ ~(M(j) < M(i))
        BY <4>1, <4>2, FrameOrder, VideoFacts
      <4> QED
        BY <4>2, <4>3
    <3>3. N(i) = N(j)
      <4>1. M(i) \in Int /\ M(j) \in Int /\ N(i) \in Int /\ N(j) \in Int
        BY <1>5, <2>3, VideoFacts
      <4> HIDE DEF h, N
      <4> QED
        BY <3>1, <3>2, <4>1
    <3>4. ~(i < j) /\ ~(j < i) /\ i \in Nat /\ j \in Nat
      BY <1>5, <3>3
    <3> QED
      BY <3>4
  <2>6. h \in Injection(I, S)
    <3> HIDE DEF h, S
    <3> QED
      BY <2>4, <2>5 DEF Injection, IsInjective
  <2>7. Cardinality(I) <= Cardinality(S)
    <3> HIDE DEF h, S
    <3> QED
      BY <2>1, <2>6, FS_Injection
  <2> HIDE DEF S, F
  <2> QED
    BY <2>1, <2>7
<1> HIDE DEF F
<1> DEFINE a == Longest - 1
           d == Cardinality(D)
           x == faults["lostMarker"] + faults["late"]
           c == faults["copied"] + faults["stray"]
<1>11. a \in Nat /\ a > 0 /\ d \in Nat /\ x \in Nat /\ d <= x /\ c \in Nat
  <2>1. a \in Nat /\ a > 0
    BY VideoFacts
  <2>2. x \in Nat /\ c \in Nat
    BY <1>2 DEF Kinds
  <2>3. d \in Nat /\ d <= x
    BY <1>1, <1>2 DEF Paid
  <2> QED
    BY <2>1, <2>2, <2>3
<1>12. d + Cardinality(DOMAIN FrameVector \ I) <= x + c
  BY <1>1, <1>2, <1>11 DEF Paid, Kinds
<1>13. Cardinality(F) * a <= (1 + d) * a
  <2>1. PICK e \in Nat : 1 + d = Cardinality(F) + e
    <3>1. 1 + d - Cardinality(F) \in Nat
      BY <1>9, <1>11
    <3> QED
      BY <1>9, <1>11, <3>1
  <2> DEFINE f == Cardinality(F)
  <2>2. f \in Nat /\ a \in Nat
    BY <1>9, <1>11
  <2>3. 1 + d = f + e
    BY <2>1
  <2> HIDE DEF a, d, f
  <2>4. (f + e) * a = f * a + e * a /\ e * a \in Nat /\ f * a \in Nat
    BY <2>1, <2>2
  <2>5. (1 + d) * a = f * a + e * a
    BY <2>3, <2>4
  <2>6. f * a <= (1 + d) * a
    BY <2>4, <2>5
  <2> QED
    BY <2>6 DEF f
<1>14. LargestCopy = 1 + a * (1 + x) + c
  <2>1. /\ faults["lostMarker"] \in Nat /\ faults["late"] \in Nat
        /\ faults["copied"] \in Nat /\ faults["stray"] \in Nat
    BY <1>2 DEF Kinds
  <2>2. 1 + faults["lostMarker"] + faults["late"] = 1 + x
    BY <2>1
  <2>3. LargestCopy = 1 + a * (1 + x) + faults["copied"] + faults["stray"]
    BY <2>2 DEF LargestCopy
  <2>4. a * (1 + x) \in Nat
    BY <1>11, Products
  <2> HIDE DEF a, x
  <2> QED
    BY <2>1, <2>3, <2>4
<1>15. /\ (1 + d) * a + (x - d) <= a * (1 + x)
       /\ a * (1 + x) \in Nat /\ (1 + d) * a \in Nat
  <2> HIDE DEF a, d, x
  <2> QED
    BY <1>11, Products
<1>16. Cardinality(I) <= (1 + d) * a
  <2>1. Cardinality(I) <= Cardinality(F) * a
    BY <1>10
  <2>2. Cardinality(F) * a \in Nat
    <3> HIDE DEF a
    <3> QED
      BY <1>9, <1>11
  <2> HIDE DEF a, d
  <2> QED
    BY <1>4, <1>13, <1>15, <2>1, <2>2
<1> HIDE DEF a, d, x, c
<1> QED
  BY <1>2, <1>4, <1>11, <1>12, <1>14, <1>15, <1>16

(* The invariant speaks of this part of the state only.                    *)
LEMMA FlowStill ==
  ASSUME FlowInv, UNCHANGED <<late, FrameVector, faults>>, Ahead' = Ahead,
         Untimely(Strays)' = Untimely(Strays)
  PROVE  FlowInv'
<1>1. PICK T, I, D : InTime(T, I, D) /\ Paid(T, I, D)
  BY DEF FlowInv
<1>2. InTime(T, I, D)'
  BY <1>1 DEF InTime, FromCamera, CameraPacket
<1>3. Untimely(late)' = Untimely(late) /\ Returned(T)' = Returned(T)
  BY DEF Untimely, Returned
<1>4. Paid(T, I, D)'
  BY <1>1, <1>3 DEF Paid
<1> QED
  BY <1>2, <1>4 DEF FlowInv

(* A packet that does not come in its time.                                *)
LEMMA FlowMissing ==
  ASSUME TypeInv, FlowInv, Lose \/ Delay
  PROVE  FlowInv'
<1>1. PICK T, I, D : InTime(T, I, D) /\ Paid(T, I, D)
  BY DEF FlowInv
<1>2. PICK n \in DOMAIN Video : n = next
  BY SendFacts DEF Lose, Delay
<1>3. Ahead' = Ahead \ {n} /\ UNCHANGED <<queue, FrameVector>>
  BY <1>2, NetworkFacts DEF Lose, Delay
<1>4. Untimely(Strays)' = Untimely(Strays) /\ DOMAIN FrameVector' = DOMAIN FrameVector
  BY <1>3 DEF Untimely, Strays
<1>5. PICK U : U = T \ {n}
  OBVIOUS
<1>6. PICK E : E = IF Video[n].marker THEN D \cup {n} ELSE D
  OBVIOUS
<1>7. InTime(U, I, E)'
  <2>1. U \subseteq Ahead' /\ I \subseteq DOMAIN FrameVector' /\ E \subseteq DOMAIN Video
    BY <1>1, <1>2, <1>3, <1>4, <1>5, <1>6 DEF InTime
  <2>2. \A i \in I : /\ FromCamera(FrameVector'[i])
                     /\ \A j \in I : i < j => FrameVector'[i].n < FrameVector'[j].n
                     /\ \A m \in U : FrameVector'[i].n < m
    BY <1>1, <1>3, <1>5 DEF InTime
  <2>3. ASSUME NEW k \in DOMAIN Video \ (U \cup E), Video[k].marker
        PROVE  /\ \A m \in U : k < m
               /\ \A i \in I : k < FrameVector'[i].n
    <3>1. k # n /\ k \notin T /\ k \notin D
      BY <1>5, <1>6, <2>3
    <3> QED
      BY <1>1, <1>3, <1>5, <2>3, <3>1 DEF InTime
  <2> QED
    BY <2>1, <2>2, <2>3 DEF InTime, FromCamera, CameraPacket
<1>8. Returned(U)' \subseteq Returned(T)
  BY <1>3, <1>5 DEF Returned
<1>9. /\ IsFiniteSet(E) /\ Cardinality(E) \in Nat
      /\ Cardinality(E) <= Cardinality(D) + (IF Video[n].marker THEN 1 ELSE 0)
  <2>1. IsFiniteSet(D) /\ Cardinality(D) \in Nat
    BY <1>1, PaidCounts DEF Paid
  <2>2. \A x, y \in E \ D : x = y
    BY <1>6
  <2> QED
    BY <1>6, <2>1, <2>2, OneMore
<1>10. /\ Cardinality(Returned(U)') \in Nat
       /\ Cardinality(Returned(U)') <= Cardinality(Returned(T))
  BY <1>1, <1>8, PaidCounts, NoMore
<1>11. /\ IsFiniteSet(Untimely(late))
       /\ Cardinality(D) \in Nat /\ Cardinality(DOMAIN FrameVector \ I) \in Nat
       /\ Cardinality(Returned(T)) \in Nat /\ Cardinality(Untimely(late)) \in Nat
       /\ Cardinality(Untimely(Strays)) \in Nat
       /\ \A k \in Kinds : faults[k] \in Nat
  BY <1>1, PaidCounts DEF Paid
<1>12. CASE Lose
  <2>1. late' = late
    BY <1>12 DEF Lose
  <2>2. Untimely(late)' = Untimely(late)
    BY <2>1 DEF Untimely
  <2>3. CASE Video[n].marker
    <3>1. Fault("lostMarker")
      BY <1>2, <1>12, <2>3, CameraPacketType DEF Lose
    <3>2. /\ faults'["lostMarker"] = faults["lostMarker"] + 1
          /\ \A k \in Kinds \ {"lostMarker"} : faults'[k] = faults[k]
      BY <3>1, FaultCounts DEF Kinds
    <3>3. Paid(U, I, E)'
      BY <1>1, <1>4, <1>9, <1>10, <1>11, <2>2, <2>3, <3>2 DEF Paid, Kinds
    <3> QED
      BY <1>7, <3>3 DEF FlowInv
  <2>4. CASE ~Video[n].marker
    <3>1. Fault("lost")
      BY <1>2, <1>12, <2>4, CameraPacketType DEF Lose
    <3>2. \A k \in Kinds \ {"lost"} : faults'[k] = faults[k]
      BY <3>1, FaultCounts DEF Kinds
    <3>3. Paid(U, I, E)'
      BY <1>1, <1>4, <1>9, <1>10, <1>11, <2>2, <2>4, <3>2 DEF Paid, Kinds
    <3> QED
      BY <1>7, <3>3 DEF FlowInv
  <2> QED
    BY <2>3, <2>4
<1>13. CASE Delay
  <2>1. /\ late' = late \cup {CameraPacket(n)}
        /\ CameraPacket(n).marker = Video[n].marker
    BY <1>2, <1>13, CameraPacketType DEF Delay
  <2>2. /\ faults'["late"] = faults["late"] + 1
        /\ \A k \in Kinds \ {"late"} : faults'[k] = faults[k]
    BY <1>13, FaultCounts DEF Delay, Kinds
  <2>3. /\ IsFiniteSet(Untimely(late)') /\ Cardinality(Untimely(late)') \in Nat
        /\ Cardinality(Untimely(late)')
             <= Cardinality(Untimely(late)) + (IF Video[n].marker THEN 0 ELSE 1)
    <3>1. CASE Video[n].marker
      <4>1. Untimely(late)' = Untimely(late)
        BY <2>1, <3>1 DEF Untimely
      <4> QED
        BY <1>11, <3>1, <4>1
    <3>2. CASE ~Video[n].marker
      <4>1. \A p, q \in Untimely(late)' \ Untimely(late) : p = q
        BY <2>1 DEF Untimely
      <4> QED
        BY <1>11, <3>2, <4>1, OneMore
    <3> QED
      BY <3>1, <3>2
  <2>4. Paid(U, I, E)'
    <3>1. IsFiniteSet(Untimely(Strays)') /\ IsFiniteSet(E)
      BY <1>1, <1>4, <1>9 DEF Paid
    <3> DEFINE d == Cardinality(D)
               e == Cardinality(E)
               y == IF Video[n].marker THEN 1 ELSE 0
    <3>2. e <= d + y /\ Cardinality(Untimely(late)') <= Cardinality(Untimely(late)) + 1 - y
      BY <1>9, <1>11, <2>3
    <3>3. y \in {0, 1}
      OBVIOUS
    <3> HIDE DEF y
    <3> QED
      BY <1>1, <1>4, <1>9, <1>10, <1>11, <2>2, <2>3, <3>1, <3>2, <3>3 DEF Paid, Kinds
  <2> QED
    BY <1>7, <2>4 DEF FlowInv
<1> QED
  BY <1>12, <1>13

(* A packet in its time or a second copy of it changes nothing that counts *)
(* but the packets under way; a late one that comes is no longer one.      *)
LEMMA FlowNetwork ==
  ASSUME TypeInv, FlowInv, Network
  PROVE  FlowInv'
<1>1. PICK T, I, D : InTime(T, I, D) /\ Paid(T, I, D)
  BY DEF FlowInv
<1>2. /\ IsFiniteSet(Untimely(late)) /\ IsFiniteSet(Untimely(Strays))
      /\ IsFiniteSet(Returned(T))
      /\ Cardinality(D) \in Nat /\ Cardinality(DOMAIN FrameVector \ I) \in Nat
      /\ Cardinality(Returned(T)) \in Nat /\ Cardinality(Untimely(late)) \in Nat
      /\ Cardinality(Untimely(Strays)) \in Nat
      /\ \A k \in Kinds : faults[k] \in Nat
  BY <1>1, PaidCounts DEF Paid
<1>3. CASE Lose \/ Delay
  BY <1>3, FlowMissing
<1>4. CASE Arrive
  <2>1. UNCHANGED <<late, FrameVector, faults>>
    BY <1>4 DEF Arrive
  <2>2. Ahead' = Ahead /\ Untimely(Strays)' = Untimely(Strays)
    BY <1>4, NetworkFacts DEF Strays, Untimely
  <2> QED
    BY <2>1, <2>2, FlowStill
<1>5. CASE Duplicate
  <2>1. Ahead' = Ahead /\ Untimely(Strays)' = Untimely(Strays)
    BY <1>5, NetworkFacts DEF Strays, Untimely
  <2>2. FrameVector' = FrameVector /\ late' = late \cup {CameraPacket(next)}
    BY <1>5 DEF Duplicate
  <2>3. /\ faults'["copied"] = faults["copied"] + 1
        /\ \A k \in Kinds \ {"copied"} : faults'[k] = faults[k]
    BY <1>5, FaultCounts DEF Duplicate, Kinds
  <2>4. InTime(T, I, D)' /\ Returned(T)' = Returned(T)
    BY <1>1, <2>1, <2>2 DEF InTime, FromCamera, CameraPacket, Returned
  <2>5. /\ IsFiniteSet(Untimely(late)') /\ Cardinality(Untimely(late)') \in Nat
        /\ Cardinality(Untimely(late)') <= Cardinality(Untimely(late)) + 1
    <3>1. \A p, q \in Untimely(late)' \ Untimely(late) : p = q
      BY <2>2 DEF Untimely
    <3> QED
      BY <1>2, <3>1, OneMore
  <2>6. Paid(T, I, D)'
    BY <1>1, <1>2, <2>1, <2>2, <2>3, <2>4, <2>5 DEF Paid, Kinds
  <2> QED
    BY <2>4, <2>6 DEF FlowInv
<1>6. CASE ArriveLate
  <2>1. PICK q \in late : Ahead' = Ahead \cup {q.n} /\ late' = late \ {q}
    BY <1>6, NetworkFacts
  <2>2. UNCHANGED <<FrameVector, faults>> /\ Untimely(Strays)' = Untimely(Strays)
    BY <1>6, NetworkFacts DEF ArriveLate, Strays, Untimely
  <2>3. q.n \in DOMAIN Video /\ q.marker = Video[q.n].marker
    <3>1. q.n \in DOMAIN Video /\ q = CameraPacket(q.n)
      BY VideoFacts DEF TypeInv, RtpTypeOK
    <3> QED
      BY <3>1, CameraPacketType
  <2>4. InTime(T, I, D)'
    BY <1>1, <2>1, <2>2 DEF InTime, FromCamera, CameraPacket
  <2>5. CASE q.marker
    <3>1. Untimely(late)' = Untimely(late) /\ Returned(T)' = Returned(T)
      BY <2>1, <2>3, <2>5 DEF Untimely, Returned
    <3> QED
      BY <1>1, <2>2, <2>4, <3>1 DEF Paid, FlowInv
  <2>6. CASE ~q.marker
    <3>1. Untimely(late)' = Untimely(late) \ {q} /\ q \in Untimely(late)
      BY <2>1, <2>6 DEF Untimely
    <3>2. /\ IsFiniteSet(Untimely(late)')
          /\ Cardinality(Untimely(late)') = Cardinality(Untimely(late)) - 1
      BY <1>2, <3>1, FS_RemoveElement
    <3>3. /\ Cardinality(Returned(T)') \in Nat
          /\ Cardinality(Returned(T)') <= Cardinality(Returned(T)) + 1
      <4>1. \A x, y \in Returned(T)' \ Returned(T) : x = y
        BY <2>1 DEF Returned
      <4> QED
        BY <1>2, <4>1, OneMore
    <3>4. Paid(T, I, D)'
      BY <1>1, <1>2, <2>2, <3>2, <3>3 DEF Paid, Kinds
    <3> QED
      BY <2>4, <3>4 DEF FlowInv
  <2> QED
    BY <2>5, <2>6
<1>7. CASE Stray
  <2>1. PICK marker \in BOOLEAN, type \in {8, 96} :
          /\ IF type = 96 THEN Fault("stray")
             ELSE queue["stranger"] = {} /\ UNCHANGED faults
          /\ Enqueue("stranger", [n |-> AllFaults, frame |-> 0,
                                  marker |-> marker, type |-> type])
    BY <1>7, Zenon DEF Stray
  <2> DEFINE q == [n |-> AllFaults, frame |-> 0, marker |-> marker, type |-> type]
  <2>2. q.type = type
    OBVIOUS
  <2>3. queue' = [queue EXCEPT !["stranger"] = @ \cup {q}]
    BY <2>1 DEF Enqueue
  <2> HIDE DEF q
  <2>4. queue'["stranger"] = queue["stranger"] \cup {q}
    BY <2>3 DEF TypeInv, RtpTypeOK, Sources
  <2>5. UNCHANGED <<late, FrameVector>> /\ Ahead' = Ahead
    BY <1>7, NetworkFacts DEF Stray
  <2>6. CASE type = 96
    <3>1. /\ faults'["stray"] = faults["stray"] + 1
          /\ \A k \in Kinds \ {"stray"} : faults'[k] = faults[k]
      BY <2>1, <2>6, FaultCounts DEF Kinds
    <3>2. /\ IsFiniteSet(Untimely(Strays)') /\ Cardinality(Untimely(Strays)') \in Nat
          /\ Cardinality(Untimely(Strays)') <= Cardinality(Untimely(Strays)) + 1
      <4>1. \A x, y \in Untimely(Strays)' \ Untimely(Strays) : x = y
        BY <2>4 DEF Untimely, Strays
      <4> QED
        BY <1>2, <4>1, OneMore
    <3>3. InTime(T, I, D)' /\ Returned(T)' = Returned(T) /\ Untimely(late)' = Untimely(late)
      BY <1>1, <2>5 DEF InTime, FromCamera, CameraPacket, Returned, Untimely
    <3>4. Paid(T, I, D)'
      BY <1>1, <1>2, <2>5, <3>1, <3>2, <3>3 DEF Paid, Kinds
    <3> QED
      BY <3>3, <3>4 DEF FlowInv
  <2>7. CASE type # 96
    <3>1. faults' = faults
      BY <2>1, <2>7
    <3>2. Untimely(Strays)' = Untimely(Strays)
      BY <2>2, <2>4, <2>7 DEF Untimely, Strays
    <3> QED
      BY <2>5, <3>1, <3>2, FlowStill
  <2> QED
    BY <2>6, <2>7
<1> QED
  BY <1>3, <1>4, <1>5, <1>6, <1>7 DEF Network

(* A packet without marker joins the collection: in its time behind what   *)
(* came in its time, else as one that is accounted for.                    *)
LEMMA FlowCollect ==
  ASSUME TypeInv, FlowInv, cur # "none", Collect
  PROVE  FlowInv'
<1>1. PICK T, I, D : InTime(T, I, D) /\ Paid(T, I, D)
  BY DEF FlowInv
<1>2. /\ IsFiniteSet(Untimely(late)) /\ IsFiniteSet(Untimely(Strays))
      /\ IsFiniteSet(Returned(T)) /\ IsFiniteSet(DOMAIN FrameVector \ I)
      /\ Cardinality(D) \in Nat /\ Cardinality(DOMAIN FrameVector \ I) \in Nat
      /\ Cardinality(Returned(T)) \in Nat /\ Cardinality(Untimely(late)) \in Nat
      /\ Cardinality(Untimely(Strays)) \in Nat
      /\ \A k \in Kinds : faults[k] \in Nat
  BY <1>1, PaidCounts DEF Paid
<1>3. PICK q \in Packet :
        /\ NextOfCamera(q) \/ OfStranger(q)
        /\ q.type = 96 /\ ~q.marker /\ FrameVector' = Append(FrameVector, q)
        /\ UNCHANGED <<late, faults>>
  BY CollectFacts
<1>4. q.frame = 0 \/ FromCamera(q)
  BY <1>3 DEF NextOfCamera, OfStranger
<1>5. PICK len : len = Len(FrameVector)
  OBVIOUS
<1>6. /\ len \in Nat /\ DOMAIN FrameVector = 1 .. len /\ DOMAIN FrameVector' = 1 .. len + 1
      /\ \A k \in 1 .. len : FrameVector'[k] = FrameVector[k]
      /\ FrameVector'[len + 1] = q
  BY <1>3, <1>4, <1>5, AppendPacket
<1>7. Untimely(late)' = Untimely(late)
  BY <1>3 DEF Untimely
<1>8. /\ IsFiniteSet(DOMAIN FrameVector' \ I)
      /\ Cardinality(DOMAIN FrameVector' \ I) \in Nat
      /\ Cardinality(DOMAIN FrameVector' \ I) <= Cardinality(DOMAIN FrameVector \ I) + 1
  <2>1. \A x, y \in (DOMAIN FrameVector' \ I) \ (DOMAIN FrameVector \ I) : x = y
    BY <1>6
  <2> QED
    BY <1>2, <2>1, OneMore
<1>9. CASE OfStranger(q)
  <2>1. /\ Ahead' = Ahead /\ queue'["stranger"] = queue["stranger"] \ {q}
        /\ q \in queue["stranger"]
    BY <1>9 DEF OfStranger
  <2>2. Untimely(Strays)' = Untimely(Strays) \ {q} /\ q \in Untimely(Strays)
    BY <1>3, <2>1 DEF Untimely, Strays
  <2>3. /\ IsFiniteSet(Untimely(Strays)')
        /\ Cardinality(Untimely(Strays)') = Cardinality(Untimely(Strays)) - 1
    BY <1>2, <2>2, FS_RemoveElement
  <2>4. Returned(T)' = Returned(T)
    BY <2>1 DEF Returned
  <2>5. InTime(T, I, D)'
    <3>1. I \subseteq 1 .. len /\ \A i \in I : FrameVector'[i] = FrameVector[i]
      BY <1>1, <1>6 DEF InTime
    <3> QED
      BY <1>1, <1>6, <2>1, <3>1 DEF InTime, FromCamera, CameraPacket
  <2>6. Paid(T, I, D)'
    <3>1. /\ IsFiniteSet(Untimely(late)') /\ Cardinality(Untimely(late)') \in Nat
          /\ Cardinality(Untimely(late)') = Cardinality(Untimely(late))
      BY <1>2, <1>7
    <3>2. /\ Cardinality(Returned(T)') \in Nat
          /\ Cardinality(Returned(T)') = Cardinality(Returned(T))
      BY <1>2, <2>4
    <3>3. Cardinality(Untimely(Strays)') \in Nat
      BY <2>3, FS_CardinalityType
    <3>4. Cardinality(DOMAIN FrameVector' \ I) + Cardinality(Returned(T)')
            + Cardinality(Untimely(late)') + Cardinality(Untimely(Strays)')
          <= Cardinality(DOMAIN FrameVector \ I) + Cardinality(Returned(T))
               + Cardinality(Untimely(late)) + Cardinality(Untimely(Strays))
      BY <1>2, <1>8, <2>3, <3>1, <3>2
    <3> QED
      BY <1>1, <1>3, <1>8, <2>3, <3>1, <3>2, <3>3, <3>4, StillPaid
  <2> QED
    BY <2>5, <2>6 DEF FlowInv
<1>10. CASE NextOfCamera(q)
  <2>1. /\ FromCamera(q) /\ q.n \in Ahead /\ \A m \in Ahead : q.n <= m
        /\ Ahead' = Ahead \ {q.n} /\ queue'["stranger"] = queue["stranger"]
    BY <1>10 DEF NextOfCamera
  <2>2. q.n \in DOMAIN Video /\ ~Video[q.n].marker /\ Ahead \subseteq DOMAIN Video
    BY <1>3, <2>1, AheadIsVideo, CameraPacketType DEF FromCamera
  <2>3. Untimely(Strays)' = Untimely(Strays)
    BY <2>1 DEF Untimely, Strays
  <2>4. I \subseteq 1 .. len /\ \A i \in I : FrameVector'[i] = FrameVector[i]
    BY <1>1, <1>6 DEF InTime
  <2>5. CASE q.n \notin T
    <3>1. InTime(T, I, D)'
      BY <1>1, <1>6, <2>1, <2>4, <2>5 DEF InTime, FromCamera, CameraPacket
    <3>2. Returned(T)' = Returned(T) \ {q.n} /\ q.n \in Returned(T)
      BY <2>1, <2>2, <2>5 DEF Returned
    <3>3. Cardinality(Returned(T)') = Cardinality(Returned(T)) - 1
      BY <1>2, <3>2, FS_RemoveElement
    <3>4. Paid(T, I, D)'
      <4>1. /\ IsFiniteSet(Untimely(late)') /\ Cardinality(Untimely(late)') \in Nat
            /\ Cardinality(Untimely(late)') = Cardinality(Untimely(late))
            /\ IsFiniteSet(Untimely(Strays)') /\ Cardinality(Untimely(Strays)') \in Nat
            /\ Cardinality(Untimely(Strays)') = Cardinality(Untimely(Strays))
        BY <1>2, <1>7, <2>3
      <4>2. Cardinality(Returned(T)') \in Nat
        BY <1>2, <3>2, FS_RemoveElement, FS_CardinalityType
      <4>3. Cardinality(DOMAIN FrameVector' \ I) + Cardinality(Returned(T)')
              + Cardinality(Untimely(late)') + Cardinality(Untimely(Strays)')
            <= Cardinality(DOMAIN FrameVector \ I) + Cardinality(Returned(T))
                 + Cardinality(Untimely(late)) + Cardinality(Untimely(Strays))
        BY <1>2, <1>8, <3>3, <4>1
      <4> QED
        BY <1>1, <1>3, <1>8, <4>1, <4>2, <4>3, StillPaid
    <3> QED
      BY <3>1, <3>4 DEF FlowInv
  <2>6. CASE q.n \in T
    <3>1. PICK U, J : U = T \ {q.n} /\ J = I \cup {len + 1}
      OBVIOUS
    <3>2. U \subseteq Ahead' /\ J \subseteq DOMAIN FrameVector' /\ D \subseteq DOMAIN Video
      BY <1>1, <1>6, <2>1, <2>4, <3>1 DEF InTime
    <3>3. \A m \in U : q.n < m
      BY <1>1, <2>1, <2>2, <3>1, VideoFacts DEF InTime
    <3>4. \A i \in I : FrameVector[i].n < q.n
      BY <1>1, <2>6 DEF InTime
    <3>5. ASSUME NEW i \in J
          PROVE  /\ FromCamera(FrameVector'[i])
                 /\ \A j \in J : i < j => FrameVector'[i].n < FrameVector'[j].n
                 /\ \A m \in U : FrameVector'[i].n < m
      <4>1. CASE i \in I
        BY <1>1, <1>6, <2>4, <3>1, <3>4, <4>1 DEF InTime
      <4>2. CASE i = len + 1
        <5>1. \A j \in J : ~(i < j)
          BY <1>6, <2>4, <3>1, <4>2
        <5> QED
          BY <1>6, <2>1, <3>3, <4>2, <5>1
      <4> QED
        BY <3>1, <4>1, <4>2
    <3>6. ASSUME NEW n \in DOMAIN Video \ (U \cup D), Video[n].marker
          PROVE  /\ \A m \in U : n < m
                 /\ \A i \in J : n < FrameVector'[i].n
      <4>1. n \notin T /\ n \notin D
        BY <2>2, <3>1, <3>6
      <4> QED
        BY <1>1, <1>6, <2>4, <2>6, <3>1, <3>6, <4>1 DEF InTime
    <3>7. InTime(U, J, D)'
      BY <3>2, <3>5, <3>6 DEF InTime, FromCamera, CameraPacket
    <3>8. Returned(U)' = Returned(T) /\ DOMAIN FrameVector' \ J = DOMAIN FrameVector \ I
      BY <1>6, <2>1, <2>4, <2>6, <3>1 DEF Returned
    <3>9. Paid(U, J, D)'
      BY <1>1, <1>3, <1>7, <2>3, <3>8 DEF Paid
    <3> QED
      BY <3>7, <3>9 DEF FlowInv
  <2> QED
    BY <2>5, <2>6
<1> QED
  BY <1>3, <1>9, <1>10

(* A marker empties the collection.                                        *)
LEMMA FlowComplete ==
  ASSUME TypeInv, FlowInv, cur # "none", Complete
  PROVE  FlowInv'
<1>1. PICK T, I, D : InTime(T, I, D) /\ Paid(T, I, D)
  BY DEF FlowInv
<1>2. /\ IsFiniteSet(Untimely(late)) /\ IsFiniteSet(Untimely(Strays))
      /\ Cardinality(D) \in Nat /\ Cardinality(DOMAIN FrameVector \ I) \in Nat
      /\ Cardinality(Returned(T)) \in Nat /\ Cardinality(Untimely(late)) \in Nat
      /\ Cardinality(Untimely(Strays)) \in Nat
      /\ \A k \in Kinds : faults[k] \in Nat
  BY <1>1, PaidCounts DEF Paid
<1>3. PICK q \in Packet :
        /\ NextOfCamera(q) \/ OfStranger(q)
        /\ q.marker /\ FrameVector' = <<>> /\ UNCHANGED <<late, faults>>
  BY CompleteFacts
<1>4. Untimely(late)' = Untimely(late) /\ Untimely(Strays)' = Untimely(Strays)
  BY <1>3 DEF Untimely, Strays, NextOfCamera, OfStranger
<1>5. PICK U, J : U = T \cap Ahead' /\ J = {}
  OBVIOUS
<1>6. DOMAIN FrameVector' = {}
  BY <1>3
<1>7. Returned(U)' \subseteq Returned(T)
  BY <1>3, <1>5 DEF Returned, NextOfCamera, OfStranger
<1>8. ASSUME NEW n \in DOMAIN Video \ (U \cup D), Video[n].marker, NEW m \in U
      PROVE  n < m
  <2>1. m \in T
    BY <1>5
  <2>2. CASE n \notin T
    BY <1>1, <1>8, <2>1, <2>2 DEF InTime
  <2>3. CASE n \in T
    <3>1. n \in Ahead /\ n \notin Ahead' /\ m \in Ahead'
      BY <1>1, <1>5, <1>8, <2>3 DEF InTime
    <3>2. NextOfCamera(q) /\ n = q.n
      BY <1>3, <3>1 DEF NextOfCamera, OfStranger
    <3>3. n <= m /\ n # m
      BY <1>1, <2>1, <3>1, <3>2 DEF NextOfCamera, InTime
    <3>4. n \in Nat /\ m \in Nat
      BY <1>1, <2>1, VideoFacts, AheadIsVideo DEF InTime
    <3> QED
      BY <3>3, <3>4
  <2> QED
    BY <2>2, <2>3
<1>9. InTime(U, J, D)'
  BY <1>1, <1>5, <1>6, <1>8 DEF InTime
<1>10. /\ Cardinality(Returned(U)') \in Nat
       /\ Cardinality(Returned(U)') <= Cardinality(Returned(T))
  BY <1>1, <1>7, PaidCounts, NoMore
<1>11. Cardinality(DOMAIN FrameVector' \ J) = 0
  BY <1>5, <1>6, FS_EmptySet
<1>12. Paid(U, J, D)'
  <2>1. /\ IsFiniteSet(Untimely(late)') /\ Cardinality(Untimely(late)') \in Nat
        /\ Cardinality(Untimely(late)') = Cardinality(Untimely(late))
        /\ IsFiniteSet(Untimely(Strays)') /\ Cardinality(Untimely(Strays)') \in Nat
        /\ Cardinality(Untimely(Strays)') = Cardinality(Untimely(Strays))
    BY <1>2, <1>4
  <2>2. Cardinality(DOMAIN FrameVector' \ J) \in Nat
    BY <1>11
  <2>3. Cardinality(DOMAIN FrameVector' \ J) + Cardinality(Returned(U)')
          + Cardinality(Untimely(late)') + Cardinality(Untimely(Strays)')
        <= Cardinality(DOMAIN FrameVector \ I) + Cardinality(Returned(T))
             + Cardinality(Untimely(late)) + Cardinality(Untimely(Strays))
    BY <1>2, <1>10, <1>11, <2>1
  <2> QED
    BY <1>1, <1>3, <1>10, <2>1, <2>2, <2>3, StillPaid
<1> QED
  BY <1>9, <1>12 DEF FlowInv

(* What the loop copies in one go is bounded in every step.                *)
LEMMA CopyNext ==
  ASSUME TypeInv, CopyInv, [RtpNext]_rtpVars
  PROVE  CopyInv'
<1> USE DEF CopyInv
<1>1. CASE UNCHANGED rtpVars
  <2>1. /\ UNCHANGED <<late, FrameVector, faults, overrun, down>> /\ Ahead' = Ahead
        /\ Untimely(Strays)' = Untimely(Strays)
    BY <1>1 DEF rtpVars, Ahead, Untimely, Strays
  <2> QED
    BY <2>1, FlowStill DEF LargestCopy
<1>2. CASE RtpNext
  <2>1. ~overrun
    BY <1>2 DEF RtpNext
  <2>2. CASE Network
    <3>1. overrun' = overrun
      BY <2>2 DEF Network, Arrive, Lose, Delay, Duplicate, ArriveLate, Stray
    <3> QED
      BY <2>1, <2>2, <3>1, FlowNetwork
  <2>3. CASE BeginDataAccess \/ NextSource
    <3>1. UNCHANGED <<late, queue, FrameVector, faults, overrun>>
      BY <2>3 DEF BeginDataAccess, NextSource
    <3>2. Ahead' = Ahead /\ Untimely(Strays)' = Untimely(Strays)
      BY <2>3, <3>1, NetworkFacts DEF Untimely, Strays
    <3> QED
      BY <2>1, <3>1, <3>2, FlowStill
  <2>4. CASE cur # "none" /\ Skip
    <3>1. PICK q \in Packet : /\ OfStranger(q) /\ q.type # 96
                              /\ UNCHANGED <<late, FrameVector, overrun, faults>>
      BY <2>4, SkipFacts
    <3>2. Ahead' = Ahead /\ Untimely(Strays)' = Untimely(Strays)
      BY <3>1 DEF OfStranger, Untimely, Strays
    <3> QED
      BY <2>1, <3>1, <3>2, FlowStill
  <2>5. CASE cur # "none" /\ Collect
    <3>1. overrun' = overrun
      BY <2>5 DEF Collect
    <3> QED
      BY <2>1, <2>5, <3>1, FlowCollect
  <2>6. CASE cur # "none" /\ Complete
    <3>1. PICK q \in Packet :
            /\ NextOfCamera(q) \/ OfStranger(q)
            /\ overrun' = (Len(Append(FrameVector, q)) > BufSize)
            /\ (overrun' => down') /\ faults' = faults
      BY <2>6, CompleteFacts
    <3>2. q.frame = 0 \/ FromCamera(q)
      BY <3>1 DEF NextOfCamera, OfStranger
    <3>3. Len(Append(FrameVector, q)) = Len(FrameVector) + 1 /\ Len(FrameVector) \in Nat
      BY <3>2, AppendPacket
    <3>4. Len(FrameVector) < LargestCopy /\ LargestCopy' = LargestCopy
      BY <3>1, FlowBounds DEF LargestCopy
    <3>5. LargestCopy \in Int
      <4>1. /\ faults["lostMarker"] \in Nat /\ faults["late"] \in Nat
            /\ faults["copied"] \in Nat /\ faults["stray"] \in Nat
        BY FaultsType DEF Kinds
      <4> DEFINE a == Longest - 1
                 x == 1 + faults["lostMarker"] + faults["late"]
      <4>2. a \in Int /\ x \in Int
        BY <4>1, VideoFacts
      <4> HIDE DEF a, x
      <4>3. a * x \in Int
        BY <4>2
      <4>4. LargestCopy = 1 + a * x + faults["copied"] + faults["stray"]
        BY DEF LargestCopy, a, x
      <4> QED
        BY <4>1, <4>3, <4>4
    <3>6. overrun' => BufSize < LargestCopy'
      <4> HIDE DEF CopyInv
      <4>1. ASSUME Len(FrameVector) + 1 > BufSize PROVE BufSize < LargestCopy
        BY <3>3, <3>4, <3>5, <4>1, VideoFacts
      <4> QED
        BY <3>1, <3>3, <3>4, <4>1
    <3> QED
      BY <2>6, <3>1, <3>6, FlowComplete
  <2> QED
    BY <1>2, <2>2, <2>3, <2>4, <2>5, <2>6 DEF RtpNext, Loop
<1> QED
  BY <1>1, <1>2

(* What is copied to the frame buffer in one go is one frame, another for  *)
(* each marker that is lost or late, and the packets of others: it is      *)
(* overrun only where that is more than it holds.                          *)
THEOREM CopyBoundedHolds == RtpSpec => []CopyBounded
<1>1. RtpInit => CopyInv
  <2> SUFFICES ASSUME RtpInit PROVE CopyInv
    OBVIOUS
  <2>1. /\ Ahead = DOMAIN Video /\ DOMAIN FrameVector = {} /\ ~overrun
        /\ Untimely(Strays) = {} /\ Untimely(late) = {}
    BY VideoFacts DEF RtpInit, Ahead, Untimely, Strays, Sources
  <2>2. InTime(Ahead, {}, {})
    BY <2>1 DEF InTime
  <2>3. Returned(Ahead) = {} /\ DOMAIN FrameVector \ {} = {}
    BY <2>1 DEF Returned
  <2>4. Paid(Ahead, {}, {})
    <3>1. \A k \in Kinds : faults[k] = 0
      BY DEF RtpInit
    <3>2. /\ faults["lostMarker"] = 0 /\ faults["late"] = 0
          /\ faults["copied"] = 0 /\ faults["stray"] = 0
      BY <3>1 DEF Kinds
    <3>3. IsFiniteSet({}) /\ Cardinality({}) = 0
      BY FS_EmptySet
    <3>4. /\ Cardinality(Returned(Ahead)) = 0 /\ Cardinality(DOMAIN FrameVector \ {}) = 0
          /\ Cardinality(Untimely(late)) = 0 /\ Cardinality(Untimely(Strays)) = 0
          /\ IsFiniteSet(Untimely(late)) /\ IsFiniteSet(Untimely(Strays))
      BY <2>1, <2>3, <3>3
    <3> QED
      BY <3>2, <3>3, <3>4 DEF Paid
  <2> QED
    BY <2>1, <2>2, <2>4 DEF CopyInv, FlowInv
<1>2. TypeInv /\ CopyInv /\ [RtpNext]_rtpVars => CopyInv'
  BY CopyNext
<1>3. TypeInv /\ CopyInv => CopyBounded
  BY FlowBounds DEF CopyInv, CopyBounded
<1> QED
  BY <1>1, <1>2, <1>3, TypeInit, TypeNext, PTL DEF RtpSpec

-----------------------------------------------------------------------------
(* The order of the frames. *)
InOrder == faults["late"] = 0 /\ faults["copied"] = 0

(* The invariant speaks of this part of the state only.                    *)
LEMMA OrderStill ==
  ASSUME OrderInv, InOrder' => InOrder, Ahead' \subseteq Ahead,
         UNCHANGED <<late, out, FrameVector>>
  PROVE  OrderInv'
BY DEF OrderInv, InOrder, WholeInOrder

(* Losses and strangers leave the order as it is.                          *)
LEMMA OrderNetwork ==
  ASSUME TypeInv, OrderInv, Network
  PROVE  OrderInv'
<1>1. CASE Arrive \/ Lose
  <2>1. UNCHANGED <<late, FrameVector, out>>
    BY <1>1 DEF Arrive, Lose
  <2>2. InOrder' => InOrder
    BY <1>1, FaultCounts DEF Arrive, Lose, InOrder, Kinds
  <2> QED
    BY <1>1, <2>1, <2>2, NetworkFacts, OrderStill
<1>2. CASE Delay \/ Duplicate
  <2>1. ~InOrder'
    BY <1>2, FaultCounts DEF Delay, Duplicate, InOrder, Kinds
  <2> QED
    BY <2>1 DEF OrderInv, InOrder
<1>3. CASE ArriveLate
  <2>1. late # {} /\ faults' = faults
    BY <1>3 DEF ArriveLate
  <2> QED
    BY <2>1 DEF OrderInv
<1>4. CASE Stray
  <2>1. UNCHANGED <<late, FrameVector, out>>
    BY <1>4 DEF Stray
  <2>2. Fault("stray") \/ UNCHANGED faults
    BY <1>4, Zenon DEF Stray
  <2>3. InOrder' => InOrder
    BY <2>2, FaultCounts DEF InOrder, Kinds
  <2> QED
    BY <1>4, <2>1, <2>3, NetworkFacts, OrderStill
<1> QED
  BY <1>1, <1>2, <1>3, <1>4 DEF Network

(* A frame that is recognised ends with a packet of the camera. *)
LEMMA RecognisedIsCameras ==
  ASSUME TypeInv, NEW q \in Packet, NextOfCamera(q) \/ OfStranger(q),
         Recognised(Append(FrameVector, q)) # 0
  PROVE  /\ NextOfCamera(q) /\ Recognised(Append(FrameVector, q)) <= q.frame
         /\ FrameVector = <<>> => Recognised(Append(FrameVector, q)) = q.frame
         /\ FrameVector # <<>> =>
              Recognised(Append(FrameVector, q)) = FrameVector[1].frame
<1> DEFINE ps  == Append(FrameVector, q)
           len == Len(FrameVector)
<1>1. q.frame = 0 \/ FromCamera(q)
  BY DEF NextOfCamera, OfStranger
<1>2. /\ ps \in Seq(Packet) /\ Len(ps) = len + 1
      /\ DOMAIN ps = 1 .. len + 1 /\ len \in Nat
      /\ DOMAIN FrameVector = 1 .. len
      /\ \A k \in DOMAIN FrameVector : ps[k] = FrameVector[k]
      /\ ps[len + 1] = q
  BY <1>1, AppendPacket
<1> HIDE DEF ps, len
<1>3. FromStart(ps) /\ Recognised(ps) = ps[1].frame
  <2>1. Recognised(ps) # 0
    BY DEF ps
  <2> QED
    BY <1>2, <2>1, RecognisedType
<1>4. PICK n \in DOMAIN Video :
        \A k \in DOMAIN ps : n + k - 1 \in DOMAIN Video /\ ps[k] = CameraPacket(n + k - 1)
  BY <1>3 DEF FromStart
<1>5. /\ n + len \in DOMAIN Video /\ q = CameraPacket(n + len)
      /\ ps[1] = CameraPacket(n)
  <2>1. 1 \in DOMAIN ps /\ len + 1 \in DOMAIN ps
    BY <1>2
  <2>2. n + 1 - 1 = n /\ n + (len + 1) - 1 = n + len
    BY <1>2, VideoFacts
  <2> QED
    BY <1>2, <1>4, <2>1, <2>2
<1>6. q.frame = Video[n + len].frame /\ q.frame > 0 /\ ps[1].frame = Video[n].frame
  BY <1>5, CameraPacketType
<1>7. NextOfCamera(q)
  BY <1>6 DEF OfStranger
<1>8. Video[n].frame <= Video[n + len].frame
  BY <1>2, <1>5, FrameOrder, VideoFacts
<1>9. FrameVector = <<>> => len = 0
  BY <1>2 DEF len
<1>10. FrameVector # <<>> => 1 \in DOMAIN FrameVector
  BY <1>2, EmptySeq DEF len, TypeInv, RtpTypeOK
<1> QED
  BY <1>2, <1>3, <1>6, <1>7, <1>8, <1>9, <1>10 DEF ps

(* What comes out is what was collected, and is before all ahead.          *)
LEMMA OrderLoop ==
  ASSUME TypeInv, OrderInv, Loop
  PROVE  OrderInv'
<1>1. faults' = faults /\ late' = late
  BY DEF Loop, BeginDataAccess, NextSource, Skip, Collect, Complete
<1> SUFFICES ASSUME InOrder PROVE OrderInv'
  BY <1>1 DEF OrderInv, InOrder
<1>2. CASE BeginDataAccess \/ NextSource
  <2>1. UNCHANGED <<FrameVector, out>>
    BY <1>2 DEF BeginDataAccess, NextSource
  <2> QED
    BY <1>1, <1>2, <2>1, NetworkFacts, OrderStill
<1>3. CASE cur # "none" /\ Skip
  <2>1. PICK q \in Packet : OfStranger(q) /\ UNCHANGED <<FrameVector, out>>
    BY <1>3, SkipFacts
  <2>2. Ahead' = Ahead
    BY <2>1 DEF OfStranger
  <2> QED
    BY <1>1, <2>1, <2>2, OrderStill
<1>4. CASE cur # "none" /\ Collect
  <2>1. PICK q \in Packet :
          /\ NextOfCamera(q) \/ OfStranger(q)
          /\ FrameVector' = Append(FrameVector, q) /\ out' = out
    BY <1>4, CollectFacts
  <2>2. Ahead' \subseteq Ahead
    BY <2>1 DEF NextOfCamera, OfStranger
  <2>3. q.frame = 0 \/ (FromCamera(q) /\ q.n \in Ahead /\ q.frame = Video[q.n].frame)
    BY <2>1, CameraPacketType DEF NextOfCamera, OfStranger, FromCamera
  <2>4. \A k \in DOMAIN FrameVector' :
          \/ FrameVector'[k] = q
          \/ k \in DOMAIN FrameVector /\ FrameVector'[k] = FrameVector[k]
    BY <2>1, <2>3, AppendPacket
  <2>5. \A i \in DOMAIN out : out[i] # 0 =>
          \A k \in DOMAIN FrameVector' :
            FrameVector'[k].frame = 0 \/ out[i] < FrameVector'[k].frame
    BY <2>3, <2>4 DEF OrderInv, InOrder
  <2> QED
    BY <1>1, <2>1, <2>2, <2>5 DEF OrderInv, InOrder, WholeInOrder
<1>5. CASE cur # "none" /\ Complete
  <2> DEFINE f(q) == Recognised(Append(FrameVector, q))
  <2>1. PICK q \in Packet :
          /\ NextOfCamera(q) \/ OfStranger(q)
          /\ q.marker /\ FrameVector' = <<>> /\ out' = Append(out, f(q))
    BY <1>5, CompleteFacts
  <2> DEFINE r == f(q)
  <2>2. r # 0 => /\ NextOfCamera(q) /\ r <= q.frame
                 /\ FrameVector = <<>> => r = q.frame
                 /\ FrameVector # <<>> => r = FrameVector[1].frame
    BY <2>1, RecognisedIsCameras
  <2>3. r \in 0 .. LastFrame
    <3>1. q.frame = 0 \/ FromCamera(q)
      BY <2>1 DEF NextOfCamera, OfStranger
    <3>2. /\ Append(FrameVector, q) \in Seq(Packet)
          /\ Len(Append(FrameVector, q)) > 0
      BY <3>1, AppendPacket
    <3> QED
      BY <3>2, RecognisedType
  <2> HIDE DEF f, r
  <2>4. Ahead' \subseteq Ahead
    BY <2>1 DEF NextOfCamera, OfStranger
  <2>5. ASSUME r # 0, NEW m \in Ahead' PROVE r < Video[m].frame
    <3>1. /\ q.n \in DOMAIN Video /\ m \in DOMAIN Video /\ q.n < m
          /\ q.frame = Video[q.n].frame /\ Video[q.n].marker
      <4>1. q.n \in DOMAIN Video /\ q = CameraPacket(q.n) /\ q.n <= m /\ m # q.n
        BY <2>2, <2>5 DEF NextOfCamera, FromCamera
      <4> QED
        BY <2>1, <2>4, <2>5, <4>1, AheadIsVideo, CameraPacketType, VideoFacts
    <3>2. Video[q.n].frame < Video[m].frame
      BY <3>1, FrameOrder, VideoFacts
    <3> QED
      BY <2>2, <2>3, <2>5, <3>1, <3>2, VideoFacts
  <2>6. ASSUME r # 0, NEW i \in DOMAIN out, out[i] # 0 PROVE out[i] < r
    <3>1. CASE FrameVector = <<>>
      <4>1. q.n \in Ahead /\ q.frame = Video[q.n].frame
        BY <2>2, <2>6, CameraPacketType DEF NextOfCamera, FromCamera
      <4> QED
        BY <2>2, <2>6, <3>1, <4>1 DEF OrderInv, InOrder
    <3>2. CASE FrameVector # <<>>
      <4>1. 1 \in DOMAIN FrameVector
        BY <3>2, EmptySeq, LenProperties DEF TypeInv, RtpTypeOK
      <4> QED
        BY <2>2, <2>6, <3>2, <4>1 DEF OrderInv, InOrder
    <3> QED
      BY <3>1, <3>2
  <2>7. /\ Len(out) \in Nat /\ DOMAIN out = 1 .. Len(out)
        /\ DOMAIN out' = 1 .. Len(out) + 1
        /\ \A i \in DOMAIN out : out'[i] = out[i]
        /\ out'[Len(out) + 1] = r
    <3>1. out \in Seq(0 .. LastFrame)
      BY DEF TypeInv, RtpTypeOK
    <3>2. out' = Append(out, r)
      BY <2>1 DEF r
    <3> QED
      BY <2>3, <3>1, <3>2, AppendProperties, LenProperties
  <2>8. WholeInOrder'
    <3> SUFFICES ASSUME NEW i \in DOMAIN out', NEW j \in DOMAIN out',
                        i < j, out'[i] # 0, out'[j] # 0
                 PROVE  out'[i] < out'[j]
      BY DEF WholeInOrder
    <3>1. i \in DOMAIN out
      BY <2>7
    <3>2. CASE j \in DOMAIN out
      BY <2>7, <3>1, <3>2 DEF OrderInv, InOrder, WholeInOrder
    <3>3. CASE j = Len(out) + 1
      BY <2>6, <2>7, <3>1, <3>3
    <3> QED
      BY <2>7, <3>2, <3>3
  <2>9. ASSUME NEW i \in DOMAIN out', out'[i] # 0, NEW m \in Ahead'
        PROVE  out'[i] < Video[m].frame
    <3>1. CASE i \in DOMAIN out
      BY <2>4, <2>7, <2>9, <3>1 DEF OrderInv, InOrder
    <3>2. CASE i = Len(out) + 1
      BY <2>5, <2>7, <2>9, <3>2
    <3> QED
      BY <2>7, <3>1, <3>2
  <2>10. DOMAIN FrameVector' = {} /\ late' = {}
    BY <1>1, <2>1 DEF OrderInv, InOrder
  <2> QED
    BY <2>8, <2>9, <2>10 DEF OrderInv
<1> QED
  BY <1>2, <1>3, <1>4, <1>5 DEF Loop

(* Whole frames come out in the order in which the camera sent them, as    *)
(* long as the network keeps it, whatever is lost and whatever strangers   *)
(* send.                                                                   *)
THEOREM WholeInOrderHolds == RtpSpec => []WholeInOrder
<1>1. RtpInit => OrderInv
  <2> SUFFICES ASSUME RtpInit PROVE OrderInv
    OBVIOUS
  <2>1. DOMAIN out = {} /\ late = {}
    BY DEF RtpInit
  <2> QED
    BY <2>1 DEF OrderInv, WholeInOrder
<1>2. TypeInv /\ OrderInv /\ [RtpNext]_rtpVars => OrderInv'
  <2> SUFFICES ASSUME TypeInv, OrderInv, [RtpNext]_rtpVars PROVE OrderInv'
    OBVIOUS
  <2>1. CASE UNCHANGED rtpVars
    BY <2>1 DEF rtpVars, OrderInv, WholeInOrder, Ahead
  <2> QED
    BY <2>1, OrderNetwork, OrderLoop DEF RtpNext
<1>3. OrderInv => WholeInOrder
  BY DEF OrderInv, WholeInOrder
<1> QED
  BY <1>1, <1>2, <1>3, TypeInit, TypeNext, PTL DEF RtpSpec

-----------------------------------------------------------------------------
(* What a fault spoils. *)

(* A frame that is begun is a run of packets without a marker. *)
LEMMA BegunFacts ==
  ASSUME TypeInv, NEW f, Begun(f)
  PROVE  LET len == Len(FrameVector)
         IN  \E a \in DOMAIN Video :
               /\ Starts(a) /\ Video[a].frame = f
               /\ len \in Nat /\ len > 0 /\ DOMAIN FrameVector = 1 .. len
               /\ a + len - 1 \in DOMAIN Video
               /\ FrameVector[len].n = a + len - 1
               /\ \A k \in 1 .. len : /\ a + k - 1 \in DOMAIN Video
                                      /\ FrameVector[k] = CameraPacket(a + k - 1)
               /\ \A n \in DOMAIN Video : a <= n /\ n <= a + len - 1 => ~Video[n].marker
<1> DEFINE len == Len(FrameVector)
<1>1. len \in Nat /\ len > 0 /\ DOMAIN FrameVector = 1 .. len
  BY EmptySeq, LenProperties DEF TypeInv, RtpTypeOK, Begun
<1> HIDE DEF len
<1>2. PICK a \in DOMAIN Video :
        /\ Starts(a)
        /\ \A k \in DOMAIN FrameVector :
             a + k - 1 \in DOMAIN Video /\ FrameVector[k] = CameraPacket(a + k - 1)
  BY DEF Begun, FromStart
<1>3. 1 \in DOMAIN FrameVector /\ len \in DOMAIN FrameVector /\ a + 1 - 1 = a
  BY <1>1, VideoFacts
<1>4. FrameVector[1] = CameraPacket(a) /\ FrameVector[len] = CameraPacket(a + len - 1)
      /\ a + len - 1 \in DOMAIN Video
  BY <1>2, <1>3
<1>5. Video[a].frame = f
  BY <1>4, CameraPacketType DEF Begun
<1>6. FrameVector[len].n = a + len - 1
  BY <1>4, CameraPacketType
<1>7. ASSUME NEW n \in DOMAIN Video, a <= n, n <= a + len - 1
      PROVE  ~Video[n].marker
  <2>1. n - a + 1 \in 1 .. len /\ a + (n - a + 1) - 1 = n
    BY <1>1, <1>7, VideoFacts
  <2>2. FrameVector[n - a + 1] = CameraPacket(n)
    BY <1>1, <1>2, <2>1
  <2> QED
    BY <1>1, <2>1, <2>2, CameraPacketType DEF TypeInv, RtpTypeOK
<1> QED
  BY <1>1, <1>2, <1>4, <1>5, <1>6, <1>7 DEF len

(* Every frame has a packet. *)
LEMMA FramesHavePackets ==
  ASSUME NEW f \in AllFrames
  PROVE  f \in Nat /\ f \in 1 .. LastFrame /\ \E n \in PacketsOf(f) : TRUE
BY VideoFacts DEF AllFrames, PacketsOf

(* There are finitely many frames to spoil.                                *)
LEMMA SpoiledFinite ==
  /\ Spoiled \subseteq AllFrames
  /\ IsFiniteSet(Spoiled) /\ Cardinality(Spoiled) \in Nat
<1>1. Spoiled \subseteq 1 .. LastFrame /\ Spoiled \subseteq AllFrames
  BY FramesHavePackets DEF Spoiled
<1>2. IsFiniteSet(1 .. LastFrame)
  BY VideoFacts, FS_Interval
<1> QED
  BY <1>1, <1>2, FS_Subset, FS_CardinalityType

(* What is spoiled depends on this part of the state only.                 *)
LEMMA SpoiledStill ==
  ASSUME Ahead' = Ahead, FrameVector' = FrameVector, out' = out
  PROVE  Spoiled' = Spoiled
BY DEF Spoiled, Whole, Coming, Begun, FromStart, Starts

(* A packet that does not come in time spoils its frame and, if it has the *)
(* marker, the next one.                                                   *)
LEMMA SpoiledByMissing ==
  ASSUME TypeInv, Send, Ahead' = Ahead \ {next}, FrameVector' = FrameVector, out' = out,
         NEW f \in Spoiled' \ Spoiled
  PROVE  \/ f = Video[next].frame
         \/ /\ Video[next].marker
            /\ next + 1 \in DOMAIN Video /\ f = Video[next + 1].frame
<1>1. /\ next \in DOMAIN Video /\ next \in Ahead
      /\ \A n \in DOMAIN Video : next <= n => n \in Ahead
  BY SendFacts
<1>2. f \in AllFrames /\ f \notin Whole /\ ~Coming(f)' /\ ~Begun(f)'
      /\ (Coming(f) \/ Begun(f))
  BY DEF Spoiled, Whole
<1>3. f \in Nat /\ \E n \in PacketsOf(f) : TRUE
  BY <1>2, FramesHavePackets
<1> SUFFICES ASSUME f # Video[next].frame
             PROVE  /\ Video[next].marker
                    /\ next + 1 \in DOMAIN Video /\ f = Video[next + 1].frame
  OBVIOUS
<1>4. next \notin PacketsOf(f)
  BY DEF PacketsOf
<1>5. ~Begun(f)
  <2> SUFFICES ASSUME Begun(f) PROVE Begun(f)'
    BY <1>2
  <2> QED
    BY <1>4 DEF Begun, FromStart, Starts
<1>6. Coming(f)
  BY <1>2, <1>5
<1>7. PacketsOf(f) \subseteq Ahead'
  BY <1>4, <1>6 DEF Coming
<1>8. /\ Video[next].frame < f
      /\ \A k \in Ahead : next < k => f <= Video[k].frame
  <2>1. Ahead \subseteq DOMAIN Video
    BY AheadIsVideo
  <2>2. CASE ~(\A m \in Ahead' :
                 Video[m].frame < f /\ (\A k \in Ahead' : m < k => f <= Video[k].frame)
                   => Video[m].marker)
    <3>1. PICK m \in Ahead' :
            /\ Video[m].frame < f /\ ~Video[m].marker
            /\ \A k \in Ahead' : m < k => f <= Video[k].frame
      BY <2>2
    <3>2. m < next /\ Video[next].frame < f
      <4>1. \E k \in Ahead : m < k /\ ~(f <= Video[k].frame)
        BY <1>6, <3>1 DEF Coming
      <4> QED
        BY <1>1, <1>3, <2>1, <3>1, <4>1, VideoFacts
    <3> QED
      BY <2>1, <1>1, <3>1, <3>2, VideoFacts
  <2>3. CASE ~((\A m \in Ahead' : f <= Video[m].frame) => FrameVector = <<>>)
    <3>1. \E k \in Ahead : ~(f <= Video[k].frame)
      BY <1>6, <2>3 DEF Coming
    <3> QED
      BY <1>1, <1>3, <2>1, <2>3, <3>1, VideoFacts
  <2> QED
    BY <1>2, <1>7, <2>2, <2>3 DEF Coming
<1>9. PICK e \in PacketsOf(f) : TRUE
  BY <1>3
<1>10. e \in DOMAIN Video /\ Video[e].frame = f /\ next < e
  <2>1. e \in DOMAIN Video /\ Video[e].frame = f
    BY <1>9 DEF PacketsOf
  <2>2. ~(e <= next)
    BY <1>1, <1>3, <1>8, <2>1, FrameOrder, VideoFacts
  <2> QED
    BY <1>1, <2>1, <2>2, VideoFacts
<1>11. next + 1 \in DOMAIN Video /\ next + 1 \in Ahead /\ next < next + 1
  BY <1>1, <1>10, VideoFacts
<1>12. f <= Video[next + 1].frame /\ Video[next + 1].frame <= f
  BY <1>1, <1>8, <1>10, <1>11, FrameOrder, VideoFacts
<1>13. Video[next + 1].frame = f
  BY <1>3, <1>11, <1>12, VideoFacts
<1>14. Video[next].marker
  <2>1. Video[next].frame # Video[next + 1].frame
    BY <1>13
  <2> QED
    BY <1>1, <1>11, <2>1, FrameOrder, VideoFacts
<1> QED
  BY <1>11, <1>13, <1>14

(* A packet behind its time spoils one frame at most. *)
LEMMA SpoiledByLate ==
  ASSUME TypeInv, NEW n \in DOMAIN Video,
         Ahead' = Ahead \cup {n}, FrameVector' = FrameVector, out' = out,
         NEW f \in Spoiled' \ Spoiled, NEW g \in Spoiled' \ Spoiled
  PROVE  f = g
<1> DEFINE Cut(h)   == /\ FrameVector # <<>> /\ h = FrameVector[1].frame
                       /\ \A m \in Ahead : n < m
           Soil(h)  == /\ Coming(h) /\ Video[n].frame < h
                       /\ \A k \in Ahead : n < k => h <= Video[k].frame
<1>1. Ahead \subseteq DOMAIN Video
  BY AheadIsVideo
<1>2. ASSUME NEW h \in Spoiled' \ Spoiled
      PROVE  h \in AllFrames /\ (Cut(h) \/ Soil(h))
  <2>1. h \in AllFrames /\ ~Coming(h)' /\ ~Begun(h)' /\ (Coming(h) \/ Begun(h))
    BY <1>2 DEF Spoiled, Whole
  <2>2. CASE Begun(h)
    <3>1. PICK a \in DOMAIN Video :
            /\ FrameVector[Len(FrameVector)].n = a + Len(FrameVector) - 1
            /\ Len(FrameVector) \in Nat
      BY <2>2, BegunFacts
    <3>2. ~(FrameVector[Len(FrameVector)].n < n)
      <4> SUFFICES ASSUME FrameVector[Len(FrameVector)].n < n PROVE Begun(h)'
        BY <2>1
      <4> QED
        BY <2>2 DEF Begun, FromStart, Starts
    <3> QED
      BY <1>1, <2>1, <2>2, <3>1, <3>2, VideoFacts DEF Begun
  <2>3. CASE Coming(h)
    <3>1. PICK m \in Ahead' :
            /\ Video[m].frame < h /\ ~Video[m].marker
            /\ \A k \in Ahead' : m < k => h <= Video[k].frame
      BY <2>1, <2>3 DEF Coming
    <3>2. m = n
      BY <2>3, <3>1 DEF Coming
    <3> QED
      BY <2>1, <2>3, <3>1, <3>2
  <2> QED
    BY <2>1, <2>2, <2>3
<1>3. ASSUME NEW h, NEW l, Cut(h), Soil(l) PROVE FALSE
  BY <1>1, <1>3, VideoFacts DEF Coming
<1>4. ASSUME NEW h \in AllFrames, NEW l \in AllFrames, Soil(h), Soil(l), h < l PROVE FALSE
  <2>1. PICK e \in PacketsOf(h) : TRUE
    BY FramesHavePackets
  <2>2. e \in DOMAIN Video /\ Video[e].frame = h /\ e \in Ahead
    BY <1>4 DEF PacketsOf, Coming
  <2>3. n < e
    <3>1. ~(e <= n)
      BY <1>4, <2>2, FrameOrder, VideoFacts
    <3> QED
      BY <2>2, <3>1, VideoFacts
  <2> QED
    BY <1>4, <2>2, <2>3, FramesHavePackets
<1> HIDE DEF Soil
<1>5. CASE Cut(f) /\ Cut(g)
  BY <1>5
<1>6. CASE Soil(f) /\ Soil(g)
  BY <1>2, <1>4, <1>6, FramesHavePackets
<1> QED
  BY <1>2, <1>3, <1>5, <1>6

(* A stranger's packet spoils one frame at most: the one that is begun, or *)
(* the one that would have been begun next.                                *)
LEMMA SpoiledByStray ==
  ASSUME TypeInv, NEW q \in Packet, Ahead' = Ahead, Whole \subseteq Whole',
         FrameVector' = <<>> \/ (q.frame = 0 /\ FrameVector' = Append(FrameVector, q)),
         NEW f \in Spoiled' \ Spoiled, NEW g \in Spoiled' \ Spoiled
  PROVE  f = g
<1> DEFINE Cut(h)  == FrameVector # <<>> /\ h = FrameVector[1].frame
           Soil(h) == /\ FrameVector = <<>> /\ PacketsOf(h) \subseteq Ahead
                      /\ \A m \in Ahead : h <= Video[m].frame
<1>1. ASSUME NEW h \in Spoiled' \ Spoiled
      PROVE  h \in AllFrames /\ (Cut(h) \/ Soil(h))
  <2>1. h \in AllFrames /\ ~Coming(h)' /\ ~Begun(h)' /\ (Coming(h) \/ Begun(h))
    BY <1>1 DEF Spoiled
  <2>2. CASE Begun(h)
    BY <2>1, <2>2 DEF Begun
  <2>3. CASE Coming(h)
    BY <2>1, <2>3 DEF Coming
  <2> QED
    BY <2>1, <2>2, <2>3
<1>2. ASSUME NEW h \in AllFrames, NEW l \in AllFrames, Soil(h), Soil(l) PROVE h = l
  <2>1. PICK d \in PacketsOf(h), e \in PacketsOf(l) : TRUE
    BY FramesHavePackets
  <2>2. h <= l /\ l <= h
    BY <1>2, <2>1 DEF PacketsOf
  <2> QED
    BY <2>2, FramesHavePackets
<1> QED
  BY <1>1, <1>2

(* The camera's next packet goes on with a frame that is begun, or begins  *)
(* one that is coming.                                                     *)
LEMMA NextGoesOn ==
  ASSUME TypeInv, NEW q, NextOfCamera(q), NEW f \in AllFrames,
         Begun(f) \/ (Coming(f) /\ q.frame = f)
  PROVE  LET ps == Append(FrameVector, q)
         IN  /\ q.frame = f /\ ps # <<>> /\ ps[1].frame = f /\ FromStart(ps)
             /\ ps[Len(ps)] = q
             /\ \A m \in PacketsOf(f) : q.n < m => m \in Ahead
<1> DEFINE ps  == Append(FrameVector, q)
           len == Len(FrameVector)
<1>1. /\ q.n \in DOMAIN Video /\ q = CameraPacket(q.n) /\ q \in Packet
      /\ q.frame = Video[q.n].frame /\ q.n \in Ahead /\ \A m \in Ahead : q.n <= m
  BY CameraPacketType DEF NextOfCamera, FromCamera
<1>2. /\ ps \in Seq(Packet) /\ Len(ps) = len + 1 /\ DOMAIN ps = 1 .. len + 1
      /\ len \in Nat /\ DOMAIN FrameVector = 1 .. len
      /\ \A k \in 1 .. len : ps[k] = FrameVector[k]
      /\ ps[len + 1] = q
  BY <1>1, AppendPacket DEF FromCamera
<1> HIDE DEF ps, len
<1>3. ps # <<>> /\ ps[Len(ps)] = q
  BY <1>2, EmptySeq
<1>4. CASE Begun(f)
  <2>1. PICK a \in DOMAIN Video :
          /\ Starts(a) /\ Video[a].frame = f /\ len > 0
          /\ a + len - 1 \in DOMAIN Video
          /\ FrameVector[len].n = a + len - 1
          /\ \A k \in 1 .. len : /\ a + k - 1 \in DOMAIN Video
                                 /\ FrameVector[k] = CameraPacket(a + k - 1)
          /\ \A n \in DOMAIN Video : a <= n /\ n <= a + len - 1 => ~Video[n].marker
    BY <1>4, BegunFacts DEF len
  <2>2. a + len \in DOMAIN Video /\ a <= a + len
    BY <1>2, <2>1, VideoFacts
  <2>3. Video[a + len].frame = f
    <3> SUFFICES ASSUME Video[a].frame # Video[a + len].frame PROVE FALSE
      BY <2>1
    <3>1. PICK k \in DOMAIN Video : a <= k /\ k < a + len /\ Video[k].marker
      BY <2>2, FrameOrder
    <3> QED
      BY <1>2, <2>1, <3>1, VideoFacts
  <2>4. /\ \A m \in Ahead : a + len - 1 < m
        /\ \A m \in PacketsOf(f) : a + len - 1 < m => m \in Ahead
    BY <1>4, <2>1 DEF Begun, len
  <2>5. a + len \in Ahead
    BY <1>2, <2>2, <2>3, <2>4, VideoFacts DEF PacketsOf
  <2>6. q.n = a + len
    BY <1>1, <1>2, <2>2, <2>4, <2>5, VideoFacts
  <2>7. ASSUME NEW k \in 1 .. len + 1
        PROVE  a + k - 1 \in DOMAIN Video /\ ps[k] = CameraPacket(a + k - 1)
    <3>1. CASE k \in 1 .. len
      BY <1>2, <2>1, <3>1
    <3>2. CASE k = len + 1
      <4>1. a + k - 1 = a + len
        BY <1>2, <3>2, VideoFacts
      <4> QED
        BY <1>1, <1>2, <2>2, <2>6, <3>2, <4>1
    <3> QED
      BY <1>2, <3>1, <3>2
  <2>8. FromStart(ps)
    BY <1>2, <2>1, <2>7 DEF FromStart
  <2>9. ps[1].frame = f
    <3>1. 1 \in 1 .. len
      BY <1>2, <2>1
    <3> QED
      BY <1>2, <1>4, <3>1 DEF Begun
  <2>10. ASSUME NEW m \in PacketsOf(f), q.n < m PROVE m \in Ahead
    <3>1. m \in DOMAIN Video /\ a + len - 1 < m
      BY <1>2, <2>6, <2>10, VideoFacts DEF PacketsOf
    <3> QED
      BY <2>4, <3>1
  <2> QED
    BY <1>1, <1>3, <2>3, <2>6, <2>8, <2>9, <2>10 DEF ps
<1>5. CASE Coming(f) /\ q.frame = f
  <2>1. Ahead \subseteq DOMAIN Video /\ f \in Nat
    BY AheadIsVideo, FramesHavePackets
  <2>2. \A m \in Ahead : f <= Video[m].frame
    BY <1>1, <1>5, <2>1, FrameOrder
  <2>3. FrameVector = <<>>
    BY <1>5, <2>2 DEF Coming
  <2>4. len = 0 /\ ps[1] = q /\ DOMAIN ps = {1}
    BY <1>2, <2>3 DEF len
  <2>5. Starts(q.n)
    <3> SUFFICES ASSUME q.n # 1, ~Video[q.n - 1].marker PROVE FALSE
      BY DEF Starts
    <3> DEFINE c == q.n - 1
    <3>1. c \in DOMAIN Video /\ c <= q.n /\ c < q.n
      BY <1>1, VideoFacts
    <3>2. Video[c].frame = f
      <4> SUFFICES ASSUME Video[c].frame # Video[q.n].frame PROVE FALSE
        BY <1>1, <1>5
      <4>1. PICK k \in DOMAIN Video : c <= k /\ k < q.n /\ Video[k].marker
        BY <1>1, <3>1, FrameOrder
      <4>2. k = c
        BY <1>1, <4>1, VideoFacts
      <4> QED
        BY <4>1, <4>2
    <3>3. c \in Ahead
      BY <1>5, <3>1, <3>2 DEF Coming, PacketsOf
    <3> QED
      BY <1>1, <3>1, <3>3, VideoFacts
  <2>6. FromStart(ps)
    <3>1. q.n + 1 - 1 = q.n
      BY <1>1, VideoFacts
    <3> QED
      BY <1>1, <2>4, <2>5, <3>1 DEF FromStart
  <2> QED
    BY <1>3, <1>5, <2>4, <2>6 DEF Coming, ps
<1> QED
  BY <1>4, <1>5

(* A frame that is coming is the next packet's or lies behind it.          *)
LEMMA ComingIsBehind ==
  ASSUME TypeInv, NEW q, NextOfCamera(q), NEW f \in AllFrames, Coming(f), q.frame # f
  PROVE  q.n \in DOMAIN Video /\ q.frame = Video[q.n].frame /\ q.frame < f
<1>1. /\ q.n \in DOMAIN Video /\ q.frame = Video[q.n].frame
      /\ \A m \in Ahead : q.n <= m
  BY CameraPacketType DEF NextOfCamera, FromCamera
<1>2. PICK e \in PacketsOf(f) : TRUE
  BY FramesHavePackets
<1>3. e \in DOMAIN Video /\ Video[e].frame = f /\ q.n <= e
  BY <1>1 DEF Coming, PacketsOf
<1>4. q.frame <= f
  BY <1>1, <1>3, FrameOrder
<1> QED
  BY <1>1, <1>3, <1>4, VideoFacts

(* Taking the camera's next packet spoils nothing. *)
LEMMA SpoiledByCollect ==
  ASSUME TypeInv, NEW q, NextOfCamera(q), ~q.marker,
         FrameVector' = Append(FrameVector, q), out' = out
  PROVE  Spoiled' \subseteq Spoiled
<1> SUFFICES ASSUME NEW f \in AllFrames, Coming(f) \/ Begun(f)
             PROVE  Coming(f)' \/ Begun(f)'
  BY DEF Spoiled, Whole
<1>1. Ahead' = Ahead \ {q.n} /\ q.n \in Ahead /\ \A m \in Ahead : q.n <= m
  BY DEF NextOfCamera
<1>2. CASE Begun(f) \/ (Coming(f) /\ q.frame = f)
  <2>1. /\ FrameVector' # <<>> /\ FrameVector'[1].frame = f /\ FromStart(FrameVector')
        /\ FrameVector'[Len(FrameVector')] = q
        /\ \A m \in PacketsOf(f) : q.n < m => m \in Ahead
    BY <1>2, NextGoesOn
  <2>2. \A m \in Ahead' : q.n < m
    BY <1>1, AheadIsVideo, VideoFacts
  <2>3. ASSUME NEW m \in PacketsOf(f), q.n < m PROVE m \in Ahead'
    <3>1. m \in Ahead /\ m # q.n
      BY <1>1, <2>1, <2>3, AheadIsVideo, VideoFacts
    <3> QED
      BY <1>1, <3>1
  <2>4. FromStart(FrameVector)'
    BY <2>1 DEF FromStart, Starts
  <2>5. Begun(f)'
    BY <2>1, <2>2, <2>3, <2>4 DEF Begun
  <2> QED
    BY <2>5
<1>3. CASE Coming(f) /\ q.frame # f
  <2>1. q.n \in DOMAIN Video /\ q.frame = Video[q.n].frame /\ q.frame < f /\ f \in Nat
    BY <1>3, ComingIsBehind, FramesHavePackets
  <2>2. Ahead \subseteq DOMAIN Video /\ ~Video[q.n].marker
    BY AheadIsVideo, CameraPacketType DEF NextOfCamera, FromCamera
  <2>3. PacketsOf(f) \subseteq Ahead'
    BY <1>1, <1>3, <2>1, VideoFacts DEF Coming, PacketsOf
  <2>4. ASSUME NEW m \in Ahead', Video[m].frame < f,
               \A k \in Ahead' : m < k => f <= Video[k].frame
        PROVE  Video[m].marker
    BY <1>1, <1>3, <2>1, <2>2, <2>4, VideoFacts DEF Coming
  <2>5. ~(\A m \in Ahead' : f <= Video[m].frame)
    <3> SUFFICES ASSUME \A m \in Ahead' : f <= Video[m].frame PROVE FALSE
      OBVIOUS
    <3>1. \A k \in Ahead : q.n < k => f <= Video[k].frame
      BY <1>1, <2>1, VideoFacts
    <3> QED
      BY <1>1, <1>3, <2>1, <2>2, <3>1 DEF Coming
  <2>6. Coming(f)'
    BY <2>3, <2>4, <2>5 DEF Coming
  <2> QED
    BY <2>6
<1> QED
  BY <1>2, <1>3

(* A frame that is completed joins those that are out. *)
LEMMA WholeGrows ==
  ASSUME TypeInv, NEW r \in 0 .. LastFrame, out' = Append(out, r)
  PROVE  Whole' = Whole \cup ({r} \ {0})
<1>1. out \in Seq(0 .. LastFrame)
  BY DEF TypeInv, RtpTypeOK
<1>2. /\ Len(out) \in Nat /\ DOMAIN out = 1 .. Len(out)
      /\ DOMAIN out' = 1 .. Len(out) + 1
      /\ \A k \in DOMAIN out : out'[k] = out[k]
      /\ out'[Len(out) + 1] = r
  BY <1>1, AppendProperties, LenProperties
<1> QED
  BY <1>2 DEF Whole

(* Nor does completing a frame with it.                                    *)
LEMMA SpoiledByComplete ==
  ASSUME TypeInv, NEW q, NextOfCamera(q), FrameVector' = <<>>,
         out' = Append(out, Recognised(Append(FrameVector, q))),
         Recognised(Append(FrameVector, q)) \in 0 .. LastFrame
  PROVE  Spoiled' \subseteq Spoiled
<1> DEFINE r == Recognised(Append(FrameVector, q))
<1>1. Whole' = Whole \cup ({r} \ {0})
  BY WholeGrows
<1> SUFFICES ASSUME NEW f \in AllFrames, Coming(f) \/ Begun(f)
             PROVE  Coming(f)' \/ f \in Whole'
  BY <1>1 DEF Spoiled
<1>2. Ahead' = Ahead \ {q.n} /\ q.n \in Ahead /\ \A m \in Ahead : q.n <= m
  BY DEF NextOfCamera
<1>3. CASE Begun(f) \/ (Coming(f) /\ q.frame = f)
  <2>1. r = f
    BY <1>3, NextGoesOn DEF Recognised
  <2> QED
    BY <1>1, <2>1, FramesHavePackets
<1>4. CASE Coming(f) /\ q.frame # f
  <2>1. q.n \in DOMAIN Video /\ q.frame = Video[q.n].frame /\ q.frame < f /\ f \in Nat
    BY <1>4, ComingIsBehind, FramesHavePackets
  <2>2. Ahead \subseteq DOMAIN Video
    BY AheadIsVideo
  <2>3. PacketsOf(f) \subseteq Ahead'
    BY <1>2, <1>4, <2>1, VideoFacts DEF Coming, PacketsOf
  <2>4. ASSUME NEW m \in Ahead', Video[m].frame < f,
               \A k \in Ahead' : m < k => f <= Video[k].frame
        PROVE  Video[m].marker
    BY <1>2, <1>4, <2>1, <2>2, <2>4, VideoFacts DEF Coming
  <2>5. Coming(f)'
    BY <2>3, <2>4 DEF Coming
  <2> QED
    BY <2>5
<1> QED
  BY <1>3, <1>4

-----------------------------------------------------------------------------
(* The account of the damage. *)
LEMMA DamageCounts ==
  ASSUME TypeInv, DamageInv
  PROVE  /\ IsFiniteSet(Spoiled) /\ IsFiniteSet(Strays) /\ Charge \in Nat
         /\ Cardinality(Spoiled) \in Nat /\ Cardinality(Strays) \in Nat
         /\ Cardinality(late) \in Nat
<1>1. IsFiniteSet(Strays)
  BY FS_Subset DEF DamageInv, Strays
<1>2. Charge \in Nat
  BY FaultsType DEF Charge, Kinds
<1> QED
  BY <1>1, <1>2, SpoiledFinite, FS_CardinalityType DEF DamageInv

(* Each kind of fault has its price.                                       *)
LEMMA ChargeGrows ==
  ASSUME TypeInv, NEW k \in Kinds, Fault(k)
  PROVE  Charge' = Charge + (IF k = "late" THEN 3 ELSE IF k = "lostMarker" THEN 2 ELSE 1)
<1>1. \A l \in Kinds : faults[l] \in Nat
  BY FaultsType
<1>2. /\ faults'[k] = faults[k] + 1
      /\ \A l \in Kinds : l # k => faults'[l] = faults[l]
  BY FaultCounts
<1>3. k \in {"lost", "lostMarker", "late", "copied", "stray"}
  BY DEF Kinds
<1> QED
  BY <1>1, <1>2, <1>3 DEF Charge, Kinds

(* A packet that does not come in time has spoiled one frame more, two if  *)
(* it had the marker.                                                      *)
LEMMA MissingSpoils ==
  ASSUME TypeInv, DamageInv, Send, Ahead' = Ahead \ {next},
         FrameVector' = FrameVector, out' = out
  PROVE  /\ Cardinality(Spoiled') \in Nat
         /\ Cardinality(Spoiled')
              <= Cardinality(Spoiled) + (IF Video[next].marker THEN 2 ELSE 1)
<1>1. IsFiniteSet(Spoiled) /\ Cardinality(Spoiled) \in Nat
  BY SpoiledFinite
<1>2. CASE ~Video[next].marker
  <2>1. \A f, g \in Spoiled' \ Spoiled : f = g
    BY <1>2, SpoiledByMissing
  <2> QED
    BY <1>1, <1>2, <2>1, OneMore
<1>3. CASE Video[next].marker
  <2> DEFINE S == Spoiled \cup {Video[next].frame}
  <2>1. /\ IsFiniteSet(S) /\ Cardinality(S) \in Nat
        /\ Cardinality(S) <= Cardinality(Spoiled) + 1
    <3>1. \A f, g \in S \ Spoiled : f = g
      OBVIOUS
    <3> QED
      BY <1>1, <3>1, OneMore
  <2>2. \A f, g \in Spoiled' \ S : f = g
    BY SpoiledByMissing
  <2> HIDE DEF S
  <2>3. Cardinality(Spoiled') \in Nat /\ Cardinality(Spoiled') <= Cardinality(S) + 1
    BY <2>1, <2>2, OneMore
  <2> QED
    BY <1>1, <1>3, <2>1, <2>3
<1> QED
  BY <1>2, <1>3

(* One packet more is under way.                                           *)
LEMMA LateOneMore ==
  ASSUME DamageInv, NEW p, late' = late \cup {p}
  PROVE  /\ IsFiniteSet(late') /\ Cardinality(late') \in Nat
         /\ Cardinality(late') <= Cardinality(late) + 1
<1>1. \A x, y \in late' \ late : x = y
  OBVIOUS
<1> QED
  BY <1>1, OneMore DEF DamageInv

(* What the network does is charged for at once. *)
LEMMA DamageNetwork ==
  ASSUME TypeInv, DamageInv, Network
  PROVE  DamageInv'
<1>1. /\ IsFiniteSet(Spoiled) /\ IsFiniteSet(Strays) /\ Charge \in Nat
      /\ Cardinality(Spoiled) \in Nat /\ Cardinality(Strays) \in Nat
      /\ IsFiniteSet(late) /\ Cardinality(late) \in Nat
      /\ IsFiniteSet(queue["stranger"])
      /\ Cardinality(Spoiled) + Cardinality(late) + Cardinality(Strays) <= Charge
  BY DamageCounts DEF DamageInv
<1>2. UNCHANGED <<FrameVector, out>>
  BY DEF Network, Arrive, Lose, Delay, Duplicate, ArriveLate, Stray
<1>3. CASE Arrive
  <2>1. Spoiled' = Spoiled /\ Strays' = Strays /\ queue'["stranger"] = queue["stranger"]
    BY <1>2, <1>3, NetworkFacts, SpoiledStill DEF Strays
  <2>2. UNCHANGED <<late, faults>>
    BY <1>3 DEF Arrive
  <2> QED
    BY <1>1, <2>1, <2>2 DEF DamageInv, Charge
<1>4. CASE Lose
  <2>1. /\ Strays' = Strays /\ queue'["stranger"] = queue["stranger"]
        /\ Ahead' = Ahead \ {next} /\ late' = late
    BY <1>4, NetworkFacts DEF Strays, Lose
  <2>2. Send /\ next \in DOMAIN Video
    BY <1>4, SendFacts DEF Lose
  <2>3. Charge' = Charge + (IF Video[next].marker THEN 2 ELSE 1)
    BY <1>4, <2>2, CameraPacketType, ChargeGrows DEF Lose, Kinds
  <2>4. /\ Cardinality(Spoiled') \in Nat
        /\ Cardinality(Spoiled')
             <= Cardinality(Spoiled) + (IF Video[next].marker THEN 2 ELSE 1)
    BY <1>2, <2>1, <2>2, MissingSpoils
  <2> QED
    BY <1>1, <2>1, <2>3, <2>4 DEF DamageInv
<1>5. CASE Delay
  <2>1. /\ Strays' = Strays /\ queue'["stranger"] = queue["stranger"]
        /\ Ahead' = Ahead \ {next} /\ late' = late \cup {CameraPacket(next)}
    BY <1>5, NetworkFacts DEF Strays, Delay
  <2>2. Send
    BY <1>5 DEF Delay
  <2>3. Charge' = Charge + 3
    BY <1>5, ChargeGrows DEF Delay, Kinds
  <2>4. /\ Cardinality(Spoiled') \in Nat
        /\ Cardinality(Spoiled') <= Cardinality(Spoiled) + 2
    <3>1. /\ Cardinality(Spoiled') \in Nat
          /\ Cardinality(Spoiled')
               <= Cardinality(Spoiled) + (IF Video[next].marker THEN 2 ELSE 1)
      BY <1>2, <2>1, <2>2, MissingSpoils
    <3> QED
      BY <1>1, <3>1
  <2>5. /\ IsFiniteSet(late') /\ Cardinality(late') \in Nat
        /\ Cardinality(late') <= Cardinality(late) + 1
    BY <2>1, LateOneMore
  <2> QED
    BY <1>1, <2>1, <2>3, <2>4, <2>5 DEF DamageInv
<1>6. CASE Duplicate
  <2>1. /\ Strays' = Strays /\ queue'["stranger"] = queue["stranger"]
        /\ Spoiled' = Spoiled /\ late' = late \cup {CameraPacket(next)}
    BY <1>2, <1>6, NetworkFacts, SpoiledStill DEF Strays, Duplicate
  <2>2. Charge' = Charge + 1
    BY <1>6, ChargeGrows DEF Duplicate, Kinds
  <2>3. /\ IsFiniteSet(late') /\ Cardinality(late') \in Nat
        /\ Cardinality(late') <= Cardinality(late) + 1
    BY <2>1, LateOneMore
  <2> QED
    BY <1>1, <2>1, <2>2, <2>3 DEF DamageInv
<1>7. CASE ArriveLate
  <2>1. PICK q \in late : Ahead' = Ahead \cup {q.n} /\ late' = late \ {q}
    BY <1>7, NetworkFacts
  <2>2. q.n \in DOMAIN Video
    BY VideoFacts DEF TypeInv, RtpTypeOK
  <2>3. /\ Strays' = Strays /\ queue'["stranger"] = queue["stranger"]
        /\ Charge' = Charge
    BY <1>7, NetworkFacts DEF Strays, ArriveLate, Charge
  <2>4. \A f, g \in Spoiled' \ Spoiled : f = g
    BY <1>2, <2>1, <2>2, SpoiledByLate
  <2>5. /\ Cardinality(Spoiled') \in Nat
        /\ Cardinality(Spoiled') <= Cardinality(Spoiled) + 1
    BY <1>1, <2>4, OneMore
  <2>6. IsFiniteSet(late') /\ Cardinality(late') = Cardinality(late) - 1
    BY <1>1, <2>1, FS_RemoveElement
  <2> QED
    BY <1>1, <2>3, <2>5, <2>6 DEF DamageInv
<1>8. CASE Stray
  <2>1. PICK marker \in BOOLEAN, type \in {8, 96} :
          /\ IF type = 96 THEN Fault("stray")
             ELSE queue["stranger"] = {} /\ UNCHANGED faults
          /\ Enqueue("stranger", [n |-> AllFaults, frame |-> 0,
                                  marker |-> marker, type |-> type])
    BY <1>8, Zenon DEF Stray
  <2> DEFINE q == [n |-> AllFaults, frame |-> 0, marker |-> marker, type |-> type]
  <2>2. q.type = type
    OBVIOUS
  <2>3. queue'["stranger"] = queue["stranger"] \cup {q}
    <3>1. queue' = [queue EXCEPT !["stranger"] = @ \cup {q}]
      BY <2>1 DEF Enqueue
    <3> HIDE DEF q
    <3> QED
      BY <3>1 DEF TypeInv, RtpTypeOK, Sources
  <2>4. late' = late /\ Spoiled' = Spoiled
    BY <1>2, <1>8, NetworkFacts, SpoiledStill DEF Stray
  <2> HIDE DEF q
  <2>5. IsFiniteSet(queue'["stranger"])
    <3>1. \A x, y \in queue'["stranger"] \ queue["stranger"] : x = y
      BY <2>3
    <3> QED
      BY <1>1, <3>1, OneMore
  <2>6. CASE type = 96
    <3>1. Charge' = Charge + 1
      BY <2>1, <2>6, ChargeGrows DEF Kinds
    <3>2. \A x, y \in Strays' \ Strays : x = y
      BY <2>3 DEF Strays
    <3>3. Cardinality(Strays') \in Nat /\ Cardinality(Strays') <= Cardinality(Strays) + 1
      BY <1>1, <3>2, OneMore
    <3> QED
      BY <1>1, <2>4, <2>5, <3>1, <3>3 DEF DamageInv
  <2>7. CASE type # 96
    <3>1. Charge' = Charge
      BY <2>1, <2>7 DEF Charge
    <3>2. Strays' = Strays
      BY <2>2, <2>3, <2>7 DEF Strays
    <3> QED
      BY <1>1, <2>4, <2>5, <3>1, <3>2 DEF DamageInv
  <2> QED
    BY <2>6, <2>7
<1> QED
  BY <1>3, <1>4, <1>5, <1>6, <1>7, <1>8 DEF Network

(* A stranger's video packet that is taken leaves its share to the frame   *)
(* it spoils.                                                              *)
LEMMA StrayPays ==
  ASSUME TypeInv, DamageInv, NEW q \in Packet, OfStranger(q), q.type = 96,
         Whole \subseteq Whole', FrameVector' = <<>> \/ FrameVector' = Append(FrameVector, q),
         UNCHANGED <<late, faults>>
  PROVE  DamageInv'
<1>1. /\ IsFiniteSet(Spoiled) /\ IsFiniteSet(Strays)
      /\ Cardinality(Spoiled) \in Nat /\ Cardinality(Strays) \in Nat
      /\ IsFiniteSet(late) /\ Cardinality(late) \in Nat
      /\ IsFiniteSet(queue["stranger"])
      /\ Cardinality(Spoiled) + Cardinality(late) + Cardinality(Strays) <= Charge
  BY DamageCounts DEF DamageInv
<1>2. q \in Strays /\ Strays' = Strays \ {q}
  BY DEF OfStranger, Strays
<1>3. Cardinality(Strays') = Cardinality(Strays) - 1
  BY <1>1, <1>2, FS_RemoveElement
<1>4. \A f, g \in Spoiled' \ Spoiled : f = g
  BY SpoiledByStray DEF OfStranger
<1>5. Cardinality(Spoiled') \in Nat /\ Cardinality(Spoiled') <= Cardinality(Spoiled) + 1
  BY <1>1, <1>4, OneMore
<1>6. IsFiniteSet(queue'["stranger"])
  BY <1>1, FS_RemoveElement, FS_Subset DEF OfStranger
<1>7. Charge' = Charge /\ Charge \in Nat
  BY DamageCounts DEF Charge
<1> QED
  BY <1>1, <1>3, <1>5, <1>6, <1>7 DEF DamageInv

(* What leaves the strangers' video alone and spoils nothing is balanced. *)
LEMMA DamageStill ==
  ASSUME TypeInv, DamageInv, Spoiled' \subseteq Spoiled, Strays' = Strays,
         queue'["stranger"] \subseteq queue["stranger"], UNCHANGED <<late, faults>>
  PROVE  DamageInv'
<1>1. /\ IsFiniteSet(Spoiled) /\ Cardinality(Strays) \in Nat /\ Charge \in Nat
      /\ Cardinality(Spoiled) \in Nat /\ Cardinality(late) \in Nat
  BY DamageCounts
<1>2. Cardinality(Spoiled') \in Nat /\ Cardinality(Spoiled') <= Cardinality(Spoiled)
  BY <1>1, NoMore
<1>3. IsFiniteSet(queue'["stranger"])
  BY FS_Subset DEF DamageInv
<1>4. Charge' = Charge
  BY DEF Charge
<1> QED
  BY <1>1, <1>2, <1>3, <1>4 DEF DamageInv

(* The loop takes from the strangers what it spoils.                       *)
LEMMA DamageLoop ==
  ASSUME TypeInv, DamageInv, Loop
  PROVE  DamageInv'
<1>1. CASE BeginDataAccess \/ NextSource
  <2>1. UNCHANGED <<late, queue, FrameVector, out, faults>>
    BY <1>1 DEF BeginDataAccess, NextSource
  <2>2. Spoiled' = Spoiled /\ Strays' = Strays
    BY <1>1, <2>1, NetworkFacts, SpoiledStill DEF Strays
  <2> QED
    BY <2>1, <2>2, DamageStill
<1>2. CASE cur # "none" /\ Skip
  <2>1. PICK q \in Packet : /\ OfStranger(q) /\ q.type # 96
                            /\ UNCHANGED <<late, FrameVector, out, faults>>
    BY <1>2, SkipFacts
  <2>2. Spoiled' = Spoiled
    BY <2>1, SpoiledStill DEF OfStranger
  <2>3. Strays' = Strays /\ queue'["stranger"] \subseteq queue["stranger"]
    BY <2>1 DEF OfStranger, Strays
  <2> QED
    BY <2>1, <2>2, <2>3, DamageStill
<1>3. CASE cur # "none" /\ Collect
  <2>1. PICK q \in Packet :
          /\ NextOfCamera(q) \/ OfStranger(q)
          /\ q.type = 96 /\ ~q.marker
          /\ FrameVector' = Append(FrameVector, q)
          /\ UNCHANGED <<late, out, faults>>
    BY <1>3, CollectFacts
  <2>2. CASE NextOfCamera(q)
    <3>1. Spoiled' \subseteq Spoiled
      BY <2>1, <2>2, SpoiledByCollect
    <3>2. Strays' = Strays /\ queue'["stranger"] = queue["stranger"]
      BY <2>2 DEF NextOfCamera, Strays
    <3> QED
      BY <2>1, <3>1, <3>2, DamageStill
  <2>3. CASE OfStranger(q)
    <3>1. Whole' = Whole
      BY <2>1 DEF Whole
    <3> QED
      BY <2>1, <2>3, <3>1, StrayPays
  <2> QED
    BY <2>1, <2>2, <2>3
<1>4. CASE cur # "none" /\ Complete
  <2>1. PICK q \in Packet :
          /\ NextOfCamera(q) \/ OfStranger(q)
          /\ q.type = 96
          /\ FrameVector' = <<>>
          /\ out' = Append(out, Recognised(Append(FrameVector, q)))
          /\ UNCHANGED <<late, faults>>
    BY <1>4, CompleteFacts
  <2>2. Recognised(Append(FrameVector, q)) \in 0 .. LastFrame
    <3>1. q.frame = 0 \/ FromCamera(q)
      BY <2>1 DEF NextOfCamera, OfStranger
    <3>2. /\ Append(FrameVector, q) \in Seq(Packet)
          /\ Len(Append(FrameVector, q)) = Len(FrameVector) + 1
          /\ Len(FrameVector) \in Nat
      BY <3>1, AppendPacket
    <3> DEFINE ps == Append(FrameVector, q)
    <3>3. ps \in Seq(Packet) /\ Len(ps) > 0
      BY <3>2
    <3> HIDE DEF ps
    <3>4. Recognised(ps) \in 0 .. LastFrame
      BY <3>3, RecognisedType
    <3> QED
      BY <3>4 DEF ps
  <2>3. CASE NextOfCamera(q)
    <3>1. Spoiled' \subseteq Spoiled
      BY <2>1, <2>2, <2>3, SpoiledByComplete
    <3>2. Strays' = Strays /\ queue'["stranger"] = queue["stranger"]
      BY <2>3 DEF NextOfCamera, Strays
    <3> QED
      BY <2>1, <3>1, <3>2, DamageStill
  <2>4. CASE OfStranger(q)
    <3>1. Whole \subseteq Whole'
      BY <2>1, <2>2, WholeGrows
    <3> QED
      BY <2>1, <2>4, <3>1, StrayPays
  <2> QED
    BY <2>1, <2>3, <2>4
<1> QED
  BY <1>1, <1>2, <1>3, <1>4 DEF Loop

(* In the end every frame that is not whole is spoiled. *)
LEMMA QuietIsSpoiled ==
  ASSUME TypeInv, Quiet, NEW f \in SentOff \ Whole
  PROVE  f \in Spoiled
<1>1. /\ next \in 1 .. Len(Video) + 1 /\ Ahead = next .. Len(Video)
  <2>1. queue["camera"] = {}
    BY DEF Quiet, WithData, Sources
  <2> QED
    BY <2>1 DEF Ahead, TypeInv, RtpTypeOK
<1>2. PICK n \in DOMAIN Video : n < next /\ Video[n].marker /\ Video[n].frame = f
  BY <1>1, VideoFacts DEF SentOff
<1>3. n \notin Ahead /\ n \in PacketsOf(f)
  BY <1>1, <1>2, VideoFacts DEF PacketsOf
<1>4. ~Coming(f)
  BY <1>3 DEF Coming
<1>5. ~Begun(f)
  <2> SUFFICES ASSUME Begun(f) PROVE FALSE
    OBVIOUS
  <2> DEFINE len == Len(FrameVector)
  <2>1. PICK a \in DOMAIN Video :
          /\ Video[a].frame = f /\ len \in Nat /\ len > 0
          /\ FrameVector[len].n = a + len - 1
          /\ \A k \in DOMAIN Video : a <= k /\ k <= a + len - 1 => ~Video[k].marker
    BY BegunFacts
  <2> HIDE DEF len
  <2>2. ~(a + len - 1 < n)
    BY <1>3, <2>1 DEF Begun, len
  <2>3. n < a
    BY <1>2, <2>1, <2>2, VideoFacts
  <2> QED
    BY <1>2, <2>1, <2>3, FrameOrder, VideoFacts
<1> QED
  BY <1>2, <1>4, <1>5 DEF Spoiled, AllFrames

(* As long as the process lives, every frame of the camera of which the    *)
(* marker was sent is put together whole in the end, but for one for each  *)
(* lost packet, copy and stranger's packet, two for each lost marker and   *)
(* three for each late packet.                                             *)
THEOREM DamageContainedHolds == RtpSpec => []DamageContained
<1>1. RtpInit => DamageInv
  <2> SUFFICES ASSUME RtpInit PROVE DamageInv
    OBVIOUS
  <2>1. /\ late = {} /\ queue["stranger"] = {} /\ FrameVector = <<>>
        /\ Ahead = DOMAIN Video
    BY VideoFacts DEF RtpInit, Sources, Ahead
  <2>2. ASSUME NEW f \in AllFrames PROVE Coming(f)
    <3>1. ASSUME NEW m \in Ahead, Video[m].frame < f,
                 \A k \in Ahead : m < k => f <= Video[k].frame
          PROVE  Video[m].marker
      <4>1. PICK e \in DOMAIN Video : Video[e].frame = f
        BY <2>2 DEF AllFrames
      <4>2. m < e
        <5>1. ~(e <= m)
          BY <2>1, <3>1, <4>1, FrameOrder, VideoFacts
        <5> QED
          BY <2>1, <4>1, <5>1, VideoFacts
      <4>3. PICK k \in DOMAIN Video : m <= k /\ k < e /\ Video[k].marker
        BY <2>1, <3>1, <4>1, <4>2, FrameOrder, VideoFacts
      <4>4. ~(m < k)
        <5>1. Video[k].frame < f
          BY <4>1, <4>3, FrameOrder, VideoFacts
        <5> QED
          BY <2>1, <3>1, <4>1, <4>3, <5>1, VideoFacts
      <4> QED
        BY <2>1, <4>3, <4>4, VideoFacts
    <3> QED
      BY <2>1, <3>1 DEF Coming, PacketsOf
  <2>3. Spoiled = {} /\ Strays = {}
    BY <2>1, <2>2 DEF Spoiled, Strays
  <2>4. Charge = 0
    BY DEF RtpInit, Charge, Kinds
  <2> QED
    BY <2>1, <2>3, <2>4, FS_EmptySet DEF DamageInv
<1>2. TypeInv /\ DamageInv /\ [RtpNext]_rtpVars => DamageInv'
  <2> SUFFICES ASSUME TypeInv, DamageInv, [RtpNext]_rtpVars PROVE DamageInv'
    OBVIOUS
  <2>1. CASE UNCHANGED rtpVars
    <3>1. Ahead' = Ahead /\ Strays' = Strays
      BY <2>1 DEF rtpVars, Ahead, Strays
    <3>2. Spoiled' = Spoiled
      BY <2>1, <3>1, SpoiledStill DEF rtpVars
    <3> QED
      BY <2>1, <3>1, <3>2, DamageStill DEF rtpVars
  <2> QED
    BY <2>1, DamageNetwork, DamageLoop DEF RtpNext
<1>3. TypeInv /\ DamageInv => DamageContained
  <2> SUFFICES ASSUME TypeInv, DamageInv, Quiet
               PROVE  Cardinality(SentOff \ Whole) <= Charge
    BY DEF DamageContained, Charge
  <2>1. /\ IsFiniteSet(Spoiled) /\ Cardinality(Spoiled) \in Nat /\ Charge \in Nat
        /\ Cardinality(late) \in Nat /\ Cardinality(Strays) \in Nat
    BY DamageCounts
  <2>2. SentOff \ Whole \subseteq Spoiled
    BY QuietIsSpoiled
  <2>3. /\ Cardinality(SentOff \ Whole) \in Nat
        /\ Cardinality(SentOff \ Whole) <= Cardinality(Spoiled)
    BY <2>1, <2>2, NoMore
  <2> QED
    BY <2>1, <2>3 DEF DamageInv
<1> QED
  BY <1>1, <1>2, <1>3, TypeInit, TypeNext, PTL DEF RtpSpec
=============================================================================
