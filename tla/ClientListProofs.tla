-------------------------- MODULE ClientListProofs --------------------------
(***************************************************************************)
(* Lemmas about the vectors of ClientList: what the searches return, and   *)
(* that every method maps well-formed lists to well-formed lists.          *)
(***************************************************************************)
EXTENDS ClientList, WellFoundedInduction, TLAPS

(* Every non-empty set of naturals has a smallest element, and Min is it:  *)
(* the searches of device.cpp return the first match.                      *)
LEMMA MinOfNaturals ==
  ASSUME NEW S \in SUBSET Nat, S # {}
  PROVE  Min(S) \in S /\ \A n \in S : Min(S) <= n
<1> DEFINE R == OpToRel(<, Nat)
<1>1. IsWellFoundedOn(R, Nat)
  BY NatLessThanWellFounded
<1>2. \E m \in S : \A n \in S : <<n, m>> \notin R
  <2> HIDE DEF R
  <2> QED BY <1>1, WFMin
<1>3. \A m, n \in Nat : <<n, m>> \notin R => m <= n
  BY DEF OpToRel
<1> QED BY <1>2, <1>3 DEF Min

(* ClientIndex and CamIndex return a valid position or the "not there". *)
LEMMA SipIndexRange ==
  ASSUME NEW S, NEW vec \in Seq(S), NEW sip
  PROVE  /\ SipIndex(sip, vec) \in Nat
         /\ SipIndex(sip, vec) # 0 => SipIndex(sip, vec) \in 1 .. Len(vec)
<1> DEFINE I == {i \in 1 .. Len(vec) : vec[i].sip = sip}
<1>1. SipIndex(sip, vec) = IF I # {} THEN Min(I) ELSE 0
  BY DEF SipIndex, SelectInSeq
<1>2. I # {} => Min(I) \in I
  <2>1. I \in SUBSET Nat
    OBVIOUS
  <2> HIDE DEF I
  <2> QED BY <2>1, MinOfNaturals
<1> QED BY <1>1, <1>2

(* The same of ReqIndex. *)
LEMMA ReqIndexRange ==
  ASSUME NEW S, NEW reqs \in Seq(S), NEW req
  PROVE  /\ ReqIndex(reqs, req) \in Nat
         /\ ReqIndex(reqs, req) # 0 => ReqIndex(reqs, req) \in 1 .. Len(reqs)
<1> DEFINE I == {i \in 1 .. Len(reqs) : reqs[i] = req}
<1>1. ReqIndex(reqs, req) = IF I # {} THEN Min(I) ELSE 0
  BY DEF ReqIndex, SelectInSeq
<1>2. I # {} => Min(I) \in I
  <2>1. I \in SUBSET Nat
    OBVIOUS
  <2> HIDE DEF I
  <2> QED BY <2>1, MinOfNaturals
<1> QED BY <1>1, <1>2

(* PushReq and PopReq keep the vector of request names one. *)
LEMMA ReqsType ==
  ASSUME NEW reqs \in Seq(CmdTypes), NEW req \in CmdTypes
  PROVE  /\ PushReq(reqs, req) \in Seq(CmdTypes)
         /\ PopReq(reqs, req)  \in Seq(CmdTypes)
<1>1. PushReq(reqs, req) \in Seq(CmdTypes)
  BY DEF PushReq
<1>2. PopReq(reqs, req) \in Seq(CmdTypes)
  <2>1. ASSUME NEW i \in 1 .. Len(reqs)
        PROVE  RemoveAt(reqs, i) \in Seq(CmdTypes)
    BY DEF RemoveAt
  <2> QED BY <2>1, ReqIndexRange DEF PopReq, HasReq
<1> QED BY <1>1, <1>2

(* A vector stays one when one of its elements is replaced. *)
LEMMA ReplaceElement ==
  ASSUME NEW S, NEW vec \in Seq(S), NEW i \in 1 .. Len(vec), NEW e \in S
  PROVE  [vec EXCEPT ![i] = e] \in Seq(S)
OBVIOUS

(* Client::AddReq and Client::DelReq keep the vector of ReqCam one. *)
LEMMA CamsType ==
  ASSUME NEW sips, NEW cams \in Seq(ReqCam(sips)),
         NEW camsip, NEW req \in CmdTypes
  PROVE  /\ camsip \in sips => AddReq(cams, camsip, req) \in Seq(ReqCam(sips))
         /\ DelReq(cams, camsip, req) \in Seq(ReqCam(sips))
<1> DEFINE i == SipIndex(camsip, cams)
<1>1. i # 0 => i \in 1 .. Len(cams)
  BY SipIndexRange
<1>2. AddReq(cams, camsip, req) = IF i # 0
        THEN [cams EXCEPT ![i].reqs = PushReq(cams[i].reqs, req)]
        ELSE Append(cams, [sip |-> camsip, reqs |-> <<req>>])
  BY <1>1 DEF AddReq
<1>3. DelReq(cams, camsip, req) = IF i # 0
        THEN [cams EXCEPT ![i].reqs = PopReq(cams[i].reqs, req)] ELSE cams
  BY <1>1 DEF DelReq
<1> HIDE DEF i
<1>4. i # 0 => cams[i] \in ReqCam(sips)
  BY <1>1
<1>5. ASSUME i # 0, NEW r \in Seq(CmdTypes)
      PROVE  [cams EXCEPT ![i].reqs = r] \in Seq(ReqCam(sips))
  <2> DEFINE e == [cams[i] EXCEPT !.reqs = r]
  <2>1. e \in ReqCam(sips)
    BY <1>4, <1>5 DEF ReqCam
  <2>2. [cams EXCEPT ![i].reqs = r] = [cams EXCEPT ![i] = e]
    OBVIOUS
  <2> HIDE DEF e
  <2> QED BY <1>1, <1>5, <2>1, <2>2, ReplaceElement
<1>6. i # 0 => /\ PushReq(cams[i].reqs, req) \in Seq(CmdTypes)
               /\ PopReq(cams[i].reqs, req) \in Seq(CmdTypes)
  <2>1. i # 0 => cams[i].reqs \in Seq(CmdTypes)
    BY <1>4 DEF ReqCam
  <2> QED BY <2>1, ReqsType
<1>7. camsip \in sips =>
        Append(cams, [sip |-> camsip, reqs |-> <<req>>]) \in Seq(ReqCam(sips))
  BY DEF ReqCam
<1> QED BY <1>2, <1>3, <1>5, <1>6, <1>7

(* AddClientReq and DelClientReq keep the client list one. *)
LEMMA AddClientReqType ==
  ASSUME NEW sips, NEW addrs, NEW list \in Seq(Client(sips, addrs)),
         NEW sip \in sips, NEW addr \in addrs, NEW camsip \in sips,
         NEW req \in CmdTypes
  PROVE  AddClientReq(list, sip, addr, camsip, req) \in Seq(Client(sips, addrs))
<1> DEFINE i == SipIndex(sip, list)
<1>1. i # 0 => i \in 1 .. Len(list)
  BY SipIndexRange
<1>2. AddClientReq(list, sip, addr, camsip, req) = IF i # 0
        THEN [list EXCEPT ![i].cams = AddReq(list[i].cams, camsip, req)]
        ELSE Append(list, [sip  |-> sip, addr |-> addr,
                           cams |-> AddReq(<<>>, camsip, req)])
  BY <1>1 DEF AddClientReq
<1> HIDE DEF i
<1>3. i # 0 => list[i] \in Client(sips, addrs)
  BY <1>1
<1>4. i # 0 => AddReq(list[i].cams, camsip, req) \in Seq(ReqCam(sips))
  <2>1. i # 0 => list[i].cams \in Seq(ReqCam(sips))
    BY <1>3 DEF Client
  <2> QED BY <2>1, CamsType
<1>5. ASSUME i # 0, NEW k \in Seq(ReqCam(sips))
      PROVE  [list EXCEPT ![i].cams = k] \in Seq(Client(sips, addrs))
  <2> DEFINE e == [list[i] EXCEPT !.cams = k]
  <2>1. e \in Client(sips, addrs)
    BY <1>3, <1>5 DEF Client
  <2>2. [list EXCEPT ![i].cams = k] = [list EXCEPT ![i] = e]
    OBVIOUS
  <2> HIDE DEF e
  <2> QED BY <1>1, <1>5, <2>1, <2>2, ReplaceElement
<1>6. Append(list, [sip |-> sip, addr |-> addr, cams |-> AddReq(<<>>, camsip, req)])
        \in Seq(Client(sips, addrs))
  <2>1. <<>> \in Seq(ReqCam(sips))
    OBVIOUS
  <2>2. AddReq(<<>>, camsip, req) \in Seq(ReqCam(sips))
    BY <2>1, CamsType
  <2> QED BY <2>2 DEF Client
<1> QED BY <1>2, <1>4, <1>5, <1>6

(* The settled list is a client list again. *)
LEMMA DelClientReqType ==
  ASSUME NEW sips, NEW addrs, NEW list \in Seq(Client(sips, addrs)),
         NEW camsip, NEW req \in CmdTypes
  PROVE  DelClientReq(list, camsip, req) \in Seq(Client(sips, addrs))
<1> DEFINE Fresh(i) == [list[i] EXCEPT !.cams = DelReq(list[i].cams, camsip, req)]
<1>1. ASSUME NEW i \in 1 .. Len(list)
      PROVE  Fresh(i) \in Client(sips, addrs)
  <2>1. list[i] \in Client(sips, addrs)
    OBVIOUS
  <2>2. DelReq(list[i].cams, camsip, req) \in Seq(ReqCam(sips))
    BY <2>1, CamsType DEF Client
  <2> QED BY <2>1, <2>2 DEF Client
<1>2. DelClientReq(list, camsip, req) = [i \in 1 .. Len(list) |-> Fresh(i)]
  BY DEF DelClientReq
<1> HIDE DEF Fresh
<1>3. [i \in 1 .. Len(list) |-> Fresh(i)] \in [1 .. Len(list) -> Client(sips, addrs)]
  BY <1>1
<1> QED BY <1>2, <1>3
=============================================================================
