-------------------------- MODULE ClientBookProofs --------------------------
(***************************************************************************)
(* What the methods of device.cpp do to the set of recorded queries, and   *)
(* that none of them ever lists a client, camera or request twice.         *)
(***************************************************************************)
EXTENDS ClientListProofs, SequenceTheorems

-----------------------------------------------------------------------------
(* The searches find an element if there is one. *)
LEMMA SipIndexFinds ==
  ASSUME NEW S, NEW vec \in Seq(S), NEW sip
  PROVE  /\ SipIndex(sip, vec) # 0 =>
              SipIndex(sip, vec) \in DOMAIN vec /\ vec[SipIndex(sip, vec)].sip = sip
         /\ SipIndex(sip, vec) = 0 => \A i \in DOMAIN vec : vec[i].sip # sip
<1> DEFINE I == {i \in 1 .. Len(vec) : vec[i].sip = sip}
<1>1. SipIndex(sip, vec) = IF I # {} THEN Min(I) ELSE 0
  BY DEF SipIndex, SelectInSeq
<1>2. I # {} => Min(I) \in I
  <2>1. I \in SUBSET Nat
    OBVIOUS
  <2> HIDE DEF I
  <2> QED BY <2>1, MinOfNaturals
<1> QED BY <1>1, <1>2

(* The search for a request finds it if it is there. *)
LEMMA ReqIndexFinds ==
  ASSUME NEW S, NEW reqs \in Seq(S), NEW req
  PROVE  /\ HasReq(reqs, req) =>
              ReqIndex(reqs, req) \in 1 .. Len(reqs) /\ reqs[ReqIndex(reqs, req)] = req
         /\ ~HasReq(reqs, req) => \A i \in DOMAIN reqs : reqs[i] # req
<1> DEFINE I == {i \in 1 .. Len(reqs) : reqs[i] = req}
<1>1. ReqIndex(reqs, req) = IF I # {} THEN Min(I) ELSE 0
  BY DEF ReqIndex, SelectInSeq
<1>2. I # {} => Min(I) \in I
  <2>1. I \in SUBSET Nat
    OBVIOUS
  <2> HIDE DEF I
  <2> QED BY <2>1, MinOfNaturals
<1> QED BY <1>1, <1>2 DEF HasReq

(* What is left when one element of a vector is erased. *)
LEMMA Erased ==
  ASSUME NEW S, NEW s \in Seq(S), NEW i \in 1 .. Len(s)
  PROVE  /\ RemoveAt(s, i) \in Seq(S)
         /\ Len(RemoveAt(s, i)) = Len(s) - 1
         /\ \A j \in 1 .. Len(s) - 1 :
              RemoveAt(s, i)[j] = IF j < i THEN s[j] ELSE s[j + 1]
<1> DEFINE A == SubSeq(s, 1, i - 1)
           B == SubSeq(s, i + 1, Len(s))
<1>1. A \in Seq(S) /\ Len(A) = i - 1 /\ \A j \in 1 .. i - 1 : A[j] = s[j]
  OBVIOUS
<1>2. B \in Seq(S) /\ Len(B) = Len(s) - i /\ \A j \in 1 .. Len(s) - i : B[j] = s[i + j]
  OBVIOUS
<1>3. RemoveAt(s, i) = A \o B
  BY DEF RemoveAt
<1> HIDE DEF A, B
<1>4. /\ A \o B \in Seq(S) /\ Len(A \o B) = Len(A) + Len(B)
      /\ \A j \in 1 .. Len(A) + Len(B) :
           (A \o B)[j] = IF j <= Len(A) THEN A[j] ELSE B[j - Len(A)]
  BY <1>1, <1>2, ConcatProperties
<1>5. ASSUME NEW j \in 1 .. Len(s) - 1
      PROVE  (A \o B)[j] = IF j < i THEN s[j] ELSE s[j + 1]
  <2>1. CASE j < i
    BY <2>1, <1>1, <1>2, <1>4
  <2>2. CASE ~(j < i)
    <3>1. j - Len(A) \in 1 .. Len(s) - i /\ i + (j - Len(A)) = j + 1
      BY <2>2, <1>1
    <3>2. j \in 1 .. Len(A) + Len(B) /\ ~(j <= Len(A))
      BY <2>2, <1>1, <1>2
    <3>3. (A \o B)[j] = B[j - Len(A)]
      BY <3>2, <1>4
    <3>4. B[j - Len(A)] = s[i + (j - Len(A))]
      BY <3>1, <1>2
    <3> QED BY <2>2, <3>1, <3>3, <3>4
  <2> QED BY <2>1, <2>2
<1> QED BY <1>1, <1>2, <1>3, <1>4, <1>5

-----------------------------------------------------------------------------
(* One ReqCam: PushReq adds the request and PopReq takes it out, both      *)
(* without ever listing one twice.                                         *)
LEMMA PushReqAdds ==
  ASSUME NEW reqs \in Seq(CmdTypes), NEW req \in CmdTypes
  PROVE  /\ Range(PushReq(reqs, req)) = Range(reqs) \cup {req}
         /\ IsInjective(reqs) => IsInjective(PushReq(reqs, req))
<1>1. CASE HasReq(reqs, req)
  <2>1. req \in Range(reqs)
    BY <1>1, ReqIndexFinds DEF Range
  <2> QED BY <1>1, <2>1 DEF PushReq
<1>2. CASE ~HasReq(reqs, req)
  <2>1. PushReq(reqs, req) = Append(reqs, req)
    BY <1>2 DEF PushReq
  <2>2. \A i \in DOMAIN reqs : reqs[i] # req
    BY <1>2, ReqIndexFinds
  <2>3. /\ DOMAIN Append(reqs, req) = 1 .. Len(reqs) + 1 /\ DOMAIN reqs = 1 .. Len(reqs)
        /\ Append(reqs, req)[Len(reqs) + 1] = req
        /\ \A i \in 1 .. Len(reqs) : Append(reqs, req)[i] = reqs[i]
    OBVIOUS
  <2>4. Range(Append(reqs, req)) = Range(reqs) \cup {req}
    BY <2>3 DEF Range
  <2>5. IsInjective(reqs) => IsInjective(Append(reqs, req))
    BY <2>2, <2>3 DEF IsInjective
  <2> QED BY <2>1, <2>4, <2>5
<1> QED BY <1>1, <1>2

(* PopReq takes the request out, as it is there once at most. *)
LEMMA PopReqTakesOut ==
  ASSUME NEW reqs \in Seq(CmdTypes), NEW req \in CmdTypes, IsInjective(reqs)
  PROVE  /\ Range(PopReq(reqs, req)) = Range(reqs) \ {req}
         /\ IsInjective(PopReq(reqs, req))
<1>1. CASE HasReq(reqs, req)
  <2> DEFINE i == ReqIndex(reqs, req)
             new == RemoveAt(reqs, i)
             n == Len(reqs)
  <2>1. i \in 1 .. n /\ reqs[i] = req
    BY <1>1, ReqIndexFinds
  <2>2. PopReq(reqs, req) = new
    BY <1>1 DEF PopReq
  <2> HIDE DEF i
  <2>3. /\ DOMAIN new = 1 .. n - 1 /\ DOMAIN reqs = 1 .. n
        /\ \A j \in 1 .. n - 1 : new[j] = IF j < i THEN reqs[j] ELSE reqs[j + 1]
    BY <2>1, Erased
  <2> HIDE DEF new
  <2>4. \A a, b \in 1 .. n : reqs[a] = reqs[b] => a = b
    BY <2>3 DEF IsInjective
  <2>5. IsInjective(new)
    <3> SUFFICES ASSUME NEW a \in 1 .. n - 1, NEW b \in 1 .. n - 1, new[a] = new[b]
                 PROVE  a = b
      BY <2>3 DEF IsInjective
    <3> DEFINE up(j) == IF j < i THEN j ELSE j + 1
    <3>1. new[a] = reqs[up(a)] /\ new[b] = reqs[up(b)] /\ up(a) \in 1 .. n /\ up(b) \in 1 .. n
      BY <2>1, <2>3
    <3>2. up(a) = up(b)
      BY <2>4, <3>1
    <3> QED BY <2>1, <3>2
  <2>6. ASSUME NEW r PROVE r \in Range(new) <=> r \in Range(reqs) /\ r # req
    <3>1. ASSUME r \in Range(new) PROVE r \in Range(reqs) /\ r # req
      <4>1. PICK j \in 1 .. n - 1 : new[j] = r
        BY <3>1, <2>3 DEF Range
      <4>2. PICK k \in 1 .. n : reqs[k] = r /\ k # i
        <5>1. CASE j < i
          BY <5>1, <4>1, <2>1, <2>3
        <5>2. CASE ~(j < i)
          BY <5>2, <4>1, <2>1, <2>3
        <5> QED BY <5>1, <5>2
      <4> QED BY <4>2, <2>1, <2>3, <2>4 DEF Range
    <3>2. ASSUME r \in Range(reqs), r # req PROVE r \in Range(new)
      <4>1. PICK k \in 1 .. n : reqs[k] = r
        BY <3>2, <2>3 DEF Range
      <4>2. k # i
        BY <4>1, <3>2, <2>1
      <4>3. \E j \in 1 .. n - 1 : new[j] = r
        <5>1. CASE k < i
          <6>1. k \in 1 .. n - 1
            BY <5>1, <2>1
          <6> QED BY <6>1, <5>1, <4>1, <2>3
        <5>2. CASE k > i
          <6>1. k - 1 \in 1 .. n - 1 /\ ~(k - 1 < i) /\ (k - 1) + 1 = k
            BY <5>2, <2>1
          <6> QED BY <6>1, <4>1, <2>3
        <5> QED BY <4>2, <2>1, <5>1, <5>2
      <4> QED BY <4>3, <2>3 DEF Range
    <3> QED BY <3>1, <3>2
  <2> QED BY <2>2, <2>5, <2>6
<1>2. CASE ~HasReq(reqs, req)
  <2>1. req \notin Range(reqs)
    BY <1>2, ReqIndexFinds DEF Range
  <2> QED BY <1>2, <2>1 DEF PopReq
<1> QED BY <1>1, <1>2
-----------------------------------------------------------------------------
(* One client: the requests recorded in its vector of ReqCam. *)
Recorded(cams, d, r) ==
  \E k \in DOMAIN cams : cams[k].sip = d /\ r \in Range(cams[k].reqs)

CamsDistinct(cams) ==
  /\ Distinct(cams)
  /\ \A k \in DOMAIN cams : IsInjective(cams[k].reqs)

(* AddReq records one request more and keeps every camera listed once. *)
LEMMA AddReqRecords ==
  ASSUME NEW sips, NEW cams \in Seq(ReqCam(sips)), NEW camsip \in sips,
         NEW req \in CmdTypes, CamsDistinct(cams)
  PROVE  /\ CamsDistinct(AddReq(cams, camsip, req))
         /\ \A d, r : Recorded(AddReq(cams, camsip, req), d, r) <=>
                      Recorded(cams, d, r) \/ (d = camsip /\ r = req)
<1> DEFINE i == SipIndex(camsip, cams)
           new == AddReq(cams, camsip, req)
<1>1. DOMAIN cams = 1 .. Len(cams) /\ \A k \in DOMAIN cams : cams[k] \in ReqCam(sips)
  OBVIOUS
<1>2. CASE i # 0
  <2>1. i \in DOMAIN cams /\ cams[i].sip = camsip
    BY <1>2, SipIndexFinds
  <2> DEFINE e == [cams[i] EXCEPT !.reqs = PushReq(cams[i].reqs, req)]
  <2>2. new = [cams EXCEPT ![i] = e]
    BY <1>2, <2>1 DEF AddReq
  <2>3. cams[i].reqs \in Seq(CmdTypes)
    BY <1>1, <2>1 DEF ReqCam
  <2>4. e.sip = camsip /\ e.reqs = PushReq(cams[i].reqs, req)
    BY <1>1, <2>1 DEF ReqCam
  <2>5. /\ Range(e.reqs) = Range(cams[i].reqs) \cup {req}
        /\ IsInjective(e.reqs)
    BY <2>1, <2>3, <2>4, PushReqAdds DEF CamsDistinct
  <2> HIDE DEF i, e, new
  <2>6. /\ DOMAIN new = DOMAIN cams /\ new[i] = e
        /\ \A k \in DOMAIN cams : k # i => new[k] = cams[k]
    BY <2>1, <2>2
  <2>7. CamsDistinct(new)
    BY <2>1, <2>4, <2>5, <2>6 DEF CamsDistinct, Distinct
  <2>8. ASSUME NEW d, NEW r
        PROVE  Recorded(new, d, r) <=> Recorded(cams, d, r) \/ (d = camsip /\ r = req)
    BY <2>1, <2>4, <2>5, <2>6 DEF Recorded
  <2> QED BY <2>7, <2>8 DEF new
<1>3. CASE i = 0
  <2> DEFINE e == [sip |-> camsip, reqs |-> <<req>>]
  <2>1. new = Append(cams, e)
    BY <1>3 DEF AddReq
  <2>2. \A k \in DOMAIN cams : cams[k].sip # camsip
    BY <1>3, SipIndexFinds
  <2>3. e.sip = camsip /\ Range(e.reqs) = {req} /\ IsInjective(e.reqs)
    BY DEF Range, IsInjective
  <2> HIDE DEF i, e, new
  <2>4. /\ DOMAIN new = 1 .. Len(cams) + 1 /\ new[Len(cams) + 1] = e
        /\ \A k \in 1 .. Len(cams) : new[k] = cams[k]
    BY <2>1
  <2>5. CamsDistinct(new)
    BY <1>1, <2>2, <2>3, <2>4 DEF CamsDistinct, Distinct
  <2>6. ASSUME NEW d, NEW r
        PROVE  Recorded(new, d, r) <=> Recorded(cams, d, r) \/ (d = camsip /\ r = req)
    BY <1>1, <2>3, <2>4 DEF Recorded
  <2> QED BY <2>5, <2>6 DEF new
<1> QED BY <1>2, <1>3

(* DelReq strikes out the one request and nothing else. *)
LEMMA DelReqStrikes ==
  ASSUME NEW sips, NEW cams \in Seq(ReqCam(sips)), NEW camsip,
         NEW req \in CmdTypes, CamsDistinct(cams)
  PROVE  /\ CamsDistinct(DelReq(cams, camsip, req))
         /\ \A d, r : Recorded(DelReq(cams, camsip, req), d, r) <=>
                      Recorded(cams, d, r) /\ ~(d = camsip /\ r = req)
<1> DEFINE i == SipIndex(camsip, cams)
           new == DelReq(cams, camsip, req)
<1>1. DOMAIN cams = 1 .. Len(cams) /\ \A k \in DOMAIN cams : cams[k] \in ReqCam(sips)
  OBVIOUS
<1>2. CASE i # 0
  <2>1. i \in DOMAIN cams /\ cams[i].sip = camsip
    BY <1>2, SipIndexFinds
  <2> DEFINE e == [cams[i] EXCEPT !.reqs = PopReq(cams[i].reqs, req)]
  <2>2. new = [cams EXCEPT ![i] = e]
    BY <1>2, <2>1 DEF DelReq
  <2>3. cams[i].reqs \in Seq(CmdTypes)
    BY <1>1, <2>1 DEF ReqCam
  <2>4. e.sip = camsip /\ e.reqs = PopReq(cams[i].reqs, req)
    BY <1>1, <2>1 DEF ReqCam
  <2>5. /\ Range(e.reqs) = Range(cams[i].reqs) \ {req}
        /\ IsInjective(e.reqs)
    BY <2>1, <2>3, <2>4, PopReqTakesOut DEF CamsDistinct
  <2> HIDE DEF i, e, new
  <2>6. /\ DOMAIN new = DOMAIN cams /\ new[i] = e
        /\ \A k \in DOMAIN cams : k # i => new[k] = cams[k]
    BY <2>1, <2>2
  <2>7. CamsDistinct(new)
    BY <2>1, <2>4, <2>5, <2>6 DEF CamsDistinct, Distinct
  <2>8. \A k \in DOMAIN cams : cams[k].sip = camsip => k = i
    BY <2>1 DEF CamsDistinct, Distinct
  <2>9. ASSUME NEW d, NEW r
        PROVE  Recorded(new, d, r) <=> Recorded(cams, d, r) /\ ~(d = camsip /\ r = req)
    BY <2>1, <2>4, <2>5, <2>6, <2>8 DEF Recorded
  <2> QED BY <2>7, <2>9 DEF new
<1>3. CASE i = 0
  <2>1. new = cams
    BY <1>3 DEF DelReq
  <2>2. \A k \in DOMAIN cams : cams[k].sip # camsip
    BY <1>3, SipIndexFinds
  <2>3. ASSUME NEW d, NEW r
        PROVE  Recorded(cams, d, r) <=> Recorded(cams, d, r) /\ ~(d = camsip /\ r = req)
    BY <2>2 DEF Recorded
  <2> QED BY <2>1, <2>3
<1> QED BY <1>2, <1>3

-----------------------------------------------------------------------------
(* The whole book. *)
LEMMA PendingInMembers ==
  ASSUME NEW list
  PROVE  \A t : t \in PendingIn(list) <=>
           \E i \in DOMAIN list : \E k \in DOMAIN list[i].cams :
             \E r \in Range(list[i].cams[k].reqs) :
               t = <<list[i].sip, list[i].cams[k].sip, r>>
BY DEF PendingIn

(* A query is recorded where its client, its camera and the request are. *)
LEMMA PendingInTriples ==
  ASSUME NEW list, NEW c, NEW d, NEW r
  PROVE  <<c, d, r>> \in PendingIn(list) <=>
           \E i \in DOMAIN list : list[i].sip = c /\ Recorded(list[i].cams, d, r)
BY PendingInMembers DEF Recorded
(* NoDuplicates in the words of the lemmas above. *)
LEMMA NoDuplicatesByClient ==
  ASSUME NEW list
  PROVE  NoDuplicates(list) <=>
           Distinct(list) /\ \A i \in DOMAIN list : CamsDistinct(list[i].cams)
BY DEF NoDuplicates, CamsDistinct

(* A query is recorded for its client, next to what there was. *)
LEMMA AddClientReqRecords ==
  ASSUME NEW sips, NEW addrs, NEW list \in Seq(Client(sips, addrs)), NoDuplicates(list),
         NEW sip \in sips, NEW addr \in addrs, NEW camsip \in sips, NEW req \in CmdTypes
  PROVE  /\ NoDuplicates(AddClientReq(list, sip, addr, camsip, req))
         /\ PendingIn(AddClientReq(list, sip, addr, camsip, req)) =
              PendingIn(list) \cup {<<sip, camsip, req>>}
<1> DEFINE i == SipIndex(sip, list)
           new == AddClientReq(list, sip, addr, camsip, req)
<1>1. DOMAIN list = 1 .. Len(list) /\ \A k \in DOMAIN list : list[k] \in Client(sips, addrs)
  OBVIOUS
<1>2. Distinct(list) /\ \A k \in DOMAIN list : CamsDistinct(list[k].cams)
  BY NoDuplicatesByClient
<1>3. /\ Distinct(new) /\ (\A k \in DOMAIN new : CamsDistinct(new[k].cams))
      /\ \A c, d, r :
           (\E k \in DOMAIN new : new[k].sip = c /\ Recorded(new[k].cams, d, r)) <=>
             \/ \E k \in DOMAIN list : list[k].sip = c /\ Recorded(list[k].cams, d, r)
             \/ c = sip /\ d = camsip /\ r = req
  <2>1. CASE i # 0
    <3>1. i \in DOMAIN list /\ list[i].sip = sip
      BY <2>1, SipIndexFinds
    <3> DEFINE e == [list[i] EXCEPT !.cams = AddReq(list[i].cams, camsip, req)]
    <3>2. new = [list EXCEPT ![i] = e]
      BY <2>1, <3>1 DEF AddClientReq
    <3>3. list[i].cams \in Seq(ReqCam(sips))
      BY <1>1, <3>1 DEF Client
    <3>4. e.sip = sip /\ e.cams = AddReq(list[i].cams, camsip, req)
      BY <1>1, <3>1 DEF Client
    <3>5. /\ CamsDistinct(e.cams)
          /\ \A d, r : Recorded(e.cams, d, r) <=>
                       Recorded(list[i].cams, d, r) \/ (d = camsip /\ r = req)
      BY <1>2, <3>1, <3>3, <3>4, AddReqRecords
    <3> HIDE DEF i, e, new
    <3>6. /\ DOMAIN new = DOMAIN list /\ new[i] = e
          /\ \A k \in DOMAIN list : k # i => new[k] = list[k]
      BY <3>1, <3>2
    <3>7. Distinct(new) /\ \A k \in DOMAIN new : CamsDistinct(new[k].cams)
      BY <1>2, <3>1, <3>4, <3>5, <3>6 DEF Distinct
    <3>8. ASSUME NEW c, NEW d, NEW r
          PROVE  (\E k \in DOMAIN new : new[k].sip = c /\ Recorded(new[k].cams, d, r)) <=>
                   \/ \E k \in DOMAIN list : list[k].sip = c /\ Recorded(list[k].cams, d, r)
                   \/ c = sip /\ d = camsip /\ r = req
      BY <3>1, <3>4, <3>5, <3>6
    <3> QED BY <3>7, <3>8 DEF new
  <2>2. CASE i = 0
    <3> DEFINE e == [sip |-> sip, addr |-> addr, cams |-> AddReq(<<>>, camsip, req)]
    <3>1. new = Append(list, e)
      BY <2>2 DEF AddClientReq
    <3>2. \A k \in DOMAIN list : list[k].sip # sip
      BY <2>2, SipIndexFinds
    <3>3. /\ <<>> \in Seq(ReqCam(sips)) /\ CamsDistinct(<<>>)
          /\ \A d, r : ~Recorded(<<>>, d, r)
      BY DEF CamsDistinct, Distinct, Recorded
    <3>4. /\ CamsDistinct(AddReq(<<>>, camsip, req))
          /\ \A d, r : Recorded(AddReq(<<>>, camsip, req), d, r) <=> d = camsip /\ r = req
      <4>1. /\ CamsDistinct(AddReq(<<>>, camsip, req))
            /\ \A d, r : Recorded(AddReq(<<>>, camsip, req), d, r) <=>
                         Recorded(<<>>, d, r) \/ (d = camsip /\ r = req)
        BY <3>3, AddReqRecords
      <4> QED BY <3>3, <4>1
    <3>5. e.sip = sip /\ e.cams = AddReq(<<>>, camsip, req)
      OBVIOUS
    <3> HIDE DEF i, e, new
    <3>6. /\ DOMAIN new = 1 .. Len(list) + 1 /\ new[Len(list) + 1] = e
          /\ \A k \in 1 .. Len(list) : new[k] = list[k]
      BY <3>1
    <3>7. Distinct(new) /\ \A k \in DOMAIN new : CamsDistinct(new[k].cams)
      BY <1>1, <1>2, <3>2, <3>4, <3>5, <3>6 DEF Distinct
    <3>8. ASSUME NEW c, NEW d, NEW r
          PROVE  (\E k \in DOMAIN new : new[k].sip = c /\ Recorded(new[k].cams, d, r)) <=>
                   \/ \E k \in DOMAIN list : list[k].sip = c /\ Recorded(list[k].cams, d, r)
                   \/ c = sip /\ d = camsip /\ r = req
      <4>1. Recorded(e.cams, d, r) <=> d = camsip /\ r = req
        BY <3>4, <3>5
      <4> QED BY <1>1, <3>5, <3>6, <4>1
    <3> QED BY <3>7, <3>8 DEF new
  <2> QED BY <2>1, <2>2
<1>4. NoDuplicates(new)
  BY <1>3, NoDuplicatesByClient
<1> HIDE DEF new
<1>5. ASSUME NEW c, NEW d, NEW r
      PROVE  <<c, d, r>> \in PendingIn(new) <=>
               <<c, d, r>> \in PendingIn(list) \/ (c = sip /\ d = camsip /\ r = req)
  <2>1. <<c, d, r>> \in PendingIn(new) <=>
          \E k \in DOMAIN new : new[k].sip = c /\ Recorded(new[k].cams, d, r)
    BY PendingInTriples
  <2>2. <<c, d, r>> \in PendingIn(list) <=>
          \E k \in DOMAIN list : list[k].sip = c /\ Recorded(list[k].cams, d, r)
    BY PendingInTriples
  <2>3. (\E k \in DOMAIN new : new[k].sip = c /\ Recorded(new[k].cams, d, r)) <=>
          \/ \E k \in DOMAIN list : list[k].sip = c /\ Recorded(list[k].cams, d, r)
          \/ c = sip /\ d = camsip /\ r = req
    BY <1>3
  <2> QED BY <2>1, <2>2, <2>3
<1>6. PendingIn(new) = PendingIn(list) \cup {<<sip, camsip, req>>}
  <2>1. ASSUME NEW t \in PendingIn(new) PROVE t \in PendingIn(list) \cup {<<sip, camsip, req>>}
    <3>1. PICK c, d, r : t = <<c, d, r>>
      BY PendingInMembers
    <3> QED BY <1>5, <3>1
  <2>2. ASSUME NEW t \in PendingIn(list) PROVE t \in PendingIn(new)
    <3>1. PICK c, d, r : t = <<c, d, r>>
      BY PendingInMembers
    <3> QED BY <1>5, <3>1
  <2>3. <<sip, camsip, req>> \in PendingIn(new)
    BY <1>5
  <2> QED BY <2>1, <2>2, <2>3
<1> QED BY <1>4, <1>6 DEF new

(* An answer settles the query of every client at once, and no other. *)
LEMMA DelClientReqSettles ==
  ASSUME NEW sips, NEW addrs, NEW list \in Seq(Client(sips, addrs)), NoDuplicates(list),
         NEW camsip \in sips, NEW req \in CmdTypes
  PROVE  /\ NoDuplicates(DelClientReq(list, camsip, req))
         /\ \A t : t \in PendingIn(DelClientReq(list, camsip, req)) <=>
                   t \in PendingIn(list) /\ ~(t[2] = camsip /\ t[3] = req)
<1> DEFINE new == DelClientReq(list, camsip, req)
<1>1. DOMAIN list = 1 .. Len(list) /\ \A k \in DOMAIN list : list[k] \in Client(sips, addrs)
  OBVIOUS
<1>2. Distinct(list) /\ \A k \in DOMAIN list : CamsDistinct(list[k].cams)
  BY NoDuplicatesByClient
<1>3. DOMAIN new = DOMAIN list
  BY DEF DelClientReq
<1>4. ASSUME NEW k \in DOMAIN list
      PROVE  /\ new[k].sip = list[k].sip /\ CamsDistinct(new[k].cams)
             /\ \A d, r : Recorded(new[k].cams, d, r) <=>
                          Recorded(list[k].cams, d, r) /\ ~(d = camsip /\ r = req)
  <2>1. new[k] = [list[k] EXCEPT !.cams = DelReq(list[k].cams, camsip, req)]
    BY DEF DelClientReq
  <2>2. list[k].cams \in Seq(ReqCam(sips))
    BY <1>1 DEF Client
  <2>3. new[k].sip = list[k].sip /\ new[k].cams = DelReq(list[k].cams, camsip, req)
    BY <1>1, <2>1 DEF Client
  <2> HIDE DEF new
  <2> QED BY <1>2, <2>2, <2>3, DelReqStrikes
<1> HIDE DEF new
<1>5. NoDuplicates(new)
  <2>1. Distinct(new)
    BY <1>2, <1>3, <1>4 DEF Distinct
  <2> QED BY <2>1, <1>3, <1>4, NoDuplicatesByClient
<1>6. ASSUME NEW c, NEW d, NEW r
      PROVE  <<c, d, r>> \in PendingIn(new) <=>
               <<c, d, r>> \in PendingIn(list) /\ ~(d = camsip /\ r = req)
  <2>1. <<c, d, r>> \in PendingIn(new) <=>
          \E k \in DOMAIN new : new[k].sip = c /\ Recorded(new[k].cams, d, r)
    BY PendingInTriples
  <2>2. <<c, d, r>> \in PendingIn(list) <=>
          \E k \in DOMAIN list : list[k].sip = c /\ Recorded(list[k].cams, d, r)
    BY PendingInTriples
  <2> QED BY <1>3, <1>4, <2>1, <2>2
<1>7. ASSUME NEW t
      PROVE  t \in PendingIn(new) <=> t \in PendingIn(list) /\ ~(t[2] = camsip /\ t[3] = req)
  <2>1. t \in PendingIn(new) \/ t \in PendingIn(list) => \E c, d, r : t = <<c, d, r>>
    BY PendingInMembers
  <2> QED BY <2>1, <1>6
<1> QED BY <1>5, <1>7 DEF new
=============================================================================
