----------------------------- MODULE ClientList -----------------------------
(***************************************************************************)
(* The book of outstanding client queries (device.h, device.cpp): which    *)
(* client asked which camera for what.  A ClientList is a vector of        *)
(* clients, a client holds a vector of ReqCam, a ReqCam a vector of        *)
(* request names.  The operators below are the classes' methods as         *)
(* functions from the old vector to the new one; ClientList::mutex_ makes  *)
(* AddClientReq and DelClientReq atomic.  What an assert of a method       *)
(* demands is a predicate of its own, because a build without NDEBUG dies  *)
(* where the predicate is false and one with NDEBUG carries on.            *)
(***************************************************************************)
EXTENDS Naturals, Sequences, SequencesExt

CONSTANTS
  CmdTypes,  \* values of CmdType that peers put in their messages
  ReqString  \* the request names device.cpp knows

ASSUME ClientListAssumption == ReqString \subseteq CmdTypes

ReqValid(req) == req \in ReqString

(* Position of the first element with the given name, 0 for the code's -1. *)
SipIndex(sip, vec) == SelectInSeq(vec, LAMBDA e : e.sip = sip)
ReqIndex(reqs, req) == SelectInSeq(reqs, LAMBDA r : r = req)
HasReq(reqs, req)  == ReqIndex(reqs, req) # 0

(* Mutant of PushReq: does not look whether the request is there already. *)
PushReqBlindly(reqs, req) == Append(reqs, req)

PushReq(reqs, req) == IF HasReq(reqs, req) THEN reqs ELSE Append(reqs, req)

PopReq(reqs, req) ==
  IF HasReq(reqs, req) THEN RemoveAt(reqs, ReqIndex(reqs, req)) ELSE reqs

(* Client::AddReq and Client::DelReq, on a client's vector of ReqCam. *)
AddReq(cams, camsip, req) ==
  LET i == SipIndex(camsip, cams)
  IN  IF i # 0
      THEN [cams EXCEPT ![i].reqs = PushReq(@, req)]
      ELSE Append(cams, [sip |-> camsip, reqs |-> <<req>>])

DelReq(cams, camsip, req) ==
  LET i == SipIndex(camsip, cams)
  IN  IF i # 0 THEN [cams EXCEPT ![i].reqs = PopReq(@, req)] ELSE cams

(* The address of a client is what it gave in the first query it made. *)
AddClientReq(list, sip, addr, camsip, req) ==
  LET i == SipIndex(sip, list)
  IN  IF i # 0
      THEN [list EXCEPT ![i].cams = AddReq(@, camsip, req)]
      ELSE Append(list, [sip  |-> sip,
                         addr |-> addr,
                         cams |-> AddReq(<<>>, camsip, req)])

AddClientReqAsserts(list, sip, addr, req) ==
  /\ ReqValid(req)
  /\ LET i == SipIndex(sip, list) IN i # 0 => list[i].addr = addr

(* Mutant of DelClientReq: the loop ends after its first client. *)
DelFirstClientReq(list, camsip, req) ==
  [i \in DOMAIN list |->
     IF i = 1 THEN [list[i] EXCEPT !.cams = DelReq(@, camsip, req)] ELSE list[i]]

DelClientReq(list, camsip, req) ==
  [i \in DOMAIN list |->
     [list[i] EXCEPT !.cams = DelReq(@, camsip, req)]]

DelClientReqAsserts(list, camsip, req) ==
  (\E i \in DOMAIN list : SipIndex(camsip, list[i].cams) # 0) => ReqValid(req)

(* The clients DelClientReq returns: a copy of every entry of the list. *)
DelClientReqResult(list) == list

-----------------------------------------------------------------------------
(* The classes' fields, over given names and addresses. *)
ReqCam(sips)        == [sip : sips, reqs : Seq(CmdTypes)]
Client(sips, addrs) == [sip : sips, addr : addrs, cams : Seq(ReqCam(sips))]

(* What the vectors stand for: the set of (client, camera, request) still  *)
(* recorded as waiting for an answer.                                      *)
PendingIn(list) ==
  UNION { UNION { {<<list[i].sip, list[i].cams[k].sip, r>> :
                     r \in Range(list[i].cams[k].reqs)} :
                  k \in DOMAIN list[i].cams} :
          i \in DOMAIN list}

Distinct(vec) == \A i, j \in DOMAIN vec : vec[i].sip = vec[j].sip => i = j

(* No client is listed twice, no camera twice for one client, no request   *)
(* twice for one camera.  PopReq erases only the first match, so a         *)
(* duplicate would survive the answer it was waiting for.                  *)
NoDuplicates(list) ==
  /\ Distinct(list)
  /\ \A i \in DOMAIN list :
       /\ Distinct(list[i].cams)
       /\ \A k \in DOMAIN list[i].cams : IsInjective(list[i].cams[k].reqs)
=============================================================================
