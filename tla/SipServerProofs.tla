-------------------------- MODULE SipServerProofs ---------------------------
(***************************************************************************)
(* The SIP thread by itself, for every table of cameras and every set of   *)
(* events: its vectors never hold a duplicate, they implement the abstract *)
(* book of PendingQueries, and a finished request was answered.            *)
(***************************************************************************)
EXTENDS SipServer, ClientBookProofs

-----------------------------------------------------------------------------
(* What the SIP stack was asked to send for the event in hand. *)
Handed == sent \cup refused

(* Between the two writes of RegisterSuccess the 200 has been handed over, *)
(* and only a BYE is between its two writes.                               *)
AnswerInv ==
  /\ sipPc = "regRegistered" /\ ev.type # "CALL_PROCEEDING" => Ok200 \in Handed
  /\ sipPc = "byePlayed" => ev.type = "BYE"

SipIInv == SipTypeOK /\ NoDuplicatesListed /\ AnswerInv /\ EndsOnOddRequestOnly

(* The handlers that leave the book and the messages as they are. *)
Silent == \/ MessageUnknownDevice \/ MessageWithoutBody \/ MessageFromLacks
          \/ MessageOther \/ KeepAliveAlive \/ KeepAliveRegistered \/ DispatchRegister
          \/ RegisterRegistered \/ ByeNothing \/ ByeNameless \/ ByeAlive \/ ByePlayed
          \/ Ignored

(* What handing messages over adds up to, whichever of them are taken. *)
LEMMA HandEffect ==
  ASSUME NEW msgs, Hand(msgs)
  PROVE  Handed' = Handed \cup msgs
BY DEF Hand, Handed

(* The branch that takes a message is named by a keyword its root element  *)
(* contains.                                                               *)
LEMMA BranchContained ==
  ASSUME NEW value
  PROVE  Branch(value) = "printed" \/ Branch(value) \in Contained(value)
<1> DEFINE I == {k \in 1 .. Len(Keywords) : Keywords[k] \in Contained(value)}
           k == SelectInSeq(Keywords, LAMBDA w : w \in Contained(value))
<1>1. k = IF I # {} THEN Min(I) ELSE 0
  BY DEF SelectInSeq
<1>2. I # {} => Min(I) \in I
  <2>1. I \in SUBSET Nat
    BY DEF Keywords
  <2> HIDE DEF I
  <2> QED BY <2>1, MinOfNaturals
<1>3. k # 0 => Keywords[k] \in Contained(value)
  BY <1>1, <1>2
<1>4. Branch(value) = IF k = 0 THEN "printed" ELSE Keywords[k]
  BY DEF Branch
<1> HIDE DEF k
<1> QED BY <1>3, <1>4

(* The Response branch takes Responses only, the Query branch none, and    *)
(* the EasyControl branch nothing at all: Control is contained as well.    *)
LEMMA BranchOfResponse ==
  ASSUME NEW value
  PROVE  /\ Branch(value) = "Response" => value = "Response"
         /\ Branch(value) = "Query" => value = "Query"
         /\ Branch(value) # "EasyControl"
<1>1. Branch(value) \in {"Response", "Query", "EasyControl"} => value = Branch(value)
  BY BranchContained DEF Contained
<1>2. Branch("EasyControl") # "EasyControl"
  <2> DEFINE I == {i \in 1 .. Len(Keywords) : Keywords[i] \in Contained("EasyControl")}
             k == SelectInSeq(Keywords, LAMBDA w : w \in Contained("EasyControl"))
  <2>1. I \in SUBSET Nat /\ 1 \in I /\ I \subseteq 1 .. 5
    BY DEF Keywords, Contained
  <2>2. k = Min(I)
    BY <2>1 DEF SelectInSeq
  <2> HIDE DEF I
  <2>3. k = 1
    BY <2>1, <2>2, MinOfNaturals
  <2>4. Branch("EasyControl") = IF k = 0 THEN "printed" ELSE Keywords[k]
    BY DEF Branch
  <2> HIDE DEF k
  <2> QED BY <2>3, <2>4 DEF Keywords
<1> QED BY <1>1, <1>2

(* What a handler works on is an event of a peer, and it goes on with it   *)
(* or is done.                                                             *)
LEMMA EventOfHandle ==
  ASSUME SipIInv, Handle
  PROVE  /\ sipPc # "wait" /\ ev \in PeerEvents
         /\ IF sipPc' = "wait" THEN ev' = NoEvent ELSE ev' = ev
         /\ ev.from \in Sips /\ ev.addr \in Addrs /\ ev.cmd \in CmdTypes /\ ev.dev \in Sips
         /\ sipPc' \in SipPcs
<1>1. /\ sipPc # "wait" /\ sipPc' \in SipPcs
      /\ IF sipPc' = "wait" THEN ev' = NoEvent ELSE ev' = ev
  BY DEF SipIInv, SipTypeOK, Handle, MessageUnknownDevice, MessageWithoutBody, MessageQuery,
     MessageResponse, MessageFromLacks, MessageOther, HasDevice, KeepAliveAlive,
     KeepAliveRegistered, DispatchRegister, RegisterNothing, RegisterNameless, RegisterAlive,
     RegisterRegistered, ByeNothing, ByeNameless, ByeAlive, ByePlayed, CallAnswered, Ignored,
     Dispatched, Done, Ends, SipPcs
<1>2. ev \in PeerEvents
  BY <1>1 DEF SipIInv, SipTypeOK
<1> QED BY <1>1, <1>2, SipServerAssumption DEF Event

(* What the two branches that touch the book do to it. *)
LEMMA QueryEffect ==
  ASSUME SipIInv, MessageQuery
  PROVE  \/ UNCHANGED sipVars
         \/ /\ clientlist' = AddClientReq(clientlist, ev.from, ev.addr, ev.dev, ev.cmd)
            /\ Handed' = Handed \cup {ToCamera("forward", Device)}
            /\ sipPc' = "reg" /\ ev' = ev
            /\ Device \in Cam /\ ev.value = "Query"
<1>1. Device \in Cam /\ Branch(ev.value) = "Query"
  BY DEF MessageQuery, HasDevice
<1> QED BY <1>1, BranchOfResponse, HandEffect DEF MessageQuery, Ends, messages, sipVars

(* A response changes nothing, or takes out the query and tells the clients. *)
LEMMA ResponseEffect ==
  ASSUME SipIInv, MessageResponse
  PROVE  \/ UNCHANGED sipVars
         \/ /\ clientlist' = DelClientReq(clientlist, ev.from, ev.cmd)
            /\ Handed' = Handed \cup {Msg("forward", k.sip, k.addr) : k \in Range(clientlist)}
            /\ sipPc' = "reg" /\ ev' = ev
            /\ ev.type = "MESSAGE" /\ ev.value = "Response"
<1>1. ev.type = "MESSAGE" /\ Branch(ev.value) = "Response"
  BY DEF MessageResponse, HasDevice, Dispatched
<1> QED BY <1>1, BranchOfResponse, HandEffect
        DEF MessageResponse, DelClientReqResult, Ends, messages, sipVars

(* Silent steps leave the query book and what was handed over. *)
LEMMA SilentEffect ==
  ASSUME Silent
  PROVE  UNCHANGED <<clientlist, sent, refused, Handed>>
BY DEF Silent, MessageUnknownDevice, MessageWithoutBody, MessageFromLacks, MessageOther,
   KeepAliveAlive, KeepAliveRegistered, DispatchRegister, RegisterRegistered, ByeNothing,
   ByeNameless, ByeAlive, ByePlayed, Ignored, messages, Ends, Handed

(* The kinds of steps of a handler. *)
LEMMA HandleCases ==
  ASSUME Handle
  PROVE  \/ Silent \/ MessageQuery \/ MessageResponse \/ CallAnswered
         \/ RegisterNothing \/ RegisterNameless \/ RegisterAlive
BY DEF Handle, Silent

-----------------------------------------------------------------------------
(* The invariant holds at the start, *)
LEMMA SipInvInit == AloneInit => SipIInv
<1> SUFFICES ASSUME AloneInit PROVE SipIInv
  OBVIOUS
<1>1. SipTypeOK
  BY DEF AloneInit, SipInit, SipTypeOK, SipPcs
<1>2. NoDuplicatesListed
  BY DEF AloneInit, SipInit, NoDuplicatesListed, NoDuplicates, Distinct
<1>3. AnswerInv /\ EndsOnOddRequestOnly
  BY DEF AloneInit, SipInit, AnswerInv, TableInit, EndsOnOddRequestOnly
<1> QED BY <1>1, <1>2, <1>3 DEF SipIInv

(* The book stays a list of clients without duplicates. *)
LEMMA BookKept ==
  ASSUME SipIInv, Handle
  PROVE  clientlist' \in Seq(Client(Sips, Addrs)) /\ NoDuplicatesListed'
<1> USE DEF SipIInv, SipTypeOK, NoDuplicatesListed
<1>1. CASE clientlist' = clientlist
  BY <1>1
<1>2. CASE MessageQuery
  <2>1. AddClientReq(clientlist, ev.from, ev.addr, ev.dev, ev.cmd) \in Seq(Client(Sips, Addrs))
    BY EventOfHandle, AddClientReqType
  <2>2. NoDuplicates(AddClientReq(clientlist, ev.from, ev.addr, ev.dev, ev.cmd))
    BY EventOfHandle, AddClientReqRecords
  <2> QED BY <1>1, <1>2, <2>1, <2>2, QueryEffect DEF sipVars
<1>3. CASE MessageResponse
  <2>1. DelClientReq(clientlist, ev.from, ev.cmd) \in Seq(Client(Sips, Addrs))
    BY EventOfHandle, DelClientReqType
  <2>2. NoDuplicates(DelClientReq(clientlist, ev.from, ev.cmd))
    BY EventOfHandle, DelClientReqSettles
  <2> QED BY <1>1, <1>3, <2>1, <2>2, ResponseEffect DEF sipVars
<1> QED BY <1>1, <1>2, <1>3, HandleCases, SilentEffect
        DEF CallAnswered, RegisterNothing, RegisterNameless, RegisterAlive, Ends

(* What is sent goes to names and addresses there are. *)
Sendable == [kind : {"200", "forward", "ptz", "ack"},
             to : Sips, addr : Addrs \cup {"configured"}]

(* What a handler sends goes where something can be sent. *)
LEMMA SentKept ==
  ASSUME SipIInv, Handle
  PROVE  Handed' \subseteq Sendable
<1>0. Handed \subseteq Sendable
  BY DEF SipIInv, SipTypeOK, Sendable, Handed
<1> USE DEF Sendable
<1>1. CASE Handed' = Handed
  BY <1>0, <1>1
<1>2. CASE MessageQuery
  <2>1. Device \in Cam => ToCamera("forward", Device) \in Sendable
    BY CameraTableAssumption DEF ToCamera, Msg
  <2> QED BY <1>0, <1>1, <1>2, <2>1, QueryEffect DEF sipVars, Handed
<1>3. CASE MessageResponse
  <2>1. \A k \in Range(clientlist) : k.sip \in Sips /\ k.addr \in Addrs
    <3>1. \A k \in Range(clientlist) : k \in Client(Sips, Addrs)
      BY DEF Range, SipIInv, SipTypeOK
    <3> QED BY <3>1 DEF Client
  <2>2. \A k \in Range(clientlist) : Msg("forward", k.sip, k.addr) \in Sendable
    BY <2>1 DEF Msg
  <2> QED BY <1>0, <1>1, <1>3, <2>2, ResponseEffect DEF sipVars, Handed
<1>4. CASE Answer
  <2>1. Ok200 \in Sendable
    BY EventOfHandle DEF Ok200, Msg
  <2> QED BY <1>0, <1>4, <2>1, HandEffect DEF Answer
<1>5. CASE CallAnswered
  <2>1. Msg("ack", ev.dev, ev.addr) \in Sendable
    BY EventOfHandle DEF Msg
  <2> QED BY <1>0, <1>5, <2>1, HandEffect DEF CallAnswered
<1>6. RegisterNothing \/ RegisterNameless \/ RegisterAlive => Answer
  BY DEF RegisterNothing, RegisterNameless, RegisterAlive
<1> QED BY <1>1, <1>2, <1>3, <1>4, <1>5, <1>6, HandleCases, SilentEffect

(* RegisterSuccess answers before its first write. *)
LEMMA AnswerKept ==
  ASSUME SipIInv, Handle
  PROVE  AnswerInv'
<1> USE DEF SipIInv, AnswerInv, Ok200
<1>1. CASE RegisterAlive
  <2>1. ev.type # "CALL_PROCEEDING" => Ok200 \in Handed'
    BY <1>1, HandEffect DEF RegisterAlive, Answer
  <2> QED BY <1>1, <2>1 DEF RegisterAlive
<1>2. CASE ByeAlive
  BY <1>2 DEF ByeAlive, Dispatched
<1>3. CASE MessageQuery
  BY <1>3, QueryEffect DEF sipVars, Handed
<1>4. CASE MessageResponse
  BY <1>4, ResponseEffect DEF sipVars, Handed
<1>5. CASE MessageFromLacks \/ ByeNameless
  BY <1>5, SilentEffect DEF MessageFromLacks, ByeNameless, HasDevice, Dispatched, Ends
<1> QED BY <1>1, <1>2, <1>3, <1>4, <1>5 DEF Handle, MessageUnknownDevice, MessageWithoutBody,
     MessageOther, KeepAliveAlive, KeepAliveRegistered, DispatchRegister, RegisterNothing,
     RegisterNameless, RegisterRegistered, ByeNothing, ByePlayed, CallAnswered, Ignored,
     Done, Ends

(* Where a handler ends the process, the event in hand is an odd one. *)
LEMMA EndsKept ==
  ASSUME SipIInv, ~down, Handle
  PROVE  EndsOnOddRequestOnly'
<1>1. CASE MessageFromLacks \/ RegisterNameless \/ ByeNameless
  <2>1. ev.lacks # {} /\ ev' = ev /\ sipPc' = sipPc
    BY <1>1 DEF MessageFromLacks, RegisterNameless, ByeNameless, Named, Ends
  <2> QED BY <2>1, EventOfHandle DEF EndsOnOddRequestOnly, Odd
<1>2. CASE MessageQuery
  <2>1. CASE NDEBUG \/ AddClientReqAsserts(clientlist, ev.from, ev.addr, ev.cmd)
    BY <1>2, <2>1 DEF MessageQuery, tableVars, EndsOnOddRequestOnly
  <2>2. CASE ~NDEBUG /\ ~AddClientReqAsserts(clientlist, ev.from, ev.addr, ev.cmd)
    <3>1. ev' = ev /\ sipPc' = sipPc /\ clientlist' = clientlist
      BY <1>2, <2>2 DEF MessageQuery, Ends
    <3>2. ev.value = "Query"
      BY <1>2, BranchOfResponse DEF MessageQuery
    <3> DEFINE i == SipIndex(ev.from, clientlist)
    <3>3. ReqValid(ev.cmd) => i # 0 /\ clientlist[i].addr # ev.addr
      BY <2>2 DEF AddClientReqAsserts
    <3>4. i # 0 => i \in DOMAIN clientlist /\ clientlist[i].sip = ev.from
      BY SipIndexFinds DEF SipIInv, SipTypeOK
    <3> HIDE DEF i
    <3>5. ~ReqValid(ev.cmd) \/ Moved(ev.from, ev.addr)
      BY <3>3, <3>4 DEF Moved, Range
    <3>6. Odd(ev)
      BY <2>2, <3>2, <3>5 DEF Odd
    <3>7. Odd(ev)'
      BY <3>1, <3>6 DEF Odd, Moved
    <3> QED BY <3>1, <3>7, EventOfHandle DEF EndsOnOddRequestOnly
  <2> QED BY <2>1, <2>2
<1>3. CASE MessageResponse
  <2>1. CASE NDEBUG \/ DelClientReqAsserts(clientlist, ev.from, ev.cmd)
    BY <1>3, <2>1 DEF MessageResponse, tableVars, EndsOnOddRequestOnly
  <2>2. CASE ~NDEBUG /\ ~DelClientReqAsserts(clientlist, ev.from, ev.cmd)
    <3>1. ev' = ev /\ sipPc' = sipPc
      BY <1>3, <2>2 DEF MessageResponse, Ends
    <3>2. ev.value = "Response"
      BY <1>3, BranchOfResponse DEF MessageResponse
    <3>3. ~ReqValid(ev.cmd)
      BY <2>2 DEF DelClientReqAsserts
    <3> QED BY <2>2, <3>1, <3>2, <3>3, EventOfHandle DEF EndsOnOddRequestOnly, Odd
  <2> QED BY <2>1, <2>2
<1>4. CASE MessageOther
  BY <1>4, BranchOfResponse DEF MessageOther, EndsOnOddRequestOnly
<1> QED BY <1>1, <1>2, <1>3, <1>4 DEF Handle, MessageUnknownDevice, MessageWithoutBody,
     KeepAliveAlive, KeepAliveRegistered, DispatchRegister, RegisterNothing, RegisterAlive,
     RegisterRegistered, ByeNothing, ByeAlive, ByePlayed, CallAnswered, Ignored,
     EndsOnOddRequestOnly, tableVars

(* and every step keeps it. *)
LEMMA SipInvNext == SipIInv /\ [SipNext]_allSipVars => SipIInv'
<1> SUFFICES ASSUME SipIInv, [SipNext]_allSipVars PROVE SipIInv'
  OBVIOUS
<1>1. CASE ~down /\ Handle
  <2>1. SipTypeOK'
    BY <1>1, EventOfHandle, BookKept, SentKept DEF SipTypeOK, Sendable, Handed
  <2> QED BY <1>1, <2>1, BookKept, AnswerKept, EndsKept DEF SipIInv
<1>2. ASSUME ~down, NEW e \in PeerEvents, Receive(e) PROVE SipIInv'
  BY <1>2 DEF Receive, SipIInv, SipTypeOK, SipPcs, NoDuplicatesListed, AnswerInv,
     EndsOnOddRequestOnly, tableVars
<1>3. CASE UNCHANGED allSipVars
  BY <1>3 DEF allSipVars, sipVars, tableVars, SipIInv, SipTypeOK, NoDuplicatesListed, AnswerInv,
     Ok200, Handed, EndsOnOddRequestOnly, Odd, Moved
<1> QED BY <1>1, <1>2, <1>3 DEF SipNext

(* So it always holds. *)
LEMMA SipInvHolds == SipSpec => []SipIInv
  BY SipInvInit, SipInvNext, PTL DEF SipSpec

(* The book of queries never lists a client, a camera of a client or a     *)
(* request for a camera twice, whatever is asked and answered.             *)
THEOREM NoDuplicatesHolds == SipSpec => []NoDuplicatesListed
<1>1. SipIInv => NoDuplicatesListed
  BY DEF SipIInv
<1> QED BY <1>1, SipInvHolds, PTL

(* Whatever came before it, a request with a whole From header, a known    *)
(* CmdType and the address of its client does not end the process.         *)
THEOREM EndsOnOddRequestOnlyHolds == SipSpec => []EndsOnOddRequestOnly
<1>1. SipIInv => EndsOnOddRequestOnly
  BY DEF SipIInv
<1> QED BY <1>1, SipInvHolds, PTL

(* On every path a finished REGISTER or MESSAGE was answered, unless the   *)
(* SIP stack refused the answer or the DeviceID is unknown.                *)
THEOREM AnsweredHolds == SipSpec => AnsweredUnlessUnknown
<1> DEFINE Unknown == ev.value # "none" /\ Device \notin Cam
           A == Finished /\ ev.type \in {"REGISTER", "UNREGISTER", "MESSAGE"} =>
                  \/ Ok200 \in sent' \cup refused'
                  \/ ev.value # "none" /\ Device \notin Cam
<1>1. SipIInv /\ [SipNext]_allSipVars => [A]_allSipVars
  <2> SUFFICES ASSUME SipIInv, [SipNext]_allSipVars, Finished,
                      ev.type \in {"REGISTER", "UNREGISTER", "MESSAGE"}
               PROVE  Ok200 \in Handed' \/ Unknown
    BY DEF Handed
  <2>1. Handle
    BY DEF SipNext, Receive, Finished, allSipVars, sipVars
  <2>2. CASE MessageQuery
    BY <2>2, QueryEffect DEF Finished, sipVars
  <2>3. CASE MessageResponse
    BY <2>3, ResponseEffect DEF Finished, sipVars
  <2>4. CASE RegisterNothing
    <3>1. Ok200 \in Handed'
      BY <2>4, HandEffect DEF RegisterNothing, Answer
    <3> QED BY <3>1
  <2>5. CASE RegisterRegistered
    <3>1. Handed' = Handed
      BY <2>5, SilentEffect DEF Silent
    <3> QED BY <2>5, <3>1 DEF RegisterRegistered, SipIInv, AnswerInv
  <2>6. CASE ByePlayed
    BY <2>6 DEF ByePlayed, SipIInv, AnswerInv
  <2> QED BY <2>1, <2>2, <2>3, <2>4, <2>5, <2>6 DEF Finished, Handle, MessageUnknownDevice,
       MessageWithoutBody, MessageFromLacks, MessageOther, KeepAliveAlive,
       KeepAliveRegistered, DispatchRegister, RegisterNameless, RegisterAlive, ByeNothing,
       ByeNameless, ByeAlive, CallAnswered, Ignored, Dispatched, Ends
<1> QED BY <1>1, SipInvHolds, PTL DEF SipSpec, AnsweredUnlessUnknown

-----------------------------------------------------------------------------
(* The refinement of PendingQueries.  A handler that leaves the book alone *)
(* either keeps what was told or turns to the next message.                *)
LEMMA KeepsOrMovesOn ==
  ASSUME UNCHANGED clientlist, sipPc # "wait",
         \/ sipPc' = "wait"
         \/ ev' = ev /\ ForwardedTo(Handed') = ForwardedTo(Handed)
  PROVE  UNCHANGED PQ!pqVars \/ PQ!MoveOn
<1>1. UNCHANGED PendingIn(clientlist)
  OBVIOUS
<1>2. CASE sipPc' = "wait"
  BY <1>1, <1>2 DEF PQ!MoveOn, Told
<1>3. CASE sipPc' # "wait"
  <2>1. Told' = Told
    BY <1>3 DEF Told, Handed
  <2> QED BY <1>1, <2>1 DEF PQ!pqVars
<1> QED BY <1>2, <1>3

(* A query is Ask of PendingQueries, *)
LEMMA QueryAsks ==
  ASSUME SipIInv, MessageQuery
  PROVE  [PQ!PQNext]_(PQ!pqVars)
<1>1. CASE UNCHANGED sipVars
  <2>1. Told' = Told /\ PendingIn(clientlist)' = PendingIn(clientlist)
    BY <1>1 DEF sipVars, Told
  <2> QED BY <2>1 DEF PQ!pqVars
<1>2. CASE ~UNCHANGED sipVars
  <2>1. /\ clientlist' = AddClientReq(clientlist, ev.from, ev.addr, ev.dev, ev.cmd)
        /\ ev' = ev /\ ev.value = "Query"
    BY <1>2, QueryEffect
  <2>2. PendingIn(clientlist') = PendingIn(clientlist) \cup {<<ev.from, ev.dev, ev.cmd>>}
    BY <2>1, EventOfHandle, AddClientReqRecords DEF Handle, SipIInv, SipTypeOK, NoDuplicatesListed
  <2>3. Told' = {} /\ Told = {}
    BY <2>1 DEF Told
  <2>4. PQ!Ask(ev.from, ev.dev, ev.cmd)
    BY <2>2, <2>3 DEF PQ!Ask
  <2> QED BY <2>4, EventOfHandle DEF Handle, PQ!PQNext
<1> QED BY <1>1, <1>2

(* a response is Answer, *)
LEMMA ResponseAnswers ==
  ASSUME SipIInv, MessageResponse
  PROVE  [PQ!PQNext]_(PQ!pqVars)
<1>1. CASE UNCHANGED sipVars
  <2>1. Told' = Told /\ PendingIn(clientlist)' = PendingIn(clientlist)
    BY <1>1 DEF sipVars, Told
  <2> QED BY <2>1 DEF PQ!pqVars
<1>2. CASE ~UNCHANGED sipVars
  <2>1. /\ clientlist' = DelClientReq(clientlist, ev.from, ev.cmd)
        /\ Handed' = Handed \cup {Msg("forward", k.sip, k.addr) : k \in Range(clientlist)}
        /\ sipPc' = "reg" /\ ev' = ev
        /\ ev.type = "MESSAGE" /\ ev.value = "Response"
    BY <1>2, ResponseEffect
  <2>2. /\ ev.from \in Sips /\ ev.cmd \in CmdTypes
        /\ clientlist \in Seq(Client(Sips, Addrs)) /\ NoDuplicates(clientlist)
    BY EventOfHandle DEF Handle, SipIInv, SipTypeOK, NoDuplicatesListed
  <2>3. \A t : t \in PendingIn(clientlist') <=>
              t \in PendingIn(clientlist) /\ ~(t[2] = ev.from /\ t[3] = ev.cmd)
    BY <2>1, <2>2, DelClientReqSettles
  <2>4. ASSUME NEW t \in PendingIn(clientlist)
        PROVE  \E k \in Range(clientlist) : \E d, r : t = <<k.sip, d, r>> /\ k.sip \in Sips
    <3>1. PICK i \in DOMAIN clientlist : \E k \in DOMAIN clientlist[i].cams :
             \E r \in Range(clientlist[i].cams[k].reqs) :
               t = <<clientlist[i].sip, clientlist[i].cams[k].sip, r>>
      BY PendingInMembers
    <3>2. clientlist[i] \in Range(clientlist) /\ clientlist[i] \in Client(Sips, Addrs)
      BY <2>2 DEF Range
    <3>3. clientlist[i].sip \in Sips
      BY <3>2 DEF Client
    <3> QED BY <3>1, <3>2, <3>3
  <2>5. PendingIn(clientlist') =
          PendingIn(clientlist) \ {<<c, ev.from, ev.cmd>> : c \in Sips}
    <3>1. ASSUME NEW t \in PendingIn(clientlist)
          PROVE  t[2] = ev.from /\ t[3] = ev.cmd <=> t \in {<<c, ev.from, ev.cmd>> : c \in Sips}
      BY <2>4
    <3> QED BY <2>3, <3>1
  <2>6. Told' = {m.to : m \in {n \in Handed' : n.kind = "forward"}}
    BY <2>1 DEF Told, ForwardedTo, Handed
  <2>7. ASSUME NEW k \in Range(clientlist) PROVE k.sip \in Told'
    <3>1. Msg("forward", k.sip, k.addr) \in Handed'
      BY <2>1
    <3>2. Msg("forward", k.sip, k.addr).kind = "forward" /\ Msg("forward", k.sip, k.addr).to = k.sip
      BY DEF Msg
    <3> QED BY <2>6, <3>1, <3>2
  <2>8. PQ!Waiting(ev.from, ev.cmd) \subseteq Told'
    <3> SUFFICES ASSUME NEW c \in Sips, <<c, ev.from, ev.cmd>> \in PendingIn(clientlist)
                 PROVE  c \in Told'
      BY DEF PQ!Waiting
    <3>1. PICK k \in Range(clientlist) : \E d, r : <<c, ev.from, ev.cmd>> = <<k.sip, d, r>>
      BY <2>4
    <3> QED BY <2>7, <3>1
  <2>9. Told' \subseteq Sips
    <3>1. Handed' \subseteq Sendable
      BY SentKept DEF Handle
    <3>2. \A m \in Sendable : m.to \in Sips
      BY DEF Sendable
    <3> QED BY <2>6, <3>1, <3>2
  <2>10. PQ!Answer(ev.from, ev.cmd)
    BY <2>5, <2>8, <2>9 DEF PQ!Answer
  <2> QED BY <2>2, <2>10 DEF PQ!PQNext
<1> QED BY <1>1, <1>2

(* and every step is a step of PendingQueries or a stutter. *)
LEMMA SipStepRefines == SipIInv /\ [SipNext]_allSipVars => [PQ!PQNext]_(PQ!pqVars)
<1> SUFFICES ASSUME SipIInv, [SipNext]_allSipVars PROVE [PQ!PQNext]_(PQ!pqVars)
  OBVIOUS
<1>1. CASE MessageQuery
  BY <1>1, QueryAsks
<1>2. CASE MessageResponse
  BY <1>2, ResponseAnswers
<1>3. CASE Silent
  <2>1. sipPc # "wait" /\ (ev' = ev \/ sipPc' = "wait")
    BY <1>3, EventOfHandle DEF Handle, Silent
  <2> QED BY <1>3, <2>1, SilentEffect, KeepsOrMovesOn DEF PQ!PQNext
<1>4. CASE CallAnswered \/ RegisterNothing
  <2>1. clientlist' = clientlist /\ sipPc # "wait" /\ sipPc' = "wait"
    BY <1>4 DEF CallAnswered, RegisterNothing, Dispatched, Done
  <2>2. PQ!MoveOn
    BY <2>1 DEF PQ!MoveOn, Told
  <2> QED BY <2>2 DEF PQ!PQNext
<1>5. CASE RegisterNameless \/ RegisterAlive
  <2>1. UNCHANGED <<ev, clientlist>> /\ sipPc # "wait" /\ Answer
    BY <1>5 DEF RegisterNameless, RegisterAlive, Ends
  <2>2. Handed' = Handed \/ Handed' = Handed \cup {Ok200}
    BY <2>1, HandEffect DEF Answer
  <2>3. Ok200.kind # "forward"
    BY DEF Ok200, Msg
  <2>4. ForwardedTo(Handed') = ForwardedTo(Handed)
    BY <2>2, <2>3 DEF ForwardedTo
  <2> QED BY <2>1, <2>4, KeepsOrMovesOn DEF PQ!PQNext
<1>6. ASSUME NEW e \in PeerEvents, Receive(e) PROVE PQ!MoveOn
  <2>1. sent' = {} /\ refused' = {} /\ clientlist' = clientlist
    BY <1>6 DEF Receive
  <2>2. Told' = {}
    BY <2>1 DEF Told, ForwardedTo
  <2> QED BY <2>1, <2>2 DEF PQ!MoveOn
<1>7. CASE UNCHANGED allSipVars
  <2>1. Told' = Told /\ PendingIn(clientlist)' = PendingIn(clientlist)
    BY <1>7 DEF allSipVars, sipVars, Told
  <2> QED BY <2>1 DEF PQ!pqVars
<1> QED BY <1>1, <1>2, <1>3, <1>4, <1>5, <1>6, <1>7, HandleCases DEF SipNext, PQ!PQNext

(* The nested vectors of device.cpp implement the abstract book: a query   *)
(* stays pending until it is answered, an answer settles all who wait and  *)
(* reaches each of them.                                                   *)
THEOREM KeepsQueriesHolds == SipSpec => KeepsQueries
<1>1. AloneInit => PQ!PQInit
  <2> SUFFICES ASSUME AloneInit PROVE PQ!PQInit
    OBVIOUS
  <2>1. clientlist = <<>> /\ sipPc = "wait"
    BY DEF AloneInit, SipInit
  <2>2. PendingIn(clientlist) = {}
    BY <2>1, PendingInMembers
  <2> QED BY <2>1, <2>2 DEF PQ!PQInit, Told
<1> QED BY <1>1, SipInvHolds, SipStepRefines, PTL DEF SipSpec, KeepsQueries, PQ!PQSpec
=============================================================================
