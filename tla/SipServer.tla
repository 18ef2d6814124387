----------------------------- MODULE SipServer -----------------------------
(***************************************************************************)
(* The SIP receive thread: MsgProcess and the handlers it calls.  It takes *)
(* one event of the SIP stack at a time and finishes it before the next;   *)
(* other threads can run between two of its writes to the camera table, so *)
(* each write to a flag is a step of its own.  The lock and the unlock of  *)
(* camMutex are merged with the write they precede or follow: no other     *)
(* thread ever takes that mutex.  The client list belongs to this thread   *)
(* alone, and one step stands for all of a handler's work on it.           *)
(***************************************************************************)
EXTENDS CameraTable, ClientList

CONSTANTS
  Addrs,       \* host and port a message names in its From header
  ServerSip,   \* gb28181params.localSipId
  PeerEvents,  \* the events the SIP stack may deliver, a subset of Event
  NDEBUG       \* TRUE in a build where assert does nothing

Types  == {"REGISTER", "UNREGISTER", "BYE", "MESSAGE", "CALL_PROCEEDING",
           "CALL_ANSWERED", "CALL_CLOSED", "OTHER"}
Values == {"none", "Control", "EasyControl", "Query", "Notify", "Response",
           "unknown"}

(* UNREGISTER is a REGISTER whose Expires is 0.  from and addr come from   *)
(* the From header of je->request, which for a CALL event is the server's  *)
(* own INVITE; a URL without a user name, or without a port, leaves the    *)
(* pointer to that part null, and lacks says which.  value, cmd and dev    *)
(* are root element, CmdType and DeviceID of the body (value "none": no    *)
(* body); of a CALL event, dev is the callee.                              *)
Event == [type : Types, from : Sips, addr : Addrs,
          lacks : SUBSET {"username", "port"},
          value : Values, cmd : CmdTypes, dev : Sips]

(* Between two events. *)
NoEvent == [type |-> "NULL"]

ASSUME SipServerAssumption ==
  /\ ServerSip \in Sips
  /\ NDEBUG \in BOOLEAN
  /\ PeerEvents \subseteq Event
  /\ \A e \in PeerEvents :
       e.type = "CALL_PROCEEDING" => e.from = ServerSip /\ e.lacks = {}

VARIABLES
  sipPc,       \* where MsgProcess stands
  ev,          \* je, the event being handled
  clientlist,  \* LiveVideoParams::clientlist
  sent,        \* what the SIP stack took to send for the event in hand
  refused      \* and what it could not build, or did not take

sipVars == <<sipPc, ev, clientlist, sent, refused>>

Msg(kind, to, addr) == [kind |-> kind, to |-> to, addr |-> addr]

(* The answer 200 goes back where the request came from. *)
Ok200 == Msg("200", ev.from, ev.addr)

(* A camera is reached at the address of the configuration, ReadCfg's Ip   *)
(* and port, which no message can change.                                  *)
ToCamera(kind, c) == Msg(kind, SipOf[c], "configured")

(* A message is built and handed to the SIP stack.  A message that cannot  *)
(* be built is passed over without a word, and what sending it returns is  *)
(* ignored: no handler can tell which of its messages go out.              *)
Hand(msgs) ==
  \E R \in SUBSET msgs : sent' = sent \cup (msgs \ R) /\ refused' = refused \cup R

messages == <<sent, refused>>

Sender == FindSipIndex(ev.from)
Device == FindSipIndex(ev.dev)

SipInit ==
  /\ sipPc = "wait"
  /\ ev = NoEvent
  /\ clientlist = <<>>
  /\ sent = {} /\ refused = {}

(* eXosip_event_wait.  An event of a call needs a call placed before it. *)
Receive(e) ==
  /\ sipPc = "wait"
  /\ e.type \in {"CALL_PROCEEDING", "CALL_ANSWERED", "CALL_CLOSED"} =>
       \E c \in Cam : SipOf[c] = e.dev /\ invites[c] > 0
  /\ sipPc' = "dispatch"
  /\ ev' = e
  /\ sent' = {} /\ refused' = {}
  /\ UNCHANGED <<clientlist, tableVars>>

-----------------------------------------------------------------------------
(* Mutant of Keywords: the branch of EasyControl can be reached. *)
EasyControlFirst == <<"EasyControl", "Control", "Query", "Notify", "Response">>

(* Msg_is_message_fun tests the root element with strstr, keyword by       *)
(* keyword: the first keyword the name contains takes the message.         *)
Keywords == <<"Control", "Query", "Notify", "EasyControl", "Response">>

Contained(value) ==
  IF value = "EasyControl" THEN {"Control", "EasyControl"} ELSE {value}

Branch(value) ==
  LET k == SelectInSeq(Keywords, LAMBDA w : w \in Contained(value))
  IN  IF k = 0 THEN "printed" ELSE Keywords[k]

Dispatched(type) == sipPc = "dispatch" /\ ev.type = type

(* The loop goes on to the next event. *)
Done == sipPc' = "wait" /\ ev' = NoEvent

(* std::string takes the pointer to a part of the From URL as it is: the   *)
(* process ends if it is null.                                             *)
Ends == down' = TRUE /\ UNCHANGED <<sipPc, ev, clientlist, flagVars, camMutex, invites>>

(* The message has a body and names a configured camera. *)
HasDevice == Dispatched("MESSAGE") /\ ev.value # "none" /\ Device \in Cam

(* The early return -1: RegisterSuccess, and with it the 200, is skipped. *)
MessageUnknownDevice ==
  /\ Dispatched("MESSAGE") /\ ev.value # "none" /\ Device \notin Cam
  /\ Done
  /\ UNCHANGED <<clientlist, messages, tableVars>>

MessageWithoutBody ==
  /\ Dispatched("MESSAGE") /\ ev.value = "none"
  /\ sipPc' = "reg"
  /\ UNCHANGED <<ev, clientlist, messages, tableVars>>

(* Msg_Client_Query_Request_Fun, then Msg_Forward to the camera.  A false  *)
(* assert in AddClientReq ends the process before anything is sent.        *)
MessageQuery ==
  /\ HasDevice /\ Branch(ev.value) = "Query" /\ ev.lacks = {}
  /\ IF NDEBUG \/ AddClientReqAsserts(clientlist, ev.from, ev.addr, ev.cmd)
     THEN /\ clientlist' = AddClientReq(clientlist, ev.from, ev.addr,
                                        ev.dev, ev.cmd)
          /\ Hand({ToCamera("forward", Device)})
          /\ sipPc' = "reg"
          /\ UNCHANGED <<ev, tableVars>>
     ELSE Ends /\ UNCHANGED messages

(* Msg_Camera_Query_Response_Fun settles the query under the name of the   *)
(* sender; every client it returns is sent the body.                       *)
MessageResponse ==
  /\ HasDevice /\ Branch(ev.value) = "Response" /\ ev.lacks = {}
  /\ IF NDEBUG \/ DelClientReqAsserts(clientlist, ev.from, ev.cmd)
     THEN /\ clientlist' = DelClientReq(clientlist, ev.from, ev.cmd)
          /\ Hand({Msg("forward", k.sip, k.addr) :
                     k \in Range(DelClientReqResult(clientlist))})
          /\ sipPc' = "reg"
          /\ UNCHANGED <<ev, tableVars>>
     ELSE Ends /\ UNCHANGED messages

(* The two read user name and port of the From URL before anything else.   *)
MessageFromLacks ==
  /\ HasDevice /\ Branch(ev.value) \in {"Query", "Response"} /\ ev.lacks # {}
  /\ Ends /\ UNCHANGED messages

KeepAliveAlive ==
  /\ HasDevice /\ Branch(ev.value) = "Notify" /\ ev.cmd = "Keeplive"
  /\ camMutex = "free" /\ camMutex' = "sip"
  /\ alive' = [alive EXCEPT ![Device] = 1]
  /\ sipPc' = "keepRegistered"
  /\ UNCHANGED <<ev, clientlist, messages, registered, played, pushed, invites, down>>

(* Mutant of KeepAliveRegistered: a heartbeat sets alive only. *)
KeepAliveUnlocks ==
  /\ sipPc = "keepRegistered"
  /\ camMutex' = "free"
  /\ sipPc' = "reg"
  /\ UNCHANGED <<ev, clientlist, messages, flagVars, invites, down>>

KeepAliveRegistered ==
  /\ sipPc = "keepRegistered"
  /\ registered' = [registered EXCEPT ![Device] = 1]
  /\ camMutex' = "free"
  /\ sipPc' = "reg"
  /\ UNCHANGED <<ev, clientlist, messages, alive, played, pushed, invites, down>>

(* Every other body.  Forwarding a Control is commented out.  Should the   *)
(* EasyControl branch ever be taken, ptzconvert(std::string) calls itself  *)
(* until the stack overflows, and Send_PtzControl_Single is not reached.   *)
MessageOther ==
  /\ HasDevice
  /\ \/ Branch(ev.value) \in {"Control", "EasyControl", "printed"}
     \/ Branch(ev.value) = "Notify" /\ ev.cmd # "Keeplive"
  /\ down' = (Branch(ev.value) = "EasyControl")
  /\ sipPc' = "reg"
  /\ UNCHANGED <<ev, clientlist, messages, flagVars, camMutex, invites>>

-----------------------------------------------------------------------------
(* REGISTER whatever it expires, and CALL_PROCEEDING: RegisterSuccess. *)
DispatchRegister ==
  /\ \/ Dispatched("REGISTER") \/ Dispatched("UNREGISTER")
     \/ Dispatched("CALL_PROCEEDING")
  /\ sipPc' = "reg"
  /\ UNCHANGED <<ev, clientlist, messages, tableVars>>

(* Mutant of Answer: the sender is looked up first, and a stranger is not  *)
(* answered.                                                               *)
AnswerCameras == Hand(IF ev.type = "CALL_PROCEEDING" \/ Sender \notin Cam
                      THEN {} ELSE {Ok200})

(* RegisterSuccess begins with the 200.  The stack builds no answer to the *)
(* server's own INVITE, so a CALL_PROCEEDING sends none.                   *)
Answer == Hand(IF ev.type = "CALL_PROCEEDING" THEN {} ELSE {Ok200})

(* It then reads the user name of the sender. *)
Named == "username" \notin ev.lacks

Stale(c) == alive[c] # 1 \/ registered[c] # 1

RegisterNothing ==
  /\ sipPc = "reg" /\ Named
  /\ Sender \in Cam => ~Stale(Sender)
  /\ Answer
  /\ Done
  /\ UNCHANGED <<clientlist, tableVars>>

RegisterNameless == sipPc = "reg" /\ ~Named /\ Answer /\ Ends

RegisterAlive ==
  /\ sipPc = "reg" /\ Named /\ Sender \in Cam /\ Stale(Sender)
  /\ Answer
  /\ camMutex = "free" /\ camMutex' = "sip"
  /\ alive' = [alive EXCEPT ![Sender] = 1]
  /\ sipPc' = "regRegistered"
  /\ UNCHANGED <<ev, clientlist, registered, played, pushed, invites, down>>

RegisterRegistered ==
  /\ sipPc = "regRegistered"
  /\ registered' = [registered EXCEPT ![Sender] = 1]
  /\ camMutex' = "free"
  /\ Done
  /\ UNCHANGED <<clientlist, messages, alive, played, pushed, invites, down>>

-----------------------------------------------------------------------------
(* A BYE outside any dialog takes the camera off line and stops its video. *)
Present(c) == alive[c] # 0 \/ registered[c] # 0

ByeNothing ==
  /\ Dispatched("BYE") /\ Named
  /\ Sender \in Cam => ~Present(Sender)
  /\ Done
  /\ UNCHANGED <<clientlist, messages, tableVars>>

ByeNameless == Dispatched("BYE") /\ ~Named /\ Ends /\ UNCHANGED messages

ByeAlive ==
  /\ Dispatched("BYE") /\ Named /\ Sender \in Cam /\ Present(Sender)
  /\ camMutex = "free" /\ camMutex' = "sip"
  /\ alive' = [alive EXCEPT ![Sender] = 0]
  /\ sipPc' = "byePlayed"
  /\ UNCHANGED <<ev, clientlist, messages, registered, played, pushed, invites, down>>

(* Mutants of ByePlayed: played is left as it is; is counted down instead  *)
(* of cleared.                                                             *)
ByePlayedForgets ==
  /\ sipPc = "byePlayed"
  /\ camMutex' = "free"
  /\ Done
  /\ UNCHANGED <<clientlist, messages, flagVars, invites, down>>

ByePlayedDecrements ==
  /\ sipPc = "byePlayed"
  /\ played' = [played EXCEPT ![Sender] = @ - 1]
  /\ camMutex' = "free"
  /\ Done
  /\ UNCHANGED <<clientlist, messages, alive, registered, pushed, invites, down>>

ByePlayed ==
  /\ sipPc = "byePlayed"
  /\ played' = [played EXCEPT ![Sender] = 0]
  /\ camMutex' = "free"
  /\ Done
  /\ UNCHANGED <<clientlist, messages, alive, registered, pushed, invites, down>>

CallAnswered ==
  /\ Dispatched("CALL_ANSWERED")
  /\ Hand({Msg("ack", ev.dev, ev.addr)})
  /\ Done
  /\ UNCHANGED <<clientlist, tableVars>>

(* A closed call, requests of an unsupported method, failures: only logged.*)
Ignored ==
  /\ Dispatched("CALL_CLOSED") \/ Dispatched("OTHER")
  /\ Done
  /\ UNCHANGED <<clientlist, messages, tableVars>>

Handle ==
  \/ MessageUnknownDevice \/ MessageWithoutBody
  \/ MessageQuery \/ MessageResponse \/ MessageFromLacks \/ MessageOther
  \/ KeepAliveAlive \/ KeepAliveRegistered
  \/ DispatchRegister
  \/ RegisterNothing \/ RegisterNameless \/ RegisterAlive \/ RegisterRegistered
  \/ ByeNothing \/ ByeNameless \/ ByeAlive \/ ByePlayed
  \/ CallAnswered \/ Ignored

SipNext == \/ ~down /\ \E e \in PeerEvents : Receive(e)
           \/ ~down /\ Handle

SipPcs == {"wait", "dispatch", "keepRegistered", "reg", "regRegistered",
           "byePlayed"}

(* What the variables of the SIP thread hold. *)
SipTypeOK ==
  /\ sipPc \in SipPcs
  /\ IF sipPc = "wait" THEN ev = NoEvent ELSE ev \in PeerEvents
  /\ clientlist \in Seq(Client(Sips, Addrs))
  /\ sent \cup refused \subseteq [kind : {"200", "forward", "ptz", "ack"},
                                to : Sips, addr : Addrs \cup {"configured"}]

-----------------------------------------------------------------------------
(* The SIP thread by itself: what the other threads do to the table does   *)
(* not reach the client list, nor what is answered and forwarded.          *)
allSipVars == <<sipVars, tableVars>>

AloneInit == TableInit /\ SipInit

SipSpec == AloneInit /\ [][SipNext]_allSipVars

(* A client, camera or request listed twice would survive the answer it    *)
(* waits for, because PopReq erases the first match only.                  *)
NoDuplicatesListed == NoDuplicates(clientlist)

ForwardedTo(msgs) == {m.to : m \in {n \in msgs : n.kind = "forward"}}

(* The clients the answer in hand is forwarded to, if the stack sends it.  *)
Told == IF sipPc # "wait" /\ ev.type = "MESSAGE" /\ ev.value = "Response"
        THEN ForwardedTo(sent \cup refused) ELSE {}

PQ == INSTANCE PendingQueries
        WITH Clients <- Sips, Devices <- Sips, Queries <- CmdTypes,
             pending <- PendingIn(clientlist), told <- Told

(* The nested vectors keep the promise of PendingQueries: a query stays    *)
(* recorded until a Response under the camera's name settles it, for every *)
(* client at once, and no client that waits is left out of the forwarding. *)
KeepsQueries == PQ!PQSpec

(* MsgProcess is done with a request. *)
Finished == sipPc # "wait" /\ sipPc' = "wait"

(* On whichever path a REGISTER or a MESSAGE is finished, a 200 has gone   *)
(* back to its sender, unless the SIP stack refused it; only the early     *)
(* return for an unknown DeviceID of Msg_is_message_fun leaves it out.     *)
AnsweredUnlessUnknown ==
  [][ Finished /\ ev.type \in {"REGISTER", "UNREGISTER", "MESSAGE"} =>
        \/ Ok200 \in sent' \cup refused'
        \/ ev.value # "none" /\ Device \notin Cam
    ]_allSipVars

(* The client is in the book under another address. *)
Moved(sip, addr) == \E k \in Range(clientlist) : k.sip = sip /\ k.addr # addr

(* A request that a false assert, or a null pointer, stops the process at. *)
Odd(e) == \/ e.lacks # {}
          \/ ~NDEBUG /\ e.value \in {"Query", "Response"} /\ ~ReqValid(e.cmd)
          \/ ~NDEBUG /\ e.value = "Query" /\ Moved(e.from, e.addr)

(* Whatever was asked, answered and registered before, and in whichever    *)
(* order: a request with a whole From header, a known CmdType and the      *)
(* address its client had in the first query does not end the process, nor *)
(* does any at all but for its From header where assert does nothing.      *)
EndsOnOddRequestOnly == down => sipPc # "wait" /\ Odd(ev)
=============================================================================
