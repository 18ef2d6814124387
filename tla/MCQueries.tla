----------------------------- MODULE MCQueries -----------------------------
(***************************************************************************)
(* Instances of SipServer for TLC: two clients query two cameras, answers  *)
(* come back in any order, unasked, twice or under the wrong name.         *)
(***************************************************************************)
EXTENDS SipClaims

Cameras     == {"cam1", "cam2"}
Clients     == {"tom", "ann"}
MCSips      == Cameras \cup Clients \cup {"server", "stranger"}
MCServerSip == "server"
MCCmdTypes  == {"Catalog", "DeviceInfo", "Keeplive", "Alarm"}
MCReqString == {"Catalog", "DeviceInfo"}
MCAddrs     == {"home", "away"}
TwoCameras  == 0 :> "cam1" @@ 1 :> "cam2"

Body(from, addr, value, cmd, dev) ==
  [type |-> "MESSAGE", from |-> from, addr |-> addr, lacks |-> {},
   value |-> value, cmd |-> cmd, dev |-> dev]

Asked(addrs, cmds) ==
  {Body(k, a, "Query", q, c) : k \in Clients, a \in addrs, q \in cmds, c \in Cameras}
Answered(cmds) ==
  {Body(c, "home", "Response", q, c) : c \in Cameras, q \in cmds}

(* The root elements the handler tells apart, a DeviceID nobody has, and a *)
(* Response sent by one camera in the name of another.                     *)
OtherBodies ==
  {Body("cam1", "home", v, "Keeplive", "cam1") :
     v \in {"none", "Control", "EasyControl", "Notify", "unknown"}} \cup
  { Body("cam1", "home", "Notify", "Alarm", "cam1"),
    Body("stranger", "home", "Notify", "Keeplive", "cam2"),
    Body("cam1", "home", "Response", "Catalog", "stranger"),
    Body("cam2", "home", "Response", "Catalog", "cam1") }

Register(type, from) == [Body(from, "home", "none", "Catalog", from)
                           EXCEPT !.type = type]

(* Two requests for the first camera, one for the second, and one of them  *)
(* from a client at another address than before.                           *)
EventsBook ==
  {e \in Asked({"home"}, MCReqString) \cup Answered(MCReqString) :
     /\ e.dev = "cam1" \/ e.cmd = "Catalog"
     /\ ~(e.from = "tom" /\ e.dev = "cam2")} \cup
  {Body("tom", "away", "Query", "Catalog", "cam2")}

(* Requests whose From URL has no port, as GB28181 devices leave it out, or *)
(* no user name.                                                            *)
CutShort ==
  {[e EXCEPT !.lacks = {part}] :
     part \in {"port", "username"},
     e \in { Body("ann", "home", "Query", "Catalog", "cam1"),
             Body("cam1", "home", "Response", "Catalog", "cam1"),
             Body("cam1", "home", "Notify", "Keeplive", "cam1"),
             Register("REGISTER", "cam1"), Register("BYE", "cam1") }}

(* A client that moves and a query the book does not know fail an assert.  *)
EventsMixed   == Asked({"home"}, {"Catalog"}) \cup Answered({"Catalog"}) \cup
                 OtherBodies \cup CutShort \cup
                 {Body("tom", "away", "Query", "Catalog", "cam1"),
                  Body("ann", "home", "Query", "Alarm", "cam1")} \cup
                 {Register(t, f) : t \in {"REGISTER", "UNREGISTER", "BYE", "OTHER"},
                                   f \in {"cam1", "tom"}}
=============================================================================
