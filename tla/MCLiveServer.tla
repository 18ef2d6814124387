---------------------------- MODULE MCLiveServer ----------------------------
(***************************************************************************)
(* Instances of LiveServer for TLC: the cameras and the events peers send  *)
(* them.  No client queries a camera here; MCQueries does that.            *)
(***************************************************************************)
EXTENDS LiveClaims

MCSips      == {"cam1", "cam2", "server"}
MCServerSip == "server"
MCCmdTypes  == {"Keeplive", "Catalog"}
MCReqString == {"Catalog"}

(* Two cameras, the first of them listed twice. *)
ThreeEntries == 0 :> "cam1" @@ 1 :> "cam2" @@ 2 :> "cam1"
OneEntry     == 0 :> "cam1"

Plain(type, from, dev) ==
  [type |-> type, from |-> from, addr |-> "home", lacks |-> {},
   value |-> "none", cmd |-> "Catalog", dev |-> dev]

Body(from, value, cmd, dev) ==
  [type |-> "MESSAGE", from |-> from, addr |-> "home", lacks |-> {},
   value |-> value, cmd |-> cmd, dev |-> dev]

(* What a camera sends by itself, and what its call causes. *)
LifeOf(cam) ==
  { Plain("REGISTER", cam, cam), Plain("BYE", cam, cam),
    Body(cam, "Notify", "Keeplive", cam) }

CallOf(cam) ==
  { Plain("CALL_PROCEEDING", "server", cam), Plain("CALL_ANSWERED", cam, cam),
    Plain("CALL_CLOSED", cam, cam) }

(* One camera with every event; the other comes on line and stays, and its *)
(* push thread may end the process.                                        *)
EventsOne  == LifeOf("cam1") \cup CallOf("cam1") \cup
              {Plain("UNREGISTER", "cam1", "cam1"), Plain("OTHER", "cam1", "cam1")}
EventsLive == LifeOf("cam1") \cup CallOf("cam1") \cup
              {Plain("REGISTER", "cam2", "cam2")}
=============================================================================
