--------------------------- MODULE PendingQueries ---------------------------
(***************************************************************************)
(* What the server promises to the clients that query cameras, without     *)
(* the vectors that keep the book: a query stays pending until the camera  *)
(* answers it, an answer settles every client waiting for it at once, and  *)
(* none of those is left out of the forwarding.  The promise leaves open   *)
(* who else receives the answer.                                           *)
(***************************************************************************)
EXTENDS Naturals

CONSTANTS Clients, Devices, Queries

VARIABLES
  pending,  \* triples <<client, device, query>> not answered yet
  told      \* clients the answer being handled is forwarded to

pqVars == <<pending, told>>

Waiting(dev, q) == {c \in Clients : <<c, dev, q>> \in pending}

PQInit == pending = {} /\ told = {}

Ask(c, dev, q) ==
  /\ pending' = pending \cup {<<c, dev, q>>}
  /\ UNCHANGED told

Answer(dev, q) ==
  /\ pending' = pending \ {<<c, dev, q>> : c \in Clients}
  /\ Waiting(dev, q) \subseteq told'
  /\ told' \subseteq Clients

(* The server turns to the next message. *)
MoveOn == told' = {} /\ UNCHANGED pending

PQNext ==
  \/ \E c \in Clients, dev \in Devices, q \in Queries : Ask(c, dev, q)
  \/ \E dev \in Devices, q \in Queries : Answer(dev, q)
  \/ MoveOn

PQSpec == PQInit /\ [][PQNext]_pqVars
=============================================================================
