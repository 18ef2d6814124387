---------------------------- MODULE CameraTable ----------------------------
(***************************************************************************)
(* The table of configured cameras (LiveVideoParams::CameraParams) that    *)
(* every thread of the server shares: for each entry five int flags used   *)
(* as booleans, and the mutex the table carries.  ReadCfg fills the table  *)
(* once, before any other thread exists; afterwards only flags change.     *)
(***************************************************************************)
EXTENDS Integers

CONSTANTS
  Sips,       \* SIP user names: of cameras, clients and the server itself
  CameraNum,  \* number of entries ReadCfg put in camparlist
  SipOf       \* SipOf[i] is camparlist[i].Sip; names need not be distinct

Cam  == 0 .. CameraNum - 1
Flag == {0, 1}

(* An unreadable configuration leaves the table empty: main ignores the    *)
(* -1 that ReadCfg returns, so zero cameras is a case of the model.        *)
ASSUME CameraTableAssumption ==
  /\ CameraNum \in Nat
  /\ SipOf \in [Cam -> Sips]

VARIABLES
  alive,       \* CameraParam::alive
  registered,  \* CameraParam::registered
  played,      \* CameraParam::played
  pushed,      \* CameraParam::pushed
  camMutex,    \* CameraParamList::mutex_: "free" or the thread holding it
  invites,     \* INVITEs the SIP stack has taken for each camera
  down         \* the process has died: a failed assert, exit(), a double free

flagVars  == <<alive, registered, played, pushed>>
tableVars == <<flagVars, camMutex, invites, down>>

(* Mutant of FindSipIndex: the search goes on to the last entry. *)
FindLastIndex(sip) ==
  LET Hits == {i \in Cam : SipOf[i] = sip}
  IN  IF Hits = {} THEN -1 ELSE CHOOSE i \in Hits : \A j \in Hits : i >= j

(* The index FindSipIndex returns: the first entry with that name, or -1.  *)
FindSipIndex(sip) ==
  LET Hits == {i \in Cam : SipOf[i] = sip}
  IN  IF Hits = {} THEN -1 ELSE CHOOSE i \in Hits : \A j \in Hits : i <= j

(* ReadCfg clears every flag of every camera it appends. *)
TableInit ==
  /\ alive      = [c \in Cam |-> 0]
  /\ registered = [c \in Cam |-> 0]
  /\ played     = [c \in Cam |-> 0]
  /\ pushed     = [c \in Cam |-> 0]
  /\ camMutex   = "free"
  /\ invites    = [c \in Cam |-> 0]
  /\ down       = FALSE

TableTypeOK ==
  /\ alive      \in [Cam -> Flag]
  /\ registered \in [Cam -> Flag]
  /\ played     \in [Cam -> Flag]
  /\ pushed     \in [Cam -> Flag]
  /\ camMutex   \in {"free", "sip"}
  /\ invites    \in [Cam -> Nat]
  /\ down       \in BOOLEAN
=============================================================================
