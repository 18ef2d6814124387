-------------------------- MODULE CameraPushProofs --------------------------
(***************************************************************************)
(* The invariants of the push thread hold for every MAX_RETRY_TIME and     *)
(* every set of frames, and each of its steps is one that PushContract     *)
(* allows.                                                                 *)
(***************************************************************************)
EXTENDS CameraPush, TLAPS

-----------------------------------------------------------------------------
(* rtmp_ names the context created last, if any. *)
NewestInv == rtmp # 0 => rtmp = Len(contexts)

(* Until the stream is published each context but the first stands for one *)
(* retry counted; publishing, which sets the count back to zero, comes     *)
(* once at most, so that the contexts of all attempts stay within it.      *)
CountInv ==
  /\ pc = "start" =>
       contexts = <<>> /\ rtmp = 0 /\ retrys = 0 /\ status = "Init"
  /\ rtmp # 0 /\ status # "Published" => Len(contexts) = retrys + 1

(* Where the thread stands tells what it has reached. *)
PlaceInv ==
  /\ pc = "receive" => status = "Published" /\ rtmp # 0
  /\ pc = "spin" => rtmp = 0
  /\ pc = "closed" <=> status = "Closed"
  /\ status = "Published" => rtmp # 0

(* The gate has been opened by an SPS that was written. *)
GateInv == ~needKey => first # "none"

IInv == /\ TypeOK /\ StatusMatchesContext /\ NoContextLeft /\ AttemptsBounded
        /\ StreamBeginsWithSps
        /\ NewestInv /\ CountInv /\ PlaceInv /\ GateInv

(* What srs_rtmp_create leaves: one more context, with rtmp_ on it unless  *)
(* it failed.                                                              *)
LEMMA CreateEffect ==
  ASSUME NEW list \in Seq(Context),
         NEW url \in {"literal", "StreamIp"}, Create(list, url)
  PROVE  /\ contexts' \in Seq(Context)
         /\ Len(contexts') = Len(list) + 1
         /\ rtmp' \in {0, Len(list) + 1}
         /\ \A i \in 1 .. Len(list) : contexts'[i] = list[i]
         /\ rtmp' # 0 => contexts'[rtmp'].live /\ contexts'[rtmp'].step = "Init"
         /\ rtmp' = 0 => ~contexts'[Len(list) + 1].live
<1>1. PICK ok \in BOOLEAN :
        /\ contexts' = Append(list, [url |-> url, step |-> "Init", live |-> ok])
        /\ rtmp' = IF ok THEN Len(list) + 1 ELSE 0
  BY DEF Create
<1>2. [url |-> url, step |-> "Init", live |-> ok] \in Context
  BY DEF Context, Statuses
<1> DEFINE new == [url |-> url, step |-> "Init", live |-> ok]
<1>3. new.live = ok /\ new.step = "Init"
  OBVIOUS
<1> HIDE DEF new
<1> QED
  BY <1>1, <1>2, <1>3 DEF new

(* srs_rtmp_destroy leaves no context allocated. *)
LEMMA DestroyedEffect ==
  ASSUME TypeOK, NoContextLeft
  PROVE  /\ Destroyed \in Seq(Context)
         /\ Len(Destroyed) = Len(contexts)
         /\ \A i \in 1 .. Len(contexts) : ~Destroyed[i].live
<1>1. contexts \in Seq(Context) /\ DOMAIN contexts = 1 .. Len(contexts) /\ Len(contexts) \in Nat
  BY DEF TypeOK
<1>2. ASSUME NEW i \in 1 .. Len(contexts)
      PROVE  [contexts[i] EXCEPT !.live = @ /\ i # rtmp] \in Context
             /\ ~[contexts[i] EXCEPT !.live = @ /\ i # rtmp].live
  <2>1. contexts[i] \in Context
    BY <1>1
  <2>2. contexts[i].live => i = rtmp
    BY <1>1 DEF NoContextLeft
  <2> QED
    BY <2>1, <2>2 DEF Context
<1>3. Destroyed = [i \in 1 .. Len(contexts) |-> [contexts[i] EXCEPT !.live = @ /\ i # rtmp]]
  BY <1>1 DEF Destroyed
<1>4. Destroyed \in [1 .. Len(contexts) -> Context]
  BY <1>2, <1>3
<1>5. Destroyed \in Seq(Context) /\ Len(Destroyed) = Len(contexts)
  BY <1>1, <1>4
<1> QED
  BY <1>2, <1>3, <1>5

(* It holds before the thread runs. *)
LEMMA IInvInit == Init => IInv
<1> SUFFICES ASSUME Init PROVE IInv
  OBVIOUS
<1>1. contexts = <<>> /\ <<>> \in Seq(Context)
  BY DEF Init
<1>2. rtmp \in 0 .. Len(contexts) /\ retrys \in Nat
  BY <1>1 DEF Init
<1>3. TypeOK
  BY <1>1, <1>2, Zenon DEF Init, TypeOK, Statuses
<1> QED
  BY <1>3, CameraPushAssumption DEF Init, IInv, StatusMatchesContext, NoContextLeft, AttemptsBounded,
     StreamBeginsWithSps, NewestInv, CountInv, PlaceInv, GateInv
-----------------------------------------------------------------------------
(* Start and the retry of CallDisconnect: a new context after those that   *)
(* are all gone.                                                           *)
LEMMA StartKeeps == IInv /\ Start => IInv'
<1> SUFFICES ASSUME IInv, Start PROVE IInv'
  OBVIOUS
<1> USE CameraPushAssumption DEF IInv
<1>1. contexts = <<>> /\ rtmp = 0 /\ retrys = 0 /\ status = "Init"
  BY DEF Start, CountInv
<1>2. /\ contexts' \in Seq(Context) /\ Len(contexts') = 1
      /\ rtmp' \in {0, 1}
      /\ rtmp' # 0 => contexts'[rtmp'].live /\ contexts'[rtmp'].step = "Init"
      /\ rtmp' = 0 => ~contexts'[1].live
  <2>1. contexts \in Seq(Context) /\ Len(contexts) = 0
    BY <1>1 DEF TypeOK
  <2>2. Create(contexts, "literal")
    BY DEF Start
  <2>3. /\ contexts' \in Seq(Context) /\ Len(contexts') = Len(contexts) + 1
        /\ rtmp' \in {0, Len(contexts) + 1}
        /\ rtmp' # 0 => contexts'[rtmp'].live /\ contexts'[rtmp'].step = "Init"
        /\ rtmp' = 0 => ~contexts'[Len(contexts) + 1].live
    BY <2>1, <2>2, CreateEffect
  <2> QED
    BY <2>1, <2>3
<1>3. TypeOK'
  <2>1. rtmp' \in 0 .. Len(contexts')
    BY <1>2
  <2> QED
    BY <1>2, <2>1, Zenon DEF Start, TypeOK
<1>4. DOMAIN contexts' = {1}
  BY <1>2
<1>5. StatusMatchesContext' /\ NoContextLeft' /\ AttemptsBounded' /\ NewestInv'
  BY <1>1, <1>2, <1>4 DEF Start, StatusMatchesContext, NoContextLeft, AttemptsBounded, NewestInv
<1>6. CountInv' /\ PlaceInv'
  BY <1>1, <1>2 DEF Start, CountInv, PlaceInv
<1>7. StreamBeginsWithSps' /\ GateInv'
  BY Zenon DEF Start, StreamBeginsWithSps, GateInv
<1> QED
  BY <1>3, <1>5, <1>6, <1>7

(* A failed step that is tried again: the old context goes, a new one comes. *)
LEMMA RetryKeeps == IInv /\ StepFailsRetry => IInv'
<1> SUFFICES ASSUME IInv, StepFailsRetry PROVE IInv'
  OBVIOUS
<1> USE CameraPushAssumption DEF IInv
<1> DEFINE n == Len(contexts)
<1>1. /\ pc = "loop" /\ rtmp # 0 /\ status \in {"Init", "Handshaked", "Connected"}
      /\ retrys \in Nat /\ n = retrys + 1 /\ retrys + 1 <= MAX_RETRY_TIME
  BY DEF StepFailsRetry, Working, Steps, RetryLeft, CountInv, TypeOK
<1>2. /\ Destroyed \in Seq(Context) /\ Len(Destroyed) = n
      /\ \A i \in 1 .. n : ~Destroyed[i].live
  BY DestroyedEffect
<1>3. Create(Destroyed, "StreamIp")
  BY DEF StepFailsRetry
<1>4. /\ contexts' \in Seq(Context) /\ Len(contexts') = n + 1
      /\ rtmp' \in {0, n + 1}
      /\ \A i \in 1 .. n : contexts'[i] = Destroyed[i]
      /\ rtmp' # 0 => contexts'[rtmp'].live /\ contexts'[rtmp'].step = "Init"
      /\ rtmp' = 0 => ~contexts'[n + 1].live
  BY <1>2, <1>3, CreateEffect
<1>5. status' = "Init" /\ retrys' = retrys + 1 /\ needKey' = TRUE
  BY DEF StepFailsRetry, Reset
<1>6. TypeOK'
  <2>1. rtmp' \in 0 .. Len(contexts') /\ retrys' \in Nat
    BY <1>1, <1>4, <1>5
  <2> QED
    BY <1>4, <1>5, <2>1, Zenon DEF StepFailsRetry, TypeOK, Statuses
<1>7. DOMAIN contexts' = 1 .. n + 1
  BY <1>4
<1>8. NoContextLeft'
  BY <1>1, <1>2, <1>4, <1>7 DEF NoContextLeft
<1>9. StatusMatchesContext' /\ AttemptsBounded' /\ NewestInv' /\ CountInv'
  BY <1>1, <1>4, <1>5 DEF StepFailsRetry, StatusMatchesContext, AttemptsBounded, NewestInv, CountInv
<1>10. PlaceInv'
  BY <1>1, <1>5 DEF StepFailsRetry, PlaceInv
<1>11. StreamBeginsWithSps' /\ GateInv'
  BY <1>5, Zenon DEF StepFailsRetry, StreamBeginsWithSps, GateInv
<1> QED
  BY <1>6, <1>8, <1>9, <1>10, <1>11

(* CallDisconnect without a retry left, and the destructor: nothing is     *)
(* left allocated and rtmp_ is nullptr.                                    *)
LEMMA LastKeeps == IInv /\ StepFailsLast => IInv'
<1> SUFFICES ASSUME IInv, StepFailsLast PROVE IInv'
  OBVIOUS
<1> USE CameraPushAssumption DEF IInv
<1>1. pc = "loop" /\ status' = "Init" /\ needKey' = TRUE /\ rtmp' = 0 /\ retrys' = retrys + 1
  BY DEF StepFailsLast, Working, Reset
<1>2. /\ contexts' \in Seq(Context) /\ Len(contexts') = Len(contexts)
      /\ \A i \in 1 .. Len(contexts) : ~contexts'[i].live
  BY DestroyedEffect DEF StepFailsLast
<1>3. TypeOK'
  <2>1. rtmp' \in 0 .. Len(contexts') /\ retrys' \in Nat
    BY <1>1, <1>2 DEF TypeOK
  <2> QED
    BY <1>1, <1>2, <2>1, Zenon DEF StepFailsLast, TypeOK, Statuses
<1>4. StatusMatchesContext' /\ NoContextLeft' /\ AttemptsBounded' /\ NewestInv' /\ CountInv'
  BY <1>1, <1>2 DEF StepFailsLast, StatusMatchesContext, NoContextLeft, AttemptsBounded, NewestInv, CountInv
<1>5. PlaceInv'
  BY <1>1 DEF StepFailsLast, PlaceInv
<1>6. StreamBeginsWithSps' /\ GateInv'
  BY <1>1, Zenon DEF StepFailsLast, StreamBeginsWithSps, GateInv
<1> QED
  BY <1>3, <1>4, <1>5, <1>6

(* The destructor frees the context in use. *)
LEMMA DestructorKeeps == IInv /\ Destructor => IInv'
<1> SUFFICES ASSUME IInv, Destructor PROVE IInv'
  OBVIOUS
<1> USE CameraPushAssumption DEF IInv
<1>1. pc' = "closed" /\ status' = "Closed" /\ rtmp' = 0
  BY DEF Destructor
<1>2. /\ contexts' \in Seq(Context) /\ Len(contexts') = Len(contexts)
      /\ \A i \in 1 .. Len(contexts) : ~contexts'[i].live
  BY DestroyedEffect DEF Destructor
<1>3. TypeOK'
  <2>1. rtmp' \in 0 .. Len(contexts')
    BY <1>1, <1>2
  <2> QED
    BY <1>1, <1>2, <2>1, Zenon DEF Destructor, TypeOK, Statuses
<1>4. StatusMatchesContext' /\ NoContextLeft' /\ AttemptsBounded' /\ NewestInv' /\ CountInv' /\ PlaceInv'
  BY <1>1, <1>2 DEF StatusMatchesContext, NoContextLeft, AttemptsBounded, NewestInv, CountInv, PlaceInv
<1>5. StreamBeginsWithSps' /\ GateInv'
  BY Zenon DEF Destructor, StreamBeginsWithSps, GateInv
<1> QED
  BY <1>3, <1>4, <1>5

(* A call of librtmp that succeeds takes status and context on together.   *)
LEMMA SucceedsKeeps == IInv /\ StepSucceeds => IInv'
<1> SUFFICES ASSUME IInv, StepSucceeds PROVE IInv'
  OBVIOUS
<1> USE CameraPushAssumption DEF IInv
<1>1. /\ pc = "loop" /\ pc' = "loop" /\ rtmp # 0 /\ rtmp' = rtmp
      /\ status \in {"Init", "Handshaked", "Connected"}
      /\ status' = Steps[status] /\ status' \in {"Handshaked", "Connected", "Published"}
  BY DEF StepSucceeds, Working, Steps
<1>2. rtmp \in 1 .. Len(contexts) /\ Len(contexts) \in Nat
  BY <1>1 DEF TypeOK
<1>3. contexts' = [contexts EXCEPT ![rtmp].step = status']
  BY <1>1 DEF StepSucceeds
<1>4. contexts[rtmp] \in Context /\ status' \in Statuses
  BY <1>1, <1>2 DEF TypeOK, Statuses
<1>5. [contexts[rtmp] EXCEPT !.step = status'] \in Context
      /\ [contexts[rtmp] EXCEPT !.step = status'].live = contexts[rtmp].live
      /\ [contexts[rtmp] EXCEPT !.step = status'].step = status'
  BY <1>4 DEF Context
<1>6. /\ contexts' \in Seq(Context) /\ Len(contexts') = Len(contexts)
      /\ contexts'[rtmp] = [contexts[rtmp] EXCEPT !.step = status']
      /\ \A i \in 1 .. Len(contexts) : i # rtmp => contexts'[i] = contexts[i]
  BY <1>2, <1>3, <1>5 DEF TypeOK
<1>7. retrys' \in Nat /\ needKey' \in BOOLEAN
      /\ (status' # "Published" => retrys' = retrys /\ needKey' = needKey)
      /\ (status' = "Published" => needKey' = TRUE)
  <2>1. status' = "Published" => needKey' = TRUE /\ retrys' = 0
    BY Zenon DEF StepSucceeds
  <2>2. status' # "Published" => retrys' = retrys /\ needKey' = needKey
    BY Zenon DEF StepSucceeds
  <2>3. 0 \in Nat
    OBVIOUS
  <2> QED
    BY <2>1, <2>2, <2>3, Zenon DEF TypeOK
<1>8. TypeOK'
  <2>1. rtmp' \in 0 .. Len(contexts')
    BY <1>1, <1>2, <1>6
  <2> QED
    BY <1>1, <1>4, <1>6, <1>7, <2>1, Zenon DEF StepSucceeds, TypeOK
<1>9. DOMAIN contexts' = 1 .. Len(contexts) /\ DOMAIN contexts = 1 .. Len(contexts)
  BY <1>6 DEF TypeOK
<1>10. NoContextLeft'
  BY <1>1, <1>6, <1>9 DEF NoContextLeft
<1>11. StatusMatchesContext'
  BY <1>1, <1>5, <1>6 DEF StatusMatchesContext
<1>12. AttemptsBounded' /\ NewestInv' /\ CountInv' /\ PlaceInv'
  BY <1>1, <1>6, <1>7 DEF AttemptsBounded, NewestInv, CountInv, PlaceInv
<1>13. StreamBeginsWithSps' /\ GateInv'
  <2>1. first' = first
    BY DEF StepSucceeds
  <2>2. needKey' \/ needKey' = needKey
    BY <1>7, Zenon
  <2> QED
    BY <2>1, <2>2, Zenon DEF StreamBeginsWithSps, GateInv
<1> QED
  BY <1>8, <1>10, <1>11, <1>12, <1>13

(* The first NAL unit written is an SPS: behind a closed gate nothing      *)
(* before an SPS is kept, and the gate is opened by one that is written.   *)
LEMMA FrameKeeps ==
  ASSUME NEW f \in Frames, IInv, ReceiveFrame(f)
  PROVE  IInv'
<1> USE CameraPushAssumption DEF IInv
<1>1. UNCHANGED <<wanted, pc, rtmp, status, retrys, contexts>>
  BY DEF ReceiveFrame
<1>2. StatusMatchesContext' /\ NoContextLeft' /\ AttemptsBounded' /\ NewestInv' /\ CountInv' /\ PlaceInv'
  BY <1>1 DEF StatusMatchesContext, NoContextLeft, AttemptsBounded, NewestInv, CountInv, PlaceInv
<1>3. needKey' \in BOOLEAN /\ dead' \in BOOLEAN /\ aliased' \in BOOLEAN
  BY Zenon DEF ReceiveFrame, TypeOK
<1>4. StreamBeginsWithSps' /\ GateInv'
  <2>1. CASE f = Garbage
    BY <2>1, Zenon DEF ReceiveFrame, StreamBeginsWithSps, GateInv
  <2>2. CASE f # Garbage
    <3>1. DOMAIN f \subseteq Int
      BY <2>2
    <3>2. /\ needKey' = (needKey /\ \A i \in DOMAIN f : f[i] # "sps")
          /\ IF first # "none" \/ Kept(f) = {}
             THEN UNCHANGED first
             ELSE \E i \in Kept(f) : /\ \A j \in Kept(f) : i <= j
                                     /\ first' = f[i]
      BY <2>2 DEF ReceiveFrame
    <3>3. CASE first # "none"
      BY <3>2, <3>3 DEF StreamBeginsWithSps, GateInv
    <3>4. CASE first = "none" /\ Kept(f) = {}
      <4>1. needKey
        BY <3>4 DEF GateInv
      <4>2. \A i \in DOMAIN f : f[i] # "sps"
        <5> SUFFICES ASSUME NEW i \in DOMAIN f, f[i] = "sps" PROVE FALSE
          OBVIOUS
        <5>1. f \in Seq(Nal)
          BY <2>2
        <5>2. i \in 1 .. i
          BY <5>1
        <5>3. i \in Kept(f)
          BY <5>2 DEF Kept
        <5> QED
          BY <5>3, <3>4
      <4> QED
        BY <3>2, <3>4, <4>1, <4>2 DEF StreamBeginsWithSps, GateInv
    <3>5. CASE first = "none" /\ Kept(f) # {}
      <4>1. needKey
        BY <3>5 DEF GateInv
      <4>2. PICK i \in Kept(f) : /\ \A j \in Kept(f) : i <= j
                                /\ first' = f[i]
        BY <3>2, <3>5
      <4>3. PICK j \in 1 .. i : f[j] = "sps"
        BY <4>1, <4>2 DEF Kept
      <4>4. f \in Seq(Nal) /\ i \in DOMAIN f
        BY <2>2, <4>2 DEF Kept
      <4>5. j \in DOMAIN f /\ j \in 1 .. j /\ i \in Int
        BY <4>3, <4>4
      <4>6. j \in Kept(f)
        BY <4>3, <4>5 DEF Kept
      <4>7. i = j
        BY <4>2, <4>3, <4>5, <4>6
      <4> QED
        BY <4>2, <4>3, <4>7 DEF StreamBeginsWithSps, GateInv
    <3> QED
      BY <3>3, <3>4, <3>5
  <2> QED
    BY <2>1, <2>2
<1>5. first' \in Nal \cup {"none"}
  BY <1>4 DEF StreamBeginsWithSps, Nal
<1>6. TypeOK'
  BY <1>1, <1>3, <1>5, Zenon DEF TypeOK
<1> QED
  BY <1>2, <1>4, <1>6
-----------------------------------------------------------------------------
(* The steps that leave the connection alone. *)
LEMMA OtherKeeps ==
  ASSUME IInv,
         \/ SpinForGood \/ LeaveLoop \/ OpenSession \/ PollFails
         \/ EndReceive \/ Unwanted \/ UNCHANGED vars
  PROVE  IInv'
<1> USE DEF IInv
<1>1. UNCHANGED <<rtmp, status, retrys, needKey, contexts, first>>
  BY DEF SpinForGood, LeaveLoop, OpenSession, PollFails, EndReceive, Unwanted, vars
<1>2. StatusMatchesContext' /\ NoContextLeft' /\ AttemptsBounded' /\ NewestInv'
      /\ StreamBeginsWithSps' /\ GateInv'
  BY <1>1 DEF StatusMatchesContext, NoContextLeft, AttemptsBounded, NewestInv,
     StreamBeginsWithSps, GateInv
<1>3. CountInv' /\ PlaceInv'
  BY <1>1 DEF SpinForGood, LeaveLoop, OpenSession, PollFails, EndReceive, Unwanted, vars,
     Working, CountInv, PlaceInv
<1>4. /\ wanted' \in BOOLEAN /\ aliased' \in BOOLEAN /\ dead' \in BOOLEAN
      /\ pc' \in {"start", "loop", "spin", "receive", "return", "closed"}
  BY Zenon DEF SpinForGood, LeaveLoop, OpenSession, PollFails, EndReceive, Unwanted, vars, TypeOK
<1>5. TypeOK'
  BY <1>1, <1>4, Zenon DEF TypeOK
<1> QED
  BY <1>2, <1>3, <1>5

(* Every step keeps the invariant. *)
LEMMA IInvNext == IInv /\ [Next]_vars => IInv'
<1> SUFFICES ASSUME IInv, [Next]_vars PROVE IInv'
  OBVIOUS
<1>1. CASE Start
  BY <1>1, StartKeeps
<1>2. CASE StepSucceeds
  BY <1>2, SucceedsKeeps
<1>3. CASE StepFailsRetry
  BY <1>3, RetryKeeps
<1>4. CASE StepFailsLast
  BY <1>4, LastKeeps
<1>5. CASE Destructor
  BY <1>5, DestructorKeeps
<1>6. ASSUME NEW f \in Frames, ReceiveFrame(f) PROVE IInv'
  BY <1>6, FrameKeeps
<1>7. CASE \/ SpinForGood \/ LeaveLoop \/ OpenSession \/ PollFails
           \/ EndReceive \/ Unwanted \/ UNCHANGED vars
  BY <1>7, OtherKeeps
<1> QED
  BY <1>1, <1>2, <1>3, <1>4, <1>5, <1>6, <1>7 DEF Next, ThreadStep

(* So it always holds. *)
LEMMA IInvHolds == Spec => []IInv
  BY IInvInit, IInvNext, PTL DEF Spec

(* The variables of the push thread keep to their types. *)
THEOREM PushTypeCorrect == Spec => []TypeOK
<1>1. IInv => TypeOK
  BY DEF IInv
<1> QED
  BY <1>1, IInvHolds, PTL

(* rtmp_status_ tells how far the context in rtmp_ has got, and that       *)
(* context is allocated, however many of its calls fail.                   *)
THEOREM StatusMatchesContextHolds == Spec => []StatusMatchesContext
<1>1. IInv => StatusMatchesContext
  BY DEF IInv
<1> QED
  BY <1>1, IInvHolds, PTL

(* No context is lost from sight before it is destroyed. *)
THEOREM NoContextLeftHolds == Spec => []NoContextLeft
<1>1. IInv => NoContextLeft
  BY DEF IInv
<1> QED
  BY <1>1, IInvHolds, PTL

(* MAX_RETRY_TIME bounds the retries, whatever its value. *)
THEOREM AttemptsBoundedHolds == Spec => []AttemptsBounded
<1>1. IInv => AttemptsBounded
  BY DEF IInv
<1> QED
  BY <1>1, IInvHolds, PTL

(* Whatever frames arrive, the stream begins with an SPS. *)
THEOREM StreamBeginsWithSpsHolds == Spec => []StreamBeginsWithSps
<1>1. IInv => StreamBeginsWithSps
  BY DEF IInv
<1> QED
  BY <1>1, IInvHolds, PTL

-----------------------------------------------------------------------------
(* Each step of the push thread is one PushContract allows, or shows       *)
(* nothing of itself: the safety half of ImplementsContract.               *)
LEMMA StepRefines == IInv /\ IInv' /\ [Next]_vars => [PC!PCNext]_(PC!pcVars)
<1> SUFFICES ASSUME IInv, IInv', [Next]_vars PROVE [PC!PCNext]_(PC!pcVars)
  OBVIOUS
<1> USE CameraPushAssumption DEF IInv, Phase
<1> DEFINE n == Len(contexts)
<1>0. n \in Nat
  BY DEF TypeOK
<1>1. CASE Start
  <2>1. Phase = "connecting" /\ n = 0 /\ status # "Published"
    BY <1>1 DEF Start, CountInv
  <2>2. Len(contexts') = 1
    <3>1. contexts \in Seq(Context) /\ Create(contexts, "literal")
      BY <1>1 DEF Start, TypeOK
    <3>2. Len(contexts') = Len(contexts) + 1
      BY <3>1, CreateEffect
    <3> QED
      BY <2>1, <3>2
  <2>3. Phase' \in {"connecting", "gaveUp"}
    BY <1>1, <2>1 DEF Start
  <2> QED
    BY <2>1, <2>2, <2>3 DEF PC!PCNext, PC!Try
<1>2. CASE StepSucceeds
  <2>1. /\ pc = "loop" /\ pc' = "loop" /\ rtmp # 0 /\ rtmp' = rtmp
        /\ status \in {"Init", "Handshaked", "Connected"}
        /\ contexts' = [contexts EXCEPT ![rtmp].step = status']
    BY <1>2 DEF StepSucceeds, Working, Steps
  <2>2. Len(contexts') = n
    BY <2>1 DEF TypeOK
  <2>3. Phase = "connecting" /\ Phase' \in {"connecting", "publishing"}
    BY <2>1
  <2> QED
    BY <2>2, <2>3 DEF PC!PCNext, PC!Publish, PC!pcVars
<1>3. CASE StepFailsRetry
  <2>1. /\ pc = "loop" /\ pc' = "loop" /\ rtmp # 0
        /\ status \in {"Init", "Handshaked", "Connected"} /\ status' = "Init"
        /\ Create(Destroyed, "StreamIp")
        /\ n <= MAX_RETRY_TIME
    BY <1>3 DEF StepFailsRetry, Working, Steps, Reset, RetryLeft, CountInv
  <2>2. Len(contexts') = n + 1
    BY <2>1, DestroyedEffect, CreateEffect
  <2>3. Phase = "connecting" /\ Phase' \in {"connecting", "gaveUp"}
    BY <2>1
  <2> QED
    BY <1>0, <2>1, <2>2, <2>3 DEF PC!PCNext, PC!Try
<1>4. CASE StepFailsLast
  <2>1. /\ pc = "loop" /\ pc' = "loop" /\ rtmp # 0 /\ rtmp' = 0
        /\ status \in {"Init", "Handshaked", "Connected"} /\ status' = "Init"
        /\ contexts' = Destroyed
    BY <1>4 DEF StepFailsLast, Working, Steps, Reset
  <2>2. Len(contexts') = n
    BY <2>1, DestroyedEffect
  <2>3. Phase = "connecting" /\ Phase' = "gaveUp"
    BY <2>1
  <2> QED
    BY <2>2, <2>3 DEF PC!PCNext, PC!GiveUp
<1>5. CASE Destructor
  <2>1. contexts' = Destroyed /\ Phase # "ended" /\ Phase' = "ended"
    BY <1>5 DEF Destructor, PlaceInv
  <2>2. Len(contexts') = n
    BY <2>1, DestroyedEffect
  <2> QED
    BY <2>1, <2>2 DEF PC!PCNext, PC!End
<1>6. ASSUME NEW f \in Frames, ReceiveFrame(f)
      PROVE  UNCHANGED PC!pcVars
  BY <1>6 DEF ReceiveFrame, PC!pcVars
<1>7. CASE \/ SpinForGood \/ LeaveLoop \/ OpenSession \/ PollFails
           \/ EndReceive \/ Unwanted \/ UNCHANGED vars
  <2>1. UNCHANGED <<rtmp, status, contexts>>
    BY <1>7 DEF SpinForGood, LeaveLoop, OpenSession, PollFails, EndReceive, Unwanted, vars
  <2>2. pc' = pc \/ {pc, pc'} \cap {"start", "closed"} = {}
    BY <1>7 DEF SpinForGood, LeaveLoop, OpenSession, PollFails, EndReceive, Unwanted, vars, Working
  <2>3. Phase' = Phase
    BY <2>1, <2>2
  <2> QED
    BY <2>1, <2>3 DEF PC!pcVars
<1> QED
  BY <1>1, <1>2, <1>3, <1>4, <1>5, <1>6, <1>7 DEF Next, ThreadStep

(* The push thread tries at most MAX_RETRY_TIME + 1 times, and once it     *)
(* publishes or has given up it never goes back to connecting.             *)
THEOREM KeepsContract == Spec => PC!PCInit /\ [][PC!PCNext]_(PC!pcVars)
<1>1. Init => PC!PCInit
  BY DEF Init, PC!PCInit, Phase
<1> QED
  BY <1>1, IInvHolds, StepRefines, PTL DEF Spec

-----------------------------------------------------------------------------
(* Before and after the receive loop no buffer has been taken apart, or    *)
(* the thread is through: it then leaves the loop around it as well, and   *)
(* the camera is not wanted any more.                                      *)
ViewInv ==
  /\ aliased = TRUE => pc \in {"receive", "return", "closed"}
  /\ pc \in {"return", "closed"} => wanted = FALSE

(* A frame is only ever taken apart with a context. *)
LEMMA ViewInvHolds == Spec => []ViewInv
<1>1. Init => ViewInv
  BY DEF Init, ViewInv
<1>2. IInv /\ ViewInv /\ [Next]_vars => ViewInv'
  <2> SUFFICES ASSUME IInv, ViewInv, [Next]_vars PROVE ViewInv'
    OBVIOUS
  <2> USE DEF ViewInv
  <2>0. wanted \in BOOLEAN /\ aliased \in BOOLEAN
    BY DEF IInv, TypeOK
  <2>1. CASE Start
    BY <2>1 DEF Start, IInv, CountInv
  <2>2. CASE StepSucceeds
    BY <2>2 DEF StepSucceeds, Working, Steps
  <2>3. CASE StepFailsRetry \/ StepFailsLast
    BY <2>3 DEF StepFailsRetry, StepFailsLast, Working, Steps, Reset
  <2>4. CASE Destructor
    BY <2>4 DEF Destructor
  <2>5. ASSUME NEW f \in Frames, ReceiveFrame(f) PROVE ViewInv'
    BY <2>5 DEF ReceiveFrame, IInv, PlaceInv
  <2>6. CASE LeaveLoop \/ EndReceive
    BY <2>0, <2>6 DEF LeaveLoop, EndReceive, KeepReceiving
  <2>7. CASE SpinForGood \/ OpenSession
    BY <2>0, <2>7 DEF SpinForGood, OpenSession, Working
  <2>8. CASE PollFails \/ Unwanted \/ UNCHANGED vars
    BY <2>8 DEF PollFails, Unwanted, vars
  <2> QED
    BY <2>1, <2>2, <2>3, <2>4, <2>5, <2>6, <2>7, <2>8 DEF Next, ThreadStep
<1> QED
  BY <1>1, <1>2, IInvHolds, PTL DEF Spec

(* Each step of the push thread is one that PushThread allows. *)
LEMMA StepIsPushThreads ==
  IInv /\ ViewInv /\ [Next]_vars => [PT!PTNext]_(PT!ptVars)
<1> SUFFICES ASSUME IInv, ViewInv, Next PROVE [PT!PTNext]_(PT!ptVars)
  BY DEF vars, PT!ptVars, Thread
<1>0. /\ wanted \in BOOLEAN /\ aliased \in BOOLEAN /\ dead \in BOOLEAN
      /\ dead = FALSE
  BY DEF IInv, TypeOK, Next
<1> USE DEF Thread, PT!ptVars
<1>1. CASE Start
  <2>1. /\ pc = "start" /\ pc' = "loop" /\ status = "Init" /\ status' = "Init"
        /\ UNCHANGED <<wanted, aliased, dead>>
    BY <1>1 DEF Start, IInv, CountInv
  <2>2. Thread = "connecting" /\ Thread' \in {"connecting", "spinning"}
    BY <2>1
  <2> QED
    BY <1>0, <2>1, <2>2 DEF PT!PTNext, PT!GiveUp
<1>2. CASE StepSucceeds
  <2>1. /\ pc = "loop" /\ rtmp # 0 /\ status # "Published"
        /\ UNCHANGED <<wanted, pc, rtmp, aliased, dead>>
    BY <1>2 DEF StepSucceeds, Working, Steps
  <2>2. Thread = "connecting" /\ Thread' \in {"connecting", "publishing"}
    BY <2>1
  <2> QED
    BY <1>0, <2>1, <2>2 DEF PT!PTNext, PT!Publish
<1>3. CASE StepFailsRetry \/ StepFailsLast
  <2>1. /\ pc = "loop" /\ pc' = "loop" /\ rtmp # 0
        /\ status \in {"Init", "Handshaked", "Connected"} /\ status' = "Init"
        /\ UNCHANGED <<wanted, aliased, dead>>
    BY <1>3 DEF StepFailsRetry, StepFailsLast, Working, Steps, Reset
  <2>2. Thread = "connecting" /\ Thread' \in {"connecting", "spinning"}
    BY <2>1
  <2> QED
    BY <1>0, <2>1, <2>2 DEF PT!PTNext, PT!GiveUp
<1>4. CASE Destructor
  <2>1. /\ pc = "return" /\ pc' = "closed"
        /\ UNCHANGED <<wanted, aliased, dead>>
    BY <1>4 DEF Destructor
  <2> QED
    BY <2>1
<1>5. ASSUME NEW f \in Frames, ReceiveFrame(f) PROVE [PT!PTNext]_(PT!ptVars)
  <2>1. /\ pc = "receive" /\ rtmp # 0 /\ status = "Published" /\ aliased' = TRUE
        /\ UNCHANGED <<wanted, pc, rtmp, status>>
        /\ dead' \in BOOLEAN
    BY <1>0, <1>5 DEF ReceiveFrame, IInv, PlaceInv
  <2>2. Thread = "publishing" /\ Thread' = Thread
    BY <2>1
  <2> QED
    BY <1>0, <2>1, <2>2 DEF PT!PTNext, PT!Work
<1>6. CASE EndReceive
  <2>1. /\ pc = "receive" /\ pc' = "return" /\ rtmp # 0 /\ status = "Published"
        /\ wanted = FALSE
        /\ dead' \in (IF aliased THEN BOOLEAN ELSE {FALSE})
        /\ UNCHANGED <<wanted, aliased>>
    BY <1>0, <1>6 DEF EndReceive, KeepReceiving, IInv, PlaceInv
  <2>2. Thread = "publishing" /\ Thread' = "ended"
    BY <2>1
  <2>3. dead' = FALSE \/ (aliased = TRUE /\ dead' = TRUE)
    BY <1>0, <2>1
  <2> QED
    BY <1>0, <2>1, <2>2, <2>3 DEF PT!PTNext, PT!Stop
<1>7. CASE LeaveLoop
  <2>1. /\ pc = "loop" /\ pc' = "return" /\ wanted = FALSE
        /\ UNCHANGED <<wanted, rtmp, aliased, dead>>
    BY <1>0, <1>7 DEF LeaveLoop
  <2>2. Thread \in {"connecting", "publishing", "spinning"} /\ Thread' = "ended"
    BY <2>1
  <2> QED
    BY <1>0, <2>1, <2>2 DEF PT!PTNext, PT!Stop
<1>8. CASE OpenSession
  <2>1. /\ pc = "loop" /\ rtmp # 0 /\ status = "Published"
        /\ UNCHANGED <<wanted, rtmp, status>>
        /\ \/ pc' = "receive" /\ aliased' = FALSE /\ dead' = dead
           \/ dead' = TRUE /\ UNCHANGED <<pc, aliased>>
    BY <1>0, <1>8 DEF OpenSession, Working
  <2>2. aliased = FALSE
    BY <1>0, <2>1 DEF ViewInv
  <2>3. Thread = "publishing" /\ Thread' = Thread
    BY <2>1
  <2> QED
    BY <1>0, <2>1, <2>2, <2>3 DEF PT!PTNext, PT!Fail
<1>9. CASE PollFails
  <2>1. /\ pc = "receive" /\ rtmp # 0 /\ status = "Published"
        /\ dead' = TRUE /\ UNCHANGED <<wanted, pc, rtmp, status, aliased>>
    BY <1>9 DEF PollFails, IInv, PlaceInv
  <2> QED
    BY <1>0, <2>1 DEF PT!PTNext, PT!Fail
<1>10. CASE Unwanted
  <2>1. /\ wanted = TRUE /\ wanted' = FALSE
        /\ UNCHANGED <<pc, rtmp, status, aliased, dead>>
    BY <1>0, <1>10 DEF Unwanted
  <2> QED
    BY <1>0, <2>1 DEF PT!PTNext, PT!Wish
<1>11. CASE SpinForGood
  <2>1. /\ pc = "loop" /\ pc' = "spin" /\ rtmp = 0
        /\ UNCHANGED <<wanted, rtmp, aliased, dead>>
    BY <1>11 DEF SpinForGood
  <2> QED
    BY <2>1
<1> QED
  BY <1>1, <1>2, <1>3, <1>4, <1>5, <1>6, <1>7, <1>8, <1>9, <1>10, <1>11 DEF Next, ThreadStep

(* The push thread is one of those LiveServer puts in its place, for every *)
(* number of retries and every set of frames: what LiveServer shows of the *)
(* whole server is true of the server with the detailed thread in it.      *)
THEOREM StaysPushThread == Spec => PT!PTInit /\ [][PT!PTNext]_(PT!ptVars)
<1>1. Init => PT!PTInit
  BY DEF Init, PT!PTInit, Thread
<1> QED
  BY <1>1, IInvHolds, ViewInvHolds, StepIsPushThreads, PTL DEF Spec
=============================================================================
