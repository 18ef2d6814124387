# Verification of the GB28181 server

TLA+ modules, TLC runs and TLAPS proofs for the SIP server and RTMP pusher of this repository.
Paths below are relative to the repository; `gb28281_demo.cpp`, `execute.cpp`, `device.cpp`,
`srs_push.cpp`, `rtp.cpp` are in `src/`, headers in `include/`.

## The system

The server accepts GB28181 cameras over SIP, forwards the queries of SIP clients to cameras and
the answers back, invites each registered camera to send its video once, and pushes that video
(H.264 in PS in RTP) to an RTMP server. Three kinds of threads share one table of cameras:

    main ------ reads alive, registered, played, pushed; writes played, pushed
      | starts                                (never takes the mutex)
      v
    push thread per camera -- reads alive, played; writes none
    SIP thread -- reads and writes alive, registered, played
                  (each pair of writes under CameraParamList::mutex_)

| Component | State | Operations | Correct when |
|---|---|---|---|
| Camera table (`demo.h:75-143`, `ReadCfg`, `FindSipIndex`) | per camera `alive`, `registered`, `played`, `pushed`; a mutex | filled once; looked up by sipid | flags agree with what was sent and received; a duplicate sipid is inert |
| Client query book (`device.cpp`) | nested vectors: client, camera, request | `AddClientReq`, `DelClientReq` | a query stays until answered, no duplicates, nobody who waits is left out |
| SIP thread (`MsgProcess`) | the event in hand | REGISTER, BYE, MESSAGE (Query, Response, Notify, Control, EasyControl), call events | requests are answered, flags follow the camera |
| Main thread (`execute.cpp`, `Send_Invite_Play`) | loop index | 5 s after start one invite pass; then a watch pass each second | one try to invite, one push thread per camera, no camera forgotten |
| Push thread (`srs_push.cpp`) | `rtmp_`, `rtmp_status_`, `retrys_`, `need_keyframe_` | handshake, connect, publish, retry, receive, destroy | bounded retries, no leaked or mismatched context, stream begins with an SPS, ends with its camera |
| RTP reassembly (`OnH264Data`) | `FrameVector`, one queue per source in jrtplib | packet in, frame out | a frame is the concatenation of its packets; a fault of the network spoils few frames and makes no copy longer than its share |
| PS demultiplexer (`rtp.h`, `parse_time_stamp`) | one 150 KB buffer, in which it works in place | `GetH246FromPs`, `read_h264_frame` | yields the payloads of the video PES packets, whatever was in the buffer before |
| H.264 packaging (`srs_librtmp.cpp`) | SPS, PPS and "changed" flags in the context | `srs_h264_write_raw_frames` | a frame is lost in a failing write only, and goes out under the parameter sets in force |
| Encoded queue, FFmpeg push, direct RTP push, catalog/status/info senders | a list, a flag | dead code today | - |
| PTZ (`PTZ.cpp`, `PtzCmd_Build`) | none | command encoding | byte layout and checksum |

What is hard here: main tests flags without the mutex the SIP thread writes them under, acts,
and writes a flag of its own afterwards (`execute.cpp:89-93`, `gb28281_demo.cpp:561-564`); two
flags are written one after the other; push threads are stopped by polling only; contexts of
librtmp are replaced on every failure while the status lives elsewhere; queries can be repeated,
answered twice, under another name, or never; messages the server sends may be refused without
its noticing, and writes to the RTMP server may fail or stop half way; and the process can die
under every thread (`checkerror`, asserts, null pointers, a buffer overrun or deleted twice).
Nothing is persisted, so there is no recovery to verify. On the way of the video UDP loses,
delays and repeats packets and lets other senders in, the receive loop asks for none of this,
and a frame is taken apart in the buffer it lies in, by the lengths its own headers claim.
`PROJECT.json` lists each hazard with its line.

## Modules

| Module | Models |
|---|---|
| `CameraTable` | flags, mutex, `ReadCfg`, `FindSipIndex`; ghosts `invites` (INVITEs the SIP stack took) and `down` (process dead) |
| `ClientList` | the methods of `device.cpp` as functions on sequences, their asserts as predicates; the recorded set `PendingIn` |
| `PendingQueries` | abstract: the set of pending queries, and who must be told of an answer |
| `SipServer` | `MsgProcess`, `Msg_is_message_fun`, `RegisterSuccess` and the rest of the handlers |
| `MainThread` | `Send_Invite_Play` and the watch loop |
| `LiveServer` | the composition: SIP thread, main thread and push threads on one table |
| `CameraPush` | one push thread in detail: `Run`, `push_stream_srs`, `CallConnect`, `CallDisconnect`, `OnH264Data`, the destructor |
| `PushContract` | abstract: a bounded number of tries, then publish or give up, and no way back |
| `PushThread` | abstract, between `LiveServer` and `CameraPush`: a push thread as the rest of the server and its camera know it |
| `RtpReassembly` | the receive loop of `OnH264Data` from packets to complete frames, with the network and the queues of jrtplib |
| `PsFormat` | bytes, headers and elements of a program stream, the sizes of the structs; what a frame is as cameras make it (`AsMade`) |
| `PsDemux` | `GetH246FromPs` with `Pes`, `ProgramStreamMap`, `ProgramStreamPackHeader`, in the frame buffer |
| `H264Writer` | the SPS gate of `OnH264Data`; SPS, PPS and flags of the librtmp context behind `srs_h264_write_raw_frames` |
| `MediaPath` | the composition: frame into the buffer, `PsDemux`, `read_h264_frame`, `H264Writer` |
| `SipClaims`, `LiveClaims`, `MediaClaims` | sentences of the docs and comments the code does not keep |
| `MCLiveServer`, `MCQueries`, `MCCameraPush`, `MCRtpReassembly`, `MCMediaPath` | instances for TLC |
| `ClientListProofs`, `LiveServerProofs`, `LiveServerSafetyProofs`, `ClientBookProofs`, `SipServerProofs`, `CameraPushProofs`, `RtpReassemblyProofs`, `MediaPathProofs` | proofs |

How variables and steps correspond to the code:

- Each write to a flag is a step. Where main or a push thread tests several flags, one step
  stands for the test. That is sound because of who writes what: between two reads of one test
  the SIP thread can lower `alive` or `played` or raise `alive` or `registered`, but only main
  raises `played` or writes `pushed`. `WantsPush`, if true, was true when `alive` was read, and
  if false, when the flag that made it so was read; the invite test holds or fails where
  `played` is read, since `registered` never falls. Test and thread start are separate steps
  (`WatchFound`, `Spawn`), and so are INVITE and `played = 1` (`InviteNext`, `MarkPlayed`).
- `InviteNext` counts a try; the SIP stack may take the INVITE (`invites`) or not, and where it
  cannot be built (`gb28281_demo.cpp:580-583` prints that and goes on with a null message) the
  process may end. `MarkPlayed` follows in each case.
- Lock and unlock of the camera mutex are merged with the write next to them: only the SIP
  thread ever takes it. `camMutex` is kept because a property speaks of it.
- The client list belongs to the SIP thread alone; all a handler does to it is one step, and so
  is the loop of `Msg_Forward` that follows.
- `sent` collects what one handler gives the SIP stack, and `refused` what the stack could not
  build or did not take; `Hand` lets it refuse any message, since the code asks for no result.
  Bodies are abstracted to root element, CmdType and DeviceID, addresses to one value; `lacks`
  says which parts of the From URL are missing, each of which the code turns into a
  `std::string` without a test. `Done` forgets the event, so that states between two events
  differ by what the server keeps only.
- The SIP stack is external. `Receive` takes any event of `PeerEvents`, in any order, any number
  of times; an event of a call needs an INVITE sent to its camera. A BYE outside any dialog
  arrives as `EXOSIP_MESSAGE_NEW`, one within the call as `EXOSIP_CALL_CLOSED`. The request of
  `EXOSIP_CALL_PROCEEDING` is the server's own INVITE, so the name `RegisterSuccess` finds in it
  is the server's.
- `NDEBUG` says whether asserts are compiled in; with them a false assert ends the process.
- In `LiveServer` a push thread is what the rest of the server can see of it: connecting,
  publishing, spinning without a context, having worked on a frame, to blame for the end of the
  process. `CameraPush` has the rest, with `played` and `alive` joined in one flag that can only
  fall: for a camera that has its thread nothing sets `played` again, because the invite pass is
  over. Test and call of `push_stream_srs` are one step in `CameraPush`: no other thread touches
  what a call uses, and a flag that falls between the two is one that falls during the call.
  `EndReceive` leaves both loops, since the outer one asks for the same two flags, which stay
  down.
- Librtmp contexts are numbered by creation; each records how far it got and whether it is still
  allocated. A context that could not be created is an entry too.
- A frame in `CameraPush` is the sequence of its NAL unit types, or `Garbage`, a payload without
  a start code, for which `OnH264Data` reads a null pointer.
- `PushThread` ties the two views of a push thread together. `LiveServer` is checked to run
  threads like it only (`ThreadsAsPromised`), and `CameraPush` to be such a thread
  (`IsPushThread`). Each relies on the other: the thread on `played && alive` not coming up
  again once it was seen down, the server on the thread ending then and on its ending the
  process in three places only: where a frame is taken apart (`Work`), where `checkerror` stands
  (`Fail`) and where it frees the buffer of a frame twice (`Stop`, after a frame and once the
  flags are down).
- `RtpReassembly`: jrtplib keeps one queue for each source, in the order of the sequence numbers
  and without repetitions, and nothing is added to it between `BeginDataAccess` and
  `EndDataAccess`; a packet that comes after its successors were taken is taken later. One
  packet carries one unit of payload, so that `BufSize` is in packets. `overrun` is a ghost:
  that the copying went past the end of the buffer; nothing is said of the process from then on.
  A frame that fits may end the process as well (`TakeApart`); `MediaPath` says which. Frames
  may be longer than the buffer. Packets of type 96 from a stranger count as faults, others are
  skipped and are free. jrtplib's probation of a new source is left out: the model lets a single
  stray packet through, which the library may hold back.
- `PsDemux`: the buffer is a function from offsets to cells. A cell says what the code could
  read there: the first byte of a header (with the fields the code takes from it), a byte inside
  one, or a byte of a NAL unit. Two structs lie about their size as in the source:
  `program_stream_e` is padded to 10 bytes. The frame buffer and `returnps` are one, hence what
  the last frame left is still there behind a shorter one. The comparisons with `sizeof` are
  unsigned. A `memcpy` from the null pointer ends the process; one between overlapping ranges
  (`rtp.h:211`, undefined) keeps the bytes, as one that copies upwards does when it moves them
  down. `parts` of a frame is a ghost: where its elements begin and how much video lies before
  each. `goesOn` is another: that the scan goes on behind the frame (`claim_tail`) to something
  an earlier frame left. It is set as the frame comes in, since payloads moved to the front may
  overwrite what was left. A third is `outside`: that a frame did not fit, or that a turn of the
  loop looks at (`Touched`) or copies something behind the buffer. What lies there is unknown,
  so the model ends with that.
- `H264Writer`: a NAL unit is its type and bytes; a sequence header is the pair of parameter
  sets it was made of. A message to the server is sent, or lost, or sent in part (`Outcomes`): a
  send timeout (`SO_SNDTIMEO`, 30 s) returns an error and leaves the socket open, so that the
  next one may get through; a short `writev` counts as success, and after it (`torn`) the server
  can read nothing more. A header that is lost is lost for good: its flags are down already and
  nobody looks at the error, so later frames come under the older header (`stale`), until the
  parameters change again. Assertions of librtmp are those of a build that has them.
- `MediaPath` takes any frame of `Frames`; what of a camera's frame can be missing is what
  `RtpReassembly` may leave of it (its value 0 in `out`): packets gone, or two frames joined.
- Undefined behaviour is a choice: the heap may or may not survive the second `delete[]`; a loop
  on plain flags may or may not read them again.

## Runs

| Run | Shows |
|---|---|
| `live` | 3 entries, 2 names (`cam1` twice), 7 events, of which `cam2` sends its REGISTER. Types; one push thread per camera; pushed or marked only after one try to invite; on line implies registered outside the critical sections; the duplicate entry never takes part; a thread whose camera left ends; a camera found on line and playing gets its thread; every thread is used, and ends the process, as `PushThread` says |
| `queries_book` | 2 clients, 2 cameras, 2 requests, 2 addresses. The vectors hold no duplicates and implement `PendingQueries` |
| `queries_mixed` | every root element and method, From headers without user name or port, a stack that refuses messages, asserts compiled in. Each finished REGISTER or MESSAGE was answered, unless its DeviceID is unknown or the stack refused; only an odd request ends the process |
| `camera_push` | 3 retries, frames of 6 shapes. Status and context agree, no context leaks, attempts are bounded, the stream begins with an SPS, `PushContract` and `PushThread` are implemented, the thread ends with its video |
| `rtp_frames` | 4 frames of 1, 2, 1 and 3 packets in a buffer of 2, 2 faults (loss, delay, copy, stray packet). As long as the process lives a loss spoils one frame, a lost marker two, a late packet at most three; the rest come out whole, in order, and none waits for ever; what is copied in one go is one frame, and what lost or late markers, copies and strangers add to it |
| `media_path` | 3 of 19 frames, 8 of them damaged and 2 whole but too long, in a buffer of 130 cells. What comes out of a whole frame is its video, in spite of what earlier frames left; the moving never overtakes the reading; the process survives whole frames, but for those that are too long, that the scan goes on behind, or that find an SPS cut short in librtmp; a frame is lost in a failing write only, and reaches the server under the parameter sets last given unless their header was lost |
| `claim_bye_in_call` | counterexample to `demo.h:79`: a BYE within the call leaves the camera on line |
| `claim_stop` | counterexample: one camera leaving may end the process (double delete) |
| `claim_askers` | counterexample to `gb28281_demo.cpp:164,238`: clients that asked nothing get the answer |
| `claim_easycontrol` | counterexample to `gb28281_demo.cpp:152-157`: the Control branch takes EasyControl |
| `claim_header` | counterexample to `srs_librtmp.cpp:33442`: a sequence header whose write failed is not sent again |
| `claim_tail` | counterexample to `rtp.h:247`: it is not the stream that has 14 unknown bytes at its end; the code looks 14 bytes behind it |

Deadlock is not checked: the process may die, and a push thread ends.

Bounds. Cameras never touch each other's flags, so two names show all interference there is
(main's loop order, the single SIP thread), and the second entry with a name used before shows
what lookup by name does to it. Each query run has two clients and two cameras because
`DelClientReq` loops over clients and `DelReq` picks a camera; two requests for one camera make
a vector of two. Events repeat without bound, and no counter is capped: the state spaces are
finite by themselves (`threads`, `tries` and `invites` because of the properties checked, `contexts`
because of the retries). In `live` `cam2` registers and does nothing else: its thread is the one
that may end the process under `cam1`'s; its other events differ from `cam1`'s by name only.
`MAX_RETRY_TIME` is the constant of the source.

`rtp_frames`: a fault can reach into the frames next to it only, since a marker that arrives
empties `FrameVector`; the worst case, a late packet, touches three (its own and, coming in
between, two more). Four frames, single packets between longer ones, leave room for that and for
a frame behind it; two faults (`MaxFaults`) show how they add up. `BufSize` is that of the
second frame: the last overruns it without any fault, others only when they are joined.
`media_path`: 130 cells hold the longest frame but two and what can be left behind it, the
joined frame included; of those two one is longer than the buffer and one ends so close to its
end that the time stamp of its last element would lie behind it; three frames (`MaxFrames`) are
one that leaves something, one that is damaged by what it left or lost, and one after that. The
frames have every layout the comments of `rtp.h` speak of (pack header twice, system header,
map, several PES), units that cross PES packets, PPS before SPS and new parameter sets. They are
cut outside headers only: within one, what follows is read as a header field, which the
nondeterministic `Stuffings` shows for the pack header and `Open` for a length.

Fairness. `LiveServer` assumes that main goes on (its sleeps end and nothing in its loops
blocks), that the SIP thread finishes a handler it has begun, and that a push thread with a
context comes back to its loop condition: socket calls of librtmp have timeouts and each pass of
`OnH264Data` is finite. Weak fairness is enough, as each of these steps stays enabled until
taken. Peers owe nothing: `Receive` is not fair. Nor is anything that need not happen: frames,
giving up, errors of the RTP session. A thread spinning with `rtmp_ = nullptr` is not assumed to
notice the flags, which a compiler may hoist; the liveness properties exempt it by name.
`CameraPush` has the same assumptions. `RtpReassembly` assumes that the receive loop goes round
(weak fairness of `Loop`, which stays enabled while a packet is queued) and nothing of the
network; `MediaPath` states no liveness.

## Proofs

TLAPS proves, for every number of cameras, every assignment of names (duplicates included),
every set of events and both settings of `NDEBUG`, and for every set of frames:

| Theorem | States |
|---|---|
| `TypeCorrect` (`LiveServerProofs`) | `LiveSpec => []LiveTypeOK` |
| `SinglePusherHolds` (`LiveServerSafetyProofs`) | `LiveSpec => []SinglePusher` |
| `PushOnlyAskedHolds` | `LiveSpec => []PushOnlyAsked` |
| `OnlineIsRegisteredHolds` | `LiveSpec => []OnlineIsRegistered` |
| `FirstEntryOnlyHolds` | `LiveSpec => []FirstEntryOnly` |
| `ThreadsAsPromisedHolds` | `LiveSpec => ThreadsAsPromised`: to every camera's thread the server takes steps of `PushThread` only |
| `NoDuplicatesHolds` (`SipServerProofs`) | `SipSpec => []NoDuplicatesListed` |
| `KeepsQueriesHolds` | `SipSpec => KeepsQueries`: the vectors implement `PendingQueries` |
| `AnsweredHolds` | `SipSpec => AnsweredUnlessUnknown` |
| `EndsOnOddRequestOnlyHolds` | `SipSpec => []EndsOnOddRequestOnly` |
| `PushTypeCorrect` (`CameraPushProofs`) | `Spec => []TypeOK` |
| `StatusMatchesContextHolds`, `NoContextLeftHolds`, `AttemptsBoundedHolds`, `StreamBeginsWithSpsHolds` | `Spec => []` of the property of that name, for every `MAX_RETRY_TIME` and every set of frames |
| `KeepsContract`, `StaysPushThread` | the push thread takes steps of `PushContract` and of `PushThread` only |
| `MediaTypeCorrect` (`MediaPathProofs`) | `MediaSpec => []MediaTypeOK` |
| `UnreadIntactHolds`, `ParametersInForceHolds`, `EveryFrameWrittenHolds` | `MediaSpec => []` of the property of that name, for every buffer size and every set of frames, whole or damaged |
| `DemuxExactHolds`, `WholeFramesSurviveHolds` | the same, for whole frames of any elements between damaged ones of any kind |
| `RtpTypeCorrect` (`RtpReassemblyProofs`) | `RtpSpec => []RtpTypeOK`, for every video and any number of faults, as the next three |
| `CopyBoundedHolds`, `WholeInOrderHolds`, `DamageContainedHolds` | `RtpSpec => []` of the property of that name |

The assumptions are those of the modules: `CameraTableAssumption` (the table is finite, its
names are names), `SipServerAssumption` (events are well formed, the request of a
CALL_PROCEEDING is the server's own) and `ClientListAssumption`; for the push thread its
constants (`CameraPush`), for the media path `FramesAssumption` (a frame marked whole is
`AsMade`, of whatever length: headers, maps, video and at last perhaps audio one behind the
other, with lengths that are true) and `MediaAssumption`; for the receive loop `VideoAssumption`
(frames have rising numbers, only the last packet of a frame has the marker, and `Longest` is as
long as the longest; whether that fits the frame buffer is not assumed). TLC evaluates each on
its instance.

`TypeCorrect` needs `TypeInv`: the type itself, `CountsInv` (no more threads publish or spin
than run, or a count could go below zero) and `PlaceInv` (where main is busy with a camera its
index names one). That the client list stays a sequence of clients rests on the lemmas of
`ClientListProofs` about the searches and the nested updates.

None of the four safety properties is inductive: each says what a thread has done, and what
makes it so is where the thread stands. `IInv` adds

- `SectionInv`: the mutex is held exactly between the two writes of a handler, and the handler's
  entry exists;
- `OnlineInv`: a camera on line but not registered is the one whose second flag the SIP thread
  is about to set;
- `InviteInv`: main has not tried to invite a camera the pass has not reached, nor marked it;
  `played` or `pushed` implies one try; between try and mark, and between test and start, main's
  place stands for what no flag says yet;
- `PusherInv`: `threads = pushed`, the reason why an unlocked flag is enough;
- `ShadowInv`: a `Repeated` entry, one behind another of its name, has nothing set, and main is
  never busy with one.

`MainLeaves`, `PushLeaves`, `ReceiveLeaves`, `HandleLeaves` state what each group of threads
leaves alone, `HandleWrites` what a handler can do to the table; with these each conjunct has
one lemma, split by the group that takes the step.

`ThreadsAsPromised` needs `ThreadInv` on top of `IInv`: while main may still raise `played`
there is no push thread, and a camera that has its thread (or is about to get it), plays and is
not on line is the one whose BYE the SIP thread is handling. So neither flag can rise again
under a thread that has seen it fall: REGISTER raises `alive` only after `played` is down.
`CulpritInv` says that where a push thread is to blame the process has ended, so that the blame
is laid once. Each step of the server is then shown to be, for each camera, a step of
`PushThread` or none (`Untouched`, `FlagsChange`, `StepsAsPromised`).

`SipServerProofs` rests on `ClientBookProofs`: what `PushReq`, `PopReq`, `AddReq`, `DelReq`,
`AddClientReq` and `DelClientReq` do to the set `PendingIn` and that none of them lists anything
twice. Without `NoDuplicates` the refinement fails, as `PopReq` erases one match only; it is
therefore the invariant under which each handler maps to a step of `PendingQueries`.
`EndsOnOddRequestOnly` is inductive: `HandEffect` says that handing over a message disturbs
nothing else, and the asserts hold for a request that is not `Odd`, because `AddClientReq` never
changes the address of a client in the book.

`CameraPushProofs`: the invariant `IInv` says where the thread stands: contexts before the one
in use are dead and the last created is the one in use or none is; their number is `retrys` plus
one until publishing, when `retrys` starts anew and no context can be created any more; an SPS
has been written first if the gate is open. `ViewInv` adds, for `PushThread`, that a frame is
taken apart only with a context.

`MediaPathProofs`: `PsIInv` is that the front (`h264length`) stays behind `NextPack`: it starts
with 14 bytes less, and each element moves as much as it has without its header. From this
follow both `UnreadIntact` and that no offset becomes negative. `WriterIInv` says that the SPS
and PPS of the context are those last given, unless the SPS was short, and that with both flags
down the server's header is made of them, unless the one written last was lost; that once the
gate is open with a proper SPS a header is out or about to go, so that librtmp drops no frame;
and that an assertion of librtmp failed over a short SPS only.

For whole frames `PsWhole` says more: the scan stands at one of the `parts`, with as much moved
as lies before it; what is at the front is the payload so far; the count of bytes left is right,
or with a system header too high, but then nothing behind the frame is recognised. Each kind of
element takes the scan to the next part (`PackForward`, `ScanPesWhole`, `ScanWhole`), hence
`DemuxExact`. `MediaWhole` adds that splitting stands at a start code or at the end, hence
`WholeFramesSurvive`. The proof corrected the property: its exemption was once a condition on
the buffer as it is when the scan ends, where what had made the scan go on could be overwritten
already; `goesOn` remembers.

`RtpReassemblyProofs`: all invariants speak of the order in which the loop will come to the
camera's packets: those collected, then those `Ahead`, queued or yet to be sent. `CopyInv`: some
of the packets collected (`I`) and ahead (`T`) come `InTime`, that is in the order of their
numbers and behind every marker that is gone, but for the markers in `D`; and `Paid`: those in
`D` are no more than the lost and late markers, and together with what is collected, ahead or
under way and not in time no more than the faults. The packets in time then cover one frame and
another for each marker of `D`, and the others are one for each fault left. `OrderInv`: with the
network in order, no packet of a frame that is out, or of one before it, is collected or ahead.
`DamageInv`: a frame that is not out is still `Coming` (all of it ahead, behind a marker or with
nothing collected), or `Begun` (its first packets collected, the rest ahead, nothing in
between), or it is among the `Spoiled`, which are no more than the `Charge` of the faults. A
packet late, copied or of a stranger keeps one of its shares until the loop takes it, which
spoils the frame it falls into.

Only model-checked: liveness (`StopReachesPusher`, `OnlineIsPushed`, `UnwantedEnds`,
`SentComesThrough` and the fairness halves of `ImplementsContract` and `IsPushThread`), which is
out of the prover's reach. Every safety property of a passing run has a theorem.

## Disagreements seen without a run

- `UNREGISTER` (Expires 0) sets `registered = 1` as any REGISTER does (`demo.h:96`).
- An unknown DeviceID gets no 200 (comment at `gb28281_demo.cpp:317`); `AnsweredUnlessUnknown`
  states the exception.
- Control messages are not forwarded (repository `README.md:3`): the call is commented out.
- `played` does not show that the camera has heard anything: an INVITE that could not be built
  (`gb28281_demo.cpp:580-583`: printed, and the null message used) or sent (603) is marked
  played like any other.
- A Query or a Response whose From URL has no port ends the process (170, 181), as does a
  REGISTER or a BYE without a user name (120, 328). `EndsOnOddRequestOnly` states the
  exceptions.
- "retry 3 times connect error!" (`srs_push.cpp:245`) is not printed where `srs_rtmp_create`
  returns NULL: without a context `CallDisconnect` is not called again.
- No line tests whether a frame fits the 150 KB of `frame` (`srs_push.cpp:279`, 308-314);
  `CopyBounded` says how much is copied at most.
- `pushed` is never cleared (`demo.h:102`), and `played` is written by main without the mutex
  the comment at `demo.h:127` promises.
- The first RTMP address is a literal, and `StreamIp`, used on retries, is never filled.
- The heartbeat is recognised by `Keeplive`; the standard's word is `Keepalive`.
- "First pes contains pts" (`rtp.h:129`), but `GetH246FromPs` reads the stamp at the third
  element behind the pack header only, which is the first PES if a map and a second pack header
  come before it. A frame that is one PES keeps `pts = 0`.
- A frame is not ignored "when sps or pps not sent" (`srs_librtmp.cpp:33314`): one flag stands
  for both, so that after an SPS alone frames go out under a header with an empty PPS.
- `PtzCmd_Build` derives the code of a direction from the enumeration, which has ZOOMIN before
  ZOOMOUT: 0x20 for zooming in, where `PTZ.h:21-22` lists 10 for it and 20 for the other.
- `ptzconvert(std::string)` calls itself without end (`PTZ.cpp:4-7`).

## Not modelled

- Dead code: the catalog, status and info senders and `SendThread` (commented out of `main`);
  `GotH264Nal`, `srs_send_data` and `push_stream_ffmpeg` (the calls are commented out, and
  nothing selects FFmpeg); `jrtplib_rtp_recv_thread`, an earlier `OnH264Data`; `ptzconvert`,
  `PtzCmd_Build` and the PTZ message, which stand behind a branch that is never taken.
- The arithmetic of `parse_time_stamp` and the conversions of `pts`: a stamp of 33 bits is
  beyond the integers of TLC, and one scaled down would restate the shifts. Where it is read is
  modelled.
- The flag for a key frame in `GetH246FromPs`: nothing reads it (the call that did is commented
  out).
- The condition under which `OnH264Data` leaves its loop, in `RtpReassembly` and `MediaPath`: it
  is in `CameraPush`. `FrameVector` does not outlive the call.
- Logging, Windows glue, message texts, the layout of FLV and SDP.
- Vendored libraries, except where the server calls them: pugixml, SRS librtmp (of which the
  H.264 packaging is modelled), eXosip, osip, jrtplib, FFmpeg, libconfig, spdlog, glog. They are
  about 176,000 of the 180,000 lines of the repository; the program's own code is about 2,700.

## Plan

1. Done: the server (`CameraTable` to `LiveServer`), one push thread (`CameraPush`), the way of
   the video (`RtpReassembly`, `MediaPath`), the abstract specifications between them and the
   theorems above.
2. Done: the theorems about `RtpReassembly`, and `DemuxExact` and `WholeFramesSurvive` for
   frames of any elements; the SIP stack, the network and the RTMP server that fail without the
   code's noticing, and where each thread may end the process.
3. Next: the safety half of liveness where it can be stated as one (what keeps
   `StopReachesPusher` from being undone), and frames that begin with something else than a pack
   header, for which `Stuffings` is any.
