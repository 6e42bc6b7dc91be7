# A verification development for latency_check

latency_check is a low-latency audio and video system for actors who play together from
their homes. A client captures audio (or video), encodes it, and exchanges it with a server
over UDP; the audio server mixes everybody's sound for everybody, the video server composes
the pictures, and a web server shows the result in a browser. This directory holds TLA+
models of the parts of it where order, loss, time and limits matter, TLC configurations that
check them, and TLAPS proofs for the core.

All paths below are relative to `src/src/`.

## 1. The system

### Components, their state and operations

| component | state | operations | talks to |
|---|---|---|---|
| network sender (`network/sender.*`) | window of frames with an outstanding and an in-flight bit, window of packet records, greatest selective ack, `need_immediate_send_` | `push_frame`, `set_sender_section`, `receive_receiver_section` | the peer's receiver, through packets |
| network receiver (`network/receiver.*`) | window of received frames, `next_frame_needed_`, ring of recent packets | `receive_sender_section`, `pop_frames`, `set_receiver_section` | the peer's sender; the application that pops |
| connection (`network/connection.*`) | a sender, a receiver, crypto, destination, one pending unreliable update each way | `push_frame`, `send_packet`, `receive_packet`, `pop_frames` | socket |
| session handshake (`playback/networkclient.*`, `server/client.*`) | client: at most one session. Server, per client: current and next keys, at most one session | key request and reply, first packet, timeouts | each other, over UDP |
| audio server (`server/*`) | clock, next mix cursor, boards of samples, sessions with their offsets | receive, mix+encode+send every 2.5 ms, control | clients, control programs |
| playback cursor (`playback/cursor.*`) | frame cursor, samples output, rate, lags | `sample`, `ok_to_pop`, `setup` | receiver's window, decoder, stretcher |
| audio client (`audio/*`, `playback/networkclient.*`) | device cursor, capture and playback buffers, two encoders, decode cursor | one rule each of an event loop | device, connection |
| video client, source (`video/videoclient.*`, `video/video_source.*`) | queue of NALs, pacing time, session | push NAL, transmit, discard | connection |
| video server (`video/videoserver.*`, `video/vsclient.*`) | clients' NALs in reassembly, zooms, live camera, scene | receive, send acks, encode, control | connections, web server |
| web server (`http/*`, `frontend/ws-camera-server.cc`) | TLS, HTTP and WebSocket state, MP4 muxer per viewer | accept, read, write, push NAL, cull | browsers |
| event loop (`util/eventloop.*`) | rules with or without a file descriptor | `wait_next_event` | everything |

Every program is one thread around one event loop: a callback runs to its end before the
next. The concurrency is between processes and the network, and between a device or codec
and the loop. What is hard is therefore: packets and acks lost, repeated and reordered; full
windows; sessions given up at different times at the two ends; packets, replies and acks
that arrive after the session they belong to; addresses that change; rounds that run late;
the order in which rules fire; and buffers whose bounds checks abort the process.

What makes the components correct, in short: the sender resends exactly what is lost and
settles only what has arrived; the receiver's acks are never wrong and never taken back; a
stream arrives once and in order, and in the end; the two ends find each other again after
any outage, and never mix sessions up; the server's clock, sessions and boards stay in step.
`PROJECT.json` lists every component, and under "hazards" each place where one of these
could go wrong, with the property that would show it.

### Plan

| stage | modules | question |
|---|---|---|
| 1, done | `NetworkSender`, `NetworkReceiver`, `ReceiverLoop` | do the two halves keep their own books right? |
| 1, done | `FrameDelivery`, `FrameStream`, `StreamProgress` | do they make a stream together, over a bad network? |
| 1, done | `Session` | handshake, rehoming, timeouts |
| 1, done | `MixServer` | clock, sessions and boards of the audio server |
| 1, done | `PlaybackCursor`, `AudioClient` | encoders in pairs, playback and capture windows, rate and lag |
| 1, done | proofs for sender, receiver, mix server and audio client | for every window, ring, frame length and number of clients |
| 2, done | `VideoSource`, `VideoFeed`, `VideoZoom`, `CameraRing` | NALs into paced chunks and back, sessions in the middle of them, the view that travels back, buffers shared with a driver |
| 2, done | `Devices` | both halves of the sound device, which stop by themselves |
| 2, done | `EventLoop` | rules that add, cancel and delete while they are walked |
| 2, done | `HttpReader`, `HttpStream`, `WebSocket`, `Viewer` | messages in pieces cut anywhere, fragments, closing, skipping, a slow viewer |
| 2, done | `Formats`, `Sealing`, `Control` | every byte format, written and read, cut and sealed; what hears a control message |
| 2, done | `Rings`, `RingContents` | ring buffers over a mirrored storage against a tape and a queue |
| 3, done | `FrameStreamProofs`, `SessionProofs` | the honesty of peers and the refinement of `FrameDelivery`; `Session`'s safety |
| 3, done | `MediaProofs`, `PartsProofs`, `Numbers` | the parts of `media` and `parts`, each by itself; induction and recursion over numbers |
| 3, done | `Scene` out of `Control`; the loops of `ReceiverLoop` as recursive functions | so that both can be proved about |
| 4, done | `HttpReader` and `WebSocket` without recursive operators; their proofs in `PartsProofs` | messages and frames of any length, cut anywhere |
| 4, done | `Formats`, `Sealing` and `Control` without recursive operators; `FormatsAgree` in `SessionProofs` | every format, printed key and sealed message, for any number of values of a byte, any limits and any cut |
| 4, done | `PartsRunParts`, `ControlEditsScene` | the theorems about the parts hold of what the run explores, and those about the scene of the messages that edit it |

`FrameStream` composes `NetworkSender` and `NetworkReceiver`. `AudioClient` takes from the
connection only how far frames have come, in order, and `VideoFeed` stands above
`FrameDelivery`, the abstract stream, instead of carrying the whole protocol. `HttpStream`
and `WebSocket` extend `HttpReader`, `Sealing` extends `Formats`, and `Control` extends
`Sealing` and `Scene`. `MCMedia` and `MCParts` join modules that share no state for one run
of TLC: an initial state picks the part, and the others stay as they are.

## 2. The modules

**NetworkSender** is `NetworkSender<FrameType>`. Variables are the members: the two buffers
`frames_` and `frame_status_` are popped together and share `sender_begin`; the two bits of
each status are membership in `outstanding` and `in_flight`; the records of
`packets_in_flight_` are the function `carried` and the sets `acked` and `assumed_lost`. The
actions are the three public operations. A packet takes the newest frame if it needs sending
and then the oldest that do; a packet that falls out of the packet window makes its frames
eligible again; a section pops frames, acknowledges packets and, through the greatest sack
and the reorder window of two, gives packets up. A receiver section that names a packet
beyond the window makes the code return in the middle of its list: the model lets any part
of the list be read. The peer is any that asks only for what was sent; `FrameStream` shows
that a real receiver is one. The statistics are left out; the round-trip estimate and jitter
are only printed.

**NetworkReceiver** is `NetworkReceiver<FrameType>` on its `EndlessBuffer`. The effect of a
packet on the window is stated in closed form: where the window begins (a frame beyond its
end moves it up, discarding what falls out), what it holds, and where the walk to the first
gap ends. `ReceiverLoop` has the loops of the code, with their early exits, as recursive
functions of the number of turns; the run `receiver` checks that they do what the closed
forms say, for packets in every order of their frames.

**FrameDelivery** is the promise of one direction of a connection: in order, each frame at
most once, and a frame is skipped only when the producer has run a window ahead of it.
**FrameStream** is one direction of two `NetworkConnection`s: a sender, a receiver, and a
network in which a section stays once sent, so that it may arrive late, again or never.
**StreamProgress** adds the rules that keep both ends sending, and fairness.

**Session** has both ends of the audio system's handshake: the key requests (one every 250
ms), the rate-limited replies that carry the keys of the *next* session, the client's
session made of a reply, the server's made of the first packet that decrypts with the next
keys, the rehoming of a connection to the source of its newest packet, and the 4 s timeouts.
Keys are numbers, because the server draws them at random. Time is abstract: `ClientSilence`
and `ServerSilence` say that four seconds have passed without a good ack.

**MixServer** has the audio server's sample clock. A round fires when the clock has passed
the next cursor, however late; every session decodes up to the cursor, mixes and pushes the
whole frames up to it, and the boards are popped to 960 samples behind. A session may start
at any sample, and its offset puts it on the server's clock. The control rule that changes a
feed's lags is here, too. A chunk of a time-stretched cursor is any length up to the 1024
samples of the code's buffers.

**PlaybackCursor** is `Cursor`: where it starts, how it falls back to its lag when it runs
out of frames, and when it compresses or expands time. The stretcher may give any length of
output for a frame, and the mean margin, on which a change of rate also depends, may be
anything. **AudioClient** extends it with the rules of the audio client in the order in
which they are added (the encoders are built on the device, the network client on both):
device, two encoders, transmit or discard, decode or silence, and, when none of them is
interested, the sockets. The loop of `wait_next_event` is `Serve` (a rule is served while it
stays interested, then the scan starts again) and `Poll`. Samples arrive at any time, also
inside a callback; `decode` takes a step for each turn of its loop. A device that reports an
error loses what it had. The receiver is reduced to where its window begins, which frame it
needs, and how far frames have come.

**VideoSource** is the queue of `VideoSource`, with times relative to now: a NAL is due a
frame interval after it was pushed, its chunks are spread over that interval, and the loop
may look at a ready chunk up to `MaxLate` too late. **VideoFeed** has the rules of
`stagecast-video-client` from the camera's frame to the connection, in the order in which
the loop serves them; the client's session, made of a reply and left when the last good ack
is old; and the server's, with the NAL in `current_nal_`. A chunk is a record that says
which of how many it is. **VideoZoom** has one camera's view: `set_zoom` with its clamps,
`set_live`, the update that takes the place of an earlier one until a packet takes it along,
a network that loses and reorders, and the client that applies the last to arrive.
**CameraRing** is `Camera::get_next_frame` on buffers that the driver fills.

**Devices** is `AudioPair` with its two interfaces: the states of ALSA, what each half holds
and where in its ring, the three rules that serve them, and `loopback` in its steps, with
samples arriving in between. A half that reaches its stop threshold stops by itself, between
any two of the program's calls. A call that finds a state it does not expect throws
(`failed`). Taken for granted of ALSA: what is mapped of a half that has stopped can still
be used. Assumed of the constants: a loop that is `MaxBacklog` samples late, twice, finds
room in the headphone's ring (`DeviceConstants`).

**EventLoop** is `wait_next_event` with the rules of `ws-camera-server`: the walk over the
rules without a descriptor, one callback, the set-up of poll, the walk over its results,
erasing cancelled and defunct rules on the way, the cull of a connection from any of its
callbacks, and its deletion by a later rule. What the callbacks do is arbitrary here;
**Viewer** has it for one connection: `push_NAL` with its skipping, the muxer with its
buffer and the wait for an intra frame, WebSocket frames cut to the room there is, the TLS
session's outbound buffer, records, the socket, and closing. Buffers hold units, not bytes.

**HttpReader** has the readers of `http_reader.hh` as operators on a reader's state and a
piece of input (terminators, pairs, trimming, headers, bodies by length) and the writer;
**HttpStream** runs `HTTPClient` against `HTTPServer` through rings. **WebSocket** has the
server's side of a viewer: the handshake, frames read in pieces, fragmented messages, and
the replies to pings and closes. The viewer is external, and keeps the protocol's rules.

**Formats** describes every format as a structure of typed fields, in the order in which
`serialize` writes and, separately, `parse` reads them, with the length that is announced;
`Written` and `Parsed` do what the serializer and the parser do. A field is made of others at
most four levels deep (a packet is a structure with an array of flagged fields that are
structures), so both are stated level by level, each by the one below it: `FlatWritten`,
`Written1` to `Written3` and `Written`. **Sealing** has keys as
text (`base64.cc`, with the code's widths), nonces, and sealed messages, whose tag is
external and opens only with its key, nonce and associated data. **Control** sends samples
of all of these, whole or cut anywhere, to the rules that hear them; `aborted` says that a
parser was destroyed with its error set. **Scene** has the scene of `compositor.cc` and what
one edit does to it: layers inserted by depth, removed by name or all at once, some of the
insertions failing because a file does not open; `Control` takes the edits from the messages
that it has read. In passing: a `CryptoSession` that is moved loses `randomize_nonce_`
(`crypto.cc:72`), so the long-lived sessions that ask for random nonces and are moved into
place count from a random one instead.

**Rings** has an `EndlessBuffer` and a `RingBuffer` on a storage that is mapped twice;
**RingContents** is what they promise, and `Rings` maps its storage to it.

The names `X_Something` that stand before a definition `X` are variants of it with a
plausible slip (a missing reset, an off-by-one); `PROJECT.json` pairs each with the property
that notices it.

## 3. What TLC checks

| run | what it shows |
|---|---|
| `sender` | a frame is in flight exactly while an unresolved packet carries it, and in one only; packets are given up exactly when overtaken by more than the reorder window; the frame pushed last is in the next packet, so `push_frame` never throws after a send; settled frames are never sent again |
| `receiver` | every remembered packet is settled, so that the "BUG" exception of `receiver.cc` is not reached; nothing that was acknowledged is taken back; the loops agree with the closed forms, and what they write fits |
| `stream` | each end is honest in the sense the other assumes, under any delay and repetition of acks; no frame is written off that has not arrived, unless a window was overrun; the composition implements `FrameDelivery` |
| `progress` | every frame arrives, and in the end nothing is outstanding, with two losses of data or acks, unless the sender's window is exactly full |
| `session` | sessions of the two ends belong together, acks belong to the session they reach, the destination is the source of the newest packet, a pair is kept while both ends hear each other, and after the last outage and move the ends pair up for good, provided that nothing from a given-up session arrives after the client's timeout |
| `stale_keys` (violation) | without that proviso and with keys that an earlier session has used, an ack of one session counts for another |
| `audio` | what decode writes is in the playback buffer, unless the device has moved too far since the last poll, and only then does the client abort; the encoders stay in step and read what is captured; the playback cursor jumps over no frame; no callback throws (a throw would be a deadlock) |
| `media` | *source:* pacing never makes a NAL later than the loop is; *feed:* what the server decodes as a NAL is one, whole, however sessions come and go, unless chunks were written off, and a session the server does not hold is left as long as the camera delivers; *zoom:* the last view set arrives for good, and moving it leaves the crops; *camera:* what is read is the buffer just filled; *devices:* no call finds a state it does not expect, and after every stop both halves run again and the delay falls back under the threshold |
| `parts` | *mix:* however late the rounds, a round pushes one frame at most and everything read or written is on the boards; *loop:* no rule of a deleted connection is asked or called; *http:* messages are read as they were written, however they are cut; *ws:* so are a viewer's frames; *viewer:* what a viewer reads is whole fragments from an intra frame on; *control:* every format is read as written and takes the length announced, no cut message is taken, a sealed one opens only for its peer, a key has one text, and the scene is in order; *rings:* they implement `RingContents` |
| `stretch_after_reset` (violation) | a reset leaves the stretcher compressing |
| `lag_order` (violation) | `set_cursor_lag` exchanges target and minimum |
| `slow_viewer` (violation) | a viewer whose socket has less room than a TLS record is dropped |

Bounds. Windows of 2 to 4 frames and 3 to 5 packets instead of 8192 and 512: what the code
does depends on whether something is inside, at or beyond the end of a window, and all of
these occur, because more frames and packets are sent than fit: in `progress` as many frames as
the window holds, so that acks find it exactly full. Four frames and six packets
are enough for a frame to be lost, overtaken, resent and lost again while a late ack of its
first packet is under way. In `stream`, sections are never removed from the network and
`MaxTransit` limits the acks. The reorder window is the code's 2. `session` has two
addresses, one move, one outage that could have been heard, and two packets each way per
session: a session can be set up, lost at either end first, and replaced; its `MaxSessions` of
6 is more than the other bounds let the client make. What holds without
the proviso is proved (section 4). The mixing server
of `parts` keeps the code's ratios of frame, writer and lag with a frame of 2 samples, a
board as small as the assumption `MixConstants` allows, and 20 rounds of clock: the boards
are popped for 12 of them. One client is enough: sessions share only the cursors and boards,
and the proof is for any number. `audio` has frames of 4 samples, lags of one to three
frames, a control program that sets a lag that is no whole number of frames, and time for
four frames of audio: the cursor underflows, falls back and gives up, and sessions come and
go. The loop may be away for up to `MaxBurst` = 5 samples between two polls, two more than the
`Slack + 1` (61 in the code) that it can bear: from there on decode may write behind the
device, where `check_bounds` aborts. Nothing in the code prevents it; ALSA's buffer would
hold 192. The abort is in the model (`aborted`), and occurs in the run.

In `media`, a frame interval is 4 units and NALs have half a chunk, one and a half, or
exactly two, so that both the rounding of the interval and a full last chunk occur; three
may be queued, and the loop is up to 2 units late. The feed has NALs of one chunk and two, a
window of two chunks and a `current_nal_` for two, so that two NALs would not fit; three
session keys, used in turn, tell the current session, the next one and one given up apart.
The zoom has a picture of 4 by 3, two settings of each field and two crops. The ring has the
code's 4 buffers. The devices have rings of 10 samples, are late by up to 3, and are held up
for longer twice: both halves then stop, in either order.

In `parts`, two connections are enough for one to be culled and deleted while the other's
rules stand before and behind it in the list; their names are used again. HTTP rings of 3
tokens cut every line, header and body somewhere, for two requests of three kinds. WebSocket
frames arrive in pieces of one byte or all that there is, with payloads that need a short
length and a long one, three of them. The viewer's buffers hold 3 and 4 units, its socket 2,
and fragments have 1 or 2: five NALs fill them, drop, skip and start again. Formats have
bytes of four values, and three samples that differ from field to field, with the extreme
numbers and lengths among them; keys as text have the code's widths. A scene takes three
edits. The rings hold three elements of two values, for five positions, that is, nearly two
turns.

The runs with `CHECK_DEADLOCK FALSE` (`sender`, `stream`, `progress`, `media`, `parts`,
`slow_viewer`) really stop at their bounds.

Fairness. In `progress`: both ends run a rule that stays interested, since the event loop
scans its rules in every iteration, and the network delivers what it does not lose. Sections
with nothing to say are sent only when the network is quiet; this removes behaviours that
help progress, not ones that hinder it. In `session`: the rules of each end are run when
their conditions hold, messages that the outage budget does not drop arrive, and a client
whose keys the server has forgotten falls silent. None of the moves, outages and losses is
fair. In `media`, the feed's camera goes on delivering frames, and the rules of the client
run, as the loop scans them again and again; a session that the server does not hold gets no
good ack. The zoom's packets go on while there are sessions, and not every repetition of an
update is lost, but any single one may be (strong fairness on the arrival of the view that
is repeated). The devices' clock and program go on; being held up is not fair, and ends.

Findings. Four runs are violations of what the code says of itself:

- `stale_keys`: the client makes a session of any reply while it has none, also of a
  repeated or delayed one whose keys an earlier session has used, and a packet of that
  earlier session opens the next one at the server. The acks that come back are about the
  earlier session's frames (`network/sender.hh:71` and `network/sender.cc:210` call the
  consequences internal errors).
- `lag_order`: `server/server_control.cc:34` hands over minimum, target, maximum where
  `server/multiserver.cc:152` takes target, minimum, maximum.
- `stretch_after_reset`: `playback/cursor.cc:30` and `:59` set the rate to steady without
  the ratio, so a cursor that was compressing starts again at its target lag, where
  `playback/cursor.hh:12` says that compression ends, and compresses on.
- `slow_viewer`: `util/file_descriptor.cc:98` takes a write of nothing for an error, but on
  a non-blocking descriptor a write that would block returns 0
  (`util/file_descriptor.cc:149-151`), and `http/secure_socket.cc:104` and `:335` mean to
  wait for it. It takes a kernel that reports a socket writable with less room than the next
  TLS record, so the connection is culled for being slow.

Other things the models say of the code. `network/sender.cc:179` counts an ack with a
`next_frame_needed` of `frames_.range_end()` as a bad one and drops it whole; that is just
what a peer says that has the whole of an exactly full window, so what it acknowledges is
resent until the producer pushes again. `SettlesUnlessFull` makes this exception, and without it `progress`
finds the behaviour, with nothing lost. It takes a window of 8192 frames to fill up behind
one that is lost again and again, and a producer that then pauses, which the programs' do
not. Without a text of the repository against them:
`requests_are_head_` (`http/http_client.hh`) is never popped, so `MessagesAreReadWhole`
speaks of clients whose requests are all HEAD or none; the last empty ping or close of a
quiet viewer waits for another byte (`FramesAreRead`); the announced length of a
`client_report` is wrong (`control/control_messages.hh:105`), which nobody asks for; a
control datagram that is cut makes the audio programs abort (`aborted` in `Control`); and
the page offers zooms from 1 to 3 (`web/camera2.js:87`), while `videoserver.cc:240` allows
no width below the full one.

## 4. What is proved

The theorems hold for every value of the constants that the named assumptions admit, and
without the bounds of the runs: each bound is any number. Seven modules have them, one per
component or per group of parts; `Numbers` has what they need of arithmetic. All safety
properties that the runs check are proved (`SessionsArePaired` for the prompt network of its run). Some theorems are of properties that need no run: the types, `NeededIsFirstGap`, `InStep`, `AheadOfDevice`,
`ChunksCoverNal`.

**One end of a connection.** `NetworkSenderProofs` assumes positive capacities and at least
two frames per packet (`SenderConstants`): with one, the newest frame would take the only
place each time. `Inv` adds to the checked invariants that frames not yet sent are carried by
no packet (`UnsentIsUncarried`), that what lies well before the greatest sack has a verdict
(`Adjudicated`), and that a verdict of loss has a later sack as evidence
(`LossHasEvidence`). These are needed because a late section acknowledges packets without
moving the greatest sack. `VerdictsAreExact` follows from the last two; `InFlightIsCarried`
from its two directions and `CarriedOnce`.

`NetworkReceiverProofs` shows that `NeededIsFirstGap` and `RecentIsSettled` with the types
are inductive. The core is `WalkResumes`: wherever a packet's frames leave the window, the
walk starts at a place below which the window has no gap. `PromisesKept` follows from the
same facts. `ReceiverLoopsAgree` says that the loops do what the closed forms say. It is more
than the run can check: the frames of a packet may be any finite sequence, also with
repetitions. `OneStop` and `OneBegin` say what a closed form is when one frame is added, which
is a turn of the loop; `LoopEndsAsStated` is the induction over the turns. The loop that
writes a section's selective acks names the packets of the ring that it has room for
(`SackLoopNames`).

**Two ends and a network.** `FrameStreamProofs` uses the invariants of both ends and joins
them by what the network holds, however old: a section's frames are those that the sender
remembers for its number, or it remembers the packet no more (`SectionsWereSent`); what an ack
claims is still so (`AcksAreTrue`), because `PromisesKept` makes the receiver's claims
permanent; and the packets that the receiver may name came from the network
(`NamedWasReceived`). From these it follows that the peer is honest, which is the assumption
under which the sender's theorems speak; that frames are written off only when they have
arrived, or were overrun; and that the stream implements `FrameDelivery`
(`StreamDeliversInOrder`): every step is a push, a delivery, a drop or a stutter of it. That
the sender of the stream runs `NetworkSender`, and its receiver `NetworkReceiver`, are the
theorems `StreamRunsSender` and `StreamRunsReceiver`.

`SessionProofs` has the handshake for any addresses and any number of sessions, packets and
moves, over any network: what was sent may arrive at any time, and again. What cannot be
proved then is what `stale_keys` refutes, so `AcksAreOurs` (its half about the client),
`DestinationIsNewest` and `LivePairIsKept` speak of keys with which no other of the client's
sessions has sent (`OwnKeys`). The invariant says in what order keys are used: the server's session
has the newest ever used (`KeysInOrder`), and a reply offers the next ones, or ones that a
packet shows to be used (`UsedKeysShow`). So the keys that are a new session's own are the
next ones, and nothing was sent with newer ones while they are its own (`OwnIsNewest`); keys not
yet used have brought the client nothing (`UnusedKeysAreSilent`); and ends with the same keys
agree on what was sent, in both directions if they are the client's own (`AgreesWith`). On a
prompt network all keys are a session's own and the two ends' sessions are the same one
(`PromptKeysAreOwn`), which is `SessionsArePaired`.

**Audio.** `AudioClientProofs` assumes `CursorConstants` (a target lag of at least one
sample: a control message may ask for 0, and then `cursor.cc:61` throws) and
`ClientConstants`, which says that the buffers hold two frames, the slack and a chunk; bursts
may be of any length. The invariant is about the last poll: no rule was interested, so both encoders were less than a frame behind
the device (`EncodedUpToPoll`) and the decode cursor was more than a frame and the slack
ahead of it (`DecodedAhead`), and output is at most a frame behind the decode cursor. So what
is written is behind the device only when that has moved by more than the slack since. That a reset lands on a frame before the
frontier is `ResetLandsBefore`.

The mix server is the first part of `PartsProofs`. `InStep` is inductive together with: the
clock was past the cursor a frame ago, the boards begin at zero or a fixed lag behind the
cursor, the writers are less than a big frame behind, and a feed's output is at most a frame
behind or a chunk ahead. `BoardHolds` and `PushesAreSent` follow.

**The parts of `media`**, in the first half of `MediaProofs`. Each part has its own
specification (`RingSpec`, `SourceSpec`, `ZoomSpec`, `DevicesSpec`, `FeedSpec`), and
`MediaRunsParts` says that what TLC runs implements all five.

- *Camera.* Filled buffers and those that wait to be are one after the other round the ring
  (`InRingOrder`), so the buffer at which the client looks is the one filled first.
- *Source.* The next chunk is due before any queued NAL has to be complete, and NALs have to
  be complete in the order of the queue (`DueBeforeCompletions`). So the only time that can be
  missed is the next chunk's, by what the loop is late. `CutInChunks` gives `ChunksCoverNal`.
- *Zoom.* The view at the server stays within the picture by `set_zoom`'s clamps; a message
  changes at most one of its crops and the window.
- *Devices.* `DeviceConstants` asks for room for the start threshold and two backlogs. What
  the microphone holds has gathered since the last update or is still to be copied
  (`HeldByMic`); what the headphone holds is bounded by its state (`HeldByPhones`). When both
  run, one clock takes from the one what it gives to the other, so their sum is bounded.
- *Feed.* The chunks of the NAL in reassembly, those in the stream and the next ones of the
  source are one tape, on which each chunk continues where the one before it ends or has the
  mark of a gap (`TapeSound`). This holds while the server has the client's session or may yet
  make it, which `KeysSound` tells: with three keys or more a client without a session is
  never offered the current one.

**The parts of `parts`**, in `MediaProofs` (event loop, rings, viewer, scene), in
`PartsProofs` (mix server, HTTP, WebSocket) and in `SessionProofs` (control messages), each for
its own specification (`LoopSpec`, `RingsSpec`, `ViewerSpec`, `SceneSpec`, `HttpSpec`, `WsSpec`,
`ControlSpec`). `PartsRunParts` says that what TLC runs implements those of all parts. The scene
is a part of `Control`, and `ControlEditsScene` says that the messages edit it as `SceneSpec`
does: a rule is called with a whole message only, and its fields have the values that the scene
is proved for.

- *Event loop.* Rules of a connection that is not good are cancelled, and in the walk over the
  results every rule belongs to a connection that is still in the list (`OwnedByClients`): the
  set-up erases the cancelled ones before poll, and no walk deletes between set-up and
  results.
- *Rings.* `RingsBehaveAsEndless` is the refinement of `RingContents` for any capacity and any
  number of turns. It needs that a region of the mirrored storage is the tape's, modulo the
  capacity (`RegionIsAlong`), and that a write moves nothing else.
- *Viewer.* What the viewer has read last, what it is about to read and what is to be sent
  are one line. The invariant `Sound` says that each piece of video on it follows the one
  before, and that its last piece ends a fragment, which is that of the NAL pushed last if
  the next may be written without an intra frame. Reads, writes and records move what is on
  the line without changing it.
- *Scene.* The layers are in the order of depth and the history in the order of time, with the
  same elements (`SceneInv`); numbers grow with every edit, so what is inserted is younger than
  all that is there. The edits are any sequences of messages, with failures at any places.

- *HTTP.* All that is written in one direction is one string `s`, the texts of the messages
  one after the other, of which `ends` tells where each is over. The invariant `Pipe` says
  of a direction that the writer has written `s` up to some place, the reader has taken it
  up to another, and the ring has what is between. Where the reader is in its message gives
  the state it is in: `InStart`, `InHeaders` and `InBody`, and within a line `InLine` and
  `Stands`, which says what the readers inside a line have made of its first tokens, white
  space, colons and a CR by itself included. A reader that is given the next piece of `s`,
  of any length, stands where the piece ends, or has the message and leaves what comes after
  it (`ReadEnds`). The turns of the loops go forward and are enough (`LoopEnds`). All of
  this is about any well-formed message: `WellFormed` asks for a start line of three strings
  without a CRLF, the first two without a space, for header values without a CRLF and
  without white space at their ends, and for a length of the body, if there is one, of one
  digit, as the model has it. Both directions are such pipes, the one back under the
  condition that the requests are all HEAD or none is (`HttpIInv`).
- *WebSocket.* Until the handshake is done (`Shaking`) the server reads one request, for which
  the facts about HTTP are used. After it (`Conversing`) the bytes of all frames that the viewer
  has sent are one sequence, in which the server stands some bytes into the next frame
  (`Placed`); `ReaderAt` is the state its reader then has, within the first two bytes, the
  length, the key or the payload. A reader that gets more bytes, any number of them, is the
  reader at a later byte, and at the last one the frame is as it was sent. What the server has
  made of the frames so far (`Said`) is what they amount to (`Counted`): the messages that are
  done, and what there is of one that is open. As the viewer keeps the protocol's rules, no
  frame is refused. The three forms of a length are told apart by any two limits, the smaller
  first (`WsConstants`).

- *Messages.* `Reads(parser, w, v)` says that a parser reads the value `v` from the bytes `w`
  whatever follows them, leaves just what follows, and fails on every beginning of `w` that is
  not all of it. It holds of numbers, of either sign (`IntegerReads`, `SignedReads`: digits of
  base `Byte` are undone by their value), of runs of bytes and of buffers with their lengths
  (`BytesRead`, `BufferReads`). When it holds of the parts it holds of what is made of them
  (`ArrayReads`, `StructReads`, `FlaggedReads`), from `AllRead`, about parsers in a row: a cut
  falls into one of them, those before have read their parts, and those behind it are not
  called. So each format has a proof of a few lines: which fields it has, in which order they
  are written and read (`HasFields`), that the lengths announced are those of its fields
  (`Adds`), and that its types fit at their depth (`Fits0` to `Fits4`). A key as text is five
  groups of digits, which is all that has to be known of it: texts and keys correspond, so
  another letter gives another key or an error (`KeyAsText`). What is sealed ends in its tag
  and nonce (`IsSealed`), so it opens whole with its own keys, nonce and label
  (`OpensWhole`), and a shorter text has its tag elsewhere (`OpensNoCut`). The invariant is
  `IsDatagram`: what is on its way is a sample of some format, cut or whole. All of this is for
  bytes of any number of values, any limits that fit into one (`FormatConstants`) and any set of samples;
  `ControlConstants` asks that samples be numbered below 256, because keys, whose bytes have the
  code's 256 values, would be the same for numbers that differ by 256. The samples of a format
  are those of `Control`, for every number: `FormatsAgree` is about these, while the lemmas on
  fields are about any values in their range.

*Recursion.* The library's induction theorems take a predicate, which the provers cannot
instantiate. `Numbers` has the induction over sets of numbers (`NatSetInduction`), from the
library's theorem on minimal elements, and that a recursive function on `0 .. n` exists
(`RecursionOnNat`). With these, the functions by which `Scene`, `ReceiverLoop`,
`EventLoop`, `HttpReader`, `WebSocket` and `Formats` are written can be unfolded and reasoned about.
Division and remainders by any number (`Quotient`, `Remainder`, `RoundTheRing`) and minima
(`MinMax`) are there, too.

Only model-checked:

- *liveness* (`EveryFrameArrives`, `SettlesUnlessFull`, `Reconnects`, `DeadSessionIsLeft`,
  `ZoomArrives`, `DelayIsShed`): fairness and ENABLED are beyond the proof system;
- the violations of section 3, which say that a property fails.

## 5. What is not modelled

Codecs, pixels, sample values, gains, OpenGL, statistics and the writers of WebM and WAV
files have no protocol state that a property could be about; with the pixels goes the
drawing of a scene (`Compositor::apply`) and the encode rule of the video server. The claim
of a sound device over D-Bus is one blocking exchange that no program here makes. The OCB
cipher (`crypto/ocb.cc`) is third-party code, and what it promises is external to `Sealing`.
Of TLS there is what happens to a write; its two waiting flags are left out, because a write
that would block throws before OpenSSL can ask to wait for it, and the handshake, in which a
write may have to wait for a read, is over before the first one. The main programs build the
components and run the loop; `EventLoop` and `VideoFeed` have the rules that two of them
add.
