------------------------------ MODULE VideoFeed ------------------------------
(***************************************************************************)
(* A camera's NALs on their way to the video server: the rules of          *)
(* stagecast-video-client, the sessions of video/videoclient.cc and        *)
(* video/vsclient.cc, and the reassembly at the server.                    *)
(*                                                                         *)
(* The connection between the two is the in-order delivery of              *)
(* FrameDelivery: the server takes the chunks in the order of pushing, and *)
(* chunks are lost only when the client runs a whole window ahead.  A      *)
(* chunk that follows lost ones carries a mark (gap), which is not in the  *)
(* packets; the model needs it to say what a loss may damage.  When the    *)
(* client gives a session up, nothing of it is left in the network         *)
(* (module Session has the case of a network that is later still).         *)
(*                                                                         *)
(* Times of 4 seconds are the flags client_quiet and server_quiet: no good *)
(* ack for that long.  Pacing is in module VideoSource; here a queued      *)
(* chunk may be ready at any time.                                         *)
(***************************************************************************)
EXTENDS Integers, Sequences

CONSTANTS
    NalChunks,    \* numbers of chunks a NAL may have
    ChunkWindow,  \* chunks the connection holds (sender.hh: 8192)
    NalCapacity,  \* chunks that fit current_nal_
    FeedKeys,     \* keys of sessions, used in turn
    FeedQueue     \* bound: NALs queued at the source

ASSUME FeedConstants ==
    /\ {ChunkWindow, NalCapacity, FeedQueue} \subseteq Nat \ {0}
    /\ NalChunks \subseteq 1 .. NalCapacity
    /\ FeedKeys \in Nat /\ FeedKeys > 2

VARIABLES
    stage,          \* where the camera's latest frame is in the client
    source,         \* NALs queued: sequence of [chunks, sent]
    session,        \* the client's session: a set of at most one key
    talking,        \* a packet of the session has been sent
    client_quiet,   \* the client's last good ack is 4 seconds old
    offered,        \* keys in replies on their way to the client
    stream,         \* chunks pushed and not yet handed to the server's loop
    current,        \* the server's session: a set of at most one key
    next_key,       \* the key of the server's next session
    server_quiet,   \* the server's last good ack is 4 seconds old
    current_nal,    \* chunks of the NAL the server is putting together
    decoded,        \* the chunks decoded last as one NAL, by the latest packet
    stopped         \* an exception has ended the server

client_feed_vars == <<stage, source, session, talking, client_quiet>>
server_feed_vars == <<current, next_key, server_quiet, current_nal, decoded, stopped>>
feed_vars == <<client_feed_vars, offered, stream, server_feed_vars>>

Chunk(number, count, gap) == [number |-> number, count |-> count, gap |-> gap]
end_of_nal(chunk) == chunk.number = chunk.count

FeedInit ==
    /\ stage = "idle" /\ source = << >>
    /\ session = {} /\ talking = FALSE /\ client_quiet = FALSE
    /\ offered = {} /\ stream = << >>
    /\ current = {} /\ next_key = 0 /\ server_quiet = FALSE
    /\ current_nal = << >> /\ decoded = << >> /\ stopped = FALSE

------------------------------------------------------------------------------
(* The client's loop.  "discard video" comes before the rules added after  *)
(* it, and every rule without a descriptor before those that wait in poll. *)

DiscardDue == source # << >> /\ session = {}
InPoll == ~DiscardDue /\ stage = "idle"

ReadCameraFrame ==
    /\ InPoll
    /\ stage' = "fetched"
    /\ UNCHANGED <<source, session, talking, client_quiet, offered, stream,
                   server_feed_vars>>

ScaleFrame ==
    /\ stage = "fetched" /\ ~DiscardDue
    /\ stage' = "scaled"
    /\ UNCHANGED <<source, session, talking, client_quiet, offered, stream,
                   server_feed_vars>>

Encode(count) ==
    /\ stage = "scaled" /\ ~DiscardDue
    /\ Len(source) < FeedQueue
    /\ stage' = "idle"
    /\ source' = Append(source, [chunks |-> count, sent |-> 0])
    /\ UNCHANGED <<session, talking, client_quiet, offered, stream,
                   server_feed_vars>>

(* The source without the chunk at its front, which is the nal's next.     *)
PopChunk(queue) ==
    LET nal == Head(queue) IN
    IF nal.sent + 1 = nal.chunks
    THEN Tail(queue)
    ELSE <<[nal EXCEPT !.sent = @ + 1]>> \o Tail(queue)

DiscardVideo ==
    /\ DiscardDue
    /\ source' = << >>
    /\ UNCHANGED <<stage, session, talking, client_quiet, offered, stream,
                   server_feed_vars>>

(* The stream with one more chunk: over a full window the oldest chunk is  *)
(* written off, and the one behind it follows a gap.                       *)
PushFrame(chunks, chunk) ==
    LET longer == Append(chunks, chunk) IN
    IF Len(longer) <= ChunkWindow
    THEN longer
    ELSE [Tail(longer) EXCEPT ![1].gap = TRUE]

X_Transmit ==
    /\ source # << >> /\ session # {}
    /\ source' = PopChunk(source)
    /\ LET nal == Head(source)
       IN  stream' = PushFrame(stream, Chunk(nal.sent + 1, nal.chunks, FALSE))
    /\ talking' = TRUE
    /\ UNCHANGED <<stage, session, client_quiet, offered, server_feed_vars>>

(* "network transmit": push, send, and only then look whether the session  *)
(* is dead.                                                                *)
Transmit ==
    /\ source # << >> /\ session # {}
    /\ source' = PopChunk(source)
    /\ LET nal == Head(source)
           sent == PushFrame(stream, Chunk(nal.sent + 1, nal.chunks, FALSE))
       IN  IF client_quiet
           THEN /\ session' = {} /\ talking' = FALSE
                /\ offered' = {} /\ stream' = << >>
           ELSE /\ stream' = sent /\ talking' = TRUE
                /\ UNCHANGED <<session, offered>>
    /\ UNCHANGED <<stage, client_quiet, server_feed_vars>>

(* A key reply, used only without a session; the session starts fresh.     *)
process_keyreply(k) ==
    /\ InPoll
    /\ k \in offered
    /\ IF session = {}
       THEN /\ session' = {k} /\ talking' = FALSE /\ client_quiet' = FALSE
            /\ stream' = << >>
       ELSE UNCHANGED <<session, talking, client_quiet, stream>>
    /\ offered' = offered \ {k}
    /\ UNCHANGED <<stage, source, server_feed_vars>>

(* An ack of the server's session reaches the client's.                    *)
ClientHears ==
    /\ InPoll
    /\ session # {} /\ current = session /\ talking /\ ~stopped
    /\ client_quiet' = FALSE
    /\ UNCHANGED <<stage, source, session, talking, offered, stream,
                   server_feed_vars>>

(* Four seconds pass without a good ack.                                   *)
ClientQuiet ==
    /\ session # {} /\ ~client_quiet
    /\ client_quiet' = TRUE
    /\ UNCHANGED <<stage, source, session, talking, offered, stream,
                   server_feed_vars>>

------------------------------------------------------------------------------
(* The server.                                                             *)

(* One chunk more for the NAL, which is decoded when it is the last; a NAL *)
(* that does not fit throws, out of the loop and out of the program.       *)
Reassemble(s, chunk) ==
    LET nal == Append(s.nal, chunk) IN
    IF s.stopped THEN s
    ELSE IF Len(nal) > NalCapacity THEN [s EXCEPT !.shown = nal, !.stopped = TRUE]
    ELSE IF end_of_nal(chunk) THEN [s EXCEPT !.nal = << >>, !.shown = nal]
    ELSE [s EXCEPT !.nal = nal]

(* The first n chunks of the stream, one by one.                           *)
Reassembled(nal, n) ==
    LET taken[i \in 0 .. n] ==
            IF i = 0 THEN [nal |-> nal, shown |-> << >>, stopped |-> FALSE]
            ELSE Reassemble(taken[i - 1], stream[i])
    IN  taken[n]

X_NalOf(k) == current_nal

(* A new VSClient has nothing of the NAL of the one before.                *)
NalOf(k) == IF current = {k} THEN current_nal ELSE << >>

(* A packet of the client's session k releases the next n chunks.  One     *)
(* under the next keys makes the session before it is used.                *)
receive_packet(k, n) ==
    /\ session = {k} /\ talking
    /\ current = {k} \/ next_key = k
    /\ current' = {k}
    /\ next_key' = IF current = {k} THEN next_key ELSE (next_key + 1) % FeedKeys
    /\ server_quiet' = FALSE
    /\ LET after == Reassembled(NalOf(k), n)
       IN  /\ current_nal' = after.nal
           /\ decoded' = after.shown
           /\ stopped' = after.stopped
    /\ stream' = SubSeq(stream, n + 1, Len(stream))
    /\ UNCHANGED <<client_feed_vars, offered>>

(* A client without a session asks for keys every 250 ms, and a request    *)
(* that arrives is answered with the keys of the server's next session.    *)
KeyRequest ==
    /\ session = {}
    /\ offered' = offered \cup {next_key}
    /\ UNCHANGED <<client_feed_vars, stream, server_feed_vars>>

LoseKeyReply(k) ==
    /\ k \in offered
    /\ offered' = offered \ {k}
    /\ UNCHANGED <<client_feed_vars, stream, server_feed_vars>>

ServerQuiet ==
    /\ current # {} /\ ~server_quiet
    /\ server_quiet' = TRUE
    /\ UNCHANGED <<client_feed_vars, offered, stream, current, next_key,
                   current_nal, decoded, stopped>>

(* "send acks": a client that has not acked for CLIENT_TIMEOUT_NS is out.  *)
ServerTimeout ==
    /\ current # {} /\ server_quiet
    /\ current' = {} /\ current_nal' = << >>
    /\ UNCHANGED <<client_feed_vars, offered, stream, next_key, server_quiet,
                   decoded, stopped>>

ClientFeedNext ==
    \/ ReadCameraFrame \/ ScaleFrame
    \/ \E count \in NalChunks : Encode(count)
    \/ DiscardVideo \/ Transmit
    \/ \E k \in offered : process_keyreply(k)
    \/ ClientHears \/ ClientQuiet

ServerFeedNext ==
    \/ \E k \in session, n \in 0 .. Len(stream) : receive_packet(k, n)
    \/ KeyRequest
    \/ ServerQuiet \/ ServerTimeout

FeedNext ==
    \/ ClientFeedNext
    \/ ~stopped /\ ServerFeedNext
    \/ \E k \in offered : LoseKeyReply(k)

(* The camera goes on, the loop runs its rules, and time passes.           *)
FeedFairness ==
    /\ WF_feed_vars(ReadCameraFrame) /\ WF_feed_vars(ScaleFrame)
    /\ WF_feed_vars(\E count \in NalChunks : Encode(count))
    /\ WF_feed_vars(DiscardVideo) /\ WF_feed_vars(Transmit)
    /\ WF_feed_vars(current # session /\ ClientQuiet)

------------------------------------------------------------------------------
Whole(nal) ==
    /\ nal[Len(nal)].count = Len(nal)
    /\ \A i \in DOMAIN nal : nal[i].number = i

(* What the server decodes as one NAL is one NAL of the encoder, whole:    *)
(* sessions start and end between NALs at both ends, and nothing of a NAL  *)
(* is left over for the next.  Only a NAL in which, or right before which, *)
(* the connection has written chunks off may be damaged or too big.        *)
NalsAreWhole ==
    decoded # << >> =>
        \/ Whole(decoded) /\ ~stopped
        \/ \E i \in DOMAIN decoded : decoded[i].gap

(* A session the server does not hold, or no longer holds, is given up, as *)
(* long as the camera delivers frames; or the server takes it after all.   *)
DeadSessionIsLeft ==
    (session # {} /\ current # session) ~> (session = {} \/ current = session)
=============================================================================
