----------------------------- MODULE VideoSource -----------------------------
(***************************************************************************)
(* The queue between the video encoder and the connection                  *)
(* (video/video_source.cc): encoded NALs are cut into chunks, and the      *)
(* chunks of a NAL are spread over one frame interval.                     *)
(*                                                                         *)
(* Times are relative to now, in units of which FrameInterval make one     *)
(* frame interval: Tick lowers them all.  The event loop may look at a     *)
(* chunk that is ready up to MaxLate too late.                             *)
(***************************************************************************)
EXTENDS Integers, Sequences, FiniteSets

CONSTANTS
    FrameInterval,  \* frame_interval
    ChunkCapacity,  \* VideoChunk::Buffer::capacity(), in bytes
    NalSizes,       \* sizes of the encoder's NALs, in bytes
    MaxLate,        \* bound: how long a ready chunk waits for the loop
    SourceQueue     \* bound: NALs queued

ASSUME SourceConstants ==
    /\ {FrameInterval, ChunkCapacity, SourceQueue} \subseteq Nat \ {0}
    /\ MaxLate \in Nat
    /\ NalSizes \subseteq Nat \ {0}

VARIABLES
    outbound_queue,       \* sequence of [size, offset, completion]
    timestamp_next_chunk  \* the time of the next chunk, or no time: a set

source_vars == <<outbound_queue, timestamp_next_chunk>>

AtMost(a, b) == IF a < b THEN a ELSE b

num_chunks(nal) ==
    nal.size \div ChunkCapacity + (IF nal.size % ChunkCapacity = 0 THEN 0 ELSE 1)

next_chunk_size(nal) == AtMost(nal.size - nal.offset, ChunkCapacity)

has_frame == outbound_queue # << >>

ready == has_frame /\ \A t \in timestamp_next_chunk : t <= 0

SourceInit == outbound_queue = << >> /\ timestamp_next_chunk = {}

(* A NAL is complete one interval from now; an idle source starts at once. *)
push(size) ==
    /\ Len(outbound_queue) < SourceQueue
    /\ outbound_queue' =
         Append(outbound_queue,
                [size |-> size, offset |-> 0, completion |-> FrameInterval])
    /\ timestamp_next_chunk' =
         IF timestamp_next_chunk = {} THEN {0} ELSE timestamp_next_chunk

(* The queue without the chunk at its front.                               *)
PoppedQueue ==
    LET nal == Head(outbound_queue)
        offset == nal.offset + next_chunk_size(nal)
    IN  IF offset = nal.size
        THEN Tail(outbound_queue)
        ELSE <<[nal EXCEPT !.offset = offset]>> \o Tail(outbound_queue)

X_NextChunkTime(t, nal) == t + FrameInterval \div num_chunks(nal)

(* When the chunk after one sent at time t is due, before the NAL it is of *)
(* has to be complete.                                                     *)
NextChunkTime(t, nal) ==
    AtMost(nal.completion, t + FrameInterval \div num_chunks(nal))

(* The transmit rule takes a chunk once it is ready.                       *)
pop_frame ==
    /\ ready
    /\ outbound_queue' = PoppedQueue
    /\ timestamp_next_chunk' =
         IF PoppedQueue = << >>
         THEN {}
         ELSE {NextChunkTime(t, Head(PoppedQueue)) : t \in timestamp_next_chunk}

(* Without a session the whole queue is dropped at once.                   *)
discard == has_frame /\ outbound_queue' = << >> /\ timestamp_next_chunk' = {}

Tick ==
    /\ \A t \in timestamp_next_chunk : t > -MaxLate
    /\ timestamp_next_chunk' = {t - 1 : t \in timestamp_next_chunk}
    /\ outbound_queue' =
         [i \in DOMAIN outbound_queue |->
             [outbound_queue[i] EXCEPT !.completion = @ - 1]]

SourceNext ==
    \/ \E size \in NalSizes : push(size)
    \/ pop_frame
    \/ discard
    \/ Tick

------------------------------------------------------------------------------
(* However many NALs a late loop pushes together, the last chunk of each   *)
(* is offered by the NAL's completion time: what is overdue is overdue     *)
(* only by the loop's own lateness, and pacing never delays it further.    *)
PacingMeetsDeadline ==
    \A i \in DOMAIN outbound_queue : outbound_queue[i].completion >= -MaxLate

(* The chunks left of a NAL cover it: the one flagged as the last          *)
(* (video_source.cc:49-52) is the one that empties it, and there are as    *)
(* many in all as the pacing divides the interval by.                      *)
ChunksCoverNal ==
    \A i \in DOMAIN outbound_queue :
        LET nal == outbound_queue[i] IN
        /\ nal.offset < nal.size
        /\ nal.offset % ChunkCapacity = 0
        /\ (nal.offset \div ChunkCapacity = num_chunks(nal) - 1)
             <=> (nal.offset + next_chunk_size(nal) = nal.size)
=============================================================================
