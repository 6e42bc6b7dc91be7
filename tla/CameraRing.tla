------------------------------ MODULE CameraRing ------------------------------
(***************************************************************************)
(* The frame buffers that the camera's driver and the client share         *)
(* (video/camera.cc).  The driver fills the buffers in the order they are  *)
(* queued and hands them out in that order (video4linux2, not part of the  *)
(* repository); the client reads the memory of the buffer its own counter  *)
(* names, and not of the one the driver returned.                          *)
(***************************************************************************)
EXTENDS Integers, Sequences

CONSTANTS
    Buffers,  \* NUM_BUFFERS
    WarmUp    \* frames that are not decoded at first (5)

ASSUME RingConstants == Buffers \in Nat \ {0} /\ WarmUp \in Nat

VARIABLES
    queued,             \* indices of empty buffers, in the order queued
    filled,             \* [index, good] of filled buffers, in the order filled
    next_buffer_index,  \* where the client looks next
    frame_count,        \* good frames so far, at most one more than WarmUp
    shown               \* where the raster's picture came from: a set of at
                        \* most one [read, returned]

ring_vars == <<queued, filled, next_buffer_index, frame_count, shown>>

RingInit ==
    /\ queued = [i \in 1 .. Buffers |-> i - 1]
    /\ filled = << >> /\ next_buffer_index = 0
    /\ frame_count = 0 /\ shown = {}

(* The driver fills a buffer, with a frame or with an error.               *)
Fill(good) ==
    /\ queued # << >>
    /\ filled' = Append(filled, [index |-> Head(queued), good |-> good])
    /\ queued' = Tail(queued)
    /\ UNCHANGED <<next_buffer_index, frame_count, shown>>

X_get_next_frame(decodes) ==
    /\ filled # << >>
    /\ LET buffer == Head(filled) IN
       /\ IF buffer.good /\ frame_count > WarmUp /\ decodes
          THEN shown' = {[read |-> next_buffer_index, returned |-> buffer.index]}
          ELSE UNCHANGED shown
       /\ frame_count' = IF buffer.good /\ frame_count <= WarmUp
                         THEN frame_count + 1 ELSE frame_count
       /\ queued' = Append(queued, buffer.index)
       /\ next_buffer_index' = IF buffer.good
                               THEN (next_buffer_index + 1) % Buffers
                               ELSE next_buffer_index
    /\ filled' = Tail(filled)

(* A frame is dequeued, decoded and its buffer queued again.  A picture    *)
(* that does not decode is reported and the raster stays as it is.         *)
get_next_frame(decodes) ==
    /\ filled # << >>
    /\ LET buffer == Head(filled) IN
       /\ IF buffer.good /\ frame_count > WarmUp /\ decodes
          THEN shown' = {[read |-> next_buffer_index, returned |-> buffer.index]}
          ELSE UNCHANGED shown
       /\ frame_count' = IF buffer.good /\ frame_count <= WarmUp
                         THEN frame_count + 1 ELSE frame_count
       /\ queued' = Append(queued, buffer.index)
    /\ filled' = Tail(filled)
    /\ next_buffer_index' = (next_buffer_index + 1) % Buffers

RingNext == \E b \in BOOLEAN : Fill(b) \/ get_next_frame(b)

------------------------------------------------------------------------------
(* The counter and the driver stay in step, through frames with errors and *)
(* pictures that do not decode: what is read is the buffer just filled,    *)
(* never one the driver may be writing to.                                 *)
ReadsFilledBuffer == \A s \in shown : s.read = s.returned
=============================================================================
