----------------------------- MODULE MediaProofs ------------------------------
(***************************************************************************)
(* Proofs about the parts of the video path and of the sound device that   *)
(* MCMedia runs: the camera's buffers (CameraRing), the queue before the   *)
(* network (VideoSource), the view of a camera (VideoZoom), the two halves *)
(* of the sound device (Devices) and the video feed (VideoFeed); about the *)
(* scene (Scene); and about three parts of MCParts: a viewer's stream      *)
(* (Viewer), the event loop with the rules of the viewers' connections     *)
(* (EventLoop) and the ring buffers (Rings).                               *)
(*                                                                         *)
(* Each part has its own specification, here or in its module, initial     *)
(* states and steps without fairness, of which a theorem states the part's *)
(* property; the last theorem says that the specification TLC runs for the *)
(* parts of MCMedia implements theirs (PartsProofs has that of MCParts).   *)
(***************************************************************************)
EXTENDS MCMedia, Viewer, Scene, EventLoop, Rings, Numbers, SequenceTheorems,
        FiniteSetTheorems, TLAPS

RingSpec == RingInit /\ [][RingNext]_ring_vars
SourceSpec == SourceInit /\ [][SourceNext]_source_vars
ZoomSpec == ZoomInit /\ [][ZoomNext]_zoom_vars
FeedSpec == FeedInit /\ [][FeedNext]_feed_vars
DevicesSpec == DevicesInit /\ [][DevicesNext]_device_vars

------------------------------------------------------------------------------
(* CameraRing.  Driver and client go round the same ring: the buffers that *)
(* are filled and behind them those that wait to be are one after the      *)
(* other, from the one at which the client looks next, all the way round.  *)

FilledBuffer == [index : 0 .. Buffers - 1, good : BOOLEAN]

RingTypes ==
    /\ queued \in Seq(0 .. Buffers - 1)
    /\ filled \in Seq(FilledBuffer)
    /\ next_buffer_index \in 0 .. Buffers - 1

InRingOrder ==
    /\ Len(filled) + Len(queued) = Buffers
    /\ \A i \in 1 .. Len(filled) :
           filled[i].index = (next_buffer_index + (i - 1)) % Buffers
    /\ \A j \in 1 .. Len(queued) :
           queued[j] = (next_buffer_index + (Len(filled) + j - 1)) % Buffers

RingInv == RingTypes /\ InRingOrder /\ ReadsFilledBuffer

LEMMA RingStarts == RingInit => RingInv
<1> SUFFICES ASSUME RingInit PROVE RingInv
  OBVIOUS
<1> USE RingConstants
<1>1. RingTypes
  BY DEF RingInit, RingTypes
<1>2. Len(queued) = Buffers /\ Len(filled) = 0
  BY DEF RingInit
<1>3. \A j \in 1 .. Len(queued) : queued[j] = (next_buffer_index + (Len(filled) + j - 1)) % Buffers
  <2> TAKE j \in 1 .. Len(queued)
  <2>1. queued[j] = j - 1 /\ j - 1 \in 0 .. Buffers - 1
    BY <1>2 DEF RingInit
  <2>2. next_buffer_index + (Len(filled) + j - 1) = j - 1
    BY <1>2 DEF RingInit
  <2> QED
    BY <2>1, <2>2, OnceRound
<1> QED
  BY <1>1, <1>2, <1>3 DEF RingInv, InRingOrder, ReadsFilledBuffer, RingInit

LEMMA FillKeepsRingInv ==
    ASSUME RingInv, NEW whole \in BOOLEAN, Fill(whole)
    PROVE  RingInv'
<1> USE RingConstants
<1>1. RingTypes'
  <2>1. Head(queued) \in 0 .. Buffers - 1
    BY DEF RingInv, RingTypes, Fill
  <2>2. [index |-> Head(queued), good |-> whole] \in FilledBuffer
    BY <2>1 DEF FilledBuffer
  <2> QED
    BY <2>2 DEF RingInv, RingTypes, Fill
<1>2. /\ Len(filled') = Len(filled) + 1 /\ Len(queued') = Len(queued) - 1
      /\ Len(filled) \in Nat /\ Len(queued) \in Nat \ {0}
      /\ next_buffer_index' = next_buffer_index
  BY DEF RingInv, RingTypes, Fill
<1>3. ASSUME NEW i \in 1 .. Len(filled') 
      PROVE  filled'[i].index = (next_buffer_index' + (i - 1)) % Buffers
  <2>1. CASE i = Len(filled')
    <3>1. filled'[i].index = queued[1]
      BY <2>1, <1>2 DEF RingInv, RingTypes, Fill
    <3>2. queued[1] = (next_buffer_index + (Len(filled) + 1 - 1)) % Buffers
      BY <1>2 DEF RingInv, InRingOrder
    <3>3. Len(filled) + 1 - 1 = i - 1
      BY <2>1, <1>2
    <3> QED
      BY <3>1, <3>2, <3>3, <1>2
  <2>2. CASE i # Len(filled')
    <3>1. i \in 1 .. Len(filled) /\ filled'[i] = filled[i]
      BY <2>2, <1>2 DEF RingInv, RingTypes, Fill
    <3> QED
      BY <3>1, <1>2 DEF RingInv, InRingOrder
  <2> QED
    BY <2>1, <2>2
<1>4. ASSUME NEW j \in 1 .. Len(queued')
      PROVE  queued'[j] = (next_buffer_index' + (Len(filled') + j - 1)) % Buffers
  <2>1. j + 1 \in 1 .. Len(queued) /\ queued'[j] = queued[j + 1]
    BY <1>2 DEF RingInv, RingTypes, Fill
  <2>2. Len(filled) + (j + 1) - 1 = Len(filled') + j - 1
    BY <1>2
  <2> QED
    BY <2>1, <2>2, <1>2 DEF RingInv, InRingOrder
<1>5. InRingOrder'
  BY <1>2, <1>3, <1>4 DEF RingInv, InRingOrder
<1> QED
  BY <1>1, <1>5 DEF RingInv, ReadsFilledBuffer, Fill

LEMMA FrameKeepsRingInv ==
    ASSUME RingInv, NEW decodes \in BOOLEAN, get_next_frame(decodes)
    PROVE  RingInv'
<1> USE RingConstants
<1> DEFINE n == next_buffer_index
<1>1. n \in 0 .. Buffers - 1 /\ n' = (n + 1) % Buffers /\ n' \in 0 .. Buffers - 1
  BY Quotient DEF RingInv, RingTypes, get_next_frame
<1>2. /\ Len(filled') = Len(filled) - 1 /\ Len(queued') = Len(queued) + 1
      /\ Len(filled) \in Nat \ {0} /\ Len(queued) \in Nat
      /\ filled' = Tail(filled) /\ queued' = Append(queued, filled[1].index)
  <2>1. filled # << >> /\ filled' = Tail(filled)
        /\ queued' = Append(queued, Head(filled).index)
    BY DEF get_next_frame
  <2>2. Len(filled) \in Nat \ {0} /\ Len(queued) \in Nat /\ Head(filled) = filled[1]
    BY <2>1 DEF RingInv, RingTypes
  <2> QED
    BY <2>1, <2>2 DEF RingInv, RingTypes
<1>3. RingTypes'
  <2>1. filled[1].index \in 0 .. Buffers - 1
    <3>1. filled[1] \in FilledBuffer
      BY <1>2 DEF RingInv, RingTypes
    <3> QED
      BY <3>1 DEF FilledBuffer
  <2>2. queued' \in Seq(0 .. Buffers - 1)
    <3>1. queued \in Seq(0 .. Buffers - 1)
      BY DEF RingInv, RingTypes
    <3> QED
      BY <3>1, <1>2, <2>1
  <2>3. filled' \in Seq(FilledBuffer)
    <3>1. filled \in Seq(FilledBuffer) /\ filled # << >>
      BY <1>2 DEF RingInv, RingTypes
    <3> QED
      BY <3>1, <1>2
  <2> QED
    BY <1>1, <2>2, <2>3 DEF RingTypes
<1>4. filled[1].index = n
  <2>1. filled[1].index = (n + (1 - 1)) % Buffers
    <3>1. 1 \in 1 .. Len(filled)
      BY <1>2
    <3>2. \A i \in 1 .. Len(filled) : filled[i].index = (n + (i - 1)) % Buffers
      BY DEF RingInv, InRingOrder
    <3> QED
      BY <3>1, <3>2
  <2>2. n + (1 - 1) = n
    BY <1>1
  <2>3. n % Buffers = n
    BY <1>1, OnceRound
  <2> QED
    BY <2>1, <2>2, <2>3
<1>5. \A k \in Int : (n' + k) % Buffers = (n + (k + 1)) % Buffers
  <2> TAKE k \in Int
  <2>1. (((n + 1) % Buffers) + k) % Buffers = ((n + 1) + k) % Buffers
    <3> DEFINE m == n + 1
    <3>1. m \in Int
      BY <1>1
    <3> HIDE DEF m
    <3>2. ((m % Buffers) + k) % Buffers = (m + k) % Buffers
      BY <3>1, RoundTheRing
    <3> QED
      BY <3>2 DEF m
  <2>2. (n + 1) + k = n + (k + 1)
    BY <1>1
  <2> QED
    BY <2>1, <2>2, <1>1
<1>6. ASSUME NEW i \in 1 .. Len(filled')
      PROVE  filled'[i].index = (n' + (i - 1)) % Buffers
  <2>1. i + 1 \in 1 .. Len(filled) /\ filled'[i] = filled[i + 1]
    BY <1>2 DEF RingInv, RingTypes
  <2>2. filled[i + 1].index = (n + ((i + 1) - 1)) % Buffers
    BY <2>1 DEF RingInv, InRingOrder
  <2>3. (i + 1) - 1 = (i - 1) + 1 /\ i - 1 \in Int
    OBVIOUS
  <2> QED
    BY <2>1, <2>2, <2>3, <1>5
<1>7. ASSUME NEW j \in 1 .. Len(queued')
      PROVE  queued'[j] = (n' + (Len(filled') + j - 1)) % Buffers
  <2>1. Len(filled') + j - 1 \in Int /\ (Len(filled') + j - 1) + 1 = Len(filled) + j - 1
    BY <1>2
  <2>2. (n' + (Len(filled') + j - 1)) % Buffers = (n + (Len(filled) + j - 1)) % Buffers
    BY <2>1, <1>5
  <2>3. CASE j = Len(queued')
    <3>1. queued'[j] = n
      BY <2>3, <1>2, <1>4 DEF RingInv, RingTypes
    <3>2. Len(filled) + j - 1 = Buffers
      BY <2>3, <1>2 DEF RingInv, InRingOrder
    <3>3. (n + Buffers) % Buffers = n
      BY <1>1, OnceRound
    <3> QED
      BY <2>2, <3>1, <3>2, <3>3
  <2>4. CASE j # Len(queued')
    <3>1. j \in 1 .. Len(queued) /\ queued'[j] = queued[j]
      BY <2>4, <1>2 DEF RingInv, RingTypes
    <3> QED
      BY <3>1, <2>2 DEF RingInv, InRingOrder
  <2> QED
    BY <2>3, <2>4
<1>8. InRingOrder'
  <2>1. Len(filled') + Len(queued') = Buffers
    <3>1. Len(filled) + Len(queued) = Buffers
      BY DEF RingInv, InRingOrder
    <3>2. /\ Len(filled') = Len(filled) - 1 /\ Len(queued') = Len(queued) + 1
          /\ Len(filled) \in Nat /\ Len(queued) \in Nat
      BY <1>2
    <3> QED
      BY <3>1, <3>2
  <2> QED
    BY <2>1, <1>6, <1>7 DEF InRingOrder
<1>9. ReadsFilledBuffer'
  BY <1>4 DEF RingInv, RingTypes, ReadsFilledBuffer, get_next_frame
<1> QED
  BY <1>3, <1>8, <1>9 DEF RingInv

(* The client always reads the buffer that the driver has just given back, *)
(* through frames with errors and pictures that do not decode, however     *)
(* many buffers there are (camera.cc, next_buffer_index).                  *)
THEOREM RingReadsFilledBuffer == RingSpec => []ReadsFilledBuffer
<1>1. RingInv /\ [RingNext]_ring_vars => RingInv'
  <2> SUFFICES ASSUME RingInv, [RingNext]_ring_vars PROVE RingInv'
    OBVIOUS
  <2>1. CASE RingNext
    BY <2>1, FillKeepsRingInv, FrameKeepsRingInv DEF RingNext
  <2>2. CASE UNCHANGED ring_vars
    BY <2>2 DEF ring_vars, RingInv, RingTypes, InRingOrder, ReadsFilledBuffer
  <2> QED
    BY <2>1, <2>2
<1>2. RingInv => ReadsFilledBuffer
  BY DEF RingInv
<1> QED
  BY <1>1, <1>2, RingStarts, PTL DEF RingSpec

------------------------------------------------------------------------------
(* VideoSource.  The next chunk is due before any queued NAL has to be     *)
(* complete, and the NALs have to be complete in the order of the queue;   *)
(* so the only time that can be missed is that of the next chunk, and that *)
(* only by what the loop is late.                                          *)

QueuedNal == [size : Nat \ {0}, offset : Nat, completion : Int]

SourceTypes ==
    /\ outbound_queue \in Seq(QueuedNal)
    /\ IF outbound_queue = << >> THEN timestamp_next_chunk = {}
       ELSE \E t \in Int : timestamp_next_chunk = {t}

DueBeforeCompletions ==
    /\ \A t \in timestamp_next_chunk :
           /\ t >= -MaxLate
           /\ \A i \in 1 .. Len(outbound_queue) : t <= outbound_queue[i].completion
    /\ \A i \in 1 .. Len(outbound_queue) :
           /\ outbound_queue[i].completion <= FrameInterval
           /\ \A j \in i .. Len(outbound_queue) :
                  outbound_queue[i].completion <= outbound_queue[j].completion

(* What has been sent of a NAL is a number of full chunks, and not all.    *)
CutInChunks ==
    \A i \in 1 .. Len(outbound_queue) :
        /\ outbound_queue[i].offset < outbound_queue[i].size
        /\ \E k \in Nat : outbound_queue[i].offset = ChunkCapacity * k

SourceInv == SourceTypes /\ DueBeforeCompletions /\ CutInChunks

LEMMA ChunksPositive ==
    ASSUME NEW nal \in QueuedNal
    PROVE  num_chunks(nal) \in Nat \ {0}
<1> USE SourceConstants
<1> DEFINE q == nal.size \div ChunkCapacity
           r == nal.size % ChunkCapacity
<1>3. nal.size \in Nat \ {0} /\ nal.size \in Int /\ ChunkCapacity \in Nat \ {0}
  BY DEF QueuedNal
<1>2. q \in Int /\ r \in 0 .. ChunkCapacity - 1 /\ nal.size = ChunkCapacity * q + r
  <2> DEFINE s == nal.size
  <2>1. s \in Int
    BY <1>3
  <2> HIDE DEF s
  <2>2. /\ s \div ChunkCapacity \in Int /\ s % ChunkCapacity \in 0 .. ChunkCapacity - 1
        /\ s = ChunkCapacity * (s \div ChunkCapacity) + (s % ChunkCapacity)
    BY <1>3, <2>1, Quotient
  <2> QED
    BY <2>2 DEF s
<1>4. num_chunks(nal) = q + (IF r = 0 THEN 0 ELSE 1)
  BY DEF num_chunks
<1> HIDE DEF q, r
<1>5. q >= 0
  <2>1. q < 0 => ChunkCapacity * q <= -ChunkCapacity
    BY <1>2, <1>3
  <2> QED
    BY <2>1, <1>2, <1>3
<1>6. r = 0 => q # 0
  BY <1>2, <1>3
<1> QED
  BY <1>2, <1>4, <1>5, <1>6

LEMMA SourceStarts == SourceInit => SourceInv
    BY DEF SourceInit, SourceInv, SourceTypes, DueBeforeCompletions, CutInChunks

LEMMA PushKeepsSourceInv ==
    ASSUME SourceInv, NEW size \in NalSizes, push(size)
    PROVE  SourceInv'
<1> USE SourceConstants
<1> DEFINE nal == [size |-> size, offset |-> 0, completion |-> FrameInterval]
           q == outbound_queue
<1>1. nal \in QueuedNal
  BY DEF QueuedNal
<1>2. q \in Seq(QueuedNal) /\ q' = Append(q, nal)
  BY DEF SourceInv, SourceTypes, push
<1>3. q' \in Seq(QueuedNal) /\ q' # << >> /\ Len(q') = Len(q) + 1 /\ Len(q) \in Nat
  BY <1>1, <1>2
<1>4. /\ \A i \in 1 .. Len(q) : q'[i] = q[i]
      /\ q'[Len(q')] = nal
  BY <1>1, <1>2, <1>3
<1>5. q[1] \in QueuedNal \/ q = << >>
  BY <1>2
<1>6. PICK t \in Int : /\ timestamp_next_chunk' = {t}
                       /\ \/ q = << >> /\ t = 0
                          \/ q # << >> /\ timestamp_next_chunk = {t}
  <2>1. CASE q = << >>
    <3>1. timestamp_next_chunk' = {0}
      BY <2>1 DEF SourceInv, SourceTypes, push
    <3> QED
      BY <2>1, <3>1
  <2>2. CASE q # << >>
    <3>1. PICK t \in Int : timestamp_next_chunk = {t}
      BY <2>2 DEF SourceInv, SourceTypes
    <3>2. timestamp_next_chunk' = {t}
      BY <3>1 DEF push
    <3> QED
      BY <2>2, <3>1, <3>2
  <2> QED
    BY <2>1, <2>2
<1>7. t >= -MaxLate /\ t <= FrameInterval
  <2>1. CASE q = << >>
    BY <2>1, <1>6
  <2>2. CASE q # << >>
    <3>1. 1 \in 1 .. Len(q) /\ q[1].completion \in Int
      <4>1. 1 \in 1 .. Len(q) /\ q[1] \in QueuedNal
        BY <2>2, <1>2
      <4> QED
        BY <4>1 DEF QueuedNal
    <3>2. t <= q[1].completion /\ q[1].completion <= FrameInterval /\ t >= -MaxLate
      BY <3>1, <2>2, <1>6 DEF SourceInv, DueBeforeCompletions
    <3> QED
      BY <3>1, <3>2
  <2> QED
    BY <2>1, <2>2
<1>8. \A i \in 1 .. Len(q) : t <= q[i].completion
  <2> TAKE i \in 1 .. Len(q)
  <2>1. q # << >>
    BY <1>2
  <2> QED
    BY <2>1, <1>6 DEF SourceInv, DueBeforeCompletions
<1>9. SourceTypes'
  BY <1>3, <1>6 DEF SourceTypes
<1>10. DueBeforeCompletions'
  <2>1. ASSUME NEW i \in 1 .. Len(q')
        PROVE  t <= q'[i].completion /\ q'[i].completion <= FrameInterval
    <3>1. CASE i = Len(q')
      BY <3>1, <1>4, <1>7
    <3>2. CASE i # Len(q')
      <4>1. i \in 1 .. Len(q) /\ q'[i] = q[i]
        BY <3>2, <1>3, <1>4
      <4> QED
        BY <4>1, <1>8 DEF SourceInv, DueBeforeCompletions
    <3> QED
      BY <3>1, <3>2
  <2>2. ASSUME NEW i \in 1 .. Len(q'), NEW j \in i .. Len(q')
        PROVE  q'[i].completion <= q'[j].completion
    <3>1. CASE j = Len(q')
      BY <3>1, <2>1, <1>4
    <3>2. CASE j # Len(q')
      <4>1. i \in 1 .. Len(q) /\ q'[i] = q[i] /\ j \in i .. Len(q) /\ q'[j] = q[j]
        BY <3>2, <1>3, <1>4
      <4> QED
        BY <4>1 DEF SourceInv, DueBeforeCompletions
    <3> QED
      BY <3>1, <3>2
  <2> QED
    BY <2>1, <2>2, <1>6, <1>7 DEF DueBeforeCompletions
<1>11. CutInChunks'
  <2> SUFFICES ASSUME NEW i \in 1 .. Len(q')
               PROVE  /\ q'[i].offset < q'[i].size
                      /\ \E k \in Nat : q'[i].offset = ChunkCapacity * k
    BY DEF CutInChunks
  <2>1. CASE i = Len(q')
    <3>1. q'[i].offset = ChunkCapacity * 0 /\ q'[i].offset < q'[i].size
      BY <2>1, <1>4
    <3> QED
      BY <3>1
  <2>2. CASE i # Len(q')
    <3>1. i \in 1 .. Len(q) /\ q'[i] = q[i]
      BY <2>2, <1>3, <1>4
    <3> QED
      BY <3>1 DEF SourceInv, CutInChunks
  <2> QED
    BY <2>1, <2>2
<1> QED
  BY <1>9, <1>10, <1>11 DEF SourceInv

(* A chunk that does not empty its NAL is a full one.                      *)
LEMMA NextChunk ==
    ASSUME NEW nal \in QueuedNal, nal.offset < nal.size,
           NEW k \in Nat, nal.offset = ChunkCapacity * k
    PROVE  LET offset == nal.offset + next_chunk_size(nal) IN
           /\ offset \in Nat /\ offset <= nal.size
           /\ offset # nal.size => offset = ChunkCapacity * (k + 1)
<1> USE SourceConstants
<1>1. ChunkCapacity * (k + 1) = ChunkCapacity * k + ChunkCapacity
  BY Distributes
<1>2. nal.size \in Nat /\ nal.offset \in Nat /\ ChunkCapacity \in Nat
  BY DEF QueuedNal
<1>3. next_chunk_size(nal) = IF nal.size - nal.offset < ChunkCapacity
                             THEN nal.size - nal.offset ELSE ChunkCapacity
  BY DEF next_chunk_size, AtMost
<1> QED
  BY <1>1, <1>2, <1>3

LEMMA PopKeepsSourceInv ==
    ASSUME SourceInv, pop_frame
    PROVE  SourceInv'
<1> USE SourceConstants
<1> DEFINE q == outbound_queue
           nal == Head(q)
           offset == nal.offset + next_chunk_size(nal)
<1>1. /\ q # << >> /\ q \in Seq(QueuedNal) /\ nal = q[1] /\ nal \in QueuedNal
      /\ 1 \in 1 .. Len(q) /\ Len(q) \in Nat \ {0}
  BY DEF SourceInv, SourceTypes, pop_frame, ready, has_frame
<1>2. PICK t \in Int : timestamp_next_chunk = {t}
  BY <1>1 DEF SourceInv, SourceTypes
<1>3. PICK k \in Nat : nal.offset = ChunkCapacity * k
  BY <1>1 DEF SourceInv, CutInChunks
<1>4. /\ offset \in Nat /\ offset <= nal.size
      /\ offset # nal.size => offset = ChunkCapacity * (k + 1)
  BY <1>1, <1>3, NextChunk DEF SourceInv, CutInChunks
<1>5. q' = IF offset = nal.size THEN Tail(q) ELSE <<[nal EXCEPT !.offset = offset]>> \o Tail(q)
  BY DEF pop_frame, PoppedQueue
<1> HIDE DEF offset
<1>6. /\ q' \in Seq(QueuedNal)
      /\ \E d \in {0, 1} : \A i \in 1 .. Len(q') :
            /\ i + d \in 1 .. Len(q) /\ q'[i].completion = q[i + d].completion
            /\ q'[i].size = q[i + d].size
            /\ \/ q'[i].offset = q[i + d].offset
               \/ q'[i].offset = offset /\ q[i + d] = nal /\ offset # nal.size
  <2>1. CASE offset = nal.size
    <3>1. q' = Tail(q)
      BY <2>1, <1>5
    <3>2. q' \in Seq(QueuedNal) /\ \A i \in 1 .. Len(q') : i + 1 \in 1 .. Len(q) /\ q'[i] = q[i + 1]
      BY <3>1, <1>1
    <3> QED
      BY <3>2
  <2>2. CASE offset # nal.size
    <3> DEFINE rest == [nal EXCEPT !.offset = offset]
    <3>1. /\ rest \in QueuedNal /\ rest.offset = offset
          /\ rest.completion = nal.completion /\ rest.size = nal.size
      BY <1>1, <1>4 DEF QueuedNal
    <3>2. q' = <<rest>> \o Tail(q)
      BY <2>2, <1>5
    <3> HIDE DEF rest
    <3>3. /\ q' \in Seq(QueuedNal) /\ Len(q') = Len(q) /\ q'[1] = rest
          /\ \A i \in 2 .. Len(q') : q'[i] = q[i]
      BY <3>1, <3>2, <1>1
    <3>4. \A i \in 1 .. Len(q') : /\ i + 0 \in 1 .. Len(q) /\ i + 0 = i
                                  /\ i = 1 \/ i \in 2 .. Len(q')
      BY <3>3
    <3>5. ASSUME NEW i \in 1 .. Len(q')
          PROVE  /\ i + 0 \in 1 .. Len(q) /\ q'[i].completion = q[i + 0].completion
                 /\ q'[i].size = q[i + 0].size
                 /\ \/ q'[i].offset = q[i + 0].offset
                    \/ q'[i].offset = offset /\ q[i + 0] = nal /\ offset # nal.size
      BY <2>2, <3>1, <3>3, <3>4, <1>1
    <3> QED
      BY <3>3, <3>5
  <2> QED
    BY <2>1, <2>2
<1>7. PICK d \in {0, 1} : \A i \in 1 .. Len(q') :
            /\ i + d \in 1 .. Len(q) /\ q'[i].completion = q[i + d].completion
            /\ q'[i].size = q[i + d].size
            /\ \/ q'[i].offset = q[i + d].offset
               \/ q'[i].offset = offset /\ q[i + d] = nal /\ offset # nal.size
  BY <1>6
<1>8. CutInChunks'
  <2> SUFFICES ASSUME NEW i \in 1 .. Len(q')
               PROVE  /\ q'[i].offset < q'[i].size
                      /\ \E m \in Nat : q'[i].offset = ChunkCapacity * m
    BY DEF CutInChunks
  <2>1. i + d \in 1 .. Len(q) /\ q'[i].size = q[i + d].size
    BY <1>7
  <2>2. CASE q'[i].offset = q[i + d].offset
    BY <2>1, <2>2 DEF SourceInv, CutInChunks
  <2>3. CASE q'[i].offset = offset /\ q[i + d] = nal /\ offset # nal.size
    <3>1. offset < nal.size
      <4>1. nal.size \in Nat
        BY <1>1 DEF QueuedNal
      <4> QED
        BY <2>3, <4>1, <1>4
    <3> QED
      BY <2>1, <2>3, <3>1, <1>4
  <2> QED
    BY <2>2, <2>3, <1>7
<1>9. \A i \in 1 .. Len(q') :
         /\ q'[i].completion \in Int /\ q'[i].completion >= t
         /\ q'[i].completion <= FrameInterval
         /\ \A j \in i .. Len(q') : q'[i].completion <= q'[j].completion
  <2> TAKE i \in 1 .. Len(q')
  <2>1. i + d \in 1 .. Len(q) /\ q'[i].completion = q[i + d].completion
    BY <1>7
  <2>2. ASSUME NEW j \in i .. Len(q')
        PROVE  q'[i].completion <= q'[j].completion
    <3>1. j \in 1 .. Len(q') /\ j + d >= i + d
      BY <1>6, <1>7
    <3>2. j + d \in (i + d) .. Len(q) /\ q'[j].completion = q[j + d].completion
      BY <3>1, <2>1, <1>1, <1>7
    <3> QED
      BY <2>1, <3>2 DEF SourceInv, DueBeforeCompletions
  <2>3. q[i + d].completion \in Int
    <3>1. q[i + d] \in QueuedNal
      BY <2>1, <1>1
    <3> QED
      BY <3>1 DEF QueuedNal
  <2> QED
    BY <2>1, <2>2, <2>3, <1>2 DEF SourceInv, DueBeforeCompletions
<1>10. CASE q' = << >>
  <2>1. timestamp_next_chunk' = {}
    BY <1>10 DEF pop_frame
  <2> QED
    BY <2>1, <1>6, <1>8, <1>9, <1>10 DEF SourceInv, SourceTypes, DueBeforeCompletions
<1>11. CASE q' # << >>
  <2> DEFINE front == Head(q')
             step == FrameInterval \div num_chunks(front)
             u == NextChunkTime(t, front)
  <2>1. 1 \in 1 .. Len(q') /\ front = q'[1] /\ front \in QueuedNal
    BY <1>6, <1>11
  <2>2. timestamp_next_chunk' = {u}
    BY <1>2, <1>11 DEF pop_frame
  <2>3. step \in Nat
    <3> DEFINE n == num_chunks(front)
    <3>1. n \in Nat \ {0}
      BY <2>1, ChunksPositive
    <3> HIDE DEF n
    <3>2. FrameInterval \div n \in Nat
      BY <3>1
    <3> QED
      BY <3>2 DEF n
  <2>4. u = IF front.completion < t + step THEN front.completion ELSE t + step
    BY DEF NextChunkTime, AtMost
  <2> HIDE DEF step, u
  <2>5. front.completion \in Int /\ front.completion >= t
    BY <2>1, <1>9
  <2>6. u \in Int /\ u >= t /\ u <= front.completion
    BY <2>3, <2>4, <2>5
  <2>7. t >= -MaxLate
    BY <1>2 DEF SourceInv, DueBeforeCompletions
  <2>8. u >= -MaxLate
    BY <2>6, <2>7
  <2>9. \A i \in 1 .. Len(q') : u <= q'[i].completion
    <3> TAKE i \in 1 .. Len(q')
    <3>1. i \in 1 .. Len(q') /\ q'[1].completion <= q'[i].completion /\ q'[i].completion \in Int
      BY <2>1, <1>9
    <3> QED
      BY <3>1, <2>1, <2>5, <2>6
  <2>10. DueBeforeCompletions'
    BY <2>2, <2>8, <2>9, <1>9 DEF DueBeforeCompletions
  <2> QED
    BY <2>2, <2>6, <2>10, <1>6, <1>8, <1>11 DEF SourceInv, SourceTypes
<1> QED
  BY <1>10, <1>11

LEMMA TickKeepsSourceInv ==
    ASSUME SourceInv, Tick
    PROVE  SourceInv'
<1> USE SourceConstants
<1> DEFINE q == outbound_queue
<1>1. q \in Seq(QueuedNal) /\ Len(q) \in Nat
  BY DEF SourceInv, SourceTypes
<1>2. ASSUME NEW i \in 1 .. Len(q)
      PROVE  /\ q[i].completion \in Int
             /\ [q[i] EXCEPT !.completion = @ - 1] \in QueuedNal
             /\ [q[i] EXCEPT !.completion = @ - 1].completion = q[i].completion - 1
             /\ [q[i] EXCEPT !.completion = @ - 1].offset = q[i].offset
             /\ [q[i] EXCEPT !.completion = @ - 1].size = q[i].size
  <2>1. q[i] \in QueuedNal
    BY <1>1
  <2> QED
    BY <2>1 DEF QueuedNal
<1>3. q' = [i \in 1 .. Len(q) |-> [q[i] EXCEPT !.completion = @ - 1]]
  BY <1>1 DEF Tick
<1>4. q' \in Seq(QueuedNal) /\ Len(q') = Len(q)
  BY <1>1, <1>2, <1>3
<1>5. \A i \in 1 .. Len(q) : /\ q'[i].completion = q[i].completion - 1
                             /\ q[i].completion \in Int
                             /\ q'[i].offset = q[i].offset
                             /\ q'[i].size = q[i].size
  BY <1>2, <1>3
<1>6. q = << >> <=> q' = << >>
  BY <1>1, <1>4
<1>7. CutInChunks'
  BY <1>4, <1>5 DEF SourceInv, CutInChunks
<1>8. ASSUME NEW i \in 1 .. Len(q')
      PROVE  /\ q'[i].completion <= FrameInterval
             /\ \A j \in i .. Len(q') : q'[i].completion <= q'[j].completion
  <2>1. i \in 1 .. Len(q) /\ q[i].completion <= FrameInterval
    BY <1>4 DEF SourceInv, DueBeforeCompletions
  <2>2. ASSUME NEW j \in i .. Len(q')
        PROVE  q'[i].completion <= q'[j].completion
    <3>1. j \in i .. Len(q) /\ j \in 1 .. Len(q) /\ i \in 1 .. Len(q)
      BY <1>4, SMTT(30)
    <3>2. q[i].completion <= q[j].completion
      BY <3>1 DEF SourceInv, DueBeforeCompletions
    <3> QED
      BY <3>1, <3>2, <1>5
  <2> QED
    BY <2>1, <2>2, <1>5
<1>9. CASE q = << >>
  <2>1. timestamp_next_chunk' = {}
    BY <1>9 DEF SourceInv, SourceTypes, Tick
  <2> QED
    BY <1>4, <1>6, <1>7, <1>8, <1>9, <2>1 DEF SourceInv, SourceTypes, DueBeforeCompletions
<1>10. CASE q # << >>
  <2>1. PICK t \in Int : timestamp_next_chunk = {t}
    BY <1>10 DEF SourceInv, SourceTypes
  <2>2. timestamp_next_chunk' = {t - 1} /\ t - 1 \in Int /\ t - 1 >= -MaxLate
    BY <2>1 DEF Tick
  <2>3. ASSUME NEW i \in 1 .. Len(q') PROVE t - 1 <= q'[i].completion
    <3>1. i \in 1 .. Len(q) /\ t <= q[i].completion
      BY <2>1, <1>4 DEF SourceInv, DueBeforeCompletions
    <3> QED
      BY <3>1, <1>5
  <2>4. DueBeforeCompletions'
    BY <2>2, <2>3, <1>8 DEF DueBeforeCompletions
  <2>5. SourceTypes'
    BY <2>2, <1>4, <1>6, <1>10 DEF SourceTypes
  <2> QED
    BY <2>4, <2>5, <1>7 DEF SourceInv
<1> QED
  BY <1>9, <1>10

LEMMA SourceNextKeepsInv == SourceInv /\ [SourceNext]_source_vars => SourceInv'
<1> SUFFICES ASSUME SourceInv, [SourceNext]_source_vars PROVE SourceInv'
  OBVIOUS
<1>1. CASE discard
  BY <1>1 DEF discard, SourceInv, SourceTypes, DueBeforeCompletions, CutInChunks
<1>2. CASE UNCHANGED source_vars
  BY <1>2 DEF source_vars, SourceInv, SourceTypes, DueBeforeCompletions, CutInChunks
<1> QED
  BY <1>1, <1>2, PushKeepsSourceInv, PopKeepsSourceInv, TickKeepsSourceInv DEF SourceNext

(* A queued NAL is never overdue by more than the loop is late, whatever   *)
(* the sizes of the NALs and however many are pushed at once               *)
(* (video_source.cc, timestamp_next_chunk).                                *)
THEOREM SourceMeetsDeadline == SourceSpec => []PacingMeetsDeadline
<1>1. SourceInv => PacingMeetsDeadline
  <2> SUFFICES ASSUME SourceInv, NEW i \in DOMAIN outbound_queue
               PROVE  outbound_queue[i].completion >= -MaxLate
    BY DEF PacingMeetsDeadline
  <2>1. /\ i \in 1 .. Len(outbound_queue) /\ outbound_queue # << >>
        /\ outbound_queue[i] \in QueuedNal
    BY DEF SourceInv, SourceTypes
  <2>2. PICK t \in Int : timestamp_next_chunk = {t}
    BY <2>1 DEF SourceInv, SourceTypes
  <2>3. t >= -MaxLate /\ t <= outbound_queue[i].completion
    BY <2>1, <2>2 DEF SourceInv, DueBeforeCompletions
  <2>4. outbound_queue[i].completion \in Int /\ MaxLate \in Int
    BY <2>1, SourceConstants DEF QueuedNal
  <2> QED
    BY <2>2, <2>3, <2>4
<1> QED
  BY <1>1, SourceStarts, SourceNextKeepsInv, PTL DEF SourceSpec

(* The chunk that is flagged as a NAL's last is the one that empties it,   *)
(* and the interval is divided by just as many (video_source.cc:49).       *)
THEOREM SourceChunksCoverNal == SourceSpec => []ChunksCoverNal
<1>1. SourceInv => ChunksCoverNal
  <2> USE SourceConstants
  <2> SUFFICES ASSUME SourceInv, NEW i \in DOMAIN outbound_queue
               PROVE  LET nal == outbound_queue[i] IN
                      /\ nal.offset < nal.size
                      /\ nal.offset % ChunkCapacity = 0
                      /\ (nal.offset \div ChunkCapacity = num_chunks(nal) - 1)
                            <=> (nal.offset + next_chunk_size(nal) = nal.size)
    BY DEF ChunksCoverNal
  <2> DEFINE nal == outbound_queue[i]
             offset == nal.offset
             size == nal.size
  <2>1. i \in 1 .. Len(outbound_queue) /\ nal \in QueuedNal
    BY DEF SourceInv, SourceTypes
  <2>2. offset \in Nat /\ size \in Nat \ {0} /\ ChunkCapacity \in Nat \ {0}
    BY <2>1 DEF QueuedNal
  <2>3. PICK k \in Nat : offset = ChunkCapacity * k
    BY <2>1 DEF SourceInv, CutInChunks
  <2>4. offset < size
    BY <2>1 DEF SourceInv, CutInChunks
  <2> DEFINE q == size \div ChunkCapacity
             r == size % ChunkCapacity
  <2>5. num_chunks(nal) = q + (IF r = 0 THEN 0 ELSE 1)
    BY DEF num_chunks
  <2>6. offset + next_chunk_size(nal) = size <=> size - offset <= ChunkCapacity
    BY <2>2, <2>4 DEF next_chunk_size, AtMost
  <2> HIDE DEF offset, size
  <2>7. q \in Int /\ r \in 0 .. ChunkCapacity - 1 /\ size = ChunkCapacity * q + r
    BY <2>2, Quotient
  <2>8. offset % ChunkCapacity = 0 /\ offset \div ChunkCapacity = k
    <3>1. offset = ChunkCapacity * k + 0 /\ 0 \in 0 .. ChunkCapacity - 1
      BY <2>2, <2>3
    <3> QED
      BY <2>2, <3>1, Remainder
  <2> HIDE DEF q, r
  <2>9. size - offset = ChunkCapacity * (q - k) + r
    BY <2>2, <2>3, <2>7
  <2>10. /\ q - k >= 2 => ChunkCapacity * (q - k) >= 2 * ChunkCapacity
         /\ q - k = 1 => ChunkCapacity * (q - k) = ChunkCapacity
         /\ q - k = 0 => ChunkCapacity * (q - k) = 0
         /\ q - k < 0 => ChunkCapacity * (q - k) <= -ChunkCapacity
    BY <2>2, <2>7
  <2>11. size - offset <= ChunkCapacity <=> k = q + (IF r = 0 THEN 0 ELSE 1) - 1
    <3>1. CASE q - k >= 2
      BY <3>1, <2>2, <2>4, <2>7, <2>9, <2>10
    <3>2. CASE q - k = 1
      BY <3>2, <2>2, <2>4, <2>7, <2>9, <2>10
    <3>3. CASE q - k = 0
      BY <3>3, <2>2, <2>4, <2>7, <2>9, <2>10
    <3>4. CASE q - k < 0
      BY <3>4, <2>2, <2>4, <2>7, <2>9, <2>10
    <3> QED
      BY <3>1, <3>2, <3>3, <3>4, <2>7
  <2>12. offset \div ChunkCapacity = num_chunks(nal) - 1
           <=> offset + next_chunk_size(nal) = size
    BY <2>3, <2>5, <2>6, <2>7, <2>8, <2>11
  <2> QED
    BY <2>4, <2>8, <2>12 DEF offset, size
<1> QED
  BY <1>1, SourceStarts, SourceNextKeepsInv, PTL DEF SourceSpec

------------------------------------------------------------------------------
(* VideoZoom.  No control message moves or narrows the window, as there is *)
(* no room for it to move in: what it may change is the crop of one side.  *)

WholeWindow ==
    [x : {0}, y : {0}, width : {FullWidth}, height : {FullHeight},
     crop : [CropSides -> Nat]]

LEMMA WindowStays ==
    ASSUME zoom \in WholeWindow, NEW v \in Nat
    PROVE  /\ Corrected(WithX(v)) = zoom
           /\ Corrected(WithY(v)) = zoom
           /\ Corrected(WithWidth(v)) = zoom
<1> USE ZoomConstants
<1>1. /\ zoom.x = 0 /\ zoom.y = 0 /\ zoom.width = FullWidth /\ zoom.height = FullHeight
      /\ FullWidth \in Nat \ {0} /\ FullHeight \in Nat \ {0}
  BY DEF WholeWindow
<1>2. valid(zoom)
  BY <1>1 DEF valid
<1>3. /\ [zoom EXCEPT !.x = 0] = zoom /\ [zoom EXCEPT !.y = 0] = zoom
      /\ [zoom EXCEPT !.width = FullWidth, !.height = FullHeight, !.x = 0, !.y = 0] = zoom
  BY <1>1 DEF WholeWindow
<1> HIDE DEF WholeWindow
<1>7. \A a : /\ [[zoom EXCEPT !.x = a] EXCEPT !.x = 0] = zoom
             /\ [[zoom EXCEPT !.y = a] EXCEPT !.y = 0] = zoom
  BY <1>1 DEF WholeWindow
<1>4. WithX(v) = zoom
  <2> DEFINE x == Min({v, FullWidth})
             c == [zoom EXCEPT !.x = x]
  <2>1. x \in Nat /\ (x = 0 \/ x > 0)
    BY <1>1, MinMax
  <2> HIDE DEF x
  <2>2. c.x = x /\ c.width = FullWidth
    BY <2>1, <1>1 DEF WholeWindow
  <2>3. CASE x = 0
    BY <2>3, <1>2, <1>3 DEF WithX, x
  <2>4. CASE x > 0
    <3>1. ~valid(c)
      BY <2>1, <2>2, <2>4, <1>1 DEF valid
    <3>2. [c EXCEPT !.x = FullWidth - c.width] = zoom
      <4>1. FullWidth - c.width = 0
        BY <2>2, <1>1
      <4> QED
        BY <4>1, <1>7
    <3> QED
      BY <3>1, <3>2 DEF WithX, x
  <2> QED
    BY <2>1, <2>3, <2>4
<1>5. WithY(v) = zoom
  <2> DEFINE y == Min({v, FullHeight})
             c == [zoom EXCEPT !.y = y]
  <2>1. y \in Nat /\ (y = 0 \/ y > 0)
    BY <1>1, MinMax
  <2> HIDE DEF y
  <2>2. c.y = y /\ c.height = FullHeight
    BY <2>1, <1>1 DEF WholeWindow
  <2>3. CASE y = 0
    BY <2>3, <1>2, <1>3 DEF WithY, y
  <2>4. CASE y > 0
    <3>1. ~valid(c)
      BY <2>1, <2>2, <2>4, <1>1 DEF valid
    <3>2. [c EXCEPT !.y = FullHeight - c.height] = zoom
      <4>1. FullHeight - c.height = 0
        BY <2>2, <1>1
      <4> QED
        BY <4>1, <1>7
    <3> QED
      BY <3>1, <3>2 DEF WithY, y
  <2> QED
    BY <2>1, <2>3, <2>4
<1>6. WithWidth(v) = zoom
  <2> DEFINE m == Min({v, FullWidth})
             w == Max({FullWidth, m})
             h == (FullHeight * w) \div FullWidth
             dx == (zoom.x + zoom.width \div 2) - w \div 2
             dy == (zoom.y + zoom.height \div 2) - h \div 2
             x == Max({0, dx})
             y == Max({0, dy})
             c == [zoom EXCEPT !.width = w, !.height = h, !.x = x, !.y = y]
  <2>1. valid(c) => WithWidth(v) = c
    BY DEF WithWidth
  <2>2. w = FullWidth
    <3>1. m \in Nat /\ m <= FullWidth
      BY <1>1, MinMax
    <3> HIDE DEF m
    <3> QED
      BY <1>1, <3>1, MinMax
  <2> HIDE DEF w
  <2>3. h = FullHeight
    <3> DEFINE area == FullHeight * w
    <3>1. area \in Int /\ area = FullWidth * FullHeight + 0 /\ 0 \in 0 .. FullWidth - 1
      BY <1>1, <2>2
    <3> HIDE DEF area
    <3>2. area \div FullWidth = FullHeight
      BY <1>1, <3>1, Remainder
    <3> QED
      BY <3>2 DEF area
  <2> HIDE DEF h
  <2>4. dx = 0 /\ dy = 0
    BY <1>1, <2>2, <2>3
  <2> HIDE DEF dx, dy
  <2>5. x = 0 /\ y = 0
    BY <2>4, MinMax
  <2> HIDE DEF x, y
  <2>6. c = zoom
    BY <2>2, <2>3, <2>5, <1>3
  <2> QED
    BY <2>1, <2>6, <1>2
<1> QED
  BY <1>2, <1>4, <1>5, <1>6 DEF Corrected

LEMMA CropChangesOneSide ==
    ASSUME zoom \in WholeWindow, NEW side, NEW v \in Nat
    PROVE  /\ Corrected(WithCrop(side, v)) \in WholeWindow
           /\ [Corrected(WithCrop(side, v)) EXCEPT !.crop = zoom.crop] = zoom
           /\ \A f \in CropSides \ {side} : Corrected(WithCrop(side, v)).crop[f] = zoom.crop[f]
<1> USE ZoomConstants
<1> DEFINE limit == IF side \in {"left", "right"} THEN FullWidth ELSE FullHeight
           m == Min({v, limit})
           c == [zoom EXCEPT !.crop[side] = m]
<1>1. limit \in Nat
  OBVIOUS
<1>2. m \in Nat
  BY <1>1, MinMax
<1> HIDE DEF m, limit
<1>3. c = [zoom EXCEPT !.crop = [zoom.crop EXCEPT ![side] = m]]
  BY DEF WholeWindow
<1>4. [zoom.crop EXCEPT ![side] = m] \in [CropSides -> Nat]
  BY <1>2 DEF WholeWindow
<1>5. /\ c \in WholeWindow
      /\ [c EXCEPT !.crop = zoom.crop] = zoom
      /\ c.crop = [zoom.crop EXCEPT ![side] = m]
  BY <1>3, <1>4 DEF WholeWindow
<1>6. \A f \in CropSides \ {side} : c.crop[f] = zoom.crop[f]
  BY <1>5 DEF WholeWindow
<1>7. Corrected(WithCrop(side, v)) = c
  <2>1. valid(c)
    BY <1>5 DEF WholeWindow, valid
  <2> QED
    BY <2>1 DEF Corrected, WithCrop, m, limit
<1> QED
  BY <1>5, <1>6, <1>7

(* set_zoom makes of the view the view or one that differs in the crop of  *)
(* one side.                                                               *)
LEMMA CommandChangesOneSide ==
    ASSUME zoom \in WholeWindow, NEW command \in Commands, NEW v \in Settings,
           command = "zoom" => v > 0, set_zoom(parse_message(command, v))
    PROVE  /\ zoom' \in WholeWindow
           /\ [zoom' EXCEPT !.crop = zoom.crop] = zoom
           /\ \E side : \A f \in CropSides \ {side} : zoom'.crop[f] = zoom.crop[f]
<1> USE ZoomConstants
<1> DEFINE message == parse_message(command, v)
           fields == {"x", "y", "width"} \cup CropSides
<1>1. message \in [fields -> Nat]
  <2>1. v \in Nat /\ NEG1 \in Nat
    BY DEF NEG1
  <2>2. command = "zoom" => FullWidth \div v \in Nat
    BY <2>1
  <2> QED
    BY <2>1, <2>2 DEF parse_message
<1>2. [zoom EXCEPT !.crop = zoom.crop] = zoom
  BY DEF WholeWindow
<1>3. CASE zoom' = zoom
  BY <1>2, <1>3
<1>4. CASE \E side : zoom' = Corrected(WithCrop(side, message[side]))
  <2>1. PICK side : zoom' = Corrected(WithCrop(side, message[side]))
    BY <1>4
  <2>2. CASE side \in CropSides
    <3> DEFINE w == message[side]
    <3>1. w \in Nat
      BY <2>2, <1>1
    <3> HIDE DEF w
    <3>2. zoom' = Corrected(WithCrop(side, w))
      BY <2>1 DEF w
    <3>3. /\ zoom' \in WholeWindow /\ [zoom' EXCEPT !.crop = zoom.crop] = zoom
          /\ \A f \in CropSides \ {side} : zoom'.crop[f] = zoom.crop[f]
      BY <3>1, <3>2, CropChangesOneSide
    <3> QED
      BY <3>3
  <2>3. CASE side \notin CropSides
    <3>1. WithCrop(side, message[side]) = zoom
      BY <2>3 DEF WithCrop, WholeWindow
    <3>2. Corrected(zoom) = zoom
      BY DEF Corrected, valid, WholeWindow
    <3> QED
      BY <2>1, <3>1, <3>2, <1>2
  <2> QED
    BY <2>2, <2>3
<1>5. zoom' = zoom \/ \E side : zoom' = Corrected(WithCrop(side, message[side]))
  <2> HIDE DEF message
  <2> DEFINE sets(f) == message[f] # NEG1
  <2>1. zoom' = Corrected(CASE sets("x") -> WithX(message.x)
                            [] ~sets("x") /\ sets("y") -> WithY(message.y)
                            [] ~sets("x") /\ ~sets("y") /\ sets("width") -> WithWidth(message.width)
                            [] OTHER -> LET side == CHOOSE s \in CropSides : sets(s)
                                        IN  WithCrop(side, message[side]))
    BY DEF set_zoom, message
  <2>2. message.x \in Nat /\ message.y \in Nat /\ message.width \in Nat
    BY <1>1
  <2>3. \/ zoom' = Corrected(WithX(message.x)) \/ zoom' = Corrected(WithY(message.y))
        \/ zoom' = Corrected(WithWidth(message.width))
        \/ \E side : zoom' = Corrected(WithCrop(side, message[side]))
    <3>1. CASE sets("x")
      BY <2>1, <3>1
    <3>2. CASE ~sets("x") /\ sets("y")
      BY <2>1, <3>2
    <3>3. CASE ~sets("x") /\ ~sets("y") /\ sets("width")
      BY <2>1, <3>3
    <3>4. CASE ~sets("x") /\ ~sets("y") /\ ~sets("width")
      BY <2>1, <3>4
    <3> QED
      BY <3>1, <3>2, <3>3, <3>4
  <2> QED
    BY <2>2, <2>3, WindowStays
<1> QED
  BY <1>3, <1>4, <1>5

ZoomInv ==
    /\ linked \in BOOLEAN
    /\ zoom \in WholeWindow

CropsStep ==
    linked' = linked =>
        Cardinality({f \in {"window"} \cup CropSides :
            IF f = "window"
            THEN [zoom' EXCEPT !.crop = zoom.crop] # zoom
            ELSE zoom'.crop[f] # zoom.crop[f]}) <= 1

LEMMA FullViewIsWhole == FullView \in WholeWindow
    BY ZoomConstants DEF FullView, WholeWindow

LEMMA OneSideAtMost ==
    ASSUME zoom \in WholeWindow, [zoom' EXCEPT !.crop = zoom.crop] = zoom,
           \E side : \A f \in CropSides \ {side} : zoom'.crop[f] = zoom.crop[f]
    PROVE  CropsStep
<1> DEFINE changed == {f \in {"window"} \cup CropSides :
                         IF f = "window"
                         THEN [zoom' EXCEPT !.crop = zoom.crop] # zoom
                         ELSE zoom'.crop[f] # zoom.crop[f]}
<1>1. PICK side : \A f \in CropSides \ {side} : zoom'.crop[f] = zoom.crop[f]
  OBVIOUS
<1>2. \A f \in changed : f = side
  BY <1>1
<1> HIDE DEF changed
<1>3. changed = {} \/ changed = {side}
  BY <1>2
<1>4. Cardinality(changed) <= 1
  <2>1. CASE changed = {}
    BY <2>1, FS_EmptySet
  <2>2. CASE changed = {side}
    <3>1. Cardinality({side}) = 1
      BY FS_Singleton
    <3> QED
      BY <2>2, <3>1
  <2> QED
    BY <2>1, <2>2, <1>3
<1> QED
  BY <1>4 DEF CropsStep, changed

LEMMA ZoomNextKeeps ==
    ASSUME ZoomInv, [ZoomNext]_zoom_vars
    PROVE  ZoomInv' /\ CropsStep
<1>1. CASE zoom' = zoom /\ linked' \in BOOLEAN
  <2>1. [zoom' EXCEPT !.crop = zoom.crop] = zoom
    BY <1>1 DEF ZoomInv, WholeWindow
  <2>2. \A f \in CropSides : zoom'.crop[f] = zoom.crop[f]
    BY <1>1
  <2> QED
    BY <1>1, <2>1, <2>2, OneSideAtMost DEF ZoomInv
<1>2. CASE UNCHANGED zoom_vars
  BY <1>1, <1>2 DEF zoom_vars, ZoomInv
<1>3. ASSUME NEW command \in Commands, NEW v \in Settings,
             command = "zoom" => v > 0, set_zoom(parse_message(command, v))
      PROVE  ZoomInv' /\ CropsStep
  <2>1. /\ zoom' \in WholeWindow
        /\ [zoom' EXCEPT !.crop = zoom.crop] = zoom
        /\ \E side : \A f \in CropSides \ {side} : zoom'.crop[f] = zoom.crop[f]
    BY <1>3, CommandChangesOneSide DEF ZoomInv
  <2>2. linked' = linked
    BY <1>3 DEF set_zoom
  <2> QED
    BY <2>1, <2>2, OneSideAtMost DEF ZoomInv
<1>4. CASE set_live \/ send_packet
  BY <1>1, <1>4 DEF set_live, send_packet, ZoomInv
<1>5. CASE \E v \in updates : LoseUpdate(v) \/ network_receive(v)
  BY <1>1, <1>5 DEF LoseUpdate, network_receive, ZoomInv
<1>6. CASE ScaleWithControl
  BY <1>1, <1>6 DEF ScaleWithControl, ZoomInv
<1>7. CASE Relink
  <2>1. linked' # linked /\ linked' \in BOOLEAN /\ zoom' \in WholeWindow
    BY <1>7, FullViewIsWhole DEF Relink, ZoomInv
  <2> QED
    BY <2>1 DEF ZoomInv, CropsStep
<1> QED
  BY <1>2, <1>3, <1>4, <1>5, <1>6, <1>7 DEF ZoomNext

(* A control message never changes the crops of two sides, nor a crop and  *)
(* the window: none of the views that set_zoom makes has to be replaced by *)
(* the full one (videoserver.cc:269), whatever is set to whatever value.   *)
THEOREM ZoomCropsSurvive == ZoomSpec => CropsSurvive
<1>1. ZoomInit => ZoomInv
  BY FullViewIsWhole DEF ZoomInit, ZoomInv
<1>2. ZoomInv /\ [ZoomNext]_zoom_vars => ZoomInv' /\ [CropsStep]_zoom_vars
  BY ZoomNextKeeps
<1> QED
  BY <1>1, <1>2, PTL DEF ZoomSpec, CropsSurvive, CropsStep

------------------------------------------------------------------------------
(* Devices.  What the microphone holds has gathered since the last update, *)
(* or is still to be copied; a headphone that waits to be started has not  *)
(* got more than its threshold and a backlog; and while both halves run,   *)
(* the one clock takes from the one what it gives to the other.            *)

Halves == {mic, phones}

DeviceTypes ==
    /\ pcm_state \in [Halves -> {"PREPARED", "RUNNING", "XRUN"}]
    /\ pcm_state[mic] # "PREPARED"
    /\ held \in [Halves -> 0 .. BufferSize]
    /\ place \in [Halves -> 0 .. BufferSize - 1]
    /\ remaining \in Nat /\ late \in 0 .. MaxBacklog
    /\ at \in {"loop", "loopback", "copying"}

ToCopy == IF at = "copying" THEN remaining ELSE 0

HeldByMic ==
    /\ ToCopy <= held[mic]
    /\ pcm_state[mic] = "RUNNING" => held[mic] <= ToCopy + late

HeldByPhones ==
    /\ ToCopy + held[phones] <= StartThreshold + 2 * MaxBacklog
    /\ pcm_state[phones] = "PREPARED" =>
           ToCopy + held[phones] <= StartThreshold + MaxBacklog
    /\ pcm_state[phones] = "RUNNING" =>
           /\ held[phones] > 0
           /\ pcm_state[mic] = "RUNNING" =>
                  held[mic] + held[phones] <= StartThreshold + 2 * MaxBacklog

DevicesInv == DeviceTypes /\ HeldByMic /\ HeldByPhones /\ DevicesGoOn

LEMMA BufferHasRoom == BufferSize \in Nat \ {0}
    BY DeviceConstants

LEMMA DevicesStart == DevicesInit => DevicesInv
    BY DeviceConstants, BufferHasRoom
       DEF DevicesInit, DevicesInv, DeviceTypes, HeldByMic, HeldByPhones, DevicesGoOn,
           ToCopy, Halves, mic, phones, initialize

(* Time passes for a half that runs, up to its stop threshold.             *)
LEMMA ElapseHalves ==
    ASSUME DeviceTypes, NEW n \in Nat \ {0}, Elapse(n)
    PROVE  /\ held' \in [Halves -> 0 .. BufferSize]
           /\ pcm_state' \in [Halves -> {"PREPARED", "RUNNING", "XRUN"}]
           /\ held'[mic] = IF pcm_state[mic] # "RUNNING" THEN held[mic]
                           ELSE IF held[mic] + n < BufferSize THEN held[mic] + n
                           ELSE BufferSize
           /\ held'[phones] = IF pcm_state[phones] # "RUNNING" THEN held[phones]
                              ELSE IF held[phones] - n < 0 THEN 0 ELSE held[phones] - n
           /\ pcm_state'[mic] = IF pcm_state[mic] = "RUNNING" /\ held'[mic] >= BufferSize - 1
                                THEN "XRUN" ELSE pcm_state[mic]
           /\ pcm_state'[phones] = IF /\ pcm_state[phones] = "RUNNING"
                                      /\ BufferSize - held'[phones] >= BufferSize - 1
                                   THEN "XRUN" ELSE pcm_state[phones]
<1> USE BufferHasRoom DEF mic, phones, Halves
<1>1. held[mic] \in 0 .. BufferSize /\ held[phones] \in 0 .. BufferSize
  BY DEF DeviceTypes
<1>2. Min({held[mic] + n, BufferSize}) = IF held[mic] + n < BufferSize THEN held[mic] + n
                                         ELSE BufferSize
  BY <1>1, MinMax
<1>3. Max({held[phones] - n, 0}) = IF held[phones] - n < 0 THEN 0 ELSE held[phones] - n
  <2> DEFINE d == held[phones] - n
  <2>1. d \in Int
    BY <1>1
  <2> HIDE DEF d
  <2>2. Max({d, 0}) = IF d < 0 THEN 0 ELSE d
    BY <2>1 DEF Max
  <2> QED
    BY <2>2 DEF d
<1>4. held' = [half \in {mic, phones} |->
                 IF pcm_state[half] # "RUNNING" THEN held[half]
                 ELSE IF half = mic THEN Min({held[mic] + n, BufferSize})
                 ELSE Max({held[phones] - n, 0})]
  BY DEF Elapse
<1>5. /\ held' \in [Halves -> 0 .. BufferSize]
      /\ held'[mic] = IF pcm_state[mic] # "RUNNING" THEN held[mic]
                      ELSE IF held[mic] + n < BufferSize THEN held[mic] + n ELSE BufferSize
      /\ held'[phones] = IF pcm_state[phones] # "RUNNING" THEN held[phones]
                         ELSE IF held[phones] - n < 0 THEN 0 ELSE held[phones] - n
  BY <1>1, <1>2, <1>3, <1>4
<1>6. pcm_state' = [half \in {mic, phones} |->
                      IF pcm_state[half] = "RUNNING" /\ Level(half)' >= stop_threshold
                      THEN "XRUN" ELSE pcm_state[half]]
  BY DEF Elapse
<1>7. Level(mic)' = held'[mic] /\ Level(phones)' = BufferSize - held'[phones]
  BY DEF Level
<1> QED
  BY <1>5, <1>6, <1>7 DEF stop_threshold, DeviceTypes

LEMMA TimeKeepsDevicesInv ==
    ASSUME DevicesInv, Captures \/ Stall
    PROVE  DevicesInv'
<1> USE BufferHasRoom, DeviceConstants DEF mic, phones, Halves
<1>1. PICK n \in Nat \ {0} : /\ Elapse(n) /\ late' \in 0 .. MaxBacklog
                            /\ \/ n = 1 /\ late' = late + 1
                               \/ n = BufferSize /\ late' = late
  BY DEF Captures, Stall, DevicesInv, DeviceTypes
<1>2. DeviceTypes
  BY DEF DevicesInv
<1> DEFINE m == held[mic]
           p == held[phones]
<1>3. /\ held' \in [Halves -> 0 .. BufferSize]
      /\ pcm_state' \in [Halves -> {"PREPARED", "RUNNING", "XRUN"}]
      /\ m' = IF pcm_state[mic] # "RUNNING" THEN m
              ELSE IF m + n < BufferSize THEN m + n ELSE BufferSize
      /\ p' = IF pcm_state[phones] # "RUNNING" THEN p
              ELSE IF p - n < 0 THEN 0 ELSE p - n
      /\ pcm_state'[mic] = IF pcm_state[mic] = "RUNNING" /\ m' >= BufferSize - 1
                           THEN "XRUN" ELSE pcm_state[mic]
      /\ pcm_state'[phones] = IF /\ pcm_state[phones] = "RUNNING"
                                 /\ BufferSize - p' >= BufferSize - 1
                              THEN "XRUN" ELSE pcm_state[phones]
  BY <1>1, <1>2, ElapseHalves
<1>4. m \in 0 .. BufferSize /\ p \in 0 .. BufferSize /\ m' \in Nat /\ p' \in Nat
  BY <1>2, <1>3 DEF DeviceTypes
<1>5. UNCHANGED <<place, remaining, at, failed>> /\ ToCopy' = ToCopy /\ ToCopy \in Nat
  BY <1>1, <1>2 DEF Elapse, ToCopy, DeviceTypes
<1>6. DeviceTypes'
  BY <1>1, <1>2, <1>3, <1>5 DEF DeviceTypes
<1>7. HeldByMic'
  BY <1>1, <1>2, <1>3, <1>4, <1>5 DEF DevicesInv, HeldByMic, DeviceTypes
<1>8. p' <= p /\ (pcm_state[phones] # "RUNNING" => p' = p)
      /\ (pcm_state'[phones] = "PREPARED" => pcm_state[phones] = "PREPARED")
      /\ (pcm_state'[phones] = "RUNNING" => pcm_state[phones] = "RUNNING" /\ p' > 0)
      /\ (pcm_state'[mic] = "RUNNING" => pcm_state[mic] = "RUNNING" /\ m' < BufferSize - 1)
  BY <1>2, <1>3, <1>4 DEF DeviceTypes
<1>9. pcm_state'[mic] = "RUNNING" => m' = m + n /\ n = 1
  BY <1>1, <1>3, <1>4, <1>8
<1>10. pcm_state'[phones] = "RUNNING" => p' = p - n
  BY <1>3, <1>4, <1>8
<1>11. HeldByPhones'
  BY <1>4, <1>5, <1>8, <1>9, <1>10 DEF DevicesInv, HeldByPhones
<1> QED
  BY <1>5, <1>6, <1>7, <1>11 DEF DevicesInv, DevicesGoOn

LEMMA RecoverKeepsDevicesInv ==
    ASSUME DevicesInv, Recover
    PROVE  DevicesInv'
<1> USE BufferHasRoom, DeviceConstants DEF mic, phones, Halves
<1>1. pcm_state'[mic] = "RUNNING" /\ pcm_state'[phones] = "PREPARED"
      /\ pcm_state' \in [Halves -> {"PREPARED", "RUNNING", "XRUN"}]
  <2>1. recover(pcm_state[mic]) = "PREPARED" /\ recover(pcm_state[phones]) = "PREPARED"
    BY DEF DevicesInv, DeviceTypes, recover, prepare, drop
  <2>2. start("PREPARED") = "RUNNING"
    BY DEF start
  <2> QED
    BY <2>1, <2>2 DEF Recover, recover_pair, DevicesInv, DeviceTypes
<1>2. failed' = FALSE
  BY <1>1 DEF Recover
<1>3. held' = [half \in Halves |-> 0] /\ place' = [half \in Halves |-> 0]
      /\ at' = "loop" /\ late' = 0 /\ remaining' = remaining
  BY DEF Recover
<1> QED
  BY <1>1, <1>2, <1>3
     DEF DevicesInv, DeviceTypes, HeldByMic, HeldByPhones, DevicesGoOn, ToCopy

LEMMA FoundRunningKeepsDevicesInv ==
    ASSUME DevicesInv, FoundRunning
    PROVE  DevicesInv'
<1> USE BufferHasRoom, DeviceConstants DEF mic, phones, Halves
<1> DEFINE m == held[mic]
           p == held[phones]
<1>1. /\ at = "loopback" /\ ~update_fails(mic) /\ ~update_fails(phones)
      /\ held' = held /\ place' = place /\ remaining' = m /\ at' = "copying" /\ late' = 0
  BY DEF FoundRunning
<1>2. m \in 0 .. BufferSize /\ p \in 0 .. BufferSize /\ late \in 0 .. MaxBacklog
  BY DEF DevicesInv, DeviceTypes
<1>3. pcm_state[mic] = "RUNNING" /\ pcm_state[phones] \in {"PREPARED", "RUNNING"}
  BY <1>1 DEF update_fails, DevicesInv, DeviceTypes
<1>4. m <= MaxBacklog
  BY <1>1, <1>2, <1>3 DEF DevicesInv, HeldByMic, ToCopy
<1>5. ToCopy' = m /\ ToCopy = 0
  BY <1>1 DEF ToCopy
<1>6. CASE m > 0 /\ starts_phones
  <2>1. pcm_state[phones] = "PREPARED" /\ p > StartThreshold
    BY <1>6 DEF starts_phones
  <2>2. pcm_state' = [pcm_state EXCEPT ![phones] = "RUNNING"]
    BY <1>6, <2>1 DEF FoundRunning, start
  <2>3. /\ pcm_state'[phones] = "RUNNING" /\ pcm_state'[mic] = "RUNNING"
        /\ pcm_state' \in [Halves -> {"PREPARED", "RUNNING", "XRUN"}]
    BY <2>2, <1>3 DEF DevicesInv, DeviceTypes
  <2>4. failed' = FALSE
    BY <2>3 DEF FoundRunning
  <2>5. p <= StartThreshold + MaxBacklog
    BY <2>1, <1>2, <1>5 DEF DevicesInv, HeldByPhones
  <2>6. HeldByPhones'
    BY <2>1, <2>3, <2>5, <1>1, <1>2, <1>4, <1>5 DEF HeldByPhones
  <2>7. HeldByMic'
    BY <1>1, <1>2, <1>5 DEF HeldByMic
  <2>8. DeviceTypes'
    BY <2>3, <1>1, <1>2 DEF DevicesInv, DeviceTypes
  <2> QED
    BY <2>4, <2>6, <2>7, <2>8 DEF DevicesInv, DevicesGoOn
<1>7. CASE ~(m > 0 /\ starts_phones)
  <2>1. pcm_state' = pcm_state
    BY <1>7 DEF FoundRunning
  <2>2. failed' = FALSE
    BY <2>1, <1>3 DEF FoundRunning
  <2>3. pcm_state[phones] = "PREPARED" => m + p <= StartThreshold + MaxBacklog
    <3>1. CASE m = 0
      BY <3>1, <1>2, <1>5 DEF DevicesInv, HeldByPhones
    <3>2. CASE m > 0
      BY <3>2, <1>7, <1>2, <1>4 DEF starts_phones
    <3> QED
      BY <3>1, <3>2, <1>2
  <2>4. pcm_state[phones] = "RUNNING" =>
           p > 0 /\ m + p <= StartThreshold + 2 * MaxBacklog
    BY <1>3 DEF DevicesInv, HeldByPhones
  <2>5. HeldByPhones'
    BY <2>1, <2>3, <2>4, <1>1, <1>2, <1>3, <1>5 DEF HeldByPhones
  <2>6. HeldByMic'
    BY <1>1, <1>2, <1>5 DEF HeldByMic
  <2>7. DeviceTypes'
    BY <2>1, <1>1, <1>2 DEF DevicesInv, DeviceTypes
  <2> QED
    BY <2>2, <2>5, <2>6, <2>7 DEF DevicesInv, DevicesGoOn
<1> QED
  BY <1>6, <1>7

LEMMA CopyKeepsDevicesInv ==
    ASSUME DevicesInv, CopyPiece
    PROVE  DevicesInv'
<1> USE BufferHasRoom, DeviceConstants DEF mic, phones, Halves
<1> DEFINE m == held[mic]
           p == held[phones]
           a == place[mic]
           b == place[phones]
           piece == Piece(mic, remaining)
           num_frames == Piece(phones, piece)
           written_ == amount_to_write(num_frames)
<1>1. /\ m \in 0 .. BufferSize /\ p \in 0 .. BufferSize
      /\ a \in 0 .. BufferSize - 1 /\ b \in 0 .. BufferSize - 1
      /\ remaining \in Nat \ {0} /\ at = "copying" /\ ToCopy = remaining
  BY DEF DevicesInv, DeviceTypes, CopyPiece, ToCopy
<1>2. remaining <= m /\ remaining + p < BufferSize
  BY <1>1 DEF DevicesInv, HeldByMic, HeldByPhones
<1>3. \A i, j, k \in Int : /\ Min({i, j, k}) \in {i, j, k}
                           /\ Min({i, j, k}) <= i /\ Min({i, j, k}) <= j
                           /\ Min({i, j, k}) <= k
  <2> TAKE i, j, k \in Int
  <2>1. \E x \in {i, j, k} : \A y \in {i, j, k} : x <= y
    <3>1. CASE i <= j /\ i <= k
      BY <3>1
    <3>2. CASE j <= i /\ j <= k
      BY <3>2
    <3>3. CASE k <= i /\ k <= j
      BY <3>3
    <3> QED
      BY <3>1, <3>2, <3>3
  <2> QED
    BY <2>1 DEF Min
<1>4. piece \in 1 .. remaining
  <2>1. piece = Min({remaining, BufferSize - a, m})
    BY DEF Piece
  <2> DEFINE f == BufferSize - a
  <2>2. f \in Int /\ f > 0 /\ m > 0 /\ m \in Int /\ remaining \in Int /\ remaining > 0
    BY <1>1, <1>2
  <2> HIDE DEF f, piece
  <2>3. piece = Min({remaining, f, m})
    BY <2>1 DEF f
  <2>4. piece \in {remaining, f, m} /\ piece <= remaining
    BY <2>2, <2>3, <1>3
  <2> QED
    BY <2>2, <2>4
<1>5. num_frames \in 1 .. piece /\ num_frames <= BufferSize - p
  <2>1. num_frames = Min({piece, BufferSize - b, BufferSize - p})
    BY DEF Piece
  <2> DEFINE f == BufferSize - b
             g == BufferSize - p
  <2>2. f \in Int /\ f > 0 /\ g \in Int /\ g > 0
    BY <1>1, <1>2
  <2> HIDE DEF f, g, piece, num_frames
  <2>3. piece \in Int /\ piece > 0 /\ num_frames = Min({piece, f, g})
    BY <2>1, <1>1, <1>4 DEF f, g
  <2>4. num_frames \in {piece, f, g} /\ num_frames <= piece /\ num_frames <= g
    BY <2>2, <2>3, <1>3
  <2>5. num_frames \in 1 .. piece /\ num_frames <= g
    BY <2>2, <2>3, <2>4
  <2> QED
    BY <2>5 DEF g
<1>6. written_ \in 0 .. num_frames
  <2> HIDE DEF num_frames, piece
  <2> QED
    BY <1>4, <1>5 DEF amount_to_write
<1>7. /\ held' = [held EXCEPT ![mic] = @ - num_frames, ![phones] = @ + written_]
      /\ place' = [half \in {mic, phones} |->
             (place[half] + (IF half = mic THEN num_frames ELSE written_)) % BufferSize]
      /\ remaining' = remaining - num_frames
      /\ failed' = failed /\ pcm_state' = pcm_state /\ at' = at /\ late' = late
  BY <1>4, <1>5 DEF CopyPiece
<1> HIDE DEF num_frames, piece, written_
<1>8. /\ m' = m - num_frames /\ p' = p + written_
      /\ held' \in [Halves -> 0 .. BufferSize]
  <2>1. m - num_frames \in 0 .. BufferSize /\ p + written_ \in 0 .. BufferSize
    BY <1>1, <1>2, <1>4, <1>5, <1>6
  <2> QED
    BY <1>7, <2>1 DEF DevicesInv, DeviceTypes
<1>9. place' \in [Halves -> 0 .. BufferSize - 1]
  <2>1. (a + num_frames) % BufferSize \in 0 .. BufferSize - 1
    <3>1. a + num_frames \in Int
      BY <1>1, <1>4, <1>5
    <3> QED
      BY <3>1, Quotient
  <2>2. (b + written_) % BufferSize \in 0 .. BufferSize - 1
    <3>1. b + written_ \in Int
      BY <1>1, <1>4, <1>5, <1>6
    <3> QED
      BY <3>1, Quotient
  <2> QED
    BY <1>7, <2>1, <2>2
<1>10. remaining' \in Nat /\ ToCopy' = remaining - num_frames
  BY <1>1, <1>4, <1>5, <1>7 DEF ToCopy
<1>11. DeviceTypes'
  BY <1>7, <1>8, <1>9, <1>10 DEF DevicesInv, DeviceTypes
<1>12. HeldByMic'
  <2>1. late \in Nat
    BY DEF DevicesInv, DeviceTypes
  <2> QED
    BY <2>1, <1>1, <1>4, <1>5, <1>7, <1>8, <1>10 DEF DevicesInv, HeldByMic
<1>13. HeldByPhones'
  BY <1>1, <1>4, <1>5, <1>6, <1>7, <1>8, <1>10 DEF DevicesInv, HeldByPhones
<1> QED
  BY <1>7, <1>11, <1>12, <1>13 DEF DevicesInv, DevicesGoOn

(* No exception leaves the rules of the sound device, for whatever sizes,  *)
(* as long as the headphone's ring has room for what waits for its start   *)
(* and for two backlogs, and however often the program is held up          *)
(* (alsa_devices.cc and audio_task.cc, where none is caught).              *)
THEOREM DevicesNeverFail == DevicesSpec => []DevicesGoOn
<1>1. DevicesInv /\ [DevicesNext]_device_vars => DevicesInv'
  <2> SUFFICES ASSUME DevicesInv, [DevicesNext]_device_vars PROVE DevicesInv'
    OBVIOUS
  <2>1. CASE FastPath \/ SlowPath \/ Copied
    BY <2>1 DEF FastPath, SlowPath, Copied, driver_vars, DevicesInv, DeviceTypes,
                HeldByMic, HeldByPhones, DevicesGoOn, ToCopy
  <2>2. CASE PollError \/ FoundStopped
    BY <2>2, RecoverKeepsDevicesInv DEF PollError, FoundStopped
  <2>3. CASE UNCHANGED device_vars
    BY <2>3 DEF device_vars, driver_vars, DevicesInv, DeviceTypes, HeldByMic,
                HeldByPhones, DevicesGoOn, ToCopy
  <2> QED
    BY <2>1, <2>2, <2>3, TimeKeepsDevicesInv, FoundRunningKeepsDevicesInv,
       CopyKeepsDevicesInv DEF DevicesNext, Program
<1>2. DevicesInv => DevicesGoOn
  BY DEF DevicesInv
<1> QED
  BY <1>1, <1>2, DevicesStart, PTL DEF DevicesSpec

------------------------------------------------------------------------------
(* VideoFeed.  What is on its way between encoder and decoder is one tape  *)
(* of chunks: those of the NAL the server is putting together, those in    *)
(* the stream, and the one the source is to push next.  On it each chunk   *)
(* continues where the one before it ends, or has the mark of a gap; the   *)
(* NAL at the server is the beginning of one of the encoder's unless it    *)
(* has a gap.  This holds while the server has the client's session or may *)
(* yet make it; sessions that it has dropped get nothing through.  The     *)
(* keys say which of the two it is: a client without a session is offered  *)
(* the server's next key only, and that is never the current one.          *)

ChunkSet == {c \in [number : Nat, count : NalChunks, gap : BOOLEAN] : c.number \in 1 .. c.count}
NalSet == {q \in [chunks : NalChunks, sent : Nat] : q.sent < q.chunks}
Keys == 0 .. FeedKeys - 1
AtMostOne(keys) == keys = {} \/ \E k \in Keys : keys = {k}

FeedTypes ==
    /\ source \in Seq(NalSet) /\ stream \in Seq(ChunkSet) /\ current_nal \in Seq(ChunkSet)
    /\ AtMostOne(session) /\ AtMostOne(current) /\ next_key \in Keys
    /\ stopped \in BOOLEAN

KeysSound ==
    /\ session = {} => offered \subseteq {next_key}
    /\ session # {} => offered = {}
    /\ \A k \in current : next_key = (k + 1) % FeedKeys

(* Where on the tape one is: so many chunks into a NAL of so many, or      *)
(* between two NALs.                                                       *)
Between == [sent |-> 0, of |-> 0]
AfterChunk(c) == IF end_of_nal(c) THEN Between ELSE [sent |-> c.number, of |-> c.count]
AfterNal(nal) == IF nal = << >> THEN Between ELSE AfterChunk(nal[Len(nal)])
AtSource(queue) == IF queue = << >> \/ queue[1].sent = 0 THEN Between
                   ELSE [sent |-> queue[1].sent, of |-> queue[1].chunks]
Continues(spot, c) ==
    c.gap \/ (c.number = spot.sent + 1 /\ (spot # Between => c.count = spot.of))

HasGap(nal) == \E i \in 1 .. Len(nal) : nal[i].gap
Numbered(nal) == \A i \in 1 .. Len(nal) : nal[i].number = i /\ nal[i].count = nal[Len(nal)].count
NalSound(nal) == /\ HasGap(nal) \/ Numbered(nal)
                 /\ nal # << >> => ~end_of_nal(nal[Len(nal)])

SourceSound(queue) == \A i \in 2 .. Len(queue) : queue[i].sent = 0

Chained(spot, chunks) ==
    \A i \in 1 .. Len(chunks) :
        Continues(IF i = 1 THEN spot ELSE AfterChunk(chunks[i - 1]), chunks[i])
EndOf(spot, chunks) == IF chunks = << >> THEN spot ELSE AfterChunk(chunks[Len(chunks)])

StreamSound(nal) == /\ Chained(AfterNal(nal), stream)
                    /\ EndOf(AfterNal(nal), stream) = AtSource(source)

TapeSound ==
    \A k \in session : (current = {k} \/ next_key = k) => StreamSound(NalOf(k))

FeedInv ==
    /\ FeedTypes /\ KeysSound /\ SourceSound(source) /\ NalsAreWhole
    /\ ~stopped => NalSound(current_nal) /\ TapeSound

LEMMA ChunkFacts ==
    ASSUME NEW c \in ChunkSet
    PROVE  /\ c.number \in Nat \ {0} /\ c.count \in Nat \ {0} /\ c.gap \in BOOLEAN
           /\ c.number <= c.count /\ c.count \in NalChunks /\ c.count <= NalCapacity
<1>1. NalChunks \subseteq 1 .. NalCapacity /\ NalCapacity \in Nat \ {0}
  BY FeedConstants
<1>2. c.number \in 1 .. c.count /\ c.count \in NalChunks /\ c.gap \in BOOLEAN
  BY DEF ChunkSet
<1>3. c.count \in 1 .. NalCapacity
  BY <1>1, <1>2
<1> QED
  BY <1>1, <1>2, <1>3

(* A chunk more: the NAL has a gap, or is numbered to its end.             *)
LEMMA OneChunkMore ==
    ASSUME NEW nal \in Seq(ChunkSet), NalSound(nal), NEW c \in ChunkSet,
           Continues(AfterNal(nal), c)
    PROVE  LET more == Append(nal, c) IN
           /\ more \in Seq(ChunkSet) /\ Len(more) = Len(nal) + 1 /\ more[Len(more)] = c
           /\ HasGap(more) \/ (Numbered(more) /\ c.number = Len(more))
<1> DEFINE more == Append(nal, c)
           n == Len(nal)
<1>1. n \in Nat /\ \A i \in 1 .. n : nal[i] \in ChunkSet
  OBVIOUS
<1>2. /\ more \in Seq(ChunkSet) /\ Len(more) = n + 1 /\ more[n + 1] = c
      /\ \A i \in 1 .. n : more[i] = nal[i]
  OBVIOUS
<1> HIDE DEF more
<1>3. CASE c.gap
  <2>1. n + 1 \in 1 .. Len(more)
    BY <1>1, <1>2
  <2> QED
    BY <2>1, <1>2, <1>3 DEF HasGap
<1>4. CASE HasGap(nal)
  <2>1. PICK i \in 1 .. n : nal[i].gap
    BY <1>4 DEF HasGap
  <2>2. i \in 1 .. Len(more) /\ more[i].gap
    BY <2>1, <1>1, <1>2
  <2> QED
    BY <2>2, <1>2 DEF HasGap
<1>5. CASE ~c.gap /\ ~HasGap(nal)
  <2>1. Numbered(nal) /\ c.number = AfterNal(nal).sent + 1
        /\ (AfterNal(nal) # Between => c.count = AfterNal(nal).of)
    BY <1>5 DEF NalSound, Continues
  <2>2. c.number = n + 1 /\ \A i \in 1 .. n : nal[i].number = i /\ nal[i].count = c.count
    <3>1. CASE nal = << >>
      BY <2>1, <3>1 DEF AfterNal, Between
    <3>2. CASE nal # << >>
      <4>1. n \in 1 .. n /\ nal[n] \in ChunkSet
        BY <3>2, <1>1
      <4>2. nal[n].number = n /\ ~end_of_nal(nal[n])
        BY <3>2, <4>1, <2>1 DEF NalSound, Numbered
      <4>3. AfterNal(nal) = [sent |-> n, of |-> nal[n].count]
        BY <3>2, <4>2 DEF AfterNal, AfterChunk
      <4>4. AfterNal(nal) # Between
        BY <4>1, <4>3 DEF Between
      <4>5. c.number = n + 1 /\ c.count = nal[n].count
        BY <2>1, <4>3, <4>4
      <4> QED
        BY <4>5, <2>1 DEF Numbered
    <3> QED
      BY <3>1, <3>2
  <2>3. ASSUME NEW i \in 1 .. Len(more)
        PROVE  more[i].number = i /\ more[i].count = more[Len(more)].count
    <3>1. i = n + 1 \/ i \in 1 .. n
      BY <1>1, <1>2
    <3> QED
      BY <3>1, <2>2, <1>2
  <2>4. Numbered(more)
    BY <2>3 DEF Numbered
  <2> QED
    BY <2>2, <2>4, <1>2 DEF more, n
<1> QED
  BY <1>2, <1>3, <1>4, <1>5 DEF n, more

(* One turn of the loop over what a packet releases.                       *)
Server == [nal : Seq(ChunkSet), shown : Seq(ChunkSet), stopped : BOOLEAN]
ServerSound(s) ==
    /\ ~s.stopped => NalSound(s.nal)
    /\ s.shown # << >> => \/ Whole(s.shown) /\ ~s.stopped
                          \/ HasGap(s.shown)

LEMMA ReassembleStays ==
    ASSUME NEW s \in Server, NEW c \in ChunkSet
    PROVE  Reassemble(s, c) \in Server
<1>1. Append(s.nal, c) \in Seq(ChunkSet) /\ << >> \in Seq(ChunkSet)
  BY DEF Server
<1> DEFINE more == Append(s.nal, c)
<1> HIDE DEF more
<1>2. more \in Seq(ChunkSet)
  BY <1>1 DEF more
<1>3. Reassemble(s, c) = IF s.stopped THEN s
                         ELSE IF Len(more) > NalCapacity THEN [s EXCEPT !.shown = more, !.stopped = TRUE]
                         ELSE IF end_of_nal(c) THEN [s EXCEPT !.nal = << >>, !.shown = more]
                         ELSE [s EXCEPT !.nal = more]
  BY DEF Reassemble, more
<1> QED
  BY <1>1, <1>2, <1>3 DEF Server

LEMMA ReassembleKeeps ==
    ASSUME NEW s \in Server, ServerSound(s), NEW c \in ChunkSet,
           ~s.stopped => Continues(AfterNal(s.nal), c)
    PROVE  /\ ServerSound(Reassemble(s, c))
           /\ ~Reassemble(s, c).stopped => /\ ~s.stopped
                                           /\ AfterNal(Reassemble(s, c).nal) = AfterChunk(c)
<1> DEFINE more == Append(s.nal, c)
           t == Reassemble(s, c)
<1>1. s.nal \in Seq(ChunkSet) /\ s.shown \in Seq(ChunkSet) /\ s.stopped \in BOOLEAN
  BY DEF Server
<1>2. CASE s.stopped
  BY <1>2 DEF Reassemble
<1>3. CASE ~s.stopped
  <2>1. NalSound(s.nal) /\ Continues(AfterNal(s.nal), c)
    BY <1>3 DEF ServerSound
  <2>2. /\ more \in Seq(ChunkSet) /\ Len(more) = Len(s.nal) + 1 /\ more[Len(more)] = c
        /\ HasGap(more) \/ (Numbered(more) /\ c.number = Len(more))
    BY <2>1, <1>1, OneChunkMore
  <2>3. t = IF Len(more) > NalCapacity THEN [s EXCEPT !.shown = more, !.stopped = TRUE]
            ELSE IF end_of_nal(c) THEN [s EXCEPT !.nal = << >>, !.shown = more]
            ELSE [s EXCEPT !.nal = more]
    BY <1>3 DEF Reassemble
  <2> HIDE DEF more, t
  <2>4. Len(more) \in Nat \ {0} /\ more # << >> /\ NalCapacity \in Nat
    BY <2>2, <1>1, FeedConstants
  <2>5. CASE Len(more) > NalCapacity
    <3>1. HasGap(more)
      <4>2. c.number \in Nat /\ c.count \in Nat /\ c.number <= c.count /\ c.count <= NalCapacity
        BY ChunkFacts
      <4>1. c.number \in Nat /\ c.number <= NalCapacity
        BY <4>2, <2>4
      <4> QED
        BY <4>1, <2>2, <2>4, <2>5
    <3>2. t.shown = more /\ t.stopped
      BY <2>3, <2>5 DEF Server
    <3> QED
      BY <3>1, <3>2 DEF ServerSound, t
  <2>6. CASE ~(Len(more) > NalCapacity) /\ end_of_nal(c)
    <3>1. t.nal = << >> /\ t.shown = more /\ ~t.stopped
      BY <2>3, <2>6, <1>3 DEF Server
    <3>2. NalSound(t.nal)
      BY <3>1 DEF NalSound, Numbered
    <3>3. HasGap(more) \/ Whole(more)
      <4>1. CASE Numbered(more) /\ c.number = Len(more)
        <5>1. c.count = Len(more)
          BY <4>1, <2>6 DEF end_of_nal
        <5>2. \A i \in DOMAIN more : more[i].number = i
          BY <4>1, <2>2 DEF Numbered
        <5> QED
          BY <5>1, <5>2, <2>2 DEF Whole
      <4> QED
        BY <4>1, <2>2
    <3>4. AfterNal(t.nal) = AfterChunk(c)
      BY <3>1, <2>6 DEF AfterNal, AfterChunk
    <3> QED
      BY <3>1, <3>2, <3>3, <3>4, <1>3 DEF ServerSound, t
  <2>7. CASE ~(Len(more) > NalCapacity) /\ ~end_of_nal(c)
    <3>1. t.nal = more /\ t.shown = s.shown /\ ~t.stopped
      BY <2>3, <2>7, <1>3 DEF Server
    <3>2. NalSound(t.nal)
      BY <3>1, <2>2, <2>7 DEF NalSound
    <3>3. AfterNal(t.nal) = AfterChunk(c)
      BY <3>1, <2>2, <2>4 DEF AfterNal
    <3> QED
      BY <3>1, <3>2, <3>3, <1>3 DEF ServerSound, t
  <2> QED
    BY <2>5, <2>6, <2>7
<1> QED
  BY <1>2, <1>3

(* The whole loop.                                                         *)
LEMMA ReassembledSound ==
    ASSUME stream \in Seq(ChunkSet), NEW nal \in Seq(ChunkSet), NalSound(nal), StreamSound(nal),
           NEW n \in 0 .. Len(stream)
    PROVE  LET r == Reassembled(nal, n) IN
           /\ r \in Server /\ ServerSound(r)
           /\ ~r.stopped => AfterNal(r.nal) = IF n = 0 THEN AfterNal(nal)
                                              ELSE AfterChunk(stream[n])
<1> DEFINE first == [nal |-> nal, shown |-> << >>, stopped |-> FALSE]
           step == [i \in 1 .. n |-> [s \in Server |-> Reassemble(s, stream[i])]]
           IsTaken(g) == g = [i \in 0 .. n |-> IF i = 0 THEN [nal |-> nal, shown |-> << >>, stopped |-> FALSE]
                                               ELSE Reassemble(g[i - 1], stream[i])]
           taken == CHOOSE g : IsTaken(g)
<1>1. n \in Nat /\ \A i \in 1 .. n : stream[i] \in ChunkSet /\ i \in 1 .. Len(stream)
  OBVIOUS
<1>2. first \in Server /\ ServerSound(first)
  BY DEF Server, ServerSound
<1>3. \A i \in 1 .. n : \A s \in Server : Reassemble(s, stream[i]) \in Server
  BY <1>1, ReassembleStays
<1>4. step \in [1 .. n -> [Server -> Server]]
  BY <1>3
<1>5. \A i \in 1 .. n : \A s \in Server : step[i][s] = Reassemble(s, stream[i])
  OBVIOUS
<1> HIDE DEF step, first
<1>6. PICK f : Recursion(f, n, Server, first, step)
  BY <1>1, <1>2, <1>4, RecursionOnNat
<1>7. IsTaken(f)
  <2>1. f \in [0 .. n -> Server] /\ f[0] = first
        /\ \A i \in 1 .. n : f[i] = step[i][f[i - 1]]
    BY <1>6 DEF Recursion
  <2>2. \A i \in 0 .. n : f[i] = IF i = 0 THEN first ELSE Reassemble(f[i - 1], stream[i])
    <3> SUFFICES ASSUME NEW i \in 0 .. n, i # 0 PROVE f[i] = Reassemble(f[i - 1], stream[i])
      BY <2>1
    <3>1. i \in 1 .. n /\ i - 1 \in 0 .. n
      BY <1>1
    <3>2. f[i - 1] \in Server
      BY <3>1, <2>1
    <3> QED
      BY <3>1, <3>2, <2>1, <1>5
  <2> QED
    BY <2>1, <2>2 DEF first
<1>8. IsTaken(taken)
  BY <1>7
<1> HIDE DEF taken
<1>9. Reassembled(nal, n) = taken[n]
  BY DEF Reassembled, taken
<1>10. taken[0] = first /\ \A i \in 1 .. n : taken[i] = Reassemble(taken[i - 1], stream[i])
  <2>1. 0 \in 0 .. n
    BY <1>1
  <2>2. taken[0] = first
    BY <2>1, <1>8 DEF first
  <2>3. ASSUME NEW i \in 1 .. n PROVE taken[i] = Reassemble(taken[i - 1], stream[i])
    <3>1. i \in 0 .. n /\ i # 0
      BY <1>1
    <3> QED
      BY <3>1, <1>8
  <2> QED
    BY <2>2, <2>3
<1> HIDE DEF IsTaken
<1> DEFINE Upto(m) == /\ taken[m] \in Server /\ ServerSound(taken[m])
                      /\ ~taken[m].stopped =>
                            AfterNal(taken[m].nal) = IF m = 0 THEN AfterNal(nal)
                                                     ELSE AfterChunk(stream[m])
           T == {m \in Nat : m <= n => Upto(m)}
<1>11. 0 \in T
  BY <1>2, <1>10 DEF first
<1>12. ASSUME NEW m \in T PROVE m + 1 \in T
  <2>1. CASE m + 1 > n
    BY <2>1, <1>1
  <2>2. CASE m + 1 <= n
    <3>1. m \in Nat /\ m + 1 \in 1 .. n /\ (m + 1) - 1 = m /\ m <= n /\ m + 1 # 0
      BY <2>2, <1>1
    <3>2. Upto(m)
      BY <3>1
    <3>3. /\ stream[m + 1] \in ChunkSet /\ m + 1 \in 1 .. Len(stream)
          /\ taken[m + 1] = Reassemble(taken[m], stream[m + 1])
      BY <3>1, <1>1, <1>10
    <3>4. Continues(IF m = 0 THEN AfterNal(nal) ELSE AfterChunk(stream[m]), stream[m + 1])
      BY <3>1, <3>3 DEF StreamSound, Chained
    <3>5. taken[m + 1] \in Server
      BY <3>2, <3>3, ReassembleStays
    <3>6. /\ ServerSound(taken[m + 1])
          /\ ~taken[m + 1].stopped => AfterNal(taken[m + 1].nal) = AfterChunk(stream[m + 1])
      BY <3>2, <3>3, <3>4, ReassembleKeeps
    <3>7. Upto(m + 1)
      BY <3>1, <3>5, <3>6
    <3> HIDE DEF Upto
    <3> QED
      BY <3>1, <3>7
  <2>3. m \in Nat
    OBVIOUS
  <2> HIDE DEF T
  <2> QED
    BY <2>1, <2>2, <2>3, <1>1
<1>13. T \subseteq Nat
  OBVIOUS
<1> HIDE DEF T
<1>14. T = Nat
  BY <1>11, <1>12, <1>13, NatSetInduction
<1>15. Upto(n)
  BY <1>14, <1>1 DEF T
<1> QED
  BY <1>9, <1>15

(* The client's side: the source gives up its next chunk, and a chunk more *)
(* is pushed.                                                              *)
LEMMA ChunkPopped ==
    ASSUME NEW queue \in Seq(NalSet), queue # << >>, SourceSound(queue)
    PROVE  LET c == Chunk(queue[1].sent + 1, queue[1].chunks, FALSE) IN
           /\ c \in ChunkSet /\ Continues(AtSource(queue), c)
           /\ PopChunk(queue) \in Seq(NalSet) /\ SourceSound(PopChunk(queue))
           /\ AtSource(PopChunk(queue)) = AfterChunk(c)
<1> DEFINE nal == queue[1]
           c == Chunk(queue[1].sent + 1, queue[1].chunks, FALSE)
           sent == [nal EXCEPT !.sent = @ + 1]
           n == Len(queue)
<1>1. NalChunks \subseteq Nat \ {0}
  BY FeedConstants
<1>2. n \in Nat \ {0} /\ nal \in NalSet /\ nal = Head(queue)
      /\ \A i \in 1 .. n : queue[i] \in NalSet
  OBVIOUS
<1>3. nal.chunks \in NalChunks /\ nal.chunks \in Nat \ {0} /\ nal.sent \in Nat /\ nal.sent < nal.chunks
  BY <1>1, <1>2 DEF NalSet
<1>4. c.number = nal.sent + 1 /\ c.count = nal.chunks /\ c.gap = FALSE
      /\ c = [number |-> nal.sent + 1, count |-> nal.chunks, gap |-> FALSE]
  BY DEF Chunk
<1>9. nal.sent + 1 \in Nat /\ nal.sent + 1 \in 1 .. nal.chunks
  BY <1>3
<1> HIDE DEF c
<1>5. c \in ChunkSet
  <2>1. c \in [number : Nat, count : NalChunks, gap : BOOLEAN]
    BY <1>3, <1>4, <1>9
  <2> QED
    BY <2>1, <1>4, <1>9 DEF ChunkSet
<1>6. Continues(AtSource(queue), c)
  <2>1. CASE nal.sent = 0
    BY <2>1, <1>4 DEF Continues, AtSource, Between
  <2>2. CASE nal.sent # 0
    <3>1. AtSource(queue) = [sent |-> nal.sent, of |-> nal.chunks]
      BY <2>2 DEF AtSource
    <3>2. c.number = AtSource(queue).sent + 1 /\ c.count = AtSource(queue).of
      BY <3>1, <1>4
    <3> QED
      BY <3>2 DEF Continues
  <2> QED
    BY <2>1, <2>2
<1>7. CASE nal.sent + 1 = nal.chunks
  <2>1. PopChunk(queue) = Tail(queue)
    BY <1>7, <1>2 DEF PopChunk
  <2>2. /\ Tail(queue) \in Seq(NalSet) /\ Len(Tail(queue)) = n - 1
        /\ \A i \in 1 .. n - 1 : Tail(queue)[i] = queue[i + 1] /\ i + 1 \in 2 .. n
    BY <1>2
  <2>3. \A i \in 1 .. n - 1 : Tail(queue)[i].sent = 0
    BY <2>2 DEF SourceSound
  <2>4. SourceSound(Tail(queue))
    BY <2>2, <2>3, <1>2 DEF SourceSound
  <2>5. AtSource(Tail(queue)) = Between
    <3>1. CASE Tail(queue) = << >>
      BY <3>1 DEF AtSource
    <3>2. CASE Tail(queue) # << >>
      <4>1. 1 \in 1 .. n - 1
        BY <3>2, <2>2, <1>2
      <4> QED
        BY <4>1, <2>3 DEF AtSource
    <3> QED
      BY <3>1, <3>2
  <2>6. AfterChunk(c) = Between
    BY <1>7, <1>4 DEF AfterChunk, end_of_nal
  <2> QED
    BY <2>1, <2>2, <2>4, <2>5, <2>6, <1>5, <1>6 DEF c
<1>8. CASE nal.sent + 1 # nal.chunks
  <2>1. PopChunk(queue) = <<sent>> \o Tail(queue)
    BY <1>8, <1>2 DEF PopChunk
  <2>2. sent \in NalSet /\ sent.sent = nal.sent + 1 /\ sent.chunks = nal.chunks
    BY <1>2, <1>3, <1>8 DEF NalSet
  <2> HIDE DEF sent
  <2>3. /\ Tail(queue) \in Seq(NalSet) /\ Len(Tail(queue)) = n - 1
        /\ \A i \in 1 .. n - 1 : Tail(queue)[i] = queue[i + 1]
    BY <1>2
  <2> DEFINE new == <<sent>> \o Tail(queue)
  <2>4. /\ new \in Seq(NalSet) /\ Len(new) = n /\ new[1] = sent
        /\ \A i \in 2 .. n : new[i] = Tail(queue)[i - 1]
    BY <2>2, <2>3, <1>2
  <2> HIDE DEF new
  <2>5. \A i \in 2 .. n : new[i] = queue[i]
    BY <2>3, <2>4, <1>2
  <2>6. SourceSound(new)
    BY <2>4, <2>5 DEF SourceSound
  <2>7. AtSource(new) = [sent |-> nal.sent + 1, of |-> nal.chunks]
    <3>1. new # << >> /\ new[1].sent # 0
      BY <2>2, <2>4, <1>2, <1>3
    <3> QED
      BY <3>1, <2>2, <2>4 DEF AtSource
  <2>8. AfterChunk(c) = [sent |-> nal.sent + 1, of |-> nal.chunks]
    BY <1>8, <1>4 DEF AfterChunk, end_of_nal
  <2> QED
    BY <2>1, <2>4, <2>6, <2>7, <2>8, <1>5, <1>6 DEF new, c
<1> QED
  BY <1>7, <1>8

LEMMA PushedStays ==
    ASSUME NEW chunks \in Seq(ChunkSet), NEW c \in ChunkSet
    PROVE  PushFrame(chunks, c) \in Seq(ChunkSet)
<1> DEFINE longer == Append(chunks, c)
           rest == Tail(longer)
           marked == [rest[1] EXCEPT !.gap = TRUE]
           n == Len(chunks)
<1>1. /\ n \in Nat /\ longer \in Seq(ChunkSet) /\ longer # << >> /\ Len(longer) = n + 1
  OBVIOUS
<1>2. PushFrame(chunks, c) = IF Len(longer) <= ChunkWindow THEN longer
                             ELSE [rest EXCEPT ![1].gap = TRUE]
  BY DEF PushFrame
<1> HIDE DEF longer
<1>5. rest \in Seq(ChunkSet) /\ Len(rest) = n
  BY <1>1
<1> HIDE DEF rest
<1>3. /\ rest \in Seq(ChunkSet) /\ rest = [i \in 1 .. n |-> rest[i]]
      /\ \A i \in 1 .. n : rest[i] \in ChunkSet
  BY <1>5
<1>4. CASE ~(Len(longer) <= ChunkWindow)
  <2>1. 1 \in 1 .. n
    BY <1>1, <1>4, FeedConstants
  <2>2. marked \in ChunkSet
    BY <2>1, <1>3 DEF ChunkSet
  <2>3. [rest EXCEPT ![1].gap = TRUE] = [i \in 1 .. n |-> IF i = 1 THEN marked ELSE rest[i]]
    BY <1>3
  <2> HIDE DEF marked
  <2>4. [i \in 1 .. n |-> IF i = 1 THEN marked ELSE rest[i]] \in Seq(ChunkSet)
    BY <2>2, <1>1, <1>3
  <2> QED
    BY <2>3, <2>4, <1>2, <1>4
<1> QED
  BY <1>1, <1>2, <1>4

LEMMA ChunkPushed ==
    ASSUME NEW chunks \in Seq(ChunkSet), NEW spot, Chained(spot, chunks),
           NEW c \in ChunkSet, Continues(EndOf(spot, chunks), c)
    PROVE  /\ PushFrame(chunks, c) \in Seq(ChunkSet)
           /\ Chained(spot, PushFrame(chunks, c))
           /\ EndOf(spot, PushFrame(chunks, c)) = AfterChunk(c)
<1> DEFINE n == Len(chunks)
           longer == Append(chunks, c)
<1>1. /\ n \in Nat /\ longer \in Seq(ChunkSet) /\ Len(longer) = n + 1 /\ longer[n + 1] = c
      /\ \A i \in 1 .. n : longer[i] = chunks[i]
      /\ \A i \in 1 .. n + 1 : longer[i] \in ChunkSet
  OBVIOUS
<1> HIDE DEF longer
<1>2. ASSUME NEW i \in 1 .. n + 1
      PROVE  Continues(IF i = 1 THEN spot ELSE AfterChunk(longer[i - 1]), longer[i])
  <2>1. CASE i \in 1 .. n
    <3>1. longer[i] = chunks[i] /\ (i # 1 => longer[i - 1] = chunks[i - 1])
      BY <2>1, <1>1
    <3> QED
      BY <2>1, <3>1 DEF Chained
  <2>2. CASE i = n + 1 /\ n = 0
    <3>1. chunks = << >>
      BY <2>2
    <3> QED
      BY <2>2, <3>1, <1>1 DEF EndOf
  <2>3. CASE i = n + 1 /\ n # 0
    <3>1. chunks # << >> /\ longer[i - 1] = chunks[n] /\ i # 1 /\ longer[i] = c
      BY <2>3, <1>1
    <3> QED
      BY <3>1 DEF EndOf
  <2> QED
    BY <2>1, <2>2, <2>3, <1>1
<1>3. PushFrame(chunks, c) = IF Len(longer) <= ChunkWindow THEN longer
                             ELSE [Tail(longer) EXCEPT ![1].gap = TRUE]
  BY DEF PushFrame, longer
<1>4. CASE Len(longer) <= ChunkWindow
  <2>1. Chained(spot, longer) /\ EndOf(spot, longer) = AfterChunk(c)
    <3>1. Chained(spot, longer)
      BY <1>1, <1>2 DEF Chained
    <3>2. longer # << >>
      BY <1>1
    <3> QED
      BY <3>1, <3>2, <1>1 DEF EndOf
  <2> QED
    BY <2>1, <1>1, <1>3, <1>4
<1>5. CASE ~(Len(longer) <= ChunkWindow)
  <2> DEFINE rest == Tail(longer)
             marked == [rest[1] EXCEPT !.gap = TRUE]
             new == [i \in 1 .. n |-> IF i = 1 THEN marked ELSE rest[i]]
  <2>1. n \in Nat \ {0}
    BY <1>1, <1>5, FeedConstants
  <2>2. /\ rest \in Seq(ChunkSet) /\ Len(rest) = n
        /\ \A i \in 1 .. n : rest[i] = longer[i + 1] /\ rest[i] \in ChunkSet
    BY <1>1, <2>1
  <2> HIDE DEF rest
  <2>3. marked \in ChunkSet /\ marked.gap /\ AfterChunk(marked) = AfterChunk(rest[1])
    <3>1. rest[1] \in ChunkSet
      BY <2>1, <2>2
    <3> QED
      BY <3>1 DEF ChunkSet, AfterChunk, end_of_nal
  <2>4. PushFrame(chunks, c) = new
    <3>1. PushFrame(chunks, c) = [rest EXCEPT ![1].gap = TRUE]
      BY <1>3, <1>5 DEF rest
    <3>2. rest = [i \in 1 .. n |-> rest[i]]
      BY <2>2
    <3> QED
      BY <3>1, <3>2
  <2> HIDE DEF marked
  <2>5. /\ new \in Seq(ChunkSet) /\ Len(new) = n /\ new[1] = marked
        /\ \A i \in 2 .. n : new[i] = rest[i]
    BY <2>1, <2>2, <2>3
  <2> HIDE DEF new
  <2>6. \A i \in 1 .. n : AfterChunk(new[i]) = AfterChunk(longer[i + 1])
    <3> SUFFICES ASSUME NEW i \in 1 .. n PROVE AfterChunk(new[i]) = AfterChunk(longer[i + 1])
      OBVIOUS
    <3>1. rest[i] = longer[i + 1]
      BY <2>2
    <3>2. CASE i = 1
      BY <3>1, <3>2, <2>3, <2>5
    <3>3. CASE i # 1
      <4>1. i \in 2 .. n
        BY <3>3, <2>1
      <4> QED
        BY <4>1, <3>1, <2>5
    <3> QED
      BY <3>2, <3>3
  <2>7. ASSUME NEW i \in 1 .. n
        PROVE  Continues(IF i = 1 THEN spot ELSE AfterChunk(new[i - 1]), new[i])
    <3>1. CASE i = 1
      BY <3>1, <2>3, <2>5 DEF Continues
    <3>2. CASE i # 1
      <4>1. i \in 2 .. n /\ i - 1 \in 1 .. n /\ (i - 1) + 1 = i /\ i + 1 \in 1 .. n + 1
            /\ (i + 1) - 1 = i /\ i + 1 # 1
        BY <3>2, <2>1
      <4>2. new[i] = longer[i + 1] /\ AfterChunk(new[i - 1]) = AfterChunk(longer[i])
        BY <4>1, <2>2, <2>5, <2>6
      <4>3. Continues(AfterChunk(longer[i]), longer[i + 1])
        BY <4>1, <1>2
      <4> QED
        BY <3>2, <4>2, <4>3
    <3> QED
      BY <3>1, <3>2
  <2>8. Chained(spot, new)
    BY <2>5, <2>7 DEF Chained
  <2>9. EndOf(spot, new) = AfterChunk(c)
    <3>1. new # << >> /\ n \in 1 .. n
      BY <2>1, <2>5
    <3>2. AfterChunk(new[n]) = AfterChunk(c)
      BY <3>1, <2>6, <1>1
    <3> QED
      BY <3>1, <3>2, <2>5 DEF EndOf
  <2> QED
    BY <2>4, <2>5, <2>8, <2>9
<1> QED
  BY <1>4, <1>5

(* The server's side: what is behind the chunks that it takes.             *)
LEMMA ChainCut ==
    ASSUME NEW chunks \in Seq(ChunkSet), NEW spot, Chained(spot, chunks),
           NEW n \in 0 .. Len(chunks), NEW new,
           new = IF n = 0 THEN spot ELSE AfterChunk(chunks[n])
    PROVE  LET rest == SubSeq(chunks, n + 1, Len(chunks)) IN
           /\ rest \in Seq(ChunkSet) /\ Chained(new, rest)
           /\ EndOf(new, rest) = EndOf(spot, chunks)
<1> DEFINE m == Len(chunks)
           rest == SubSeq(chunks, n + 1, m)
<1>1. /\ m \in Nat /\ n \in Nat /\ n <= m
      /\ rest \in Seq(ChunkSet) /\ Len(rest) = m - n
      /\ \A i \in 1 .. m - n : rest[i] = chunks[i + n] /\ i + n \in 1 .. m
  OBVIOUS
<1> HIDE DEF rest
<1>2. ASSUME NEW i \in 1 .. Len(rest)
      PROVE  Continues(IF i = 1 THEN new ELSE AfterChunk(rest[i - 1]), rest[i])
  <2>1. i + n \in 1 .. m /\ rest[i] = chunks[i + n]
    BY <1>1
  <2>2. Continues(IF i + n = 1 THEN spot ELSE AfterChunk(chunks[i + n - 1]), chunks[i + n])
    BY <2>1 DEF Chained
  <2>3. CASE i = 1
    <3>1. (i + n = 1 <=> n = 0) /\ i + n - 1 = n
      BY <2>3, <1>1
    <3> QED
      BY <3>1, <2>1, <2>2, <2>3
  <2>4. CASE i # 1
    <3>3. i \in 1 .. m - n
      BY <1>1
    <3>1. i - 1 \in 1 .. m - n /\ i + n # 1 /\ (i - 1) + n = i + n - 1
      BY <3>3, <2>4, <1>1
    <3>2. rest[i - 1] = chunks[i + n - 1]
      BY <3>1, <1>1
    <3> QED
      BY <3>1, <3>2, <2>1, <2>2, <2>4
  <2> QED
    BY <2>3, <2>4
<1>3. Chained(new, rest)
  BY <1>2 DEF Chained
<1>4. EndOf(new, rest) = EndOf(spot, chunks)
  <2>1. CASE n = m
    <3>1. rest = << >>
      BY <2>1, <1>1
    <3>2. n = 0 <=> chunks = << >>
      BY <2>1
    <3> QED
      BY <2>1, <3>1, <3>2 DEF EndOf
  <2>2. CASE n # m
    <3>1. m - n \in 1 .. m - n /\ (m - n) + n = m /\ rest # << >> /\ chunks # << >>
      BY <2>2, <1>1
    <3>2. rest[Len(rest)] = chunks[m]
      BY <3>1, <1>1
    <3> QED
      BY <3>1, <3>2 DEF EndOf
  <2> QED
    BY <2>1, <2>2
<1> QED
  BY <1>1, <1>3, <1>4 DEF rest

(* A session that is given away is never the server's current one.         *)
LEMMA NextKeyIsOther ==
    ASSUME NEW k \in Keys
    PROVE  (k + 1) % FeedKeys \in Keys /\ (k + 1) % FeedKeys # k
<1>1. FeedKeys \in Nat \ {0} /\ FeedKeys > 2
  BY FeedConstants
<1>2. k \in Nat /\ k < FeedKeys
  BY <1>1 DEF Keys
<1>3. CASE k + 1 < FeedKeys
  <2>1. (k + 1) % FeedKeys = k + 1
    BY <1>1, <1>2, <1>3
  <2> QED
    BY <2>1, <1>1, <1>2, <1>3 DEF Keys
<1>4. CASE k + 1 = FeedKeys
  <2>1. (k + 1) % FeedKeys = 0
    BY <1>1, <1>4
  <2> QED
    BY <2>1, <1>1, <1>2, <1>4 DEF Keys
<1> QED
  BY <1>1, <1>2, <1>3, <1>4

LEMMA FeedStarts == FeedInit => FeedInv
<1> SUFFICES ASSUME FeedInit PROVE FeedInv
  OBVIOUS
<1>1. /\ source = << >> /\ stream = << >> /\ current_nal = << >> /\ decoded = << >>
      /\ session = {} /\ current = {} /\ next_key = 0 /\ stopped = FALSE /\ offered = {}
  BY DEF FeedInit
<1>2. FeedTypes
  <2>1. 0 \in Keys
    BY FeedConstants DEF Keys
  <2>2. << >> \in Seq(NalSet) /\ << >> \in Seq(ChunkSet)
    OBVIOUS
  <2> QED
    BY <2>1, <2>2, <1>1 DEF FeedTypes, AtMostOne
<1>3. KeysSound /\ SourceSound(source) /\ NalsAreWhole
  BY <1>1 DEF KeysSound, SourceSound, NalsAreWhole
<1>4. NalSound(current_nal) /\ TapeSound
  BY <1>1 DEF NalSound, Numbered, TapeSound
<1> QED
  BY <1>2, <1>3, <1>4 DEF FeedInv

(* Steps that leave keys and tape alone.                                   *)
LEMMA TapeUntouched ==
    ASSUME FeedInv, UNCHANGED <<source, session, stream, current, next_key, current_nal,
                                decoded, stopped>>,
           \/ offered' \subseteq offered
           \/ session = {} /\ offered' = offered \cup {next_key}
    PROVE  FeedInv'
<1>1. FeedTypes'
  BY DEF FeedInv, FeedTypes, AtMostOne
<1>2. KeysSound'
  BY DEF FeedInv, KeysSound
<1>3. SourceSound(source)' /\ NalsAreWhole'
  BY DEF FeedInv, SourceSound, NalsAreWhole, HasGap, Whole
<1>4. ~stopped => NalSound(current_nal)' /\ TapeSound'
  BY DEF FeedInv, NalSound, TapeSound, StreamSound, NalOf, HasGap, Numbered
<1> QED
  BY <1>1, <1>2, <1>3, <1>4 DEF FeedInv

LEMMA EncodeKeeps ==
    ASSUME FeedInv, NEW count \in NalChunks, Encode(count)
    PROVE  FeedInv'
<1> DEFINE new == [chunks |-> count, sent |-> 0]
           n == Len(source)
<1>1. /\ source \in Seq(NalSet) /\ n \in Nat
      /\ source' = Append(source, new)
      /\ UNCHANGED <<session, stream, current, next_key, current_nal, decoded, stopped, offered>>
  BY DEF FeedInv, FeedTypes, Encode, server_feed_vars
<1>2. new \in NalSet /\ new.sent = 0
  <2>1. count \in Nat \ {0}
    BY FeedConstants
  <2> QED
    BY <2>1 DEF NalSet
<1> HIDE DEF new
<1>3. /\ source' \in Seq(NalSet) /\ Len(source') = n + 1 /\ source'[n + 1] = new
      /\ \A i \in 1 .. n : source'[i] = source[i]
  BY <1>1, <1>2
<1>4. SourceSound(source')
  <2> SUFFICES ASSUME NEW i \in 2 .. n + 1 PROVE source'[i].sent = 0
    BY <1>3 DEF SourceSound
  <2>1. i = n + 1 \/ i \in 2 .. n
    BY <1>1
  <2> QED
    BY <2>1, <1>1, <1>2, <1>3 DEF FeedInv, SourceSound
<1>5. AtSource(source') = AtSource(source)
  <2>1. CASE source = << >>
    <3>1. n = 0 /\ source'[1] = new
      BY <2>1, <1>1, <1>3
    <3> QED
      BY <2>1, <3>1, <1>2 DEF AtSource
  <2>2. CASE source # << >>
    <3>1. 1 \in 1 .. n /\ source' # << >>
      BY <2>2, <1>1, <1>3
    <3>2. source'[1] = source[1]
      BY <3>1, <1>3
    <3> QED
      BY <2>2, <3>1, <3>2 DEF AtSource
  <2> QED
    BY <2>1, <2>2
<1>6. FeedTypes'
  BY <1>1, <1>3 DEF FeedInv, FeedTypes, AtMostOne
<1>7. KeysSound' /\ NalsAreWhole'
  BY <1>1 DEF FeedInv, KeysSound, NalsAreWhole, HasGap, Whole
<1>8. ~stopped => NalSound(current_nal)' /\ TapeSound'
  BY <1>1, <1>5 DEF FeedInv, NalSound, TapeSound, StreamSound, NalOf, HasGap, Numbered
<1> QED
  BY <1>1, <1>4, <1>6, <1>7, <1>8 DEF FeedInv

LEMMA DiscardVideoKeeps ==
    ASSUME FeedInv, DiscardVideo
    PROVE  FeedInv'
<1>1. /\ source' = << >> /\ session = {}
      /\ UNCHANGED <<session, stream, current, next_key, current_nal, decoded, stopped, offered>>
  BY DEF DiscardVideo, DiscardDue, server_feed_vars
<1>2. FeedTypes' /\ SourceSound(source')
  BY <1>1 DEF FeedInv, FeedTypes, AtMostOne, SourceSound
<1>3. KeysSound' /\ NalsAreWhole'
  BY <1>1 DEF FeedInv, KeysSound, NalsAreWhole, HasGap, Whole
<1>4. ~stopped => NalSound(current_nal)' /\ TapeSound'
  BY <1>1 DEF FeedInv, NalSound, TapeSound, HasGap, Numbered
<1> QED
  BY <1>1, <1>2, <1>3, <1>4 DEF FeedInv

LEMMA TransmitKeeps ==
    ASSUME FeedInv, Transmit
    PROVE  FeedInv'
<1> DEFINE c == Chunk(source[1].sent + 1, source[1].chunks, FALSE)
           sent == PushFrame(stream, c)
<1>1. /\ source \in Seq(NalSet) /\ stream \in Seq(ChunkSet) /\ source # << >>
      /\ SourceSound(source)
      /\ source' = PopChunk(source) /\ session # {}
      /\ UNCHANGED <<current, next_key, current_nal, decoded, stopped>>
  BY DEF FeedInv, FeedTypes, Transmit, server_feed_vars
<1>2. \/ session' = {} /\ offered' = {} /\ stream' = << >>
      \/ session' = session /\ offered' = offered /\ stream' = sent
  <2>1. Head(source) = source[1]
    BY <1>1
  <2> QED
    BY <2>1 DEF Transmit
<1>3. /\ c \in ChunkSet /\ Continues(AtSource(source), c)
      /\ source' \in Seq(NalSet) /\ SourceSound(source')
      /\ AtSource(source') = AfterChunk(c)
  BY <1>1, ChunkPopped
<1> HIDE DEF c, sent
<1>4. NalsAreWhole' /\ NalSound(current_nal)' = NalSound(current_nal)
  BY <1>1 DEF FeedInv, NalsAreWhole, HasGap, Whole, NalSound, Numbered
<1>5. CASE session' = {} /\ offered' = {} /\ stream' = << >>
  <2>1. FeedTypes'
    BY <1>1, <1>3, <1>5 DEF FeedInv, FeedTypes, AtMostOne
  <2>2. KeysSound' /\ TapeSound'
    BY <1>1, <1>5 DEF FeedInv, KeysSound, TapeSound
  <2> QED
    BY <2>1, <2>2, <1>1, <1>3, <1>4 DEF FeedInv
<1>6. CASE session' = session /\ offered' = offered /\ stream' = sent
  <2>1. KeysSound'
    BY <1>1, <1>6 DEF FeedInv, KeysSound
  <2>2. ASSUME NEW spot, Chained(spot, stream), EndOf(spot, stream) = AtSource(source)
        PROVE  Chained(spot, sent) /\ EndOf(spot, sent) = AfterChunk(c)
    BY <2>2, <1>1, <1>3, ChunkPushed DEF sent
  <2>3. sent \in Seq(ChunkSet)
    BY <1>1, <1>3, PushedStays DEF sent
  <2>4. FeedTypes'
    BY <2>3, <1>1, <1>3, <1>6 DEF FeedInv, FeedTypes, AtMostOne
  <2>5. ASSUME ~stopped, NEW k \in session', (current = {k} \/ next_key = k)
        PROVE  StreamSound(NalOf(k))'
    <3>1. StreamSound(NalOf(k))
      BY <2>5, <1>6 DEF FeedInv, TapeSound
    <3>2. NalOf(k)' = NalOf(k)
      BY <1>1 DEF NalOf
    <3> QED
      BY <3>1, <3>2, <2>2, <1>3, <1>6 DEF StreamSound
  <2>6. ~stopped => TapeSound'
    BY <2>5, <1>1 DEF TapeSound
  <2> QED
    BY <2>1, <2>4, <2>6, <1>1, <1>3, <1>4 DEF FeedInv
<1> QED
  BY <1>2, <1>5, <1>6

LEMMA KeyReplyKeeps ==
    ASSUME FeedInv, NEW k \in offered, process_keyreply(k)
    PROVE  FeedInv'
<1>1. session = {} /\ k = next_key /\ k \in Keys
  BY DEF FeedInv, FeedTypes, KeysSound
<1>2. /\ session' = {k} /\ stream' = << >> /\ offered' = offered \ {k} /\ source = << >>
      /\ UNCHANGED <<source, current, next_key, current_nal, decoded, stopped>>
  BY <1>1 DEF process_keyreply, InPoll, DiscardDue, server_feed_vars
<1>3. current # {k}
  <2> SUFFICES ASSUME current = {k} PROVE FALSE
    OBVIOUS
  <2>1. next_key = (k + 1) % FeedKeys
    BY DEF FeedInv, KeysSound
  <2> QED
    BY <2>1, <1>1, NextKeyIsOther
<1>4. FeedTypes'
  BY <1>1, <1>2 DEF FeedInv, FeedTypes, AtMostOne
<1>5. KeysSound' /\ SourceSound(source)' /\ NalsAreWhole'
  <2>1. offered' = {}
    BY <1>1, <1>2 DEF FeedInv, KeysSound
  <2> QED
    BY <2>1, <1>2 DEF FeedInv, KeysSound, SourceSound, NalsAreWhole, HasGap, Whole
<1>6. StreamSound(NalOf(k))'
  <2>1. NalOf(k)' = << >>
    BY <1>2, <1>3 DEF NalOf
  <2> QED
    BY <2>1, <1>2 DEF StreamSound, Chained, EndOf, AfterNal, AtSource
<1>7. TapeSound'
  BY <1>2, <1>6 DEF TapeSound
<1>8. ~stopped => NalSound(current_nal)'
  BY <1>2 DEF FeedInv, NalSound, HasGap, Numbered
<1> QED
  BY <1>2, <1>4, <1>5, <1>7, <1>8 DEF FeedInv

LEMMA PacketKeeps ==
    ASSUME FeedInv, ~stopped, NEW k \in session, NEW n \in 0 .. Len(stream), receive_packet(k, n)
    PROVE  FeedInv'
<1> DEFINE nal == NalOf(k)
           r == Reassembled(nal, n)
           rest == SubSeq(stream, n + 1, Len(stream))
           new == IF n = 0 THEN AfterNal(nal) ELSE AfterChunk(stream[n])
<1>1. /\ session = {k} /\ (current = {k} \/ next_key = k) /\ current' = {k}
      /\ next_key' = IF current = {k} THEN next_key ELSE (next_key + 1) % FeedKeys
      /\ current_nal' = r.nal /\ decoded' = r.shown /\ stopped' = r.stopped
      /\ stream' = rest
      /\ UNCHANGED <<source, session, offered>>
  BY DEF receive_packet, client_feed_vars
<1>2. /\ stream \in Seq(ChunkSet) /\ current_nal \in Seq(ChunkSet) /\ k \in Keys
      /\ NalSound(current_nal) /\ StreamSound(nal)
  BY <1>1 DEF FeedInv, FeedTypes, AtMostOne, TapeSound
<1>3. nal \in Seq(ChunkSet) /\ NalSound(nal)
  BY <1>2 DEF NalOf, NalSound, Numbered
<1> HIDE DEF nal, r, rest, new
<1>4. /\ r \in Server /\ ServerSound(r)
      /\ ~r.stopped => AfterNal(r.nal) = new
  BY <1>2, <1>3, ReassembledSound DEF r, new
<1>5. /\ rest \in Seq(ChunkSet) /\ Chained(new, rest)
      /\ EndOf(new, rest) = EndOf(AfterNal(nal), stream)
  BY <1>2, ChainCut DEF StreamSound, rest, new
<1>6. r.nal \in Seq(ChunkSet) /\ r.shown \in Seq(ChunkSet) /\ r.stopped \in BOOLEAN
  BY <1>4 DEF Server
<1>7. next_key' \in Keys /\ next_key' = (k + 1) % FeedKeys
  <2>1. CASE current = {k}
    BY <2>1, <1>1 DEF FeedInv, FeedTypes, KeysSound
  <2>2. CASE current # {k}
    BY <2>2, <1>1, <1>2, NextKeyIsOther
  <2> QED
    BY <2>1, <2>2
<1>8. FeedTypes'
  BY <1>1, <1>2, <1>5, <1>6, <1>7 DEF FeedInv, FeedTypes, AtMostOne
<1>9. KeysSound' /\ SourceSound(source)'
  BY <1>1, <1>7 DEF FeedInv, KeysSound, SourceSound
<1>10. NalsAreWhole'
  BY <1>1, <1>4, <1>6 DEF NalsAreWhole, ServerSound, HasGap, Whole
<1>11. ASSUME ~r.stopped PROVE NalSound(current_nal)' /\ TapeSound'
  <2>1. NalSound(r.nal) /\ AfterNal(r.nal) = new
    BY <1>4, <1>11 DEF ServerSound
  <2>2. NalSound(current_nal)'
    BY <2>1, <1>1 DEF NalSound, HasGap, Numbered
  <2>3. NalOf(k)' = r.nal
    BY <1>1 DEF NalOf
  <2>4. StreamSound(NalOf(k))'
    BY <2>1, <2>3, <1>1, <1>2, <1>5 DEF StreamSound
  <2> QED
    BY <2>2, <2>4, <1>1 DEF TapeSound
<1> QED
  BY <1>1, <1>8, <1>9, <1>10, <1>11 DEF FeedInv

LEMMA ServerTimeoutKeeps ==
    ASSUME FeedInv, ServerTimeout
    PROVE  FeedInv'
<1>1. /\ current' = {} /\ current_nal' = << >> /\ current # {}
      /\ UNCHANGED <<source, session, offered, stream, next_key, decoded, stopped>>
  BY DEF ServerTimeout, client_feed_vars
<1>2. FeedTypes'
  BY <1>1 DEF FeedInv, FeedTypes, AtMostOne
<1>3. KeysSound' /\ SourceSound(source)' /\ NalsAreWhole'
  BY <1>1 DEF FeedInv, KeysSound, SourceSound, NalsAreWhole, HasGap, Whole
<1>4. NalSound(current_nal)'
  BY <1>1 DEF NalSound, Numbered
<1>5. ASSUME ~stopped, NEW k \in session, next_key = k PROVE StreamSound(NalOf(k))'
  <2>1. current # {k}
    <3> SUFFICES ASSUME current = {k} PROVE FALSE
      OBVIOUS
    <3>1. k = (k + 1) % FeedKeys /\ k \in Keys
      BY <1>5 DEF FeedInv, FeedTypes, KeysSound
    <3> QED
      BY <3>1, NextKeyIsOther
  <2>2. StreamSound(<< >>)
    BY <1>5, <2>1 DEF FeedInv, TapeSound, NalOf
  <2>3. NalOf(k)' = << >>
    BY <1>1 DEF NalOf
  <2> QED
    BY <2>2, <2>3, <1>1 DEF StreamSound
<1>6. ~stopped => TapeSound'
  BY <1>1, <1>5 DEF TapeSound
<1> QED
  BY <1>1, <1>2, <1>3, <1>4, <1>6 DEF FeedInv

(* What the video server decodes as one NAL is one NAL of the camera's     *)
(* encoder, whole, unless the connection wrote chunks off in it or right   *)
(* before it; whatever sessions come, go and time out at either end        *)
(* (vsclient.cc:24, videoclient.cc:76).                                    *)
THEOREM FeedNalsAreWhole == FeedSpec => []NalsAreWhole
<1>1. FeedInv /\ [FeedNext]_feed_vars => FeedInv'
  <2> SUFFICES ASSUME FeedInv, [FeedNext]_feed_vars PROVE FeedInv'
    OBVIOUS
  <2>1. CASE ReadCameraFrame \/ ScaleFrame \/ ClientHears \/ ClientQuiet \/ ServerQuiet
             \/ UNCHANGED feed_vars
    <3>1. UNCHANGED <<source, session, stream, current, next_key, current_nal,
                      decoded, stopped, offered>>
      BY <2>1 DEF ReadCameraFrame, ScaleFrame, ClientHears, ClientQuiet, ServerQuiet,
                  feed_vars, client_feed_vars, server_feed_vars
    <3> QED
      BY <3>1, TapeUntouched
  <2>2. ASSUME NEW count \in NalChunks, Encode(count) PROVE FeedInv'
    BY <2>2, EncodeKeeps
  <2>3. CASE DiscardVideo
    BY <2>3, DiscardVideoKeeps
  <2>4. CASE Transmit
    BY <2>4, TransmitKeeps
  <2>5. ASSUME NEW k \in offered, process_keyreply(k) PROVE FeedInv'
    BY <2>5, KeyReplyKeeps
  <2>6. ASSUME ~stopped, NEW k \in session, NEW n \in 0 .. Len(stream), receive_packet(k, n)
        PROVE  FeedInv'
    BY <2>6, PacketKeeps
  <2>7. CASE KeyRequest \/ \E k \in offered : LoseKeyReply(k)
    <3>1. /\ UNCHANGED <<source, session, stream, current, next_key, current_nal,
                         decoded, stopped>>
          /\ \/ offered' \subseteq offered
             \/ session = {} /\ offered' = offered \cup {next_key}
      BY <2>7 DEF KeyRequest, LoseKeyReply, client_feed_vars, server_feed_vars
    <3> QED
      BY <3>1, TapeUntouched
  <2>8. CASE ServerTimeout
    BY <2>8, ServerTimeoutKeeps
  <2> QED
    BY <2>1, <2>2, <2>3, <2>4, <2>5, <2>6, <2>7, <2>8
       DEF FeedNext, ClientFeedNext, ServerFeedNext
<1>2. FeedInv => NalsAreWhole
  BY DEF FeedInv
<1> QED
  BY <1>1, <1>2, FeedStarts, PTL DEF FeedSpec

------------------------------------------------------------------------------
(* The viewer.  A line is what the viewer has read last, what it is about  *)
(* to read and what is to be sent.  A step moves what is in the line       *)
(* without changing it, puts in or takes out what is not video, drops the  *)
(* front of it, or puts a fragment at its end.                             *)

UnitKinds == {"video", "frame", "name", "update", "101", "close"}
Units == [kind : UnitKinds, no : Int, idr : BOOLEAN, part : Nat, of : Nat]

Joined(line) ==
    \A i, j \in 1 .. Len(line) : NextVideo(line, i, j) => Follows(line[i], line[j])
WholeUpTo(line, no) ==
    \E i \in 1 .. Len(line) :
        LastVideo(line, i) /\ line[i].part = line[i].of /\ line[i].no = no

ViewerTypes ==
    /\ nals \in Nat /\ frames_since_idr \in Nat
    /\ {good_, skipping, idr_hit} \subseteq BOOLEAN
    /\ {last_seen, socket, outbound, output} \subseteq Seq(Units)
    /\ last_seen # <<>> => Len(last_seen) = 1 /\ IsVideo(last_seen[1])

(* A NAL that is not an IDR's will be written.                             *)
Armed == idr_hit /\ ~(skipping /\ frames_since_idr >= SkipFrom)

Sound(line, armed, last) ==
    Joined(line) /\ \E no \in Int : WholeUpTo(line, no) /\ (armed => no = last)

ViewerInv == ViewerTypes /\ (good_ => Sound(Line, Armed, nals))

(* What is not video does not matter to a line, wherever it is in it.      *)
LEMMA PaddedPlaces ==
    ASSUME NEW a \in Seq(Units), NEW p \in Seq(Units), NEW b \in Seq(Units)
    PROVE  /\ Len((a \o p) \o b) = Len(a) + Len(p) + Len(b)
           /\ Len(a \o b) = Len(a) + Len(b)
           /\ \A i \in 1 .. Len(a) : ((a \o p) \o b)[i] = a[i] /\ (a \o b)[i] = a[i]
           /\ \A i \in 1 .. Len(p) : ((a \o p) \o b)[Len(a) + i] = p[i]
           /\ \A i \in 1 .. Len(b) : /\ ((a \o p) \o b)[Len(a) + Len(p) + i] = b[i]
                                     /\ (a \o b)[Len(a) + i] = b[i]
<1> DEFINE c == a \o p
<1>1. c \in Seq(Units) /\ Len(c) = Len(a) + Len(p)
      /\ \A i \in 1 .. Len(a) + Len(p) : c[i] = IF i <= Len(a) THEN a[i] ELSE p[i - Len(a)]
  BY ConcatProperties
<1> HIDE DEF c
<1>2. Len(c \o b) = Len(c) + Len(b)
      /\ \A i \in 1 .. Len(c) + Len(b) : (c \o b)[i] = IF i <= Len(c) THEN c[i] ELSE b[i - Len(c)]
  <2>1. c \in Seq(Units)
    BY <1>1
  <2> QED
    BY <2>1, ConcatProperties
<1>3. Len(a \o b) = Len(a) + Len(b)
      /\ \A i \in 1 .. Len(a) + Len(b) : (a \o b)[i] = IF i <= Len(a) THEN a[i] ELSE b[i - Len(a)]
  BY ConcatProperties
<1>4. Len(a) \in Nat /\ Len(p) \in Nat /\ Len(b) \in Nat
  OBVIOUS
<1>5. \A i \in 1 .. Len(a) : (c \o b)[i] = a[i] /\ (a \o b)[i] = a[i]
  <2> SUFFICES ASSUME NEW i \in 1 .. Len(a) PROVE (c \o b)[i] = a[i] /\ (a \o b)[i] = a[i]
    OBVIOUS
  <2>1. /\ i \in 1 .. Len(c) + Len(b) /\ i \in 1 .. Len(a) + Len(b) /\ i <= Len(a)
        /\ i \in 1 .. Len(a) + Len(p) /\ i <= Len(c)
    BY <1>1, <1>4
  <2>2. (c \o b)[i] = c[i] /\ c[i] = a[i]
    BY <2>1, <1>1, <1>2
  <2>3. (a \o b)[i] = a[i]
    BY <2>1, <1>3
  <2> QED
    BY <2>2, <2>3
<1>6. \A i \in 1 .. Len(p) : (c \o b)[Len(a) + i] = p[i]
  <2> SUFFICES ASSUME NEW i \in 1 .. Len(p) PROVE (c \o b)[Len(a) + i] = p[i]
    OBVIOUS
  <2>1. Len(a) + i \in 1 .. Len(c) /\ ~(Len(a) + i <= Len(a)) /\ Len(a) + i - Len(a) = i
    BY <1>1, <1>4
  <2>2. (c \o b)[Len(a) + i] = c[Len(a) + i]
    BY <2>1, <1>1, <1>2, <1>4
  <2> QED
    BY <2>1, <2>2, <1>1
<1>7. \A i \in 1 .. Len(b) : /\ (c \o b)[Len(a) + Len(p) + i] = b[i]
                             /\ (a \o b)[Len(a) + i] = b[i]
  <2> SUFFICES ASSUME NEW i \in 1 .. Len(b)
               PROVE  /\ (c \o b)[Len(a) + Len(p) + i] = b[i]
                      /\ (a \o b)[Len(a) + i] = b[i]
    OBVIOUS
  <2>1. /\ Len(c) + i \in 1 .. Len(c) + Len(b) /\ ~(Len(c) + i <= Len(c)) /\ Len(c) + i - Len(c) = i
        /\ Len(a) + i \in 1 .. Len(a) + Len(b) /\ ~(Len(a) + i <= Len(a)) /\ Len(a) + i - Len(a) = i
    BY <1>1, <1>4
  <2>2. (c \o b)[Len(c) + i] = b[i]
    BY <2>1, <1>2
  <2>3. (a \o b)[Len(a) + i] = b[i]
    BY <2>1, <1>3
  <2> QED
    BY <2>2, <2>3, <1>1
<1> QED
  BY <1>1, <1>2, <1>3, <1>4, <1>5, <1>6, <1>7 DEF c

LEMMA Padded ==
    ASSUME NEW a \in Seq(Units), NEW p \in Seq(Units), NEW b \in Seq(Units),
           \A i \in 1 .. Len(p) : ~IsVideo(p[i])
    PROVE  /\ Joined((a \o p) \o b) <=> Joined(a \o b)
           /\ \A no \in Int : WholeUpTo((a \o p) \o b, no) <=> WholeUpTo(a \o b, no)
<1> DEFINE s == a \o b
           t == (a \o p) \o b
           la == Len(a)
           lp == Len(p)
           lb == Len(b)
           spot(i) == IF i <= la THEN i ELSE i + lp
<1>1. la \in Nat /\ lp \in Nat /\ lb \in Nat
  OBVIOUS
<1>2. /\ Len(t) = la + lp + lb /\ Len(s) = la + lb
      /\ \A i \in 1 .. la : t[i] = a[i] /\ s[i] = a[i]
      /\ \A i \in 1 .. lp : t[la + i] = p[i]
      /\ \A i \in 1 .. lb : t[la + lp + i] = b[i] /\ s[la + i] = b[i]
  BY PaddedPlaces
<1> HIDE DEF s, t, la, lp, lb
<1>3. \A i \in 1 .. Len(s) : spot(i) \in 1 .. Len(t) /\ t[spot(i)] = s[i]
  <2> SUFFICES ASSUME NEW i \in 1 .. Len(s) PROVE spot(i) \in 1 .. Len(t) /\ t[spot(i)] = s[i]
    OBVIOUS
  <2>1. CASE i <= la
    <3>1. i \in 1 .. la
      BY <2>1, <1>1, <1>2
    <3> QED
      BY <3>1, <2>1, <1>1, <1>2
  <2>2. CASE ~(i <= la)
    <3>1. PICK k \in 1 .. lb : i = la + k
      <4>1. i - la \in 1 .. lb /\ i = la + (i - la)
        BY <2>2, <1>1, <1>2
      <4> QED
        BY <4>1
    <3>2. spot(i) = la + lp + k /\ la + lp + k \in 1 .. Len(t)
      BY <3>1, <2>2, <1>1, <1>2
    <3> QED
      BY <3>1, <3>2, <1>2
  <2> QED
    BY <2>1, <2>2
<1>4. ASSUME NEW k \in 1 .. Len(t)
      PROVE  \/ ~IsVideo(t[k])
             \/ \E i \in 1 .. Len(s) : spot(i) = k
  <2>1. CASE k <= la
    <3>1. k \in 1 .. Len(s) /\ spot(k) = k
      BY <2>1, <1>1, <1>2
    <3> QED
      BY <3>1
  <2>2. CASE la < k /\ k <= la + lp
    <3>1. k - la \in 1 .. lp /\ k = la + (k - la)
      BY <2>2, <1>1
    <3>2. t[k] = p[k - la]
      BY <3>1, <1>2
    <3> QED
      BY <3>1, <3>2 DEF lp
  <2>3. CASE la + lp < k
    <3>1. k - lp \in 1 .. Len(s) /\ ~(k - lp <= la) /\ k = (k - lp) + lp
      BY <2>3, <1>1, <1>2
    <3>2. spot(k - lp) = k
      BY <3>1, <1>1
    <3> QED
      BY <3>1, <3>2
  <2> QED
    BY <2>1, <2>2, <2>3, <1>1
<1>5. \A i, j \in 1 .. Len(s) : i < j <=> spot(i) < spot(j)
  BY <1>1, <1>2
<1> HIDE DEF spot
<1>6. \A i, j \in 1 .. Len(s) : NextVideo(s, i, j) <=> NextVideo(t, spot(i), spot(j))
  <2> SUFFICES ASSUME NEW i \in 1 .. Len(s), NEW j \in 1 .. Len(s)
               PROVE  NextVideo(s, i, j) <=> NextVideo(t, spot(i), spot(j))
    OBVIOUS
  <2>1. /\ spot(i) \in 1 .. Len(t) /\ spot(j) \in 1 .. Len(t) /\ i \in Int /\ j \in Int
        /\ spot(i) \in Int /\ spot(j) \in Int
        /\ (i < j <=> spot(i) < spot(j)) /\ t[spot(i)] = s[i] /\ t[spot(j)] = s[j]
        /\ Len(s) \in Nat /\ Len(t) \in Nat
    BY <1>1, <1>2, <1>3, <1>5
  <2>2. ASSUME NextVideo(s, i, j), NEW k \in spot(i) + 1 .. spot(j) - 1 PROVE ~IsVideo(t[k])
    <3>1. k \in 1 .. Len(t) /\ spot(i) < k /\ k < spot(j)
      BY SMTT(30), <2>1
    <3>2. ASSUME NEW m \in 1 .. Len(s), spot(m) = k PROVE ~IsVideo(t[k])
      <4>1. i < m /\ m < j
        BY <3>1, <3>2, <1>5
      <4>2. m \in i + 1 .. j - 1
        BY <4>1, <2>1
      <4>3. ~IsVideo(s[m])
        BY <4>2, <2>2 DEF NextVideo
      <4> QED
        BY <4>3, <3>2, <1>3
    <3> QED
      BY <3>1, <3>2, <1>4
  <2>3. ASSUME NextVideo(t, spot(i), spot(j)), NEW m \in i + 1 .. j - 1 PROVE ~IsVideo(s[m])
    <3>1. m \in 1 .. Len(s) /\ i < m /\ m < j
      BY <2>1
    <3>2. spot(i) < spot(m) /\ spot(m) < spot(j)
      BY <3>1, <1>5
    <3>5. spot(m) \in 1 .. Len(t)
      BY <3>1, <1>3
    <3>3. spot(m) \in spot(i) + 1 .. spot(j) - 1
      BY <3>2, <3>5, <2>1
    <3>4. ~IsVideo(t[spot(m)])
      BY <3>3, <2>3 DEF NextVideo
    <3> QED
      BY <3>4, <3>1, <1>3
  <2> QED
    BY <2>1, <2>2, <2>3 DEF NextVideo
<1>7. \A i \in 1 .. Len(s) : LastVideo(s, i) <=> LastVideo(t, spot(i))
  <2> SUFFICES ASSUME NEW i \in 1 .. Len(s)
               PROVE  LastVideo(s, i) <=> LastVideo(t, spot(i))
    OBVIOUS
  <2>1. /\ spot(i) \in 1 .. Len(t) /\ i \in Int /\ spot(i) \in Int /\ t[spot(i)] = s[i]
        /\ Len(s) \in Nat /\ Len(t) \in Nat
    BY <1>1, <1>2, <1>3
  <2>2. ASSUME LastVideo(s, i), NEW k \in spot(i) + 1 .. Len(t) PROVE ~IsVideo(t[k])
    <3>1. k \in 1 .. Len(t) /\ spot(i) < k
      BY <2>1
    <3>2. ASSUME NEW m \in 1 .. Len(s), spot(m) = k PROVE ~IsVideo(t[k])
      <4>1. i < m
        BY <3>1, <3>2, <1>5
      <4>2. m \in i + 1 .. Len(s)
        BY <4>1, <2>1
      <4>3. ~IsVideo(s[m])
        BY <4>2, <2>2 DEF LastVideo
      <4> QED
        BY <4>3, <3>2, <1>3
    <3> QED
      BY <3>1, <3>2, <1>4
  <2>3. ASSUME LastVideo(t, spot(i)), NEW m \in i + 1 .. Len(s) PROVE ~IsVideo(s[m])
    <3>1. m \in 1 .. Len(s) /\ i < m
      BY <2>1
    <3>2. spot(i) < spot(m) /\ spot(m) \in 1 .. Len(t)
      BY <3>1, <1>3, <1>5
    <3>3. spot(m) \in spot(i) + 1 .. Len(t)
      BY <3>2, <2>1
    <3>4. ~IsVideo(t[spot(m)])
      BY <3>3, <2>3 DEF LastVideo
    <3> QED
      BY <3>4, <3>1, <1>3
  <2> QED
    BY <2>1, <2>2, <2>3 DEF LastVideo
<1>8. Joined(t) <=> Joined(s)
  <2>1. ASSUME Joined(t) PROVE Joined(s)
    BY <2>1, <1>3, <1>6 DEF Joined
  <2>2. ASSUME Joined(s), NEW k \in 1 .. Len(t), NEW l \in 1 .. Len(t), NextVideo(t, k, l)
        PROVE  Follows(t[k], t[l])
    <3>1. PICK i \in 1 .. Len(s) : spot(i) = k
      BY <2>2, <1>4 DEF NextVideo
    <3>2. PICK j \in 1 .. Len(s) : spot(j) = l
      BY <2>2, <1>4 DEF NextVideo
    <3> QED
      BY <3>1, <3>2, <2>2, <1>3, <1>6 DEF Joined
  <2> QED
    BY <2>1, <2>2 DEF Joined
<1>9. \A no \in Int : WholeUpTo(t, no) <=> WholeUpTo(s, no)
  <2> SUFFICES ASSUME NEW no \in Int PROVE WholeUpTo(t, no) <=> WholeUpTo(s, no)
    OBVIOUS
  <2>1. ASSUME WholeUpTo(s, no) PROVE WholeUpTo(t, no)
    BY <2>1, <1>3, <1>7 DEF WholeUpTo
  <2>2. ASSUME WholeUpTo(t, no) PROVE WholeUpTo(s, no)
    <3>1. PICK k \in 1 .. Len(t) : LastVideo(t, k) /\ t[k].part = t[k].of /\ t[k].no = no
      BY <2>2 DEF WholeUpTo
    <3>2. PICK i \in 1 .. Len(s) : spot(i) = k
      BY <3>1, <1>4 DEF LastVideo
    <3> QED
      BY <3>1, <3>2, <1>3, <1>7 DEF WholeUpTo
  <2> QED
    BY <2>1, <2>2
<1> QED
  BY <1>8, <1>9 DEF s, t

(* What is left of a line whose front was dropped is as sound as it was.   *)
LEMMA FrontDropped ==
    ASSUME NEW a \in Seq(Units), NEW b \in Seq(Units), Joined(a \o b)
    PROVE  /\ Joined(b)
           /\ \A no \in Int : WholeUpTo(a \o b, no) /\ (\E k \in 1 .. Len(b) : IsVideo(b[k]))
                                  => WholeUpTo(b, no)
<1> DEFINE s == a \o b
           la == Len(a)
           lb == Len(b)
<1>1. /\ la \in Nat /\ lb \in Nat /\ Len(s) = la + lb
      /\ \A i \in 1 .. la + lb : s[i] = IF i <= la THEN a[i] ELSE b[i - la]
  BY ConcatProperties
<1> HIDE DEF s, la, lb
<1>2. \A i \in 1 .. lb : la + i \in 1 .. Len(s) /\ s[la + i] = b[i]
  <2> SUFFICES ASSUME NEW i \in 1 .. lb PROVE la + i \in 1 .. Len(s) /\ s[la + i] = b[i]
    OBVIOUS
  <2>1. la + i \in 1 .. la + lb /\ ~(la + i <= la) /\ la + i - la = i
    BY <1>1
  <2> QED
    BY <2>1, <1>1
<1>3. ASSUME NEW i \in 1 .. lb, NEW j \in 1 .. lb, NextVideo(b, i, j)
      PROVE  Follows(b[i], b[j])
  <2>1. ASSUME NEW k \in (la + i) + 1 .. (la + j) - 1 PROVE ~IsVideo(s[k])
    <3>1. k - la \in i + 1 .. j - 1 /\ k - la \in 1 .. lb /\ la + (k - la) = k
      BY <1>1
    <3>2. ~IsVideo(b[k - la])
      BY <3>1, <1>3 DEF NextVideo
    <3>3. s[la + (k - la)] = b[k - la]
      BY <3>1, <1>2
    <3> QED
      BY <3>1, <3>2, <3>3
  <2>2. la + i < la + j
    BY <1>1, <1>3 DEF NextVideo
  <2>3. NextVideo(s, la + i, la + j)
    <3>1. s[la + i] = b[i] /\ s[la + j] = b[j]
      BY <1>2
    <3>2. IsVideo(b[i]) /\ IsVideo(b[j])
      BY <1>3 DEF NextVideo
    <3> QED
      BY <2>1, <2>2, <3>1, <3>2 DEF NextVideo, IsVideo
  <2>4. Follows(s[la + i], s[la + j])
    BY <2>3, <1>2 DEF Joined, s
  <2> QED
    BY <2>4, <1>2
<1>4. ASSUME NEW no \in Int, WholeUpTo(s, no), NEW k \in 1 .. lb, IsVideo(b[k])
      PROVE  WholeUpTo(b, no)
  <2>1. PICK i \in 1 .. Len(s) : LastVideo(s, i) /\ s[i].part = s[i].of /\ s[i].no = no
    BY <1>4 DEF WholeUpTo
  <2>2. ~(la + k \in i + 1 .. Len(s))
    BY <2>1, <1>2, <1>4 DEF LastVideo
  <2>3. i - la \in 1 .. lb /\ la + (i - la) = i
    BY <2>2, <1>1, <1>2
  <2>4. s[i] = b[i - la]
    BY <2>3, <1>2
  <2>5. ASSUME NEW m \in i - la + 1 .. lb PROVE ~IsVideo(b[m])
    <3>1. m \in 1 .. lb /\ la + m \in i + 1 .. Len(s)
      BY <2>3, <1>1
    <3>2. ~IsVideo(s[la + m])
      BY <3>1, <2>1 DEF LastVideo
    <3> QED
      BY <3>1, <3>2, <1>2
  <2>6. LastVideo(b, i - la)
    BY <2>1, <2>4, <2>5 DEF LastVideo, lb
  <2> QED
    BY <2>1, <2>3, <2>4, <2>6 DEF WholeUpTo, lb
<1>5. Joined(b)
  BY <1>3 DEF Joined, lb
<1> QED
  BY <1>4, <1>5 DEF s, lb

(* A fragment may follow a line that ends with the fragment before it, and *)
(* an IDR's any line that ends with a whole fragment.                      *)
LEMMA Appended ==
    ASSUME NEW s \in Seq(Units), NEW last \in Int, Joined(s), WholeUpTo(s, last),
           NEW no \in Nat, NEW idr \in BOOLEAN, NEW length \in Nat \ {0},
           idr \/ no = last + 1
    PROVE  /\ Fragment(no, idr, length) \in Seq(Units)
           /\ Joined(s \o Fragment(no, idr, length))
           /\ WholeUpTo(s \o Fragment(no, idr, length), no)
<1> DEFINE f == Fragment(no, idr, length)
           t == s \o f
           ls == Len(s)
<1>1. /\ f \in Seq(Units) /\ Len(f) = length
      /\ \A i \in 1 .. length :
             f[i] = [kind |-> "video", no |-> no, idr |-> idr, part |-> i, of |-> length]
  <2>1. \A i \in 1 .. length :
            [kind |-> "video", no |-> no, idr |-> idr, part |-> i, of |-> length] \in Units
    <3> SUFFICES ASSUME NEW i \in 1 .. length
                 PROVE  [kind |-> "video", no |-> no, idr |-> idr, part |-> i, of |-> length]
                            \in Units
      OBVIOUS
    <3>1. no \in Int /\ i \in Nat /\ length \in Nat
      OBVIOUS
    <3> QED
      BY <3>1 DEF Units, UnitKinds
  <2> QED
    BY <2>1 DEF Fragment
<1> HIDE DEF f
<1>2. /\ ls \in Nat /\ Len(t) = ls + length
      /\ \A i \in 1 .. ls + length : t[i] = IF i <= ls THEN s[i] ELSE f[i - ls]
  <2>1. f \in Seq(Units)
    BY <1>1
  <2>2. /\ Len(t) = Len(s) + Len(f)
        /\ \A i \in 1 .. Len(s) + Len(f) : t[i] = IF i <= Len(s) THEN s[i] ELSE f[i - Len(s)]
    BY <2>1, ConcatProperties
  <2> HIDE DEF t
  <2> QED
    BY <2>2, <1>1
<1> HIDE DEF t, ls
<1>3. \A i \in 1 .. ls : i \in 1 .. Len(t) /\ t[i] = s[i]
  BY <1>2
<1>4. \A i \in 1 .. length : /\ ls + i \in 1 .. Len(t)
                             /\ t[ls + i] = [kind |-> "video", no |-> no, idr |-> idr,
                                             part |-> i, of |-> length]
  <2> SUFFICES ASSUME NEW i \in 1 .. length
               PROVE  ls + i \in 1 .. Len(t) /\ t[ls + i] = f[i]
    BY <1>1
  <2>1. ls + i \in 1 .. ls + length /\ ~(ls + i <= ls) /\ ls + i - ls = i
    BY <1>2
  <2> QED
    BY <2>1, <1>2
<1>5. \A i \in 1 .. length : IsVideo(t[ls + i])
  <2> SUFFICES ASSUME NEW i \in 1 .. length PROVE IsVideo(t[ls + i])
    OBVIOUS
  <2>1. t[ls + i] = [kind |-> "video", no |-> no, idr |-> idr, part |-> i, of |-> length]
    BY <1>4
  <2> QED
    BY <2>1 DEF IsVideo
<1>6. ASSUME NEW i \in 1 .. Len(t), NEW j \in 1 .. Len(t), NextVideo(t, i, j)
      PROVE  Follows(t[i], t[j])
  <2>1. i < j /\ IsVideo(t[i]) /\ IsVideo(t[j]) /\ \A k \in i + 1 .. j - 1 : ~IsVideo(t[k])
    BY <1>6 DEF NextVideo
  <2>2. CASE j <= ls
    <3>1. i \in 1 .. ls /\ j \in 1 .. ls
      BY <2>1, <2>2, <1>2
    <3>2. \A k \in i + 1 .. j - 1 : k \in 1 .. ls
      BY <3>1, <1>2
    <3>3. NextVideo(s, i, j)
      BY <2>1, <3>1, <3>2, <1>3 DEF NextVideo
    <3> QED
      BY <3>1, <3>3, <1>3 DEF Joined, ls
  <2>3. CASE ls < i
    <3>1. i - ls \in 1 .. length /\ j - ls \in 1 .. length /\ ls + (i - ls) = i /\ ls + (j - ls) = j
      BY <2>1, <2>3, <1>2
    <3>2. ~(i + 1 \in i + 1 .. j - 1)
      <4>1. ASSUME i + 1 \in i + 1 .. j - 1 PROVE FALSE
        <5>1. i + 1 - ls \in 1 .. length /\ ls + (i + 1 - ls) = i + 1
          <6>1. i \in Int /\ j \in Int /\ ls \in Int /\ length \in Int
            BY <1>2
          <6>2. i < j /\ 0 < i - ls /\ j - ls <= length
            BY <6>1, <4>1, <3>1
          <6> QED
            BY ONLY <6>1, <6>2
        <5> QED
          BY <5>1, <4>1, <2>1, <1>5
      <4> QED
        BY <4>1
    <3>3. j = i + 1
      BY <3>2, <2>1
    <3>4. /\ t[i] = [kind |-> "video", no |-> no, idr |-> idr, part |-> i - ls, of |-> length]
          /\ t[j] = [kind |-> "video", no |-> no, idr |-> idr, part |-> i - ls + 1, of |-> length]
      <4>1. j - ls = i - ls + 1
        <5>1. i \in Int /\ ls \in Int
          BY <1>2
        <5> QED
          BY <5>1, <3>3
      <4>2. t[ls + (i - ls)] =
                [kind |-> "video", no |-> no, idr |-> idr, part |-> i - ls, of |-> length]
        BY <3>1, <1>4
      <4>3. t[ls + (j - ls)] =
                [kind |-> "video", no |-> no, idr |-> idr, part |-> j - ls, of |-> length]
        BY <3>1, <1>4
      <4> QED
        BY <3>1, <4>1, <4>2, <4>3
    <3>5. i - ls + 1 > 1
      BY <3>1
    <3> QED
      BY <3>4, <3>5 DEF Follows
  <2>4. CASE i <= ls /\ ls < j
    <3>1. j - ls \in 1 .. length /\ ls + (j - ls) = j /\ i \in 1 .. ls
      BY <2>4, <1>2
    <3>2. j = ls + 1
      <4>1. ~(ls + 1 \in i + 1 .. j - 1)
        BY <2>1, <1>5
      <4> QED
        BY <4>1, <2>4, <1>2
    <3>3. PICK m \in 1 .. Len(s) : LastVideo(s, m) /\ s[m].part = s[m].of /\ s[m].no = last
      BY DEF WholeUpTo
    <3>4. IsVideo(s[i]) /\ IsVideo(s[m]) /\ m \in 1 .. ls /\ t[m] = s[m] /\ t[i] = s[i]
      BY <2>1, <3>1, <3>3, <1>3 DEF LastVideo, ls
    <3>5. m = i
      <4>1. ~(m \in i + 1 .. j - 1)
        BY <2>1, <3>4
      <4>2. ~(i \in m + 1 .. ls)
        BY <3>3, <3>4 DEF LastVideo, ls
      <4> QED
        BY <4>1, <4>2, <3>1, <3>2, <3>4, <1>2
    <3>6. t[j] = [kind |-> "video", no |-> no, idr |-> idr, part |-> 1, of |-> length]
      BY <3>2, <1>4
    <3> QED
      BY <3>3, <3>4, <3>5, <3>6 DEF Follows
  <2> QED
    BY <2>2, <2>3, <2>4, <1>2
<1>7. Joined(t)
  BY <1>6 DEF Joined
<1>8. WholeUpTo(t, no)
  <2>1. ls + length \in 1 .. Len(t) /\ ~(\E k \in ls + length + 1 .. Len(t) : TRUE)
    BY <1>2
  <2>2. t[ls + length] = [kind |-> "video", no |-> no, idr |-> idr, part |-> length, of |-> length]
    BY <1>4
  <2>3. LastVideo(t, ls + length)
    BY <2>1, <2>2 DEF LastVideo, IsVideo
  <2> QED
    BY <2>1, <2>2, <2>3 DEF WholeUpTo
<1> QED
  BY <1>1, <1>7, <1>8 DEF t, f

LEMMA SoundPadded ==
    ASSUME NEW a \in Seq(Units), NEW p \in Seq(Units), NEW b \in Seq(Units),
           \A i \in 1 .. Len(p) : ~IsVideo(p[i]), NEW armed, NEW last
    PROVE  Sound((a \o p) \o b, armed, last) <=> Sound(a \o b, armed, last)
<1>1. /\ Joined((a \o p) \o b) <=> Joined(a \o b)
      /\ \A no \in Int : WholeUpTo((a \o p) \o b, no) <=> WholeUpTo(a \o b, no)
  BY Padded
<1> QED
  BY <1>1 DEF Sound

LEMMA PlainUnits ==
    ASSUME NEW kind \in UnitKinds \ {"video"}, NEW length \in Nat
    PROVE  /\ Plain(kind, length) \in Seq(Units)
           /\ Len(Plain(kind, length)) = length
           /\ \A i \in 1 .. Len(Plain(kind, length)) : ~IsVideo(Plain(kind, length)[i])
<1>1. ASSUME NEW i \in 1 .. length
      PROVE  [kind |-> kind, no |-> 0, idr |-> TRUE, part |-> i, of |-> length] \in Units
  BY DEF Units, UnitKinds
<1>2. Plain(kind, length) \in Seq(Units) /\ Len(Plain(kind, length)) = length
  BY <1>1 DEF Plain
<1>3. ASSUME NEW i \in 1 .. length PROVE ~IsVideo(Plain(kind, length)[i])
  <2>1. Plain(kind, length)[i] =
            [kind |-> kind, no |-> 0, idr |-> TRUE, part |-> i, of |-> length]
    BY DEF Plain
  <2> QED
    BY <2>1 DEF IsVideo, UnitKinds
<1> QED
  BY <1>2, <1>3

LEMMA Split ==
    ASSUME NEW s \in Seq(Units), NEW n \in 0 .. Len(s)
    PROVE  /\ SubSeq(s, 1, n) \in Seq(Units) /\ SubSeq(s, n + 1, Len(s)) \in Seq(Units)
           /\ SubSeq(s, 1, n) \o SubSeq(s, n + 1, Len(s)) = s
<1>1. Len(s) \in Nat /\ 1 \in 1 .. Len(s) + 1 /\ n \in 1 - 1 .. Len(s) /\ Len(s) \in n .. Len(s)
  OBVIOUS
<1>2. SubSeq(s, 1, n) \o SubSeq(s, n + 1, Len(s)) = SubSeq(s, 1, Len(s))
  BY <1>1, ConcatAdjacentSubSeq
<1>3. SubSeq(s, 1, Len(s)) = s
  BY SubSeqFull
<1>4. SubSeq(s, 1, n) \in Seq(Units)
  BY <1>1
<1>5. SubSeq(s, n + 1, Len(s)) \in Seq(Units)
  BY <1>1
<1> QED
  BY <1>2, <1>3, <1>4, <1>5

(* How the parts of a line may be put in brackets.                         *)
LEMMA Associative ==
    ASSUME NEW U, NEW x \in Seq(U), NEW y \in Seq(U), NEW z \in Seq(U)
    PROVE  (x \o y) \o z = x \o (y \o z)
BY ConcatAssociative

Cat(x, y) == x \o y
LEMMA Brackets ==
    \A x, y, z \in Seq(Units) :
        Cat(x, y) \in Seq(Units) /\ Cat(Cat(x, y), z) = Cat(x, Cat(y, z))
<1> SUFFICES ASSUME NEW x \in Seq(Units), NEW y \in Seq(Units), NEW z \in Seq(Units)
             PROVE  Cat(x, y) \in Seq(Units) /\ Cat(Cat(x, y), z) = Cat(x, Cat(y, z))
  OBVIOUS
<1>1. x \o y \in Seq(Units)
  OBVIOUS
<1>2. (x \o y) \o z = x \o (y \o z)
  BY Associative
<1> QED
  BY <1>1, <1>2 DEF Cat

(* What is sent that is not video is put between outbound and output.      *)
LEMMA SendingKeepsLine ==
    ASSUME ViewerTypes, NEW kind \in UnitKinds \ {"video"}, NEW length \in Nat,
           outbound' = outbound \o Plain(kind, length),
           UNCHANGED <<last_seen, socket, output>>, NEW armed, NEW last
    PROVE  outbound' \in Seq(Units) /\ (Sound(Line', armed, last) <=> Sound(Line, armed, last))
<1> DEFINE p == Plain(kind, length)
           a == last_seen \o socket
<1>1. p \in Seq(Units) /\ \A i \in 1 .. Len(p) : ~IsVideo(p[i])
  BY PlainUnits
<1>2. last_seen \in Seq(Units) /\ socket \in Seq(Units) /\ outbound \in Seq(Units)
      /\ output \in Seq(Units)
  BY DEF ViewerTypes
<1>3. a \in Seq(Units) /\ a \o outbound \in Seq(Units) /\ outbound \o p \in Seq(Units)
  BY <1>1, <1>2
<1>4. Line' = (a \o (outbound \o p)) \o output /\ Line = (a \o outbound) \o output
  BY DEF Line
<1> HIDE DEF a, p
<1>5. Line' = ((a \o outbound) \o p) \o output
  <2>1. Cat(Cat(a, outbound), p) = Cat(a, Cat(outbound, p))
    BY <1>1, <1>2, <1>3, Brackets
  <2> QED
    BY <2>1, <1>4 DEF Cat
<1>6. Sound(((a \o outbound) \o p) \o output, armed, last)
          <=> Sound((a \o outbound) \o output, armed, last)
  BY <1>1, <1>2, <1>3, SoundPadded
<1> QED
  BY <1>3, <1>4, <1>5, <1>6 DEF p

LEMMA ViewerStarts == ViewerInit => ViewerInv
<1> SUFFICES ASSUME ViewerInit PROVE ViewerInv
  OBVIOUS
<1> DEFINE u == [kind |-> "video", no |-> 0, idr |-> TRUE, part |-> 1, of |-> 1]
<1>1. ftyp = u
  BY DEF ftyp, Fragment
<1>2. u \in Units
  BY DEF Units, UnitKinds
<1>3. <<u>> \in Seq(Units) /\ << >> \in Seq(Units)
  BY <1>2
<1>4. ViewerTypes
  BY <1>1, <1>3 DEF ViewerInit, ViewerTypes
<1>5. Line = <<u>>
  BY <1>1, <1>3 DEF ViewerInit, Line
<1>6. Len(<<u>>) = 1 /\ <<u>>[1] = u
  OBVIOUS
<1>7. Joined(<<u>>)
  BY <1>6 DEF Joined, NextVideo
<1>8. LastVideo(<<u>>, 1)
  BY <1>6 DEF LastVideo, IsVideo
<1>9. WholeUpTo(<<u>>, 0)
  BY <1>6, <1>8 DEF WholeUpTo
<1>10. ~Armed
  BY DEF ViewerInit, Armed
<1>11. Sound(<<u>>, Armed, nals)
  BY <1>7, <1>9, <1>10 DEF Sound
<1> QED
  BY <1>4, <1>5, <1>11 DEF ViewerInv

LEMMA WsSendKeepsInv == ASSUME ViewerInv, ws_send PROVE ViewerInv'
<1> DEFINE payload == IF Len(output) + 1 < OutRoom - max_overhead - 1
                      THEN Len(output) + 1 ELSE OutRoom - max_overhead - 1
           p == Plain("frame", max_overhead + 1)
           a == last_seen \o socket
           x == SubSeq(output, 1, payload - 1)
           y == SubSeq(output, payload, Len(output))
<1>1. /\ last_seen \in Seq(Units) /\ socket \in Seq(Units) /\ outbound \in Seq(Units)
      /\ output \in Seq(Units) /\ a \in Seq(Units)
  BY DEF ViewerInv, ViewerTypes
<1>2. payload - 1 \in 0 .. Len(output) /\ (payload - 1) + 1 = payload
  <2>1. OutRoom \in Int /\ OutRoom > 2 /\ max_overhead = 1 /\ Len(output) \in Nat
    <3>1. OutRoom \in Int
      BY <1>1, ViewerConstants DEF OutRoom
    <3> QED
      BY <3>1, <1>1 DEF ws_send, send_interest, max_overhead
  <2> QED
    BY <2>1
<1>3. p \in Seq(Units) /\ \A i \in 1 .. Len(p) : ~IsVideo(p[i])
  <2>1. "frame" \in UnitKinds \ {"video"} /\ max_overhead + 1 \in Nat
    BY DEF UnitKinds, max_overhead
  <2> QED
    BY <2>1, PlainUnits
<1>4. x \in Seq(Units) /\ y \in Seq(Units) /\ x \o y = output
  <2> HIDE DEF payload
  <2>1. /\ x \in Seq(Units) /\ SubSeq(output, (payload - 1) + 1, Len(output)) \in Seq(Units)
        /\ x \o SubSeq(output, (payload - 1) + 1, Len(output)) = output
    BY <1>1, <1>2, Split
  <2> QED
    BY <2>1, <1>2
<1>5. /\ outbound' = (outbound \o p) \o x /\ output' = y
      /\ last_seen' = last_seen /\ socket' = socket /\ good_' = good_ /\ good_
      /\ nals' = nals /\ frames_since_idr' = frames_since_idr /\ skipping' = skipping
      /\ idr_hit' = idr_hit
  BY DEF ws_send, ws_state_vars
<1> HIDE DEF p, x, y, payload
<1>6. ViewerTypes'
  <2>1. outbound \o p \in Seq(Units)
    BY <1>1, <1>3
  <2>2. (outbound \o p) \o x \in Seq(Units)
    BY <2>1, <1>4
  <2> QED
    BY <2>2, <1>1, <1>4, <1>5 DEF ViewerInv, ViewerTypes
<1>7. Line' = ((a \o outbound) \o p) \o output
  <2>1. Line' = (a \o ((outbound \o p) \o x)) \o y
    BY <1>5 DEF Line
  <2> HIDE DEF a
  <2>2. Cat(Cat(a, Cat(Cat(outbound, p), x)), y) = Cat(Cat(Cat(a, outbound), p), Cat(x, y))
    <3>1. a \in Seq(Units) /\ outbound \in Seq(Units) /\ p \in Seq(Units)
          /\ x \in Seq(Units) /\ y \in Seq(Units)
      BY <1>1, <1>3, <1>4
    <3> DEFINE op == Cat(outbound, p)
               ao == Cat(a, outbound)
    <3>2. op \in Seq(Units) /\ ao \in Seq(Units) /\ Cat(ao, p) = Cat(a, op)
      BY <3>1, Brackets
    <3> HIDE DEF op, ao
    <3>3. Cat(Cat(a, Cat(op, x)), y) = Cat(Cat(Cat(a, op), x), y)
      BY <3>1, <3>2, Brackets
    <3>4. Cat(a, op) \in Seq(Units)
      BY <3>1, <3>2, Brackets
    <3>5. Cat(Cat(Cat(a, op), x), y) = Cat(Cat(a, op), Cat(x, y))
      BY <3>1, <3>4, Brackets
    <3> QED
      BY <3>2, <3>3, <3>5 DEF op, ao
  <2> QED
    BY <2>1, <2>2, <1>4 DEF Cat
<1>8. Line = (a \o outbound) \o output /\ a \o outbound \in Seq(Units)
  BY <1>1 DEF Line
<1> HIDE DEF a
<1>9. Sound(((a \o outbound) \o p) \o output, Armed, nals)
          <=> Sound((a \o outbound) \o output, Armed, nals)
  BY <1>1, <1>3, <1>8, SoundPadded
<1>10. Armed' = Armed
  BY <1>5 DEF Armed
<1> QED
  BY <1>5, <1>6, <1>7, <1>8, <1>9, <1>10 DEF ViewerInv

LEMMA SendsKeepInv ==
    ASSUME ViewerInv, SendName \/ Opens \/ Closes \/ push_update(1) PROVE ViewerInv'
<1>1. ASSUME NEW kind \in UnitKinds \ {"video"}, NEW length \in Nat,
             outbound' = outbound \o Plain(kind, length),
             UNCHANGED <<mux_vars, last_seen, socket, good_>>
      PROVE  ViewerInv'
  <2>1. /\ outbound' \in Seq(Units)
        /\ (Sound(Line', Armed, nals) <=> Sound(Line, Armed, nals))
    <3>1. UNCHANGED <<last_seen, socket, output>>
      BY <1>1 DEF mux_vars
    <3> QED
      BY <3>1, <1>1, SendingKeepsLine DEF ViewerInv
  <2>2. Armed' = Armed /\ nals' = nals /\ good_' = good_
    BY <1>1 DEF mux_vars, Armed
  <2>3. ViewerTypes'
    BY <2>1, <1>1 DEF ViewerInv, ViewerTypes, mux_vars
  <2> QED
    BY <2>1, <2>2, <2>3 DEF ViewerInv
<1>2. ASSUME UNCHANGED <<mux_vars, last_seen, socket, good_, outbound>>
      PROVE  ViewerInv'
  BY <1>2 DEF ViewerInv, ViewerTypes, mux_vars, Line, Armed
<1>3. {"name", "101", "close", "update"} \subseteq UnitKinds \ {"video"}
  BY DEF UnitKinds
<1>4. CASE SendName
  BY <1>1, <1>3, <1>4 DEF SendName
<1>5. CASE Opens
  BY <1>1, <1>3, <1>5 DEF Opens
<1>6. CASE Closes
  BY <1>1, <1>2, <1>3, <1>6 DEF Closes
<1>7. CASE push_update(1)
  <2>1. 1 + 1 + max_overhead \in Nat
    BY DEF max_overhead
  <2> QED
    BY <2>1, <1>1, <1>3, <1>7 DEF push_update
<1> QED
  BY <1>4, <1>5, <1>6, <1>7

LEMMA DoWriteKeepsInv == ASSUME ViewerInv, do_write PROVE ViewerInv'
<1> DEFINE n == IF Len(outbound) < RecordLength THEN Len(outbound) ELSE RecordLength
           a == last_seen \o socket
           x == SubSeq(outbound, 1, n)
           y == SubSeq(outbound, n + 1, Len(outbound))
<1>1. /\ last_seen \in Seq(Units) /\ socket \in Seq(Units) /\ outbound \in Seq(Units)
      /\ output \in Seq(Units)
  BY DEF ViewerInv, ViewerTypes
<1>2. /\ n \in 0 .. Len(outbound) /\ socket_room \in Nat
      /\ written(n) \in 0 .. Len(outbound) /\ (~would_block(n) => written(n) = n)
  <2>1. n \in 0 .. Len(outbound)
    BY <1>1, ViewerConstants
  <2>2. socket_room \in Nat
    <3>1. SocketCapacity \in Nat /\ Len(socket) \in Nat
      BY <1>1, ViewerConstants
    <3>2. SocketCapacity - Len(socket) > 0
      BY DEF do_write, socket_room
    <3> QED
      BY <3>1, <3>2 DEF socket_room
  <2> HIDE DEF n
  <2> QED
    BY <2>1, <2>2 DEF written, would_block
<1>3. /\ good_ /\ last_seen' = last_seen /\ UNCHANGED mux_vars
      /\ socket' = socket \o SubSeq(outbound, 1, written(n))
      /\ outbound' = (IF would_block(n) THEN outbound ELSE y)
      /\ good_' = ~would_block(n)
  BY DEF do_write, Polls
<1> HIDE DEF n
<1>4. x \in Seq(Units) /\ y \in Seq(Units) /\ x \o y = outbound
      /\ SubSeq(outbound, 1, written(n)) \in Seq(Units)
  BY <1>1, <1>2, Split
<1> HIDE DEF x, y
<1>5. ViewerTypes'
  <2>1. socket' \in Seq(Units) /\ outbound' \in Seq(Units)
    BY <1>1, <1>3, <1>4
  <2>2. good_' \in BOOLEAN
    BY <1>3 DEF would_block
  <2> QED
    BY <2>1, <2>2, <1>3 DEF ViewerInv, ViewerTypes, mux_vars
<1>6. CASE would_block(n)
  BY <1>3, <1>5, <1>6 DEF ViewerInv
<1>7. CASE ~would_block(n)
  <2>1. Line' = ((last_seen \o (socket \o x)) \o y) \o output
    BY <1>2, <1>3, <1>7 DEF Line, x, mux_vars
  <2>2. Cat(Cat(last_seen, Cat(socket, x)), y) = Cat(Cat(last_seen, socket), Cat(x, y))
    BY <1>1, <1>4, Brackets
  <2>3. Line' = Line
    BY <2>1, <2>2, <1>4 DEF Line, Cat
  <2> QED
    BY <2>3, <1>3, <1>5 DEF ViewerInv, Armed, mux_vars
<1> QED
  BY <1>6, <1>7

LEMMA ViewerReadsKeepsInv == ASSUME ViewerInv, ViewerReads PROVE ViewerInv'
<1> DEFINE h == <<Head(socket)>>
           t == Tail(socket)
           rest == Cat(Cat(t, outbound), output)
<1>1. /\ last_seen \in Seq(Units) /\ socket \in Seq(Units) /\ outbound \in Seq(Units)
      /\ output \in Seq(Units) /\ socket # << >>
  BY DEF ViewerInv, ViewerTypes, ViewerReads
<1>2. /\ h \in Seq(Units) /\ t \in Seq(Units) /\ Cat(h, t) = socket
      /\ Len(h) = 1 /\ h[1] = Head(socket)
  BY <1>1 DEF Cat
<1>3. /\ last_seen' = (IF IsVideo(Head(socket)) THEN h ELSE last_seen)
      /\ socket' = t
      /\ UNCHANGED <<mux_vars, ws_state_vars, outbound, good_, gone>>
  BY DEF ViewerReads, IsVideo
<1> HIDE DEF h, t
<1>4. rest \in Seq(Units)
  BY <1>1, <1>2, Brackets
<1>5. Line = Cat(last_seen, Cat(h, rest)) /\ Line = Cat(Cat(last_seen, h), rest)
  <2>1. Line = Cat(Cat(Cat(last_seen, Cat(h, t)), outbound), output)
    BY <1>2 DEF Line, Cat
  <2>2. Cat(Cat(Cat(last_seen, Cat(h, t)), outbound), output) = Cat(Cat(last_seen, h), rest)
    BY <1>1, <1>2, Brackets
  <2>3. Cat(Cat(last_seen, h), rest) = Cat(last_seen, Cat(h, rest))
    BY <1>1, <1>2, <1>4, Brackets
  <2> QED
    BY <2>1, <2>2, <2>3
<1>6. Cat(h, rest) \in Seq(Units)
  BY <1>2, <1>4, Brackets
<1>7. ViewerTypes'
  <2>1. last_seen' \in Seq(Units) /\ socket' \in Seq(Units)
    BY <1>1, <1>2, <1>3
  <2>2. last_seen' # << >> => Len(last_seen') = 1 /\ IsVideo(last_seen'[1])
    <3>1. CASE IsVideo(Head(socket))
      BY <3>1, <1>2, <1>3
    <3>2. CASE ~IsVideo(Head(socket))
      BY <3>2, <1>3 DEF ViewerInv, ViewerTypes
    <3> QED
      BY <3>1, <3>2
  <2> QED
    BY <2>1, <2>2, <1>3 DEF ViewerInv, ViewerTypes, mux_vars
<1>8. Armed' = Armed /\ nals' = nals /\ good_' = good_
  BY <1>3 DEF Armed, mux_vars
<1>9. CASE IsVideo(Head(socket))
  <2>1. Line' = Cat(h, rest)
    <3>1. Line' = Cat(Cat(Cat(h, t), outbound), output)
      BY <1>3, <1>9 DEF Line, Cat, mux_vars
    <3>2. Cat(Cat(Cat(h, t), outbound), output) = Cat(h, rest)
      BY <1>1, <1>2, Brackets
    <3> QED
      BY <3>1, <3>2
  <2>2. ASSUME good_ PROVE Sound(Line', Armed', nals')
    <3>1. Joined(Line) /\ \E no \in Int : WholeUpTo(Line, no) /\ (Armed => no = nals)
      BY <2>2 DEF ViewerInv, Sound
    <3> DEFINE b == Cat(h, rest)
    <3>2. \E k \in 1 .. Len(b) : IsVideo(b[k])
      <4>1. /\ Len(h \o rest) = Len(h) + Len(rest) /\ Len(rest) \in Nat
            /\ \A i \in 1 .. Len(h) + Len(rest) :
                   (h \o rest)[i] = IF i <= Len(h) THEN h[i] ELSE rest[i - Len(h)]
        <5> HIDE DEF rest
        <5>1. h \in Seq(Units) /\ rest \in Seq(Units)
          BY <1>2, <1>4
        <5>2. /\ Len(h \o rest) = Len(h) + Len(rest)
              /\ \A i \in 1 .. Len(h) + Len(rest) :
                     (h \o rest)[i] = IF i <= Len(h) THEN h[i] ELSE rest[i - Len(h)]
          BY <5>1, ConcatProperties
        <5> QED
          BY <5>1, <5>2
      <4>2. 1 \in 1 .. Len(h) + Len(rest) /\ 1 <= Len(h)
        BY <4>1, <1>2
      <4>3. 1 \in 1 .. Len(b) /\ b[1] = Head(socket)
        BY <4>1, <4>2, <1>2 DEF Cat
      <4> QED
        BY <4>3, <1>9
    <3>3. b \in Seq(Units) /\ Line = last_seen \o b
      BY <1>5, <1>6 DEF Cat
    <3> HIDE DEF b, rest
    <3>4. Joined(last_seen \o b)
      BY <3>1, <3>3
    <3>5. /\ Joined(b)
          /\ \A no \in Int : WholeUpTo(last_seen \o b, no) /\ (\E k \in 1 .. Len(b) : IsVideo(b[k]))
                                 => WholeUpTo(b, no)
      BY <1>1, <3>3, <3>4, FrontDropped
    <3>6. Sound(b, Armed, nals)
      BY <3>1, <3>2, <3>3, <3>5 DEF Sound
    <3> QED
      BY <3>6, <2>1, <1>8 DEF b
  <2> QED
    BY <2>2, <1>7, <1>8 DEF ViewerInv
<1>10. CASE ~IsVideo(Head(socket))
  <2>1. Line' = Cat(last_seen, rest)
    <3>1. Line' = Cat(Cat(Cat(last_seen, t), outbound), output)
      BY <1>3, <1>10 DEF Line, Cat, mux_vars
    <3>2. Cat(Cat(Cat(last_seen, t), outbound), output) = Cat(last_seen, rest)
      BY <1>1, <1>2, Brackets
    <3> QED
      BY <3>1, <3>2
  <2>2. \A i \in 1 .. Len(h) : ~IsVideo(h[i])
    BY <1>2, <1>10
  <2> HIDE DEF rest
  <2>3. Sound((last_seen \o h) \o rest, Armed, nals) <=> Sound(last_seen \o rest, Armed, nals)
    BY <1>1, <1>2, <1>4, <2>2, SoundPadded
  <2>4. Line = (last_seen \o h) \o rest /\ Line' = last_seen \o rest
    BY <2>1, <1>5 DEF Cat
  <2> QED
    BY <2>3, <2>4, <1>7, <1>8 DEF ViewerInv
<1> QED
  BY <1>9, <1>10

LEMMA PushNalKeepsInv ==
    ASSUME ViewerInv, NEW idr \in BOOLEAN, NEW length \in FragmentLengths, push_NAL(idr, length)
    PROVE  ViewerInv'
<1> DEFINE skips == ~idr /\ skipping /\ frames_since_idr + 1 >= SkipFrom
           f == Fragment(nals + 1, idr, length)
<1>1. /\ last_seen \in Seq(Units) /\ socket \in Seq(Units) /\ outbound \in Seq(Units)
      /\ output \in Seq(Units) /\ nals \in Nat /\ frames_since_idr \in Nat
      /\ skipping \in BOOLEAN /\ idr_hit \in BOOLEAN /\ SkipFrom \in Nat
      /\ length \in Nat \ {0} /\ nals + 1 \in Nat
  BY ViewerConstants DEF ViewerInv, ViewerTypes
<1>2. /\ good_ /\ good_' = good_
      /\ last_seen' = last_seen /\ socket' = socket /\ outbound' = outbound
      /\ nals' = nals + 1
      /\ frames_since_idr' = IF idr THEN 0 ELSE frames_since_idr + 1
      /\ skipping' = (skipping /\ ~idr)
      /\ IF skips THEN idr_hit' = idr_hit /\ output' = output
         ELSE write(nals + 1, idr, length)
  BY DEF push_NAL, Polls
<1>3. Joined(Line) /\ \E no \in Int : WholeUpTo(Line, no) /\ (Armed => no = nals)
  BY <1>2 DEF ViewerInv, Sound
<1>4. PICK last \in Int : WholeUpTo(Line, last) /\ (Armed => last = nals)
  BY <1>3
<1>5. Line \in Seq(Units)
  <2>1. Cat(Cat(Cat(last_seen, socket), outbound), output) \in Seq(Units)
    BY <1>1, Brackets
  <2> QED
    BY <2>1 DEF Cat, Line
<1>6. /\ nals' \in Nat /\ frames_since_idr' \in Nat /\ skipping' \in BOOLEAN
  BY <1>1, <1>2
<1>7. ASSUME output' = output, idr_hit' \in BOOLEAN, ~Armed' PROVE ViewerInv'
  <2>1. Line' = Line
    BY <1>2, <1>7 DEF Line
  <2>2. Sound(Line', Armed', nals')
    BY <2>1, <1>3, <1>7 DEF Sound
  <2>3. ViewerTypes'
    BY <1>2, <1>6, <1>7 DEF ViewerInv, ViewerTypes
  <2> QED
    BY <2>2, <2>3 DEF ViewerInv
<1>8. CASE skips
  <2>1. output' = output /\ idr_hit' = idr_hit
    BY <1>2, <1>8
  <2>2. skipping' /\ frames_since_idr' >= SkipFrom
    BY <1>2, <1>8
  <2> QED
    BY <2>1, <2>2, <1>1, <1>7 DEF Armed
<1>9. CASE ~skips /\ (idr \/ idr_hit)
  <2>1. write_helper(f)
    BY <1>2, <1>9 DEF write
  <2>2. CASE MuxRoom < Len(f)
    <3>1. output' = output /\ idr_hit' = FALSE
      BY <2>1, <2>2 DEF write_helper
    <3> QED
      BY <3>1, <1>7 DEF Armed
  <2>3. CASE ~(MuxRoom < Len(f))
    <3>1. output' = output \o f /\ idr_hit' = TRUE
      BY <2>1, <2>3 DEF write_helper
    <3>2. idr \/ nals + 1 = last + 1
      <4>1. CASE ~idr
        <5>1. ~(skipping /\ frames_since_idr >= SkipFrom)
          BY <4>1, <1>1, <1>9
        <5>2. Armed
          BY <5>1, <4>1, <1>9 DEF Armed
        <5> QED
          BY <5>2, <1>4
      <4> QED
        BY <4>1
    <3>3. /\ f \in Seq(Units) /\ Joined(Line \o f) /\ WholeUpTo(Line \o f, nals + 1)
      BY <3>2, <1>1, <1>3, <1>4, <1>5, Appended
    <3> HIDE DEF f
    <3>4. Line' = Line \o f
      <4>1. Line' = Cat(Cat(Cat(last_seen, socket), outbound), Cat(output, f))
        BY <3>1, <1>2 DEF Line, Cat
      <4>2. Cat(Cat(Cat(last_seen, socket), outbound), Cat(output, f))
                = Cat(Cat(Cat(Cat(last_seen, socket), outbound), output), f)
        <5> DEFINE a == Cat(Cat(last_seen, socket), outbound)
        <5>1. a \in Seq(Units)
          BY <1>1, Brackets
        <5> HIDE DEF a
        <5>2. Cat(a, Cat(output, f)) = Cat(Cat(a, output), f)
          BY <5>1, <1>1, <3>3, Brackets
        <5> QED
          BY <5>2 DEF a
      <4> QED
        BY <4>1, <4>2 DEF Line, Cat
    <3>5. Sound(Line', Armed', nals')
      BY <3>3, <3>4, <1>1, <1>2 DEF Sound
    <3>6. output' \in Seq(Units)
      BY <3>1, <3>3, <1>1
    <3>7. ViewerTypes'
      BY <3>1, <3>6, <1>2, <1>6 DEF ViewerInv, ViewerTypes
    <3> QED
      BY <3>5, <3>7 DEF ViewerInv
  <2> QED
    BY <2>2, <2>3
<1>10. CASE ~skips /\ ~(idr \/ idr_hit)
  <2>1. output' = output /\ idr_hit' = idr_hit
    BY <1>2, <1>10 DEF write
  <2> QED
    BY <2>1, <1>1, <1>7, <1>10 DEF Armed
<1> QED
  BY <1>8, <1>9, <1>10

(* However slow the viewer, and whatever is skipped or dropped for it or   *)
(* cut to the room there is, what it is sent decodes (ws-camera-server.cc, *)
(* mp4writer.cc, secure_socket.cc).                                        *)
THEOREM ViewerStreamIsDecodable == ViewerSpec => []StreamIsDecodable
<1>1. ViewerInv /\ [ViewerNext]_viewer_vars => ViewerInv'
  <2> SUFFICES ASSUME ViewerInv, [ViewerNext]_viewer_vars PROVE ViewerInv'
    OBVIOUS
  <2>1. CASE Close \/ SocketClosed
    BY <2>1 DEF Close, SocketClosed, ViewerInv, ViewerTypes, mux_vars
  <2>2. CASE Reports
    <3>1. Armed' => Armed
      BY <2>2 DEF Reports, Armed, ViewerInv, ViewerTypes
    <3>2. Line' = Line /\ nals' = nals /\ good_' = good_
      BY <2>2 DEF Reports, Line
    <3>3. ViewerTypes'
      BY <2>2 DEF Reports, ViewerInv, ViewerTypes
    <3> QED
      BY <3>1, <3>2, <3>3 DEF ViewerInv, Sound
  <2>3. CASE Leaves \/ UNCHANGED viewer_vars
    BY <2>3 DEF Leaves, viewer_vars, ViewerInv, ViewerTypes, mux_vars, Line, Armed
  <2> QED
    BY <2>1, <2>2, <2>3, WsSendKeepsInv, SendsKeepInv, DoWriteKeepsInv, ViewerReadsKeepsInv,
       PushNalKeepsInv DEF ViewerNext
<1>2. ViewerInv => StreamIsDecodable
  BY DEF ViewerInv, Sound, Joined, WholeUpTo, StreamIsDecodable
<1> QED
  BY <1>1, <1>2, ViewerStarts, PTL DEF ViewerSpec

------------------------------------------------------------------------------
(* Scene.  The invariant relates the layers to the history, which is in    *)
(* the order of time; numbers grow with every edit, so what is inserted is *)
(* younger than all that is there.                                         *)

LayerSet == [type : {"Media", "Camera"}, name : Texts, x : Int, y : Int, width : Nat,
             z : Nat, no : Nat]

ElementsOf(s) == {s[i] : i \in 1 .. Len(s)}
Before(a, b) == a.z > b.z \/ (a.z = b.z /\ a.no < b.no)
InDepth(s) == \A i, j \in 1 .. Len(s) : i < j => Before(s[i], s[j])
InTime(s) == \A i, j \in 1 .. Len(s) : i < j => s[i].no < s[j].no

SceneInv ==
    /\ layers \in Seq(LayerSet) /\ inserted \in Seq(LayerSet) /\ edits \in Nat
    /\ InDepth(layers) /\ InTime(inserted)
    /\ ElementsOf(layers) = ElementsOf(inserted)
    /\ \A l \in ElementsOf(inserted) : l.no <= MaxLayers * edits

LEMMA LayerNumbers == ASSUME NEW l \in LayerSet PROVE l.z \in Nat /\ l.no \in Nat
  BY DEF LayerSet

LEMMA AppendElements ==
    ASSUME NEW s \in Seq(LayerSet), NEW l \in LayerSet
    PROVE  /\ Append(s, l) \in Seq(LayerSet)
           /\ ElementsOf(Append(s, l)) = ElementsOf(s) \cup {l}
           /\ InDepth(s) /\ (\A e \in ElementsOf(s) : Before(e, l)) => InDepth(Append(s, l))
           /\ InTime(s) /\ (\A e \in ElementsOf(s) : e.no < l.no) => InTime(Append(s, l))
<1> DEFINE n == Len(s)
           t == Append(s, l)
<1>1. n \in Nat /\ t \in Seq(LayerSet) /\ Len(t) = n + 1 /\ t[n + 1] = l
      /\ \A i \in 1 .. n : t[i] = s[i]
  OBVIOUS
<1> HIDE DEF t
<1>2. \A i \in 1 .. n + 1 : i \in 1 .. n \/ i = n + 1
  BY <1>1
<1>3. ElementsOf(t) = ElementsOf(s) \cup {l}
  <2>1. \A i \in 1 .. n + 1 : t[i] \in ElementsOf(s) \cup {l}
    BY <1>1, <1>2 DEF ElementsOf
  <2>2. \A i \in 1 .. n : i \in 1 .. n + 1
    BY <1>1
  <2>3. n + 1 \in 1 .. n + 1
    BY <1>1
  <2>4. \A i \in 1 .. n : s[i] \in ElementsOf(t)
    BY <1>1, <2>2 DEF ElementsOf
  <2>5. l \in ElementsOf(t)
    BY <1>1, <2>3 DEF ElementsOf
  <2> QED
    BY <1>1, <2>1, <2>4, <2>5 DEF ElementsOf
<1>4. ASSUME NEW i \in 1 .. n + 1, NEW j \in 1 .. n + 1, i < j
      PROVE  /\ i \in 1 .. n /\ t[i] = s[i] /\ t[i] \in ElementsOf(s)
             /\ \/ j \in 1 .. n /\ t[j] = s[j]
                \/ t[j] = l
  <2>1. i \in 1 .. n
    BY <1>4, <1>1
  <2> QED
    BY <2>1, <1>1, <1>2 DEF ElementsOf
<1>5. InDepth(s) /\ (\A e \in ElementsOf(s) : Before(e, l)) => InDepth(t)
  BY <1>1, <1>4 DEF InDepth
<1>6. InTime(s) /\ (\A e \in ElementsOf(s) : e.no < l.no) => InTime(t)
  BY <1>1, <1>4 DEF InTime
<1> QED
  BY <1>1, <1>3, <1>5, <1>6 DEF t

(* What is picked of a sequence are its elements at these places, in the   *)
(* order in which they were.                                               *)
LEMMA PickedElements ==
    ASSUME NEW s \in Seq(LayerSet), NEW places
    PROVE  /\ Picked(s, places) \in Seq(LayerSet)
           /\ ElementsOf(Picked(s, places)) = {s[i] : i \in {k \in 1 .. Len(s) : k \in places}}
           /\ InDepth(s) => InDepth(Picked(s, places))
           /\ InTime(s) => InTime(Picked(s, places))
<1> DEFINE n == Len(s)
           S == Seq(LayerSet)
           Step(i, t) == IF i \in places THEN Append(t, s[i]) ELSE t
           step == [i \in 1 .. n |-> [t \in S |-> Step(i, t)]]
           IsUpto(g) == g = [i \in 0 .. n |-> IF i = 0 THEN <<>>
                                ELSE IF i \in places THEN Append(g[i - 1], s[i]) ELSE g[i - 1]]
           upto == CHOOSE g : IsUpto(g)
           none == << >>
<1>1. n \in Nat /\ \A i \in 1 .. n : s[i] \in LayerSet
  OBVIOUS
<1>2. none \in S
  OBVIOUS
<1>3. \A i \in 1 .. n : \A t \in S : Step(i, t) \in S
  BY <1>1
<1>4. step \in [1 .. n -> [S -> S]]
  BY <1>3
<1>5. \A i \in 1 .. n : \A t \in S : step[i][t] = Step(i, t)
  OBVIOUS
<1> HIDE DEF step, S, none
<1>6. PICK f : Recursion(f, n, S, none, step)
  BY <1>1, <1>2, <1>4, RecursionOnNat
<1>7. IsUpto(f)
  <2>1. f \in [0 .. n -> S] /\ f[0] = none /\ \A i \in 1 .. n : f[i] = step[i][f[i - 1]]
    BY <1>6 DEF Recursion
  <2>2. ASSUME NEW i \in 0 .. n, i # 0 PROVE f[i] = Step(i, f[i - 1])
    <3>1. i \in 1 .. n /\ i - 1 \in 0 .. n
      BY <1>1, <2>2
    <3>2. f[i - 1] \in S
      BY <3>1, <2>1
    <3> QED
      BY <3>1, <3>2, <2>1, <1>5
  <2> QED
    BY <2>1, <2>2 DEF none
<1>8. IsUpto(upto)
  BY <1>7
<1> HIDE DEF upto
<1>9. Picked(s, places) = upto[n]
  BY DEF Picked, upto
<1>10. upto[0] = none /\ \A i \in 1 .. n : upto[i] = Step(i, upto[i - 1])
  <2>1. 0 \in 0 .. n
    BY <1>1
  <2>2. ASSUME NEW i \in 1 .. n PROVE upto[i] = Step(i, upto[i - 1])
    <3>1. i \in 0 .. n /\ i # 0
      BY <1>1
    <3> QED
      BY <3>1, <1>8
  <2> QED
    BY <2>1, <2>2, <1>8 DEF none
<1> HIDE DEF IsUpto
<1> DEFINE Chosen(m) == {s[i] : i \in {k \in 1 .. m : k \in places}}
           Fine(m) == /\ upto[m] \in Seq(LayerSet)
                      /\ ElementsOf(upto[m]) = Chosen(m)
                      /\ InDepth(s) => InDepth(upto[m])
                      /\ InTime(s) => InTime(upto[m])
           T == {m \in Nat : m <= n => Fine(m)}
<1>11. 0 \in T
  <2>1. upto[0] = << >>
    BY <1>10 DEF none
  <2>2. ElementsOf(<<>>) = {} /\ Chosen(0) = {} /\ <<>> \in Seq(LayerSet)
    BY DEF ElementsOf
  <2>3. InDepth(<<>>) /\ InTime(<<>>)
    BY DEF InDepth, InTime
  <2> QED
    BY <2>1, <2>2, <2>3
<1>12. ASSUME NEW m \in T PROVE m + 1 \in T
  <2>1. CASE m + 1 > n
    BY <2>1, <1>1
  <2>2. CASE m + 1 <= n
    <3>1. m \in Nat /\ m + 1 \in 1 .. n /\ (m + 1) - 1 = m
      BY <2>2, <1>1
    <3>2. Fine(m) /\ s[m + 1] \in LayerSet /\ upto[m + 1] = Step(m + 1, upto[m])
      BY <3>1, <1>1, <1>10
    <3>3. CASE m + 1 \notin places
      <4>1. \A k \in 1 .. m + 1 : k \in places <=> k \in 1 .. m /\ k \in places
        BY <3>1, <3>3
      <4>2. \A k \in 1 .. m : k \in 1 .. m + 1
        BY <3>1
      <4>3. Chosen(m + 1) = Chosen(m)
        BY <4>1, <4>2
      <4>4. upto[m + 1] = upto[m]
        BY <3>2, <3>3
      <4>5. Fine(m + 1)
        BY <3>2, <4>3, <4>4
      <4> HIDE DEF Fine
      <4> QED
        BY <3>1, <4>5
    <3>4. CASE m + 1 \in places
      <4> DEFINE t == upto[m]
                 l == s[m + 1]
      <4>1. t \in Seq(LayerSet) /\ l \in LayerSet /\ upto[m + 1] = Append(t, l)
            /\ ElementsOf(t) = Chosen(m)
        BY <3>2, <3>4
      <4>2. Chosen(m + 1) = Chosen(m) \cup {l}
        <5>1. \A k \in 1 .. m + 1 : k \in 1 .. m \/ k = m + 1
          BY <3>1
        <5>2. \A k \in 1 .. m : k \in 1 .. m + 1
          BY <3>1
        <5>3. m + 1 \in 1 .. m + 1
          BY <3>1
        <5> QED
          BY <5>1, <5>2, <5>3, <3>4
      <4>3. ASSUME NEW e \in ElementsOf(t)
            PROVE  \E k \in 1 .. Len(s) : e = s[k] /\ k < m + 1
        <5>1. PICK k \in 1 .. m : e = s[k]
          BY <4>1
        <5> QED
          BY <5>1, <3>1
      <4>4. m + 1 \in 1 .. Len(s)
        BY <3>1
      <4>5. InDepth(s) => \A e \in ElementsOf(t) : Before(e, l)
        BY <4>3, <4>4 DEF InDepth
      <4>6. InTime(s) => \A e \in ElementsOf(t) : e.no < l.no
        BY <4>3, <4>4 DEF InTime
      <4> HIDE DEF t, l
      <4>7. /\ Append(t, l) \in Seq(LayerSet)
            /\ ElementsOf(Append(t, l)) = ElementsOf(t) \cup {l}
            /\ InDepth(t) /\ (\A e \in ElementsOf(t) : Before(e, l)) => InDepth(Append(t, l))
            /\ InTime(t) /\ (\A e \in ElementsOf(t) : e.no < l.no) => InTime(Append(t, l))
        BY <4>1, AppendElements
      <4>8. (InDepth(s) => InDepth(t)) /\ (InTime(s) => InTime(t))
        BY <3>2 DEF t
      <4>9. ElementsOf(upto[m + 1]) = Chosen(m + 1)
        BY <4>1, <4>2, <4>7
      <4>10. upto[m + 1] \in Seq(LayerSet)
        BY <4>1, <4>7
      <4>11. (InDepth(s) => InDepth(upto[m + 1])) /\ (InTime(s) => InTime(upto[m + 1]))
        BY <4>1, <4>5, <4>6, <4>7, <4>8
      <4>12. Fine(m + 1)
        BY <4>9, <4>10, <4>11
      <4> HIDE DEF Fine
      <4> QED
        BY <3>1, <4>12
    <3> QED
      BY <3>3, <3>4
  <2>3. m \in Nat
    OBVIOUS
  <2> HIDE DEF T
  <2> QED
    BY <2>1, <2>2, <2>3, <1>1
<1>13. T \subseteq Nat
  OBVIOUS
<1> HIDE DEF T
<1>14. T = Nat
  BY <1>11, <1>12, <1>13, NatSetInduction
<1>15. Fine(n)
  <2> HIDE DEF Fine
  <2> QED
    BY <1>14, <1>1 DEF T
<1> QED
  BY <1>9, <1>15

(* Whether a layer is named by one of the first m removals.                *)
Hit(name, l) == name = All \/ l.name = name

LEMMA RemoveElements ==
    ASSUME NEW s \in Seq(LayerSet), NEW name
    PROVE  /\ remove(s, name) \in Seq(LayerSet)
           /\ ElementsOf(remove(s, name)) = {l \in ElementsOf(s) : ~Hit(name, l)}
           /\ InDepth(s) => InDepth(remove(s, name))
           /\ InTime(s) => InTime(remove(s, name))
<1>1. CASE name = All
  <2>1. remove(s, name) = <<>>
    BY <1>1 DEF remove
  <2>2. ElementsOf(<<>>) = {} /\ InDepth(<<>>) /\ InTime(<<>>) /\ <<>> \in Seq(LayerSet)
    BY DEF ElementsOf, InDepth, InTime
  <2>3. {l \in ElementsOf(s) : ~Hit(name, l)} = {}
    BY <1>1 DEF Hit
  <2> QED
    BY <2>1, <2>2, <2>3
<1>2. CASE name # All
  <2> DEFINE places == {i \in DOMAIN s : s[i].name # name}
  <2>1. remove(s, name) = Picked(s, places)
    BY <1>2 DEF remove
  <2>2. {s[i] : i \in {k \in 1 .. Len(s) : k \in places}} = {l \in ElementsOf(s) : ~Hit(name, l)}
    BY <1>2 DEF Hit, ElementsOf
  <2> HIDE DEF places
  <2> QED
    BY <2>1, <2>2, PickedElements
<1> QED
  BY <1>1, <1>2

LEMMA AllRemovedElements ==
    ASSUME NEW s \in Seq(LayerSet), NEW removals \in Seq(RemovalMessages)
    PROVE  LET left == AllRemoved(s, removals) IN
           /\ left \in Seq(LayerSet)
           /\ ElementsOf(left) = {l \in ElementsOf(s) :
                                    \A i \in 1 .. Len(removals) : ~Hit(removals[i].name, l)}
           /\ InDepth(s) => InDepth(left)
           /\ InTime(s) => InTime(left)
<1> DEFINE n == Len(removals)
           S == Seq(LayerSet)
           step == [i \in 1 .. n |-> [t \in S |-> remove(t, removals[i].name)]]
           IsUpto(g) == g = [i \in 0 .. n |-> IF i = 0 THEN s
                                              ELSE remove(g[i - 1], removals[i].name)]
           upto == CHOOSE g : IsUpto(g)
<1>1. n \in Nat
  OBVIOUS
<1>2. s \in S
  OBVIOUS
<1>3. \A i \in 1 .. n : \A t \in S : remove(t, removals[i].name) \in S
  BY RemoveElements
<1>4. step \in [1 .. n -> [S -> S]]
  BY <1>3
<1>5. \A i \in 1 .. n : \A t \in S : step[i][t] = remove(t, removals[i].name)
  OBVIOUS
<1> HIDE DEF step, S
<1>6. PICK f : Recursion(f, n, S, s, step)
  BY <1>1, <1>2, <1>4, RecursionOnNat
<1>7. IsUpto(f)
  <2>1. f \in [0 .. n -> S] /\ f[0] = s /\ \A i \in 1 .. n : f[i] = step[i][f[i - 1]]
    BY <1>6 DEF Recursion
  <2>2. ASSUME NEW i \in 0 .. n, i # 0 PROVE f[i] = remove(f[i - 1], removals[i].name)
    <3>1. i \in 1 .. n /\ i - 1 \in 0 .. n
      BY <1>1, <2>2
    <3>2. f[i - 1] \in S
      BY <3>1, <2>1
    <3> QED
      BY <3>1, <3>2, <2>1, <1>5
  <2> QED
    BY <2>1, <2>2
<1>8. IsUpto(upto)
  BY <1>7
<1> HIDE DEF upto
<1>9. AllRemoved(s, removals) = upto[n]
  BY DEF AllRemoved, upto
<1>10. upto[0] = s /\ \A i \in 1 .. n : upto[i] = remove(upto[i - 1], removals[i].name)
  <2>1. 0 \in 0 .. n
    BY <1>1
  <2>2. ASSUME NEW i \in 1 .. n PROVE upto[i] = remove(upto[i - 1], removals[i].name)
    <3>1. i \in 0 .. n /\ i # 0
      BY <1>1
    <3> QED
      BY <3>1, <1>8
  <2> QED
    BY <2>1, <2>2, <1>8
<1> HIDE DEF IsUpto
<1> DEFINE Left(m) == {l \in ElementsOf(s) : \A i \in 1 .. m : ~Hit(removals[i].name, l)}
           Fine(m) == /\ upto[m] \in Seq(LayerSet)
                      /\ ElementsOf(upto[m]) = Left(m)
                      /\ InDepth(s) => InDepth(upto[m])
                      /\ InTime(s) => InTime(upto[m])
           T == {m \in Nat : m <= n => Fine(m)}
<1>11. 0 \in T
  BY <1>10
<1>12. ASSUME NEW m \in T PROVE m + 1 \in T
  <2>1. CASE m + 1 > n
    BY <2>1, <1>1
  <2>2. CASE m + 1 <= n
    <3> DEFINE t == upto[m]
               name == removals[m + 1].name
    <3>1. m \in Nat /\ m + 1 \in 1 .. n /\ (m + 1) - 1 = m
      BY <2>2, <1>1
    <3>2. Fine(m) /\ upto[m + 1] = remove(t, name)
      BY <3>1, <1>10
    <3>3. Left(m + 1) = {l \in Left(m) : ~Hit(name, l)}
      <4>1. \A k \in 1 .. m + 1 : k \in 1 .. m \/ k = m + 1
        BY <3>1
      <4>2. \A k \in 1 .. m : k \in 1 .. m + 1
        BY <3>1
      <4>3. m + 1 \in 1 .. m + 1
        BY <3>1
      <4>4. \A l : (\A i \in 1 .. m + 1 : ~Hit(removals[i].name, l))
                   <=> (\A i \in 1 .. m : ~Hit(removals[i].name, l)) /\ ~Hit(name, l)
        BY <4>1, <4>2, <4>3
      <4> QED
        BY <4>4
    <3>4. t \in Seq(LayerSet) /\ ElementsOf(t) = Left(m)
          /\ (InDepth(s) => InDepth(t)) /\ (InTime(s) => InTime(t))
      BY <3>2
    <3> HIDE DEF t, name
    <3>5. /\ remove(t, name) \in Seq(LayerSet)
          /\ ElementsOf(remove(t, name)) = {l \in ElementsOf(t) : ~Hit(name, l)}
          /\ InDepth(t) => InDepth(remove(t, name))
          /\ InTime(t) => InTime(remove(t, name))
      BY <3>4, RemoveElements
    <3> HIDE DEF Left
    <3>6. Fine(m + 1)
      BY <3>2, <3>3, <3>4, <3>5
    <3> HIDE DEF Fine
    <3> QED
      BY <3>1, <3>6
  <2>3. m \in Nat
    OBVIOUS
  <2> HIDE DEF T
  <2> QED
    BY <2>1, <2>2, <2>3, <1>1
<1>13. T \subseteq Nat
  OBVIOUS
<1> HIDE DEF T
<1>14. T = Nat
  BY <1>11, <1>12, <1>13, NatSetInduction
<1>15. Fine(n)
  <2> HIDE DEF Fine
  <2> QED
    BY <1>14, <1>1 DEF T
<1> QED
  BY <1>9, <1>15

(* A younger layer goes before the first that lies deeper, and nothing     *)
(* before it does.                                                         *)
LEMMA InsertElements ==
    ASSUME NEW s \in Seq(LayerSet), NEW l \in LayerSet, InDepth(s),
           \A e \in ElementsOf(s) : e.no < l.no
    PROVE  /\ insert(s, l) \in Seq(LayerSet)
           /\ ElementsOf(insert(s, l)) = ElementsOf(s) \cup {l}
           /\ InDepth(insert(s, l))
<1> DEFINE n == Len(s)
           M == {i \in DOMAIN s : l.z > s[i].z} \cup {n + 1}
           spot == Min(M)
           t == Inserted(s, spot, l)
<1>1. n \in Nat /\ DOMAIN s = 1 .. n /\ \A i \in 1 .. n : s[i] \in LayerSet
  OBVIOUS
<1>2. M \subseteq Nat /\ M # {}
  BY <1>1
<1>3. spot \in M /\ \A y \in M : spot <= y
  <2> HIDE DEF M
  <2> QED
    BY <1>2, LeastNumber
<1>4. insert(s, l) = t
  BY DEF insert
<1>5. /\ spot \in 1 .. n + 1
      /\ spot <= n => l.z > s[spot].z
      /\ \A i \in 1 .. n : i < spot => ~(l.z > s[i].z)
  <2> HIDE DEF spot
  <2>1. spot \in 1 .. n + 1
    BY <1>1, <1>3
  <2>2. spot <= n => l.z > s[spot].z
    BY <1>1, <1>3, <2>1
  <2>3. ASSUME NEW i \in 1 .. n, i < spot PROVE ~(l.z > s[i].z)
    <3>1. l.z > s[i].z => i \in M
      BY <1>1
    <3> HIDE DEF M
    <3> QED
      BY <3>1, <1>3, <2>1, <2>3, <1>1
  <2> QED
    BY <2>1, <2>2, <2>3
<1> HIDE DEF M, spot
<1>6. /\ t = [i \in 1 .. n + 1 |-> IF i < spot THEN s[i] ELSE IF i = spot THEN l ELSE s[i - 1]]
  BY DEF Inserted
<1>7. ASSUME NEW i \in 1 .. n + 1
      PROVE  \/ i \in 1 .. n /\ i < spot /\ t[i] = s[i]
             \/ i = spot /\ t[i] = l
             \/ i - 1 \in 1 .. n /\ i > spot /\ t[i] = s[i - 1]
  BY <1>1, <1>5, <1>6
<1> HIDE DEF t
<1>8. t \in Seq(LayerSet) /\ Len(t) = n + 1
  <2>1. \A i \in 1 .. n + 1 : t[i] \in LayerSet
    BY <1>1, <1>7
  <2>2. DOMAIN t = 1 .. n + 1 /\ t = [i \in 1 .. n + 1 |-> t[i]]
    BY <1>6
  <2>3. t \in [1 .. n + 1 -> LayerSet] /\ n + 1 \in Nat
    BY <2>1, <2>2, <1>1
  <2> QED
    BY <2>3, LenProperties
<1>9. ElementsOf(t) = ElementsOf(s) \cup {l}
  <2>1. \A i \in 1 .. n + 1 : t[i] \in ElementsOf(s) \cup {l}
    BY <1>7 DEF ElementsOf
  <2>2. ASSUME NEW i \in 1 .. n PROVE s[i] \in ElementsOf(t)
    <3>1. CASE i < spot
      <4>1. i \in 1 .. n + 1 /\ t[i] = s[i]
        BY <3>1, <1>1, <1>5, <1>6
      <4> QED
        BY <4>1, <1>8 DEF ElementsOf
    <3>2. CASE ~(i < spot)
      <4>1. i + 1 \in 1 .. n + 1 /\ ~(i + 1 < spot) /\ i + 1 # spot /\ (i + 1) - 1 = i
        BY <3>2, <1>1, <1>5
      <4>2. t[i + 1] = s[i]
        BY <4>1, <1>6
      <4> QED
        BY <4>1, <4>2, <1>8 DEF ElementsOf
    <3> QED
      BY <3>1, <3>2
  <2>3. l \in ElementsOf(t)
    <3>1. spot \in 1 .. n + 1 /\ t[spot] = l
      BY <1>5, <1>6, <1>1
    <3> QED
      BY <3>1, <1>8 DEF ElementsOf
  <2>4. ElementsOf(t) \subseteq ElementsOf(s) \cup {l}
    BY <2>1, <1>8 DEF ElementsOf
  <2>5. ElementsOf(s) \subseteq ElementsOf(t)
    BY <2>2 DEF ElementsOf
  <2> QED
    BY <2>3, <2>4, <2>5
<1>10. InDepth(t)
  <2> SUFFICES ASSUME NEW i \in 1 .. n + 1, NEW j \in 1 .. n + 1, i < j
               PROVE  Before(t[i], t[j])
    BY <1>8 DEF InDepth
  <2>1. ASSUME NEW a \in 1 .. n, a < spot PROVE Before(s[a], l)
    <3>1. ~(l.z > s[a].z) /\ s[a] \in LayerSet /\ s[a] \in ElementsOf(s)
      BY <2>1, <1>1, <1>5 DEF ElementsOf
    <3>2. s[a].no < l.no /\ s[a].z \in Nat /\ l.z \in Nat
      BY <3>1, LayerNumbers
    <3> QED
      BY <3>1, <3>2 DEF Before
  <2>2. ASSUME NEW b \in 1 .. n, b >= spot PROVE Before(l, s[b])
    <3>1. spot \in 1 .. n /\ l.z > s[spot].z
      BY <2>2, <1>1, <1>5
    <3>2. spot = b \/ Before(s[spot], s[b])
      <4>1. spot = b \/ spot < b
        BY <2>2, <3>1
      <4> QED
        BY <4>1, <3>1 DEF InDepth
    <3>3. s[spot].z \in Nat /\ s[b].z \in Nat /\ l.z \in Nat
      BY <1>1, <3>1, LayerNumbers
    <3> QED
      BY <3>1, <3>2, <3>3 DEF Before
  <2>3. \A a, b \in 1 .. n : a < b => Before(s[a], s[b])
    BY DEF InDepth
  <2>4. CASE i \in 1 .. n /\ i < spot /\ t[i] = s[i]
    <3>1. CASE j \in 1 .. n /\ t[j] = s[j]
      BY <2>3, <2>4, <3>1
    <3>2. CASE t[j] = l
      BY <2>1, <2>4, <3>2
    <3>3. CASE j - 1 \in 1 .. n /\ j > spot /\ t[j] = s[j - 1]
      <4>1. i < j - 1
        BY <2>4, <3>3, <1>5
      <4> QED
        BY <4>1, <2>3, <2>4, <3>3
    <3> QED
      BY <3>1, <3>2, <3>3, <1>7
  <2>5. CASE i = spot /\ t[i] = l
    <3>1. j - 1 \in 1 .. n /\ t[j] = s[j - 1] /\ j - 1 >= spot
      BY <2>5, <1>5, <1>7
    <3> QED
      BY <3>1, <2>2, <2>5
  <2>6. CASE i - 1 \in 1 .. n /\ i > spot /\ t[i] = s[i - 1]
    <3>1. j - 1 \in 1 .. n /\ t[j] = s[j - 1] /\ i - 1 < j - 1
      BY <2>6, <1>5, <1>7
    <3> QED
      BY <3>1, <2>3, <2>6
  <2> QED
    BY <2>4, <2>5, <2>6, <1>7
<1> QED
  BY <1>4, <1>8, <1>9, <1>10

LEMMA AllInsertedElements ==
    ASSUME NEW s \in Seq(LayerSet), NEW new \in Seq(LayerSet), InDepth(s), InTime(new),
           \A a \in ElementsOf(s), b \in ElementsOf(new) : a.no < b.no
    PROVE  LET all == AllInserted(s, new) IN
           /\ all \in Seq(LayerSet)
           /\ ElementsOf(all) = ElementsOf(s) \cup ElementsOf(new)
           /\ InDepth(all)
<1> DEFINE n == Len(new)
           S == Seq(LayerSet)
           Given(m) == ElementsOf(s) \cup {new[i] : i \in 1 .. m}
           IsUpto(g) == g = [i \in 0 .. n |-> IF i = 0 THEN s ELSE insert(g[i - 1], new[i])]
           upto == CHOOSE g : IsUpto(g)
           Step(i, t) == IF InDepth(t) /\ (\A e \in ElementsOf(t) : e.no < new[i].no)
                         THEN insert(t, new[i]) ELSE s
           step == [i \in 1 .. n |-> [t \in S |-> Step(i, t)]]
           Fine(t, m) == t \in S /\ ElementsOf(t) = Given(m) /\ InDepth(t)
<1>1. n \in Nat /\ \A i \in 1 .. n : new[i] \in LayerSet /\ new[i] \in ElementsOf(new)
  BY DEF ElementsOf
<1>2. s \in S
  OBVIOUS
<1>3. \A i \in 1 .. n : \A t \in S : Step(i, t) \in S
  BY <1>1, InsertElements
<1>4. step \in [1 .. n -> [S -> S]]
  BY <1>3
<1>5. \A i \in 1 .. n : \A t \in S : step[i][t] = Step(i, t)
  OBVIOUS
<1>6. \A i \in 1 .. n : \A e \in Given(i - 1) : e.no < new[i].no
  <2> SUFFICES ASSUME NEW i \in 1 .. n, NEW e \in Given(i - 1) PROVE e.no < new[i].no
    OBVIOUS
  <2>1. CASE e \in ElementsOf(s)
    BY <2>1, <1>1
  <2>2. CASE e \notin ElementsOf(s)
    <3>1. PICK k \in 1 .. i - 1 : e = new[k]
      BY <2>2
    <3>2. k \in 1 .. n /\ k < i
      BY <1>1
    <3> QED
      BY <3>1, <3>2 DEF InTime
  <2> QED
    BY <2>1, <2>2
<1> HIDE DEF step
<1>7. PICK f : Recursion(f, n, S, s, step)
  <2> HIDE DEF S
  <2> QED
    BY <1>1, <1>2, <1>4, RecursionOnNat
<1>8. f \in [0 .. n -> S] /\ f[0] = s /\ \A i \in 1 .. n : f[i] = step[i][f[i - 1]]
  BY <1>7 DEF Recursion
<1> DEFINE T == {m \in Nat : m <= n => Fine(f[m], m)}
<1>9. 0 \in T
  <2>1. Given(0) = ElementsOf(s)
    OBVIOUS
  <2> QED
    BY <2>1, <1>8
<1>10. ASSUME NEW i \in 1 .. n, NEW t, Fine(t, i - 1)
       PROVE  Step(i, t) = insert(t, new[i]) /\ Fine(Step(i, t), i)
  <2> DEFINE l == new[i]
  <2>1. InDepth(t) /\ (\A e \in ElementsOf(t) : e.no < l.no) /\ t \in Seq(LayerSet)
        /\ l \in LayerSet /\ ElementsOf(t) = Given(i - 1)
    BY <1>1, <1>6, <1>10
  <2>2. Step(i, t) = insert(t, l)
    BY <2>1
  <2>3. Given(i) = Given(i - 1) \cup {l}
    <3>1. \A k \in 1 .. i : k \in 1 .. i - 1 \/ k = i
      BY <1>1
    <3>2. \A k \in 1 .. i - 1 : k \in 1 .. i
      BY <1>1
    <3>3. i \in 1 .. i
      BY <1>1
    <3> QED
      BY <3>1, <3>2, <3>3
  <2> HIDE DEF Given, Step, l
  <2>4. insert(t, l) \in Seq(LayerSet) /\ ElementsOf(insert(t, l)) = ElementsOf(t) \cup {l}
        /\ InDepth(insert(t, l))
    BY <2>1, InsertElements
  <2> QED
    BY <2>1, <2>2, <2>3, <2>4 DEF l
<1>11. ASSUME NEW m \in T PROVE m + 1 \in T
  <2>1. CASE m + 1 > n
    BY <2>1, <1>1
  <2>2. CASE m + 1 <= n
    <3>1. m \in Nat /\ m + 1 \in 1 .. n /\ (m + 1) - 1 = m
      BY <2>2, <1>1
    <3> HIDE DEF Fine
    <3>2. Fine(f[m], m)
      BY <3>1
    <3>3. f[m] \in S
      BY <3>2 DEF Fine
    <3>4. f[m + 1] = Step(m + 1, f[m])
      BY SMTT(30), <3>1, <3>3, <1>5, <1>8
    <3>5. Fine(f[m], (m + 1) - 1)
      BY <3>1, <3>2
    <3> HIDE DEF Step
    <3>6. Fine(f[m + 1], m + 1)
      BY <3>1, <3>4, <3>5, <1>10
    <3> QED
      BY <3>1, <3>6
  <2>3. m \in Nat
    OBVIOUS
  <2> HIDE DEF T
  <2> QED
    BY <2>1, <2>2, <2>3, <1>1
<1>12. T = Nat
  <2>1. T \subseteq Nat
    OBVIOUS
  <2> HIDE DEF T
  <2> QED
    BY <2>1, <1>9, <1>11, NatSetInduction
<1> HIDE DEF Fine
<1>13. \A m \in 0 .. n : Fine(f[m], m)
  BY <1>12, <1>1
<1> HIDE DEF T
<1>14. ASSUME NEW i \in 1 .. n PROVE f[i] = insert(f[i - 1], new[i])
  <2>1. i - 1 \in 0 .. n
    BY <1>1
  <2>2. Fine(f[i - 1], i - 1)
    BY <2>1, <1>13
  <2>3. f[i - 1] \in S
    BY <2>2 DEF Fine
  <2>4. f[i] = Step(i, f[i - 1])
    BY <2>3, <1>5, <1>8
  <2> HIDE DEF Step
  <2> QED
    BY <2>2, <2>4, <1>10
<1>15. IsUpto(f)
  <2>1. \A i \in 0 .. n : i = 0 \/ i \in 1 .. n
    BY <1>1
  <2>2. \A i \in 0 .. n : f[i] = IF i = 0 THEN s ELSE insert(f[i - 1], new[i])
    BY <2>1, <1>8, <1>14
  <2> QED
    BY <2>2, <1>8
<1>16. IsUpto(upto)
  BY <1>15
<1> HIDE DEF upto
<1>17. AllInserted(s, new) = upto[n]
  BY DEF AllInserted, upto
<1> DEFINE U == {m \in Nat : m <= n => upto[m] = f[m]}
<1>18. U = Nat
  <2>1. 0 \in U
    BY <1>1, <1>8, <1>16
  <2>2. ASSUME NEW m \in U PROVE m + 1 \in U
    <3>1. CASE m + 1 > n
      BY <3>1, <1>1
    <3>2. CASE m + 1 <= n
      <4>1. m \in Nat /\ m + 1 \in 1 .. n /\ m + 1 \in 0 .. n /\ m + 1 # 0 /\ (m + 1) - 1 = m
            /\ upto[m] = f[m]
        BY <3>2, <1>1
      <4>2. upto[m + 1] = insert(upto[m], new[m + 1])
        BY <4>1, <1>16
      <4>3. f[m + 1] = insert(f[m], new[m + 1])
        BY <4>1, <1>14
      <4> QED
        BY <4>1, <4>2, <4>3
    <3> QED
      BY <3>1, <3>2, <1>1
  <2>3. U \subseteq Nat
    OBVIOUS
  <2> HIDE DEF U
  <2> QED
    BY <2>1, <2>2, <2>3, NatSetInduction
<1>19. upto[n] = f[n] /\ Fine(f[n], n)
  BY <1>18, <1>13, <1>1
<1>20. Given(n) = ElementsOf(s) \cup ElementsOf(new)
  BY DEF ElementsOf
<1> QED
  BY <1>17, <1>19, <1>20 DEF Fine

(* Two sequences without repetition that have the same elements are        *)
(* equally long.                                                           *)
LEMMA SameLength ==
    ASSUME NEW s \in Seq(LayerSet), NEW t \in Seq(LayerSet),
           InDepth(s), InTime(t), ElementsOf(s) = ElementsOf(t)
    PROVE  Len(s) = Len(t)
<1>1. ASSUME NEW u \in Seq(LayerSet), \A i, j \in 1 .. Len(u) : i # j => u[i] # u[j]
      PROVE  Cardinality(ElementsOf(u)) = Len(u)
  <2> DEFINE n == Len(u)
             g == [i \in 1 .. n |-> u[i]]
  <2>1. n \in Nat
    OBVIOUS
  <2>2. g \in Bijection(1 .. n, ElementsOf(u))
    BY <1>1 DEF ElementsOf, Bijection, Injection, Surjection, IsInjective
  <2>3. ExistsBijection(1 .. n, ElementsOf(u))
    BY <2>2 DEF ExistsBijection
  <2> HIDE DEF n
  <2> QED
    BY <2>1, <2>3, FS_CountingElements DEF n
<1>2. ASSUME NEW i \in 1 .. Len(s), NEW j \in 1 .. Len(s), i # j PROVE s[i] # s[j]
  <2>1. i < j \/ j < i
    BY <1>2
  <2>2. Before(s[i], s[j]) \/ Before(s[j], s[i])
    BY <2>1 DEF InDepth
  <2>3. s[i].z \in Nat /\ s[i].no \in Nat
    BY LayerNumbers
  <2> QED
    BY <2>2, <2>3 DEF Before
<1>3. ASSUME NEW i \in 1 .. Len(t), NEW j \in 1 .. Len(t), i # j PROVE t[i] # t[j]
  <2>1. i < j \/ j < i
    BY <1>3
  <2>2. t[i].no < t[j].no \/ t[j].no < t[i].no
    BY <2>1 DEF InTime
  <2>3. t[i].no \in Nat
    BY LayerNumbers
  <2> QED
    BY <2>2, <2>3
<1> QED
  BY <1>1, <1>2, <1>3

------------------------------------------------------------------------------
LEMMA NewLayersElements ==
    ASSUME NEW insertions \in Seq(LayerMessages), NEW failures, edits \in Nat,
           Len(insertions) <= MaxLayers
    PROVE  LET new == NewLayers(insertions, failures) IN
           /\ new \in Seq(LayerSet) /\ InTime(new)
           /\ \A l \in ElementsOf(new) : MaxLayers * edits < l.no
                                        /\ l.no <= MaxLayers * (edits + 1)
<1> DEFINE n == Len(insertions)
           base == MaxLayers * edits
           made == [i \in 1 .. n |-> make_layer(insertions[i], base + i)]
           places == {i \in DOMAIN made : ~(made[i].type = "Media" /\ i \in failures)}
<1>1. n \in Nat /\ base \in Nat /\ MaxLayers \in Nat /\ MaxWidth \in Nat
      /\ MaxLayers * (edits + 1) = base + MaxLayers
  <2>1. MaxLayers \in Nat /\ MaxWidth \in Nat
    BY SceneConstants
  <2>2. base \in Nat
    BY <2>1
  <2>3. MaxLayers * (edits + 1) = MaxLayers * edits + MaxLayers * 1 /\ MaxLayers * 1 = MaxLayers
    BY <2>1, Distributes
  <2> QED
    BY <2>1, <2>2, <2>3
<1>2. NewLayers(insertions, failures) = Picked(made, places)
  BY DEF NewLayers
<1> HIDE DEF base
<1>3. ASSUME NEW i \in 1 .. n
      PROVE  made[i] \in LayerSet /\ made[i].no = base + i
  <2> DEFINE m == insertions[i]
  <2>1. m \in LayerMessages
    OBVIOUS
  <2> HIDE DEF m
  <2>2. m.name \in Texts /\ m.x \in Int /\ m.y \in Int /\ m.width \in Nat /\ m.z \in Nat
    BY <2>1 DEF LayerMessages
  <2>3. base + i \in Nat
    BY <1>1
  <2>4. make_layer(m, base + i) \in LayerSet /\ make_layer(m, base + i).no = base + i
    BY <2>2, <2>3, <1>1 DEF make_layer, LayerSet
  <2> QED
    BY <2>4 DEF m
<1>4. made \in Seq(LayerSet) /\ Len(made) = n
  BY <1>1, <1>3
<1>5. \A i \in 1 .. n : made[i].no = base + i
  BY <1>3
<1> HIDE DEF made, places
<1>6. InTime(made)
  BY <1>1, <1>4, <1>5 DEF InTime
<1>7. /\ Picked(made, places) \in Seq(LayerSet)
      /\ ElementsOf(Picked(made, places)) = {made[i] : i \in {k \in 1 .. Len(made) : k \in places}}
      /\ InTime(Picked(made, places))
  BY <1>4, <1>6, PickedElements
<1>8. ASSUME NEW l \in ElementsOf(Picked(made, places))
      PROVE  base < l.no /\ l.no <= MaxLayers * (edits + 1)
  <2>1. PICK i \in 1 .. n : l = made[i]
    BY <1>4, <1>7
  <2> QED
    BY <2>1, <1>1, <1>5
<1> QED
  BY <1>2, <1>7, <1>8 DEF base

LEMMA EditKeepsScene ==
    ASSUME SceneInv, NEW removals \in Seq(RemovalMessages), NEW insertions \in Seq(LayerMessages),
           NEW failures, Edited(removals, insertions, failures)
    PROVE  SceneInv'
<1> DEFINE new == NewLayers(insertions, failures)
           kept == AllRemoved(layers, removals)
           past == AllRemoved(inserted, removals)
<1>1. /\ edits' = edits + 1 /\ edits \in Nat
      /\ layers' = AllInserted(kept, new)
      /\ inserted' = past \o new
      /\ Len(layers) + Len(insertions) <= MaxLayers
  BY DEF Edited, SceneInv
<1>2. Len(insertions) <= MaxLayers
  <2>1. Len(layers) \in Nat /\ Len(insertions) \in Nat /\ MaxLayers \in Nat
    BY SceneConstants DEF SceneInv
  <2> QED
    BY <2>1, <1>1
<1>3. /\ new \in Seq(LayerSet) /\ InTime(new)
      /\ \A l \in ElementsOf(new) : MaxLayers * edits < l.no /\ l.no <= MaxLayers * (edits + 1)
  BY <1>1, <1>2, NewLayersElements
<1> HIDE DEF new
<1>4. /\ layers \in Seq(LayerSet) /\ inserted \in Seq(LayerSet)
      /\ InDepth(layers) /\ InTime(inserted) /\ ElementsOf(layers) = ElementsOf(inserted)
      /\ \A l \in ElementsOf(inserted) : l.no <= MaxLayers * edits
  BY DEF SceneInv
<1>5. /\ kept \in Seq(LayerSet) /\ InDepth(kept) /\ past \in Seq(LayerSet) /\ InTime(past)
      /\ ElementsOf(kept) = ElementsOf(past) /\ ElementsOf(past) \subseteq ElementsOf(inserted)
  BY <1>4, AllRemovedElements
<1> HIDE DEF kept, past
<1>6. MaxLayers * edits \in Nat /\ MaxLayers * (edits + 1) \in Nat
      /\ MaxLayers * edits <= MaxLayers * (edits + 1)
  <2>1. MaxLayers \in Nat
    BY SceneConstants
  <2>2. MaxLayers * (edits + 1) = MaxLayers * edits + MaxLayers * 1 /\ MaxLayers * 1 = MaxLayers
    BY <2>1, <1>1, Distributes
  <2>3. MaxLayers * edits \in Nat
    BY <2>1, <1>1
  <2> QED
    BY <2>1, <2>2, <2>3
<1>7. \A u \in Seq(LayerSet) : \A l \in ElementsOf(u) : l.no \in Nat
  BY LayerNumbers DEF ElementsOf
<1>8. \A a \in ElementsOf(past), b \in ElementsOf(new) : a.no < b.no
  BY <1>3, <1>4, <1>5, <1>6, <1>7
<1>9. /\ layers' \in Seq(LayerSet) /\ InDepth(layers')
      /\ ElementsOf(layers') = ElementsOf(past) \cup ElementsOf(new)
  <2>1. \A a \in ElementsOf(kept), b \in ElementsOf(new) : a.no < b.no
    BY <1>5, <1>8
  <2> QED
    BY <2>1, <1>1, <1>3, <1>5, AllInsertedElements
<1>10. /\ inserted' \in Seq(LayerSet) /\ InTime(inserted')
       /\ ElementsOf(inserted') = ElementsOf(past) \cup ElementsOf(new)
  <2> DEFINE n == Len(past)
             m == Len(new)
             both == past \o new
  <2>1. n \in Nat /\ m \in Nat /\ both \in Seq(LayerSet) /\ Len(both) = n + m
        /\ (\A i \in 1 .. n : both[i] = past[i])
        /\ (\A i \in 1 .. m : both[n + i] = new[i])
    BY <1>3, <1>5, ConcatProperties
  <2> HIDE DEF n, m, both
  <2>2. ASSUME NEW i \in 1 .. n + m
        PROVE  \/ i \in 1 .. n /\ both[i] = past[i]
               \/ i > n /\ i - n \in 1 .. m /\ both[i] = new[i - n]
    <3>1. CASE i <= n
      BY <3>1, <2>1
    <3>2. CASE i > n
      <4>1. i - n \in 1 .. m /\ n + (i - n) = i
        BY <3>2, <2>1
      <4> QED
        BY <4>1, <3>2, <2>1
    <3> QED
      BY <3>1, <3>2, <2>1
  <2>3. (\A i \in 1 .. n : past[i] \in ElementsOf(past)) /\ (\A i \in 1 .. m : new[i] \in ElementsOf(new))
    BY DEF ElementsOf, n, m
  <2>4. ElementsOf(both) = ElementsOf(past) \cup ElementsOf(new)
    <3>1. \A i \in 1 .. n + m : both[i] \in ElementsOf(past) \cup ElementsOf(new)
      BY <2>2, <2>3
    <3>2. \A i \in 1 .. n : i \in 1 .. n + m
      BY <2>1
    <3>3. \A i \in 1 .. m : n + i \in 1 .. n + m
      BY <2>1
    <3>4. \A i \in 1 .. n : past[i] \in ElementsOf(both)
      BY <2>1, <3>2 DEF ElementsOf
    <3>5. \A i \in 1 .. m : new[i] \in ElementsOf(both)
      BY <2>1, <3>3 DEF ElementsOf
    <3> QED
      BY ZenonT(30), <2>1, <3>1, <3>4, <3>5 DEF ElementsOf, n, m
  <2>5. InTime(both)
    <3> SUFFICES ASSUME NEW i \in 1 .. n + m, NEW j \in 1 .. n + m, i < j
                 PROVE  both[i].no < both[j].no
      BY <2>1 DEF InTime
    <3>1. CASE i \in 1 .. n /\ both[i] = past[i] /\ j \in 1 .. n /\ both[j] = past[j]
      BY <3>1, <1>5 DEF InTime, n
    <3>2. CASE i \in 1 .. n /\ both[i] = past[i] /\ j - n \in 1 .. m /\ both[j] = new[j - n]
      BY <3>2, <2>3, <1>8
    <3>3. CASE i - n \in 1 .. m /\ both[i] = new[i - n] /\ j - n \in 1 .. m /\ both[j] = new[j - n]
      <4>1. i - n < j - n
        BY <2>1
      <4> QED
        BY <3>3, <4>1, <1>3 DEF InTime, m
    <3> QED
      BY <3>1, <3>2, <3>3, <2>1, <2>2
  <2> QED
    BY <2>1, <2>4, <2>5, <1>1 DEF both
<1>11. \A l \in ElementsOf(inserted') : l.no <= MaxLayers * edits'
  <2> SUFFICES ASSUME NEW l \in ElementsOf(past) \cup ElementsOf(new)
               PROVE  l.no <= MaxLayers * (edits + 1)
    BY <1>1, <1>10
  <2>1. CASE l \in ElementsOf(new)
    BY <2>1, <1>3
  <2>2. CASE l \in ElementsOf(past)
    <3>1. l.no <= MaxLayers * edits /\ l.no \in Nat
      BY <2>2, <1>4, <1>5, <1>7
    <3> QED
      BY <3>1, <1>6
  <2> QED
    BY <2>1, <2>2
<1> QED
  BY <1>1, <1>9, <1>10, <1>11 DEF SceneInv

(* The scene is drawn from a larger z to a smaller, and in the order of    *)
(* insertion where they are equal, and it has just what was inserted and   *)
(* not removed (Scene::insert and Scene::remove, video/compositor.cc),     *)
(* for scenes of any size and any sequence of edits.                       *)
THEOREM SceneIsInOrder == SceneSpec => []SceneInOrder
<1>1. SceneInit => SceneInv
  <2> SUFFICES ASSUME SceneInit PROVE SceneInv
    OBVIOUS
  <2>1. layers = <<>> /\ inserted = <<>> /\ edits = 0
    BY DEF SceneInit
  <2>2. <<>> \in Seq(LayerSet) /\ ElementsOf(<<>>) = {} /\ InDepth(<<>>) /\ InTime(<<>>)
    BY DEF ElementsOf, InDepth, InTime
  <2> QED
    BY <2>1, <2>2 DEF SceneInv
<1>2. SceneInv /\ [SceneNext]_scene_vars => SceneInv'
  <2> SUFFICES ASSUME SceneInv, [SceneNext]_scene_vars PROVE SceneInv'
    OBVIOUS
  <2>1. CASE SceneNext
    BY <2>1, EditKeepsScene DEF SceneNext
  <2>2. CASE UNCHANGED scene_vars
    BY <2>2 DEF SceneInv, scene_vars, InDepth, InTime, ElementsOf
  <2> QED
    BY <2>1, <2>2
<1>3. SceneInv => SceneInOrder
  <2> SUFFICES ASSUME SceneInv PROVE SceneInOrder
    OBVIOUS
  <2>1. layers \in Seq(LayerSet) /\ inserted \in Seq(LayerSet) /\ InDepth(layers)
        /\ InTime(inserted) /\ ElementsOf(layers) = ElementsOf(inserted)
    BY DEF SceneInv
  <2>2. Len(layers) = Len(inserted)
    BY <2>1, SameLength
  <2>3. DOMAIN layers = 1 .. Len(layers) /\ DOMAIN inserted = 1 .. Len(inserted)
    BY <2>1
  <2> QED
    BY <2>1, <2>2, <2>3 DEF SceneInOrder, ElementsOf, InDepth, Before
<1> QED
  BY <1>1, <1>2, <1>3, PTL DEF SceneSpec

------------------------------------------------------------------------------
(* EventLoop.  A rule that is not cancelled belongs to a connection that   *)
(* is good; those that are culled stay in the list until the loop is back  *)
(* at the rules without a descriptor, and by then the rules of connections *)
(* that are in it no more have been erased from those with one.            *)

Owners == Connections \cup {"program"}
Kinds == {"cull_connections", "close", "serve", "new_video_segment",
          "new_TCP_connection", "SSL_read", "SSL_write"}
RuleSet == [owner : Owners, kind : Kinds, cancelled : BOOLEAN]

LoopTypes ==
    /\ non_fd_rules \in Seq(RuleSet) /\ fd_rules \in Seq(RuleSet)
    /\ good \subseteq clients
    /\ it \in Nat /\ it > 0

OwnedBy(rules, owners) ==
    \A i \in 1 .. Len(rules) :
        ~rules[i].cancelled => rules[i].owner \in owners \cup {"program"}

OwnedByClients(rules) ==
    \A i \in 1 .. Len(rules) :
        (phase = "results" \/ (phase = "set_up" /\ i < it))
            => rules[i].owner \in clients \cup {"program"}

LoopInv ==
    /\ LoopTypes
    /\ OwnedBy(non_fd_rules, good) /\ OwnedBy(fd_rules, good)
    /\ OwnedByClients(fd_rules)

(* What is kept of a sequence of rules are rules of it, not cancelled.     *)
LEMMA KeptRules ==
    ASSUME NEW rules \in Seq(RuleSet)
    PROVE  /\ Uncancelled(rules) \in Seq(RuleSet)
           /\ \A i \in 1 .. Len(Uncancelled(rules)) : \E j \in 1 .. Len(rules) :
                  Uncancelled(rules)[i] = rules[j]
<1> DEFINE n == Len(rules)
           Some == {s \in Seq(RuleSet) : \A i \in 1 .. Len(s) : \E j \in 1 .. n : s[i] = rules[j]}
           Step(i, s) == IF rules[i].cancelled THEN s ELSE Append(s, rules[i])
           step == [i \in 1 .. n |-> [s \in Some |-> Step(i, s)]]
<1>1. n \in Nat /\ \A i \in 1 .. n : rules[i] \in RuleSet
  OBVIOUS
<1>2. << >> \in Some
  OBVIOUS
<1>3. ASSUME NEW i \in 1 .. n, NEW s \in Some PROVE Step(i, s) \in Some
  <2>1. Append(s, rules[i]) \in Seq(RuleSet) /\ Len(Append(s, rules[i])) = Len(s) + 1
    BY <1>1
  <2>2. ASSUME NEW k \in 1 .. Len(Append(s, rules[i]))
        PROVE  \E j \in 1 .. n : Append(s, rules[i])[k] = rules[j]
    <3>1. CASE k = Len(s) + 1
      BY <3>1
    <3>2. CASE k # Len(s) + 1
      <4>1. k \in 1 .. Len(s) /\ Append(s, rules[i])[k] = s[k]
        BY <3>2
      <4> QED
        BY <4>1
    <3> QED
      BY <3>1, <3>2
  <2> QED
    BY <2>1, <2>2
<1> HIDE DEF n, Some, Step
<1>4. step \in [1 .. n -> [Some -> Some]]
  BY <1>3
<1> DEFINE none == << >>
<1> HIDE DEF step, none
<1>5. PICK f : f \in [0 .. n -> Some] /\
          f[0] = << >> /\ \A i \in 1 .. n : f[i] = step[i][f[i - 1]]
  <2>1. none \in Some
    BY <1>2 DEF none
  <2>2. \E f : Recursion(f, n, Some, none, step)
    <3>1. n \in Nat
      BY <1>1
    <3> QED
      BY <3>1, <2>1, <1>4, RecursionOnNat
  <2> QED
    BY <2>2 DEF none, Recursion
<1>6. ASSUME NEW i \in 1 .. n PROVE f[i] = Step(i, f[i - 1])
  <2>1. f[i - 1] \in Some
    BY <1>1, <1>5
  <2>2. step[i][f[i - 1]] = Step(i, f[i - 1])
    BY <2>1 DEF step
  <2> QED
    BY <2>2, <1>5
<1> DEFINE IsKept(g) == g = [i \in 0 .. n |-> IF i = 0 THEN << >>
                                             ELSE IF rules[i].cancelled THEN g[i - 1]
                                             ELSE Append(g[i - 1], rules[i])]
           kept == CHOOSE g : IsKept(g)
<1>7. IsKept(f)
  <2>1. \A i \in 0 .. n : i = 0 \/ i \in 1 .. n
    BY <1>1
  <2>2. \A i \in 0 .. n : f[i] = IF i = 0 THEN << >>
                                 ELSE IF rules[i].cancelled THEN f[i - 1]
                                 ELSE Append(f[i - 1], rules[i])
    BY <2>1, <1>5, <1>6 DEF Step
  <2> QED
    BY <2>2, <1>5
<1>8. IsKept(kept)
  BY <1>7
<1> HIDE DEF kept
<1>9. Uncancelled(rules) = kept[n]
  BY DEF Uncancelled, n, kept
<1> DEFINE T == {m \in Nat : m <= n => kept[m] = f[m]}
<1>10. 0 \in T
  BY <1>1, <1>5, <1>8
<1>11. ASSUME NEW m \in T PROVE m + 1 \in T
  <2>1. CASE m + 1 > n
    BY <2>1, <1>1
  <2>2. CASE m + 1 <= n
    <3>1. m + 1 \in 1 .. n /\ m + 1 \in 0 .. n /\ m + 1 # 0 /\ (m + 1) - 1 = m
          /\ kept[m] = f[m]
      BY <2>2, <1>1
    <3>2. kept[m + 1] = IF rules[m + 1].cancelled THEN kept[m] ELSE Append(kept[m], rules[m + 1])
      BY <3>1, <1>8
    <3>3. f[m + 1] = IF rules[m + 1].cancelled THEN f[m] ELSE Append(f[m], rules[m + 1])
      BY <3>1, <1>6 DEF Step
    <3> QED
      BY <3>1, <3>2, <3>3
  <2> QED
    BY <2>1, <2>2, <1>1
<1>12. kept[n] = f[n]
  <2>1. T \subseteq Nat
    OBVIOUS
  <2> HIDE DEF T
  <2>2. T = Nat
    BY <2>1, <1>10, <1>11, NatSetInduction
  <2> QED
    BY <2>2, <1>1 DEF T
<1>13. Uncancelled(rules) \in Some
  <2>1. n \in 0 .. n
    BY <1>1
  <2> QED
    BY <2>1, <1>5, <1>9, <1>12
<1> QED
  BY <1>13 DEF Some, n

(* The ways in which the loop changes a list keep who owns what.           *)
LEMMA RulesErased ==
    ASSUME LoopInv, NEW i \in 1 .. Len(non_fd_rules)
    PROVE  /\ ErasedBefore(i) \in Seq(RuleSet)
           /\ OwnedBy(ErasedBefore(i), good)
<1> DEFINE before == SubSeq(non_fd_rules, 1, i - 1)
           after == SubSeq(non_fd_rules, i, Len(non_fd_rules))
           kept == Uncancelled(before)
<1>1. non_fd_rules \in Seq(RuleSet) /\ OwnedBy(non_fd_rules, good)
  BY DEF LoopInv, LoopTypes
<1>2. /\ before \in Seq(RuleSet) /\ after \in Seq(RuleSet)
      /\ \A j \in 1 .. Len(before) : \E k \in 1 .. Len(non_fd_rules) : before[j] = non_fd_rules[k]
      /\ \A j \in 1 .. Len(after) : \E k \in 1 .. Len(non_fd_rules) : after[j] = non_fd_rules[k]
  <2>1. /\ before \in Seq(RuleSet) /\ Len(before) = i - 1
        /\ \A j \in 1 .. Len(before) : before[j] = non_fd_rules[j] /\ j \in 1 .. Len(non_fd_rules)
    BY <1>1
  <2>2. /\ after \in Seq(RuleSet) /\ Len(after) = Len(non_fd_rules) - i + 1
        /\ \A j \in 1 .. Len(after) : /\ after[j] = non_fd_rules[i + j - 1]
                                      /\ i + j - 1 \in 1 .. Len(non_fd_rules)
    BY <1>1
  <2> QED
    BY <2>1, <2>2
<1> HIDE DEF before, after
<1>3. /\ kept \in Seq(RuleSet)
      /\ \A j \in 1 .. Len(kept) : \E k \in 1 .. Len(before) : kept[j] = before[k]
  BY <1>2, KeptRules
<1> HIDE DEF kept
<1>4. ErasedBefore(i) = kept \o after
  BY DEF ErasedBefore, kept, before, after
<1>5. /\ ErasedBefore(i) \in Seq(RuleSet)
      /\ \A j \in 1 .. Len(ErasedBefore(i)) :
            \/ j \in 1 .. Len(kept) /\ ErasedBefore(i)[j] = kept[j]
            \/ j - Len(kept) \in 1 .. Len(after) /\ ErasedBefore(i)[j] = after[j - Len(kept)]
  <2>1. kept \in Seq(RuleSet) /\ after \in Seq(RuleSet)
    BY <1>2, <1>3
  <2>2. /\ kept \o after \in Seq(RuleSet) /\ Len(kept \o after) = Len(kept) + Len(after)
        /\ \A j \in 1 .. Len(kept) + Len(after) :
               (kept \o after)[j] = IF j <= Len(kept) THEN kept[j] ELSE after[j - Len(kept)]
    BY <2>1, ConcatProperties
  <2>3. Len(kept) \in Nat /\ Len(after) \in Nat
    BY <2>1
  <2> QED
    BY <2>2, <2>3, <1>4
<1>6. ASSUME NEW j \in 1 .. Len(ErasedBefore(i))
      PROVE  \E k \in 1 .. Len(non_fd_rules) : ErasedBefore(i)[j] = non_fd_rules[k]
  <2>1. CASE j \in 1 .. Len(kept) /\ ErasedBefore(i)[j] = kept[j]
    <3>1. PICK k \in 1 .. Len(before) : kept[j] = before[k]
      BY <2>1, <1>3
    <3>2. PICK m \in 1 .. Len(non_fd_rules) : before[k] = non_fd_rules[m]
      BY <1>2
    <3> QED
      BY <3>1, <3>2, <2>1
  <2>2. CASE j - Len(kept) \in 1 .. Len(after) /\ ErasedBefore(i)[j] = after[j - Len(kept)]
    <3> DEFINE spot == j - Len(kept)
    <3>1. spot \in 1 .. Len(after) /\ ErasedBefore(i)[j] = after[spot]
      BY <2>2
    <3> HIDE DEF spot
    <3>2. PICK m \in 1 .. Len(non_fd_rules) : after[spot] = non_fd_rules[m]
      BY <3>1, <1>2
    <3> QED
      BY <3>1, <3>2
  <2> QED
    BY <2>1, <2>2, <1>5
<1> QED
  BY <1>1, <1>5, <1>6 DEF OwnedBy

LEMMA RuleCancelled ==
    ASSUME NEW rules \in Seq(RuleSet), NEW owners, OwnedBy(rules, owners), NEW cs
    PROVE  /\ Cancelled(rules, cs) \in Seq(RuleSet)
           /\ Len(Cancelled(rules, cs)) = Len(rules)
           /\ \A i \in 1 .. Len(rules) : Cancelled(rules, cs)[i].owner = rules[i].owner
           /\ OwnedBy(Cancelled(rules, cs), owners \ cs)
<1> DEFINE marked(r) == [r EXCEPT !.cancelled = TRUE]
<1>1. \A r \in RuleSet : /\ marked(r) \in RuleSet /\ marked(r).owner = r.owner
                         /\ marked(r).cancelled
  BY DEF RuleSet
<1> HIDE DEF marked
<1>2. Cancelled(rules, cs) =
          [i \in 1 .. Len(rules) |-> IF rules[i].owner \in cs THEN marked(rules[i]) ELSE rules[i]]
  BY DEF Cancelled, marked
<1>3. \A i \in 1 .. Len(rules) : rules[i] \in RuleSet
  OBVIOUS
<1>4. Cancelled(rules, cs) \in Seq(RuleSet) /\ Len(Cancelled(rules, cs)) = Len(rules)
  BY <1>1, <1>2, <1>3
<1>5. ASSUME NEW i \in 1 .. Len(rules)
      PROVE  /\ Cancelled(rules, cs)[i].owner = rules[i].owner
             /\ \/ Cancelled(rules, cs)[i].cancelled
                \/ rules[i].owner \notin cs /\ Cancelled(rules, cs)[i] = rules[i]
  BY <1>1, <1>2, <1>3
<1>6. OwnedBy(Cancelled(rules, cs), owners \ cs)
  <2> SUFFICES ASSUME NEW i \in 1 .. Len(rules), ~Cancelled(rules, cs)[i].cancelled
               PROVE  Cancelled(rules, cs)[i].owner \in (owners \ cs) \cup {"program"}
    BY <1>4 DEF OwnedBy
  <2>1. rules[i].owner \notin cs /\ ~rules[i].cancelled
    BY <1>5
  <2> QED
    BY <2>1, <1>5 DEF OwnedBy
<1> QED
  BY <1>4, <1>5, <1>6

(* The list without one of its rules.                                      *)
LEMMA RuleRemoved ==
    ASSUME NEW rules \in Seq(RuleSet), NEW n \in 1 .. Len(rules)
    PROVE  /\ RemoveAt(rules, n) \in Seq(RuleSet)
           /\ Len(RemoveAt(rules, n)) = Len(rules) - 1
           /\ \A i \in 1 .. Len(RemoveAt(rules, n)) :
                 RemoveAt(rules, n)[i] = IF i < n THEN rules[i] ELSE rules[i + 1]
<1> DEFINE before == SubSeq(rules, 1, n - 1)
           after == SubSeq(rules, n + 1, Len(rules))
<1> DEFINE l == Len(rules)
<1>0. /\ l \in Nat /\ n \in 1 .. l /\ n - 1 \in 0 .. l /\ n + 1 \in 1 .. l + 1 /\ l - n \in 0 .. l
      /\ \A i \in 1 .. l : rules[i] \in RuleSet
  OBVIOUS
<1> HIDE DEF l
<1>1. /\ before \in Seq(RuleSet) /\ Len(before) = n - 1
      /\ \A i \in 1 .. n - 1 : before[i] = rules[i]
  <2>1. Len(before) = n - 1 /\ \A i \in 1 .. n - 1 : before[i] = rules[i]
    BY <1>0
  <2>2. before \in Seq(RuleSet)
    BY <1>0
  <2> QED
    BY <2>1, <2>2
<1>2. /\ after \in Seq(RuleSet) /\ Len(after) = Len(rules) - n
      /\ \A i \in 1 .. Len(after) : after[i] = rules[i + n]
  <2> DEFINE last == SubSeq(rules, n + 1, l)
  <2>1. Len(last) = l - n
    BY <1>0
  <2>2. \A i \in 1 .. l - n : last[i] = rules[i + n]
    BY <1>0
  <2>3. last \in Seq(RuleSet)
    BY <1>0
  <2>4. last = after
    BY DEF l
  <2> QED
    BY <2>1, <2>2, <2>3, <2>4 DEF l
<1>3. RemoveAt(rules, n) = before \o after
  BY DEF RemoveAt
<1> HIDE DEF before, after
<1>4. /\ RemoveAt(rules, n) \in Seq(RuleSet) /\ Len(RemoveAt(rules, n)) = Len(rules) - 1
      /\ \A i \in 1 .. Len(rules) - 1 :
            RemoveAt(rules, n)[i] = IF i < n THEN before[i] ELSE after[i - (n - 1)]
  <2>1. RemoveAt(rules, n) \in Seq(RuleSet)
    BY <1>1, <1>2, <1>3
  <2>2. Len(before \o after) = Len(rules) - 1
    <3>1. Len(before \o after) = Len(before) + Len(after)
      <4>1. before \in Seq(RuleSet) /\ after \in Seq(RuleSet)
        BY <1>1, <1>2
      <4> QED
        BY <4>1, ConcatProperties
    <3>2. (n - 1) + (l - n) = l - 1
      BY <1>0
    <3> QED
      BY <3>1, <3>2, <1>1, <1>2 DEF l
  <2>3. ASSUME NEW i \in 1 .. Len(rules) - 1
        PROVE  (before \o after)[i] = IF i < n THEN before[i] ELSE after[i - (n - 1)]
    <3>1. i \in 1 .. Len(before) + Len(after) /\ (i < n <=> i <= Len(before))
      BY <1>1, <1>2
    <3>2. (before \o after)[i] = IF i <= Len(before) THEN before[i] ELSE after[i - Len(before)]
      BY <3>1, <1>1, <1>2
    <3> QED
      BY <3>1, <3>2, <1>1
  <2> QED
    BY <2>1, <2>2, <2>3, <1>3
<1>5. ASSUME NEW i \in 1 .. Len(rules) - 1
      PROVE  RemoveAt(rules, n)[i] = IF i < n THEN rules[i] ELSE rules[i + 1]
  <2>1. CASE i < n
    BY <2>1, <1>1, <1>4
  <2>2. CASE ~(i < n)
    <3>1. i - (n - 1) \in 1 .. Len(after) /\ (i - (n - 1)) + n = i + 1
      BY <2>2, <1>2
    <3> QED
      BY <2>2, <3>1, <1>2, <1>4
  <2> QED
    BY <2>1, <2>2
<1> QED
  BY <1>4, <1>5

LEMMA RuleRemovedOwned ==
    ASSUME NEW rules \in Seq(RuleSet), NEW n \in 1 .. Len(rules), NEW owners,
           OwnedBy(rules, owners)
    PROVE  OwnedBy(RemoveAt(rules, n), owners)
<1> SUFFICES ASSUME NEW i \in 1 .. Len(RemoveAt(rules, n)), ~RemoveAt(rules, n)[i].cancelled
             PROVE  RemoveAt(rules, n)[i].owner \in owners \cup {"program"}
  BY DEF OwnedBy
<1>1. \E j \in 1 .. Len(rules) : RemoveAt(rules, n)[i] = rules[j]
  <2>1. i \in 1 .. Len(rules) /\ i + 1 \in 1 .. Len(rules)
    BY RuleRemoved
  <2> QED
    BY <2>1, RuleRemoved
<1> QED
  BY <1>1 DEF OwnedBy

(* Rules are added for an owner.                                           *)
LEMMA RulesAdded ==
    ASSUME NEW rules \in Seq(RuleSet), NEW owners, OwnedBy(rules, owners),
           NEW c \in Owners, NEW kinds \in Seq(Kinds)
    PROVE  /\ add_rules(rules, c, kinds) \in Seq(RuleSet)
           /\ OwnedBy(add_rules(rules, c, kinds), owners \cup {c})
<1> DEFINE more == [i \in DOMAIN kinds |-> Rule(c, kinds[i])]
<1>1. more \in Seq(RuleSet) /\ \A i \in 1 .. Len(more) : more[i].owner = c
  <2> DEFINE n == Len(kinds)
             made(i) == Rule(c, kinds[i])
  <2>1. n \in Nat /\ more = [i \in 1 .. n |-> made(i)]
    OBVIOUS
  <2>2. \A i \in 1 .. n : kinds[i] \in Kinds
    OBVIOUS
  <2>3. \A k \in Kinds : Rule(c, k) \in RuleSet /\ Rule(c, k).owner = c
    BY DEF Rule, RuleSet
  <2>4. \A i \in 1 .. n : made(i) \in RuleSet /\ made(i).owner = c
    BY <2>2, <2>3
  <2> HIDE DEF n, made, more
  <2> QED
    BY <2>1, <2>4
<1>2. add_rules(rules, c, kinds) = rules \o more
  BY DEF add_rules
<1> HIDE DEF more
<1>3. /\ rules \o more \in Seq(RuleSet)
      /\ \A i \in 1 .. Len(rules \o more) :
            \/ i \in 1 .. Len(rules) /\ (rules \o more)[i] = rules[i]
            \/ i - Len(rules) \in 1 .. Len(more) /\ (rules \o more)[i] = more[i - Len(rules)]
  BY <1>1
<1>4. ASSUME NEW i \in 1 .. Len(rules \o more), ~(rules \o more)[i].cancelled
      PROVE  (rules \o more)[i].owner \in (owners \cup {c}) \cup {"program"}
  <2>1. CASE i \in 1 .. Len(rules) /\ (rules \o more)[i] = rules[i]
    <3>1. ~rules[i].cancelled
      BY <2>1, <1>4
    <3> QED
      BY <2>1, <3>1 DEF OwnedBy
  <2>2. CASE i - Len(rules) \in 1 .. Len(more) /\ (rules \o more)[i] = more[i - Len(rules)]
    BY <2>2, <1>1
  <2> QED
    BY <2>1, <2>2, <1>3
<1> QED
  BY <1>2, <1>3, <1>4 DEF OwnedBy

LEMMA LoopStarts == LoopInit => LoopInv
<1> SUFFICES ASSUME LoopInit PROVE LoopInv
  OBVIOUS
<1>1. << >> \in Seq(RuleSet) /\ OwnedBy(<< >>, {}) /\ "program" \in Owners
  BY DEF OwnedBy, Owners
<1>2. /\ <<"cull_connections">> \in Seq(Kinds)
      /\ <<"new_video_segment", "new_TCP_connection">> \in Seq(Kinds)
  BY DEF Kinds
<1>3. ASSUME NEW kinds \in Seq(Kinds)
      PROVE  /\ add_rules(<< >>, "program", kinds) \in Seq(RuleSet)
             /\ OwnedBy(add_rules(<< >>, "program", kinds), {"program"})
  <2>1. OwnedBy(add_rules(<< >>, "program", kinds), {} \cup {"program"})
    BY <1>1, RulesAdded
  <2>2. {} \cup {"program"} = {"program"}
    OBVIOUS
  <2> QED
    BY <1>1, <2>1, <2>2, RulesAdded
<1>6. /\ non_fd_rules \in Seq(RuleSet) /\ fd_rules \in Seq(RuleSet)
      /\ OwnedBy(non_fd_rules, {"program"}) /\ OwnedBy(fd_rules, {"program"})
  BY <1>2, <1>3 DEF LoopInit
<1>4. OwnedBy(non_fd_rules, good) /\ OwnedBy(fd_rules, good)
  BY <1>6 DEF OwnedBy, LoopInit
<1>5. OwnedByClients(fd_rules)
  BY DEF LoopInit, OwnedByClients
<1> QED
  BY <1>6, <1>4, <1>5 DEF LoopInit, LoopInv, LoopTypes

LEMMA CallRuleKeepsLoopInv ==
    ASSUME LoopInv, NEW i \in DOMAIN non_fd_rules, CallRule(i)
    PROVE  LoopInv'
<1>1. /\ non_fd_rules \in Seq(RuleSet) /\ fd_rules \in Seq(RuleSet) /\ good \subseteq clients
      /\ OwnedBy(non_fd_rules, good) /\ OwnedBy(fd_rules, good) /\ it \in Nat /\ it > 0
      /\ i \in 1 .. Len(non_fd_rules) /\ phase = "rules" /\ phase' = phase /\ it' = it
  BY DEF LoopInv, LoopTypes, CallRule
<1>2. OwnedByClients(fd_rules)'
  BY <1>1 DEF OwnedByClients
<1>3. ErasedBefore(i) \in Seq(RuleSet) /\ OwnedBy(ErasedBefore(i), good)
  BY <1>1, RulesErased
<1> DEFINE r == non_fd_rules[i]
<1>4. CASE r.kind = "cull_connections"
  <2>1. /\ clients' = clients \cap good /\ good' = good /\ fd_rules' = fd_rules
        /\ non_fd_rules' = ErasedBefore(i)
    BY <1>4 DEF CallRule
  <2> QED
    BY <2>1, <1>1, <1>2, <1>3 DEF LoopInv, LoopTypes
<1>5. CASE r.kind # "cull_connections" /\ r.kind = "close"
  <2>1. /\ good' = good \ {r.owner} /\ clients' = clients
        /\ non_fd_rules' = Cancelled(ErasedBefore(i), {r.owner})
        /\ fd_rules' = Cancelled(fd_rules, {r.owner})
    BY <1>5 DEF CallRule
  <2>2. non_fd_rules' \in Seq(RuleSet) /\ OwnedBy(non_fd_rules', good')
    BY <2>1, <1>3, RuleCancelled
  <2>3. fd_rules' \in Seq(RuleSet) /\ OwnedBy(fd_rules', good')
    BY <2>1, <1>1, RuleCancelled
  <2> QED
    BY <2>1, <2>2, <2>3, <1>1, <1>2 DEF LoopInv, LoopTypes
<1>6. CASE r.kind # "cull_connections" /\ r.kind # "close"
  <2>1. /\ clients' = clients /\ good' = good /\ fd_rules' = fd_rules
        /\ non_fd_rules' = ErasedBefore(i)
    BY <1>6 DEF CallRule
  <2> QED
    BY <2>1, <1>1, <1>2, <1>3 DEF LoopInv, LoopTypes
<1> QED
  BY <1>4, <1>5, <1>6

(* A connection is culled in the middle of a walk over the rules with a    *)
(* descriptor, and the rule at which this happens is erased.               *)
LEMMA CulledInWalk ==
    ASSUME LoopInv, phase \in {"set_up", "results"}, it \in 1 .. Len(fd_rules), NEW c,
           culled({c}), fd_rules' = Cancelled(RemoveAt(fd_rules, it), {c}),
           UNCHANGED <<clients, phase, it>>
    PROVE  LoopInv'
<1> DEFINE left == RemoveAt(fd_rules, it)
<1>1. /\ non_fd_rules \in Seq(RuleSet) /\ fd_rules \in Seq(RuleSet) /\ good \subseteq clients
      /\ OwnedBy(non_fd_rules, good) /\ OwnedBy(fd_rules, good) /\ it \in Nat /\ it > 0
  BY DEF LoopInv, LoopTypes
<1>2. /\ left \in Seq(RuleSet) /\ OwnedBy(left, good) /\ Len(left) = Len(fd_rules) - 1
      /\ \A i \in 1 .. Len(left) : left[i] = IF i < it THEN fd_rules[i] ELSE fd_rules[i + 1]
  BY <1>1, RuleRemoved, RuleRemovedOwned
<1> HIDE DEF left
<1>3. good' = good \ {c} /\ non_fd_rules' = Cancelled(non_fd_rules, {c})
      /\ fd_rules' = Cancelled(left, {c})
  BY DEF culled, left
<1>4. non_fd_rules' \in Seq(RuleSet) /\ OwnedBy(non_fd_rules', good')
  BY <1>1, <1>3, RuleCancelled
<1> DEFINE marked == Cancelled(left, {c})
<1>7. /\ marked \in Seq(RuleSet) /\ OwnedBy(marked, good \ {c})
      /\ Len(marked) = Len(left) /\ \A i \in 1 .. Len(left) : marked[i].owner = left[i].owner
  BY <1>2, RuleCancelled
<1> HIDE DEF marked
<1>5. /\ fd_rules' \in Seq(RuleSet) /\ OwnedBy(fd_rules', good')
      /\ Len(fd_rules') = Len(left) /\ \A i \in 1 .. Len(left) : fd_rules'[i].owner = left[i].owner
  BY <1>3, <1>7 DEF marked
<1>8. Len(fd_rules) \in Nat /\ Len(fd_rules') = Len(fd_rules) - 1
  BY <1>1, <1>2, <1>5
<1>6. OwnedByClients(fd_rules)'
  <2> SUFFICES ASSUME NEW i \in 1 .. Len(fd_rules'),
                      (phase = "set_up" /\ i < it) \/ phase = "results"
               PROVE  fd_rules'[i].owner \in clients \cup {"program"}
    BY <1>1 DEF OwnedByClients
  <2>1. CASE i < it
    <3>1. i \in 1 .. Len(fd_rules) /\ fd_rules'[i].owner = fd_rules[i].owner
      <4>1. i \in 1 .. Len(fd_rules) /\ i \in 1 .. Len(left)
        BY <1>8, <1>5
      <4> QED
        BY <4>1, <2>1, <1>2, <1>5
    <3> QED
      BY <2>1, <3>1 DEF LoopInv, OwnedByClients
  <2>2. CASE ~(i < it)
    <3>1. i + 1 \in 1 .. Len(fd_rules) /\ fd_rules'[i].owner = fd_rules[i + 1].owner
      <4>1. i + 1 \in 1 .. Len(fd_rules) /\ i \in 1 .. Len(left)
        BY <1>8, <1>5
      <4> QED
        BY <4>1, <2>2, <1>2, <1>5
    <3>2. phase = "results"
      BY <2>2
    <3> QED
      BY <3>1, <3>2 DEF LoopInv, OwnedByClients
  <2> QED
    BY <2>1, <2>2
<1> QED
  BY <1>1, <1>3, <1>4, <1>5, <1>6 DEF LoopInv, LoopTypes

LEMMA SetUpKeepsLoopInv ==
    ASSUME LoopInv, SetUp
    PROVE  LoopInv'
<1> DEFINE r == fd_rules[it]
           left == RemoveAt(fd_rules, it)
<1>1. /\ non_fd_rules \in Seq(RuleSet) /\ fd_rules \in Seq(RuleSet) /\ good \subseteq clients
      /\ OwnedBy(non_fd_rules, good) /\ OwnedBy(fd_rules, good) /\ it \in Nat /\ it > 0
      /\ phase = "set_up" /\ phase' = phase /\ clients' = clients /\ it <= Len(fd_rules)
  BY DEF LoopInv, LoopTypes, SetUp
<1>3. CASE r.cancelled
  <2>1. it \in 1 .. Len(fd_rules) /\ fd_rules' = left
        /\ UNCHANGED <<non_fd_rules, good, it>>
    BY <1>1, <1>3 DEF SetUp
  <2>2. /\ left \in Seq(RuleSet) /\ OwnedBy(left, good) /\ Len(left) = Len(fd_rules) - 1
        /\ \A i \in 1 .. Len(left) : left[i] = IF i < it THEN fd_rules[i] ELSE fd_rules[i + 1]
    BY <2>1, <1>1, RuleRemoved, RuleRemovedOwned
  <2> HIDE DEF left
  <2>3. OwnedByClients(fd_rules)'
    <3> SUFFICES ASSUME NEW i \in 1 .. Len(left), i < it
                 PROVE  left[i].owner \in clients \cup {"program"}
      BY <2>1, <1>1 DEF OwnedByClients
    <3>1. i \in 1 .. Len(fd_rules) /\ left[i] = fd_rules[i]
      BY <2>2, <1>1
    <3> QED
      BY <3>1, <1>1 DEF LoopInv, OwnedByClients
  <2> QED
    BY <2>1, <2>2, <2>3, <1>1 DEF LoopInv, LoopTypes
<1>4. CASE ~r.cancelled /\ r.kind = "SSL_read" /\ r.owner \in eof
  <2>1. it \in 1 .. Len(fd_rules) /\ culled({r.owner}) /\ it' = it
        /\ fd_rules' = Cancelled(RemoveAt(fd_rules, it), {r.owner})
    BY <1>1, <1>4 DEF SetUp
  <2> QED
    BY <2>1, <1>1, CulledInWalk
<1>5. CASE ~r.cancelled /\ ~(r.kind = "SSL_read" /\ r.owner \in eof)
  <2>1. it \in 1 .. Len(fd_rules) /\ it' = it + 1
        /\ UNCHANGED <<non_fd_rules, fd_rules, good>>
    BY <1>1, <1>5 DEF SetUp
  <2>2. r.owner \in clients \cup {"program"}
    BY <2>1, <1>1, <1>5 DEF OwnedBy
  <2>3. OwnedByClients(fd_rules)'
    <3> SUFFICES ASSUME NEW i \in 1 .. Len(fd_rules), i < it + 1
                 PROVE  fd_rules[i].owner \in clients \cup {"program"}
      BY <2>1, <1>1 DEF OwnedByClients
    <3>1. CASE i = it
      BY <3>1, <2>2
    <3>2. CASE i < it
      BY <3>2, <1>1 DEF LoopInv, OwnedByClients
    <3> QED
      BY <3>1, <3>2, <1>1
  <2> QED
    BY <2>1, <2>3, <1>1 DEF LoopInv, LoopTypes
<1> QED
  BY <1>1, <1>3, <1>4, <1>5

LEMMA NoRuleKeepsLoopInv ==
    ASSUME LoopInv, NoRule
    PROVE  LoopInv'
<1>1. /\ non_fd_rules \in Seq(RuleSet) /\ fd_rules \in Seq(RuleSet) /\ good \subseteq clients
      /\ OwnedBy(non_fd_rules, good) /\ OwnedBy(fd_rules, good)
  BY DEF LoopInv, LoopTypes
<1>2. /\ non_fd_rules' = Uncancelled(non_fd_rules) /\ fd_rules' = fd_rules
      /\ clients' = clients /\ good' = good /\ phase' = "set_up" /\ it' = 1
  BY DEF NoRule, NextPhase
<1>3. non_fd_rules' \in Seq(RuleSet)
  BY <1>1, <1>2, KeptRules
<1>4. OwnedBy(non_fd_rules', good)
  BY <1>1, <1>2, KeptRules DEF OwnedBy
<1>5. OwnedByClients(fd_rules)'
  BY <1>2 DEF OwnedByClients
<1> QED
  BY <1>1, <1>2, <1>3, <1>4, <1>5 DEF LoopInv, LoopTypes

(* Poll, Pass and Done leave all but the place of the walk alone.          *)
LEMMA WalkKeepsLoopInv ==
    ASSUME LoopInv, Poll \/ Pass \/ Done
    PROVE  LoopInv'
<1>1. /\ non_fd_rules \in Seq(RuleSet) /\ fd_rules \in Seq(RuleSet) /\ good \subseteq clients
      /\ OwnedBy(non_fd_rules, good) /\ OwnedBy(fd_rules, good) /\ it \in Nat /\ it > 0
  BY DEF LoopInv, LoopTypes
<1>2. /\ UNCHANGED <<non_fd_rules, fd_rules, clients, good>>
      /\ it' \in Nat /\ it' > 0
  <2>1. CASE Poll
    BY <2>1, <1>1 DEF Poll, NextPhase
  <2>2. CASE Pass
    BY <2>2, <1>1 DEF Pass
  <2>3. CASE Done
    BY <2>3, <1>1 DEF Done, NextPhase
  <2> QED
    BY <2>1, <2>2, <2>3
<1>3. OwnedByClients(fd_rules)'
  <2>1. CASE Poll
    <3>1. phase = "set_up" /\ it > Len(fd_rules) /\ Len(fd_rules) \in Nat
      BY <2>1, <1>1 DEF Poll
    <3>2. ASSUME NEW i \in 1 .. Len(fd_rules)
          PROVE  fd_rules[i].owner \in clients \cup {"program"}
      <4>1. i < it
        BY <3>1, <1>1
      <4> QED
        BY <4>1, <3>1 DEF LoopInv, OwnedByClients
    <3> QED
      BY <3>2, <1>2 DEF OwnedByClients
  <2>2. CASE Pass
    BY <2>2, <1>2 DEF Pass, LoopInv, OwnedByClients
  <2>3. CASE Done
    BY <2>3 DEF Done, NextPhase, OwnedByClients
  <2> QED
    BY <2>1, <2>2, <2>3
<1> QED
  BY <1>1, <1>2, <1>3 DEF LoopInv, LoopTypes

LEMMA DefunctKeepsLoopInv ==
    ASSUME LoopInv, Defunct
    PROVE  LoopInv'
<1>1. fd_rules \in Seq(RuleSet) /\ it \in Nat /\ it > 0 /\ it <= Len(fd_rules)
  BY DEF LoopInv, LoopTypes, Defunct
<1>2. it \in 1 .. Len(fd_rules)
  BY <1>1
<1>3. /\ phase \in {"set_up", "results"} /\ culled({fd_rules[it].owner})
      /\ fd_rules' = Cancelled(RemoveAt(fd_rules, it), {fd_rules[it].owner})
      /\ UNCHANGED <<clients, phase, it>>
  BY DEF Defunct
<1> QED
  BY <1>2, <1>3, CulledInWalk

LEMMA ReadyKeepsLoopInv ==
    ASSUME LoopInv, Ready
    PROVE  LoopInv'
<1> DEFINE r == fd_rules[it]
<1>1. /\ non_fd_rules \in Seq(RuleSet) /\ fd_rules \in Seq(RuleSet) /\ good \subseteq clients
      /\ OwnedBy(non_fd_rules, good) /\ OwnedBy(fd_rules, good)
  BY DEF LoopInv, LoopTypes
<1>2. phase' = "rules" /\ it' = 1
  BY DEF Ready, NextPhase
<1>3. OwnedByClients(fd_rules)'
  BY <1>2 DEF OwnedByClients
<1>4. ASSUME NEW cs, culled(cs), fd_rules' = Cancelled(fd_rules, cs), clients' = clients
      PROVE  LoopInv'
  <2>1. good' = good \ cs /\ non_fd_rules' = Cancelled(non_fd_rules, cs)
    BY <1>4 DEF culled
  <2>2. non_fd_rules' \in Seq(RuleSet) /\ OwnedBy(non_fd_rules', good')
    BY <2>1, <1>1, RuleCancelled
  <2>3. fd_rules' \in Seq(RuleSet) /\ OwnedBy(fd_rules', good')
    BY <2>1, <1>1, <1>4, RuleCancelled
  <2> QED
    BY <2>1, <2>2, <2>3, <1>1, <1>2, <1>3, <1>4 DEF LoopInv, LoopTypes
<1>5. ASSUME NEW c \in Connections, Accept(c) PROVE LoopInv'
  <2>1. /\ clients' = clients \cup {c} /\ good' = good \cup {c}
        /\ non_fd_rules' = add_rules(non_fd_rules, c, <<"close", "serve">>)
        /\ fd_rules' = add_rules(fd_rules, c, <<"SSL_read", "SSL_write">>)
    BY <1>5 DEF Accept
  <2>2. /\ <<"close", "serve">> \in Seq(Kinds) /\ <<"SSL_read", "SSL_write">> \in Seq(Kinds)
        /\ c \in Owners
    BY DEF Kinds, Owners
  <2>3. non_fd_rules' \in Seq(RuleSet) /\ OwnedBy(non_fd_rules', good \cup {c})
    BY <2>1, <2>2, <1>1, RulesAdded
  <2>4. fd_rules' \in Seq(RuleSet) /\ OwnedBy(fd_rules', good \cup {c})
    BY <2>1, <2>2, <1>1, RulesAdded
  <2> QED
    BY <2>1, <2>3, <2>4, <1>1, <1>2, <1>3 DEF LoopInv, LoopTypes
<1>6. CASE \E c \in Connections : Accept(c)
  BY <1>6, <1>5
<1>7. CASE \E cs \in SUBSET clients : /\ culled(cs) /\ fd_rules' = Cancelled(fd_rules, cs)
                                       /\ clients' = clients
  BY <1>7, <1>4
<1>8. CASE culled({r.owner}) /\ fd_rules' = Cancelled(fd_rules, {r.owner}) /\ clients' = clients
  BY <1>8, <1>4
<1>9. CASE UNCHANGED <<good, non_fd_rules, fd_rules, clients>>
  BY <1>9, <1>1, <1>2, <1>3 DEF LoopInv, LoopTypes
<1> QED
  BY <1>6, <1>7, <1>8, <1>9 DEF Ready

(* A culled connection is deleted at the top of wait_next_event only, so   *)
(* what the walk over the results looks at belongs to connections that     *)
(* were in the list when the walk over the descriptors began.              *)
THEOREM LoopNoCallAfterDelete == LoopSpec => []NoCallAfterDelete
<1>1. LoopInit => LoopInv
  BY LoopStarts
<1>2. LoopInv /\ [LoopNext]_loop_vars => LoopInv'
  <2> SUFFICES ASSUME LoopInv, [LoopNext]_loop_vars PROVE LoopInv'
    OBVIOUS
  <2>1. ASSUME NEW i \in DOMAIN non_fd_rules, CallRule(i) PROVE LoopInv'
    BY <2>1, CallRuleKeepsLoopInv
  <2>2. CASE NoRule
    BY <2>2, NoRuleKeepsLoopInv
  <2>3. CASE SetUp
    BY <2>3, SetUpKeepsLoopInv
  <2>4. CASE Poll \/ Pass \/ Done
    BY <2>4, WalkKeepsLoopInv
  <2>5. CASE Defunct
    BY <2>5, DefunctKeepsLoopInv
  <2>6. CASE Ready
    BY <2>6, ReadyKeepsLoopInv
  <2>7. CASE UNCHANGED loop_vars
    BY <2>7 DEF loop_vars, LoopInv, LoopTypes, OwnedBy, OwnedByClients
  <2> QED
    BY <2>1, <2>2, <2>3, <2>4, <2>5, <2>6, <2>7 DEF LoopNext
<1>3. LoopInv => NoCallAfterDelete
  <2> SUFFICES ASSUME LoopInv, NEW rules \in {non_fd_rules, fd_rules}, NEW i \in DOMAIN rules
               PROVE  \/ rules[i].owner \in clients \cup {"program"}
                      \/ rules[i].cancelled /\ ~(phase = "results" /\ rules = fd_rules)
    BY DEF NoCallAfterDelete
  <2>1. /\ rules \in Seq(RuleSet) /\ good \subseteq clients /\ OwnedBy(rules, good)
        /\ rules = fd_rules => OwnedByClients(rules)
    BY DEF LoopInv, LoopTypes
  <2>2. i \in 1 .. Len(rules)
    BY <2>1
  <2>3. CASE ~rules[i].cancelled
    BY <2>1, <2>2, <2>3 DEF OwnedBy
  <2>4. CASE phase = "results" /\ rules = fd_rules
    BY <2>1, <2>2, <2>4 DEF OwnedByClients
  <2> QED
    BY <2>3, <2>4
<1> QED
  BY <1>1, <1>2, <1>3, PTL DEF LoopSpec

------------------------------------------------------------------------------
(* Rings.  A place of the tape is the place of the storage that it is      *)
(* congruent to: in a window of a capacity, no two are the same.           *)

Along(memory, from, length) == [i \in 1 .. length |-> memory[(from + i - 1) % RingCapacity]]

RingsInv ==
    /\ num_popped_ \in Nat /\ bytes_pushed_ \in Nat /\ bytes_popped_ \in Nat
    /\ bytes_popped_ <= bytes_pushed_ /\ bytes_pushed_ <= bytes_popped_ + RingCapacity

LEMMA RegionIsAlong ==
    ASSUME NEW memory, NEW from \in Nat, NEW n \in 0 .. RingCapacity
    PROVE  SubSeq(storage(memory, from % RingCapacity), 1, n) = Along(memory, from, n)
<1> DEFINE C == RingCapacity
           region == storage(memory, from % C)
<1>1. C \in Nat \ {0} /\ from % C \in Nat
  BY EndlessConstants
<1>2. region = [i \in 1 .. C |-> memory[((from % C) + i - 1) % C]]
  BY DEF storage
<1>3. \A i \in 1 .. C : ((from % C) + i - 1) % C = (from + i - 1) % C
  <2> SUFFICES ASSUME NEW i \in 1 .. C PROVE ((from % C) + i - 1) % C = (from + i - 1) % C
    OBVIOUS
  <2> DEFINE j == i - 1
  <2>1. j \in Int /\ (from % C) + i - 1 = (from % C) + j /\ from + i - 1 = from + j
        /\ from \in Int
    BY <1>1
  <2> HIDE DEF j, C
  <2>2. ((from % C) + j) % C = (from + j) % C
    BY <2>1, <1>1, RoundTheRing
  <2> QED
    BY <2>1, <2>2
<1>4. region = Along(memory, from, C)
  BY <1>2, <1>3 DEF Along
<1> HIDE DEF region
<1>5. SubSeq(region, 1, n) = [i \in 1 .. n |-> region[i]]
  BY <1>1, <1>4 DEF Along
<1>6. \A i \in 1 .. n : i \in 1 .. C
  BY <1>1
<1> QED
  BY <1>4, <1>5, <1>6 DEF region, Along

LEMMA WindowIsAlong ==
    ASSUME NEW memory, NEW from \in Nat
    PROVE  [i \in 1 .. RingCapacity |->
               IF from + i - 1 < from \/ from + i - 1 >= from + RingCapacity THEN 0
               ELSE storage(memory, from % RingCapacity)[from + i - 1 - from + 1]]
           = Along(memory, from, RingCapacity)
<1> DEFINE C == RingCapacity
           region == storage(memory, from % C)
<1>1. C \in Nat \ {0}
  BY EndlessConstants
<1>2. \A i \in 1 .. C : /\ ~(from + i - 1 < from \/ from + i - 1 >= from + C)
                        /\ from + i - 1 - from + 1 = i
  BY <1>1
<1>3. region = [i \in 1 .. C |-> region[i]]
  BY DEF storage
<1>4. SubSeq(region, 1, C) = region
  BY <1>1 DEF storage
<1>5. region = Along(memory, from, C)
  BY <1>1, <1>4, RegionIsAlong
<1> HIDE DEF region
<1> QED
  BY <1>2, <1>5 DEF Along, region

(* What is stored from a position on is read there, and what is read       *)
(* elsewhere in the capacity from there on is as it was.                   *)
Spot(x) == x % RingCapacity
Behind(x, from, j) == \E m \in Int : x = from + j + RingCapacity * m

LEMMA StoredAt ==
    ASSUME NEW memory, NEW from \in Nat, NEW piece, Len(piece) \in 0 .. RingCapacity,
           NEW x \in Int, NEW j \in 0 .. RingCapacity - 1, Behind(x, from, j)
    PROVE  Stored(memory, Spot(from), piece)[Spot(x)] =
               IF j < Len(piece) THEN piece[j + 1] ELSE memory[Spot(x)]
<1> PICK m \in Int : x = from + j + RingCapacity * m
  BY DEF Behind
<1> DEFINE C == RingCapacity
           p == x % C
           q == x \div C
           r == from % C
           s == from \div C
           t == (q - s) - m
<1>1. C \in Nat \ {0} /\ x \in Int /\ from \in Int /\ j \in 0 .. C - 1
  BY EndlessConstants
<1>2. p \in 0 .. C - 1 /\ q \in Int /\ x = C * q + p
  BY <1>1, Quotient
<1>3. r \in 0 .. C - 1 /\ s \in Int /\ from = C * s + r
  BY <1>1, Quotient
<1> HIDE DEF C, p, q, r, s
<1>4. C * (q - s) = C * q - C * s /\ C * ((q - s) - m) = C * (q - s) - C * m
  <2>1. q - s \in Int /\ (q - s) - m \in Int
    BY <1>2, <1>3
  <2>2. C * ((q - s) + s) = C * (q - s) + C * s /\ (q - s) + s = q
    BY <1>1, <1>2, <1>3, <2>1, Distributes
  <2>3. C * (((q - s) - m) + m) = C * ((q - s) - m) + C * m /\ ((q - s) - m) + m = q - s
    BY <1>1, <1>2, <1>3, <2>1, Distributes
  <2>4. C * q \in Int /\ C * s \in Int /\ C * m \in Int /\ C * (q - s) \in Int
        /\ C * ((q - s) - m) \in Int
    BY <1>1, <1>2, <1>3, <2>1
  <2> QED
    BY SMTT(30), <2>2, <2>3, <2>4
<1>5. C * t + (p - r) = j /\ t \in Int
  <2>1. C * t = C * q - C * s - C * m
    BY <1>1, <1>2, <1>3, <1>4
  <2>2. x = from + j + C * m /\ C * q \in Int /\ C * s \in Int /\ C * m \in Int
    BY <1>1, <1>2, <1>3 DEF C
  <2> QED
    BY <2>1, <2>2, <1>1, <1>2, <1>3
<1> HIDE DEF t
<1>6. (p - r) % C = j
  <2> DEFINE d == p - r
             u == 0 - t
  <2>1. d \in Int /\ u \in Int /\ j \in 0 .. C - 1 /\ C * u = 0 - C * t /\ C * t \in Int
    <3>1. C \in Int /\ t \in Int /\ u \in Int /\ d \in Int /\ u + t = 0
      BY <1>1, <1>2, <1>3, <1>5
    <3> HIDE DEF u, d
    <3>2. C * (u + t) = C * u + C * t
      BY <3>1, Distributes
    <3>3. C * u \in Int /\ C * t \in Int /\ C * 0 = 0
      BY <3>1
    <3> QED
      BY <3>1, <3>2, <3>3, <1>1
  <2>2. d = C * u + j
    <3>1. C * t + d = j
      BY <1>5
    <3> HIDE DEF d, u
    <3> QED
      BY <3>1, <2>1
  <2> HIDE DEF d, u
  <2>3. C \in Nat \ {0} /\ u \in Int /\ j \in 0 .. C - 1 /\ d \in Int
    BY <1>1, <2>1
  <2> HIDE DEF C
  <2>4. d % C = j
    BY <2>2, <2>3, Remainder
  <2> QED
    BY <2>4 DEF d
<1>7. p \in Places /\ Stored(memory, r, piece)[p] = IF j + 1 <= Len(piece) THEN piece[j + 1] ELSE memory[p]
  BY <1>2, <1>6 DEF Stored, Places, C
<1>8. j + 1 <= Len(piece) <=> j < Len(piece)
  BY <1>1
<1> QED
  BY <1>7, <1>8 DEF p, r, C, Spot

(* The steps, in terms of the tape and the queue.                          *)
LEMMA WriteStores ==
    ASSUME RingsInv, NEW pos \in Nat, NEW value, range_begin <= pos, pos < range_end,
           safe_set(pos, value)
    PROVE  \E i \in 1 .. RingCapacity :
              Along(endless', num_popped_, RingCapacity)
                  = [Along(endless, num_popped_, RingCapacity) EXCEPT ![i] = value]
<1> DEFINE C == RingCapacity
           f == num_popped_
           k == pos - f + 1
<1>1. C \in Nat \ {0} /\ f \in Nat /\ k \in 1 .. C /\ pos = f + k - 1
  BY EndlessConstants DEF RingsInv, range_begin, range_end
<1>2. endless' = Stored(endless, pos % C, <<value>>)
  <2>1. ~(pos < range_begin \/ pos >= range_end)
    BY <1>1 DEF range_begin, range_end
  <2> QED
    BY <2>1 DEF safe_set
<1> HIDE DEF C, f, k
<1>3. ASSUME NEW i \in 1 .. C
      PROVE  endless'[(f + i - 1) % C] = IF i = k THEN value ELSE endless[(f + i - 1) % C]
  <2> DEFINE x == f + i - 1
             piece == <<value>>
  <2>1. Len(piece) = 1 /\ piece[1] = value /\ 1 \in 0 .. C
    BY <1>1
  <2>2. PICK j \in 0 .. C - 1, m \in Int : x = pos + j + C * m /\ (j = 0 <=> i = k)
    <3>1. CASE i >= k
      <4>1. i - k \in 0 .. C - 1 /\ x = pos + (i - k) + C * 0 /\ (i - k = 0 <=> i = k)
        BY <3>1, <1>1
      <4> QED
        BY <4>1
    <3>2. CASE i < k
      <4>1. i - k + C \in 0 .. C - 1 /\ x = pos + (i - k + C) + C * (0 - 1)
            /\ (i - k + C = 0 <=> i = k)
        BY <3>2, <1>1
      <4> QED
        BY <4>1
    <3> QED
      BY <3>1, <3>2, <1>1
  <2>3. Behind(x, pos, j)
    BY <2>2 DEF Behind, C
  <2>6. x \in Int
    BY <1>1
  <2> HIDE DEF x, piece
  <2>4. Stored(endless, Spot(pos), piece)[Spot(x)] = IF j < 1 THEN piece[j + 1] ELSE endless[Spot(x)]
    <3>1. Len(piece) \in 0 .. RingCapacity /\ Len(piece) = 1
      BY <1>1, <2>1 DEF C
    <3>2. pos \in Nat /\ x \in Int /\ j \in 0 .. RingCapacity - 1 /\ Behind(x, pos, j)
      BY <2>2, <2>3, <2>6 DEF C
    <3>3. Stored(endless, Spot(pos), piece)[Spot(x)] =
              IF j < Len(piece) THEN piece[j + 1] ELSE endless[Spot(x)]
      BY <3>1, <3>2, StoredAt
    <3> QED
      BY <3>1, <3>3
  <2>5. (j < 1 <=> i = k) /\ (i = k => j + 1 = 1)
    BY <2>2, <1>1
  <2> QED
    BY <2>1, <2>4, <2>5, <1>2 DEF x, piece, Spot, C
<1>4. Along(endless', f, C) = [Along(endless, f, C) EXCEPT ![k] = value]
  BY <1>1, <1>3 DEF Along, C
<1> QED
  BY <1>1, <1>4 DEF C, f

LEMMA PopErases ==
    ASSUME RingsInv, NEW n \in Nat \ {0}, pop_endless(n)
    PROVE  Along(endless', num_popped_ + n, RingCapacity) =
               [i \in 1 .. RingCapacity |->
                   IF i + n <= RingCapacity
                   THEN Along(endless, num_popped_, RingCapacity)[i + n] ELSE 0]
<1> DEFINE C == RingCapacity
           f == num_popped_
           L == IF n < C THEN n ELSE C
           zeros == [i \in 1 .. L |-> 0]
<1>1. C \in Nat \ {0} /\ f \in Nat /\ L \in 0 .. C
  BY EndlessConstants DEF RingsInv
<1>2. endless' = Stored(endless, f % C, zeros)
  <2>1. Min({n, C}) = L
    BY <1>1, MinMax
  <2> QED
    BY <2>1 DEF pop_endless, Erased
<1>3. Len(zeros) = L /\ \A j \in 0 .. L - 1 : zeros[j + 1] = 0
  BY <1>1
<1> HIDE DEF C, f, L, zeros
<1>4. ASSUME NEW x \in Int, NEW j \in 0 .. C - 1, Behind(x, f, j)
      PROVE  endless'[x % C] = IF j < L THEN 0 ELSE endless[x % C]
  <2>1. Stored(endless, Spot(f), zeros)[Spot(x)] = IF j < L THEN zeros[j + 1] ELSE endless[Spot(x)]
    <3>1. Len(zeros) \in 0 .. RingCapacity /\ Len(zeros) = L
      BY <1>1, <1>3 DEF C
    <3>2. f \in Nat /\ x \in Int /\ j \in 0 .. RingCapacity - 1 /\ Behind(x, f, j)
      BY <1>1, <1>4 DEF C
    <3>3. Stored(endless, Spot(f), zeros)[Spot(x)] =
              IF j < Len(zeros) THEN zeros[j + 1] ELSE endless[Spot(x)]
      BY <3>1, <3>2, StoredAt
    <3> QED
      BY <3>1, <3>3
  <2>2. j < L => zeros[j + 1] = 0
    BY <1>1, <1>3, <1>4
  <2> QED
    BY <2>1, <2>2, <1>2 DEF Spot, C
<1>5. ASSUME NEW i \in 1 .. C
      PROVE  endless'[(f + n + i - 1) % C] =
                 IF i + n <= C THEN endless[(f + (i + n) - 1) % C] ELSE 0
  <2> DEFINE x == f + n + i - 1
             a == n + i - 1
  <2>1. x \in Int /\ x = f + a /\ a \in Nat /\ x = f + (i + n) - 1
    BY <1>1
  <2>2. CASE i + n <= C
    <3>1. a \in 0 .. C - 1 /\ x = f + a + C * 0 /\ ~(a < L)
      BY <2>2, <1>1 DEF L
    <3>3. Behind(x, f, a)
      BY <3>1, <2>1, 0 \in Int DEF Behind, C
    <3> HIDE DEF x, a
    <3>2. endless'[x % C] = endless[x % C]
      BY <3>1, <3>3, <2>1, <1>4
    <3> QED
      BY <3>2, <2>1, <2>2 DEF x
  <2>3. CASE i + n > C /\ n < C
    <3> DEFINE j == a - C
    <3>1. j \in 0 .. C - 1 /\ x = f + j + C * 1 /\ j < L
      BY <2>3, <1>1 DEF L
    <3>3. Behind(x, f, j)
      BY <3>1, <2>1, 1 \in Int DEF Behind, C
    <3> HIDE DEF x, a, j
    <3>2. endless'[x % C] = 0
      BY <3>1, <3>3, <2>1, <1>4
    <3> QED
      BY <3>2, <2>3, <1>1 DEF x
  <2>4. CASE n >= C
    <3> DEFINE j == a % C
               m == a \div C
    <3>2. L = C
      BY <2>4, <1>1 DEF L
    <3> HIDE DEF x, a
    <3>1. j \in 0 .. C - 1 /\ m \in Int /\ a = C * m + j
      <4>1. a \in Int
        BY <2>1
      <4> QED
        BY <4>1, <1>1, Quotient
    <3> HIDE DEF j, m
    <3>3. j < L /\ x = f + j + C * m
      <4>1. C * m \in Int
        BY <3>1, <1>1
      <4> QED
        BY <4>1, <3>1, <3>2, <2>1, <1>1
    <3>6. Behind(x, f, j)
      BY <3>1, <3>3, <2>1 DEF Behind, C
    <3>4. endless'[x % C] = 0
      BY <3>1, <3>3, <3>6, <2>1, <1>4
    <3>5. ~(i + n <= C)
      BY <2>4, <1>1
    <3> QED
      BY <3>4, <3>5 DEF x
  <2> QED
    BY <2>2, <2>3, <2>4, <1>1
<1>6. \A i \in 1 .. C : i + n <= C => Along(endless, f, C)[i + n] = endless[(f + (i + n) - 1) % C]
  <2> SUFFICES ASSUME NEW i \in 1 .. C, i + n <= C
               PROVE  Along(endless, f, C)[i + n] = endless[(f + (i + n) - 1) % C]
    OBVIOUS
  <2>1. i + n \in 1 .. C
    BY <1>1
  <2> QED
    BY <2>1 DEF Along, C
<1>7. Along(endless', f + n, C) = [i \in 1 .. C |-> endless'[(f + n + i - 1) % C]]
  BY DEF Along, C
<1>8. Along(endless', f + n, C) =
          [i \in 1 .. C |-> IF i + n <= C THEN Along(endless, f, C)[i + n] ELSE 0]
  BY <1>5, <1>6, <1>7
<1> QED
  BY <1>8 DEF C, f

LEMMA PushAppends ==
    ASSUME RingsInv, NEW str, Len(str) \in Nat, str \in Seq(Elements), push_from_const_str(str)
    PROVE  LET stored == bytes_pushed_ - bytes_popped_ IN
           /\ bytes_pushed_' - bytes_pushed_ \in 0 .. RingCapacity - stored
           /\ bytes_popped_' = bytes_popped_
           /\ Along(ring', bytes_popped_, stored) = Along(ring, bytes_popped_, stored)
<1> DEFINE C == RingCapacity
           stored == bytes_pushed_ - bytes_popped_
           L == IF Len(str) < C - stored THEN Len(str) ELSE C - stored
           piece == SubSeq(str, 1, L)
<1>1. /\ C \in Nat \ {0} /\ stored \in 0 .. C /\ L \in 0 .. C - stored
      /\ bytes_pushed_ \in Nat /\ bytes_popped_ \in Nat
  BY EndlessConstants DEF RingsInv
<1>2. /\ ring' = Stored(ring, bytes_pushed_ % C, piece)
      /\ bytes_pushed_' = bytes_pushed_ + L /\ bytes_popped_' = bytes_popped_
  <2>1. room = C - stored /\ C - stored \in Nat
    BY <1>1 DEF room, bytes_stored
  <2>2. Min({Len(str), room}) = L
    BY <2>1, MinMax
  <2> QED
    BY <2>2 DEF push_from_const_str
<1>3. Len(piece) = L
  BY <1>1
<1> HIDE DEF C, piece, L
<1>4. ASSUME NEW i \in 1 .. stored
      PROVE  ring'[(bytes_popped_ + i - 1) % C] = ring[(bytes_popped_ + i - 1) % C]
  <2> DEFINE x == bytes_popped_ + i - 1
             j == i - 1 - stored + C
  <2>1. x \in Int /\ j \in 0 .. C - 1 /\ x = bytes_pushed_ + j + C * (0 - 1) /\ ~(j < L)
        /\ 0 - 1 \in Int
    <3>1. C * (0 - 1) = 0 - C
      BY <1>1
    <3> QED
      BY <3>1, <1>1
  <2>3. Behind(x, bytes_pushed_, j)
    BY <2>1 DEF Behind, C
  <2> HIDE DEF x, j
  <2>2. Stored(ring, Spot(bytes_pushed_), piece)[Spot(x)] =
            IF j < L THEN piece[j + 1] ELSE ring[Spot(x)]
    <3>1. Len(piece) \in 0 .. RingCapacity /\ Len(piece) = L
      BY <1>1, <1>3 DEF C
    <3>2. /\ bytes_pushed_ \in Nat /\ x \in Int /\ j \in 0 .. RingCapacity - 1
          /\ Behind(x, bytes_pushed_, j)
      BY <1>1, <2>1, <2>3 DEF C
    <3>3. Stored(ring, Spot(bytes_pushed_), piece)[Spot(x)] =
              IF j < Len(piece) THEN piece[j + 1] ELSE ring[Spot(x)]
      BY <3>1, <3>2, StoredAt
    <3> QED
      BY <3>1, <3>3
  <2> QED
    BY <2>1, <2>2, <1>2 DEF x, Spot, C
<1>5. Along(ring', bytes_popped_, stored) = Along(ring, bytes_popped_, stored)
  BY <1>4 DEF Along, C
<1>6. bytes_pushed_' - bytes_pushed_ = L
  BY <1>1, <1>2
<1> QED
  BY <1>1, <1>2, <1>5, <1>6 DEF C

LEMMA RingsStart == RingsInit => RingsInv
  BY EndlessConstants DEF RingsInit, RingsInv

LEMMA MappedTo ==
    ASSUME RingsInv
    PROVE  /\ [i \in 1 .. RingCapacity |-> safe_get(range_begin + i - 1)]
                  = Along(endless, num_popped_, RingCapacity)
           /\ readable_region = Along(ring, bytes_popped_, bytes_pushed_ - bytes_popped_)
<1>1. num_popped_ \in Nat /\ bytes_popped_ \in Nat
      /\ bytes_pushed_ - bytes_popped_ \in 0 .. RingCapacity
  BY EndlessConstants DEF RingsInv
<1>2. [i \in 1 .. RingCapacity |-> safe_get(range_begin + i - 1)]
          = Along(endless, num_popped_, RingCapacity)
  BY <1>1, WindowIsAlong DEF safe_get, range_begin, range_end
<1>3. readable_region = Along(ring, bytes_popped_, bytes_pushed_ - bytes_popped_)
  BY <1>1, RegionIsAlong DEF readable_region, bytes_stored
<1> QED
  BY <1>2, <1>3

LEMMA RingsNextKeepsInv == RingsInv /\ [RingsNext]_rings_vars => RingsInv'
<1> SUFFICES ASSUME RingsInv, [RingsNext]_rings_vars PROVE RingsInv'
  OBVIOUS
<1>1. ASSUME NEW pos \in 0 .. MaxPosition, NEW value \in Elements, safe_set(pos, value)
      PROVE  RingsInv'
  BY <1>1 DEF safe_set, fifo_vars, RingsInv
<1>2. ASSUME NEW n \in Nat, pop_endless(n) PROVE RingsInv'
  BY <1>2 DEF pop_endless, fifo_vars, RingsInv
<1>3. ASSUME NEW index \in 0 .. MaxPosition, pop_before(index) PROVE RingsInv'
  <2>1. CASE index <= range_begin
    BY <2>1, <1>3 DEF pop_before, rings_vars, endless_vars, fifo_vars, RingsInv
  <2>2. CASE ~(index <= range_begin)
    <3>1. index - range_begin \in Nat
      BY <2>2, EndlessConstants DEF RingsInv, range_begin
    <3> QED
      BY <3>1, <2>2, <1>2, <1>3 DEF pop_before
  <2> QED
    BY <2>1, <2>2
<1>4. ASSUME NEW str \in Seq(Elements), push_from_const_str(str) PROVE RingsInv'
  <2>1. Len(str) \in Nat
    OBVIOUS
  <2>2. num_popped_' = num_popped_ /\ bytes_pushed_' = bytes_pushed_ + Min({Len(str), room})
    BY <1>4 DEF push_from_const_str, endless_vars
  <2>3. /\ bytes_pushed_' - bytes_pushed_ \in 0 .. RingCapacity - (bytes_pushed_ - bytes_popped_)
        /\ bytes_popped_' = bytes_popped_
    BY <2>1, <1>4, PushAppends
  <2>4. bytes_pushed_' \in Nat
    <3>1. room \in Nat
      BY EndlessConstants DEF room, bytes_stored, RingsInv
    <3>2. Min({Len(str), room}) \in Nat
      BY <3>1, <2>1, MinMax
    <3> QED
      BY <3>2, <2>2 DEF RingsInv
  <2> QED
    BY <2>2, <2>3, <2>4, EndlessConstants DEF RingsInv
<1>5. ASSUME NEW n \in 1 .. RingCapacity, pop(n) PROVE RingsInv'
  BY <1>5, EndlessConstants DEF pop, endless_vars, bytes_stored, RingsInv
<1>6. CASE UNCHANGED rings_vars
  BY <1>6 DEF rings_vars, endless_vars, fifo_vars, RingsInv
<1>7. ASSUME NEW n \in 1 .. MaxPosition - num_popped_, pop_endless(n) PROVE RingsInv'
  <2>1. n \in Nat
    OBVIOUS
  <2> QED
    BY <2>1, <1>2, <1>7
<1>8. ASSUME NEW b \in Elements, NEW c \in Elements, NEW n \in 0 .. 2,
             \/ push_from_const_str(SubSeq(<<b, c>>, 1, n))
             \/ push_from_fd(SubSeq(<<b, c>>, 1, n))
      PROVE  RingsInv'
  <2>1. SubSeq(<<b, c>>, 1, n) \in Seq(Elements)
    OBVIOUS
  <2>2. push_from_const_str(SubSeq(<<b, c>>, 1, n))
    BY <1>8 DEF push_from_fd
  <2> QED
    BY <2>1, <2>2, <1>4
<1> QED
  BY <1>1, <1>3, <1>5, <1>6, <1>7, <1>8 DEF RingsNext

(* Every step of the rings is one of the contents, or none.                *)
TapeWindow == [i \in 1 .. RingCapacity |-> safe_get(range_begin + i - 1)]

LEMMA TapeIsAlong ==
    ASSUME num_popped_ \in Nat, num_popped_' \in Nat
    PROVE  /\ TapeWindow = Along(endless, num_popped_, RingCapacity)
           /\ TapeWindow' = Along(endless', num_popped_', RingCapacity)
<1>1. TapeWindow = Along(endless, num_popped_, RingCapacity)
  BY WindowIsAlong DEF TapeWindow, safe_get, range_begin, range_end
<1>2. TapeWindow' = Along(endless', num_popped_', RingCapacity)
  <2>1. TapeWindow' =
            [i \in 1 .. RingCapacity |->
               IF num_popped_' + i - 1 < num_popped_' \/ num_popped_' + i - 1 >= num_popped_' + RingCapacity THEN 0
               ELSE storage(endless', num_popped_' % RingCapacity)[num_popped_' + i - 1 - num_popped_' + 1]]
    BY DEF TapeWindow, safe_get, range_begin, range_end
  <2> QED
    BY <2>1, WindowIsAlong
<1> QED
  BY <1>1, <1>2

LEMMA WriteIsWrite ==
    ASSUME RingsInv, RingsInv', NEW pos \in Nat, NEW value \in Elements, safe_set(pos, value)
    PROVE  [Contents!ContentsNext]_(Contents!contents_vars)
<1>1. num_popped_' = num_popped_ /\ UNCHANGED <<ring, bytes_pushed_, bytes_popped_>>
  BY DEF safe_set, fifo_vars
<1>2. readable_region' = readable_region
  BY <1>1 DEF readable_region, storage, bytes_stored
<1>3. /\ TapeWindow = Along(endless, num_popped_, RingCapacity)
      /\ TapeWindow' = Along(endless', num_popped_', RingCapacity)
  <2>1. num_popped_ \in Nat /\ num_popped_' \in Nat
    BY DEF RingsInv
  <2> QED
    BY <2>1, TapeIsAlong
<1>4. CASE pos < range_begin \/ pos >= range_end
  <2>1. endless' = endless
    BY <1>4 DEF safe_set
  <2>2. TapeWindow' = TapeWindow
    BY <2>1, <1>1, <1>3
  <2> QED
    BY <2>2, <1>1, <1>2 DEF Contents!contents_vars, TapeWindow
<1>5. CASE ~(pos < range_begin \/ pos >= range_end)
  <2>1. range_begin <= pos /\ pos < range_end
    BY <1>5, EndlessConstants DEF RingsInv, range_begin, range_end
  <2>2. PICK i \in 1 .. RingCapacity :
            Along(endless', num_popped_, RingCapacity)
                = [Along(endless, num_popped_, RingCapacity) EXCEPT ![i] = value]
    BY <2>1, WriteStores
  <2>3. TapeWindow' = [TapeWindow EXCEPT ![i] = value]
    BY <2>2, <1>1, <1>3
  <2>4. Contents!Write
    BY <2>3, <1>1, <1>2 DEF Contents!Write, TapeWindow
  <2> QED
    BY <2>4 DEF Contents!ContentsNext
<1> QED
  BY <1>4, <1>5

LEMMA PopIsAdvance ==
    ASSUME RingsInv, RingsInv', NEW n \in Nat \ {0}, pop_endless(n)
    PROVE  Contents!Advance
<1>1. num_popped_' = num_popped_ + n /\ UNCHANGED <<ring, bytes_pushed_, bytes_popped_>>
  BY DEF pop_endless, fifo_vars
<1>2. readable_region' = readable_region
  BY <1>1 DEF readable_region, storage, bytes_stored
<1>3. num_popped_ \in Nat /\ num_popped_' \in Nat
  BY DEF RingsInv
<1>4. /\ TapeWindow = Along(endless, num_popped_, RingCapacity)
      /\ TapeWindow' = Along(endless', num_popped_', RingCapacity)
  BY <1>3, TapeIsAlong
<1>5. TapeWindow' = [i \in 1 .. RingCapacity |->
                        IF i + n <= RingCapacity THEN TapeWindow[i + n] ELSE 0]
  BY <1>1, <1>4, PopErases
<1>6. \A i \in 1 .. RingCapacity : i + num_popped_' - num_popped_ = i + n
  BY <1>1, <1>3, EndlessConstants
<1>7. TapeWindow' = [i \in 1 .. RingCapacity |->
                        IF i + num_popped_' - num_popped_ <= RingCapacity
                        THEN TapeWindow[i + num_popped_' - num_popped_] ELSE 0]
  BY <1>5, <1>6
<1>8. num_popped_' > num_popped_
  BY <1>1, <1>3
<1> QED
  BY <1>2, <1>7, <1>8 DEF Contents!Advance, TapeWindow

LEMMA PushIsPut ==
    ASSUME RingsInv, RingsInv', NEW str \in Seq(Elements), push_from_const_str(str)
    PROVE  [Contents!ContentsNext]_(Contents!contents_vars)
<1> DEFINE stored == bytes_pushed_ - bytes_popped_
           more == bytes_pushed_' - bytes_pushed_
           new == Along(ring', bytes_popped_, stored + more)
<1>1. num_popped_' = num_popped_ /\ endless' = endless
  BY DEF push_from_const_str, endless_vars
<1>2. TapeWindow' = TapeWindow
  BY <1>1 DEF TapeWindow, safe_get, range_begin, range_end, storage
<1>3. /\ Len(str) \in Nat /\ more \in 0 .. RingCapacity - stored /\ bytes_popped_' = bytes_popped_
      /\ Along(ring', bytes_popped_, stored) = Along(ring, bytes_popped_, stored)
  <2>1. Len(str) \in Nat
    OBVIOUS
  <2> QED
    BY <2>1, PushAppends
<1>4. /\ stored \in 0 .. RingCapacity /\ stored + more \in 0 .. RingCapacity
      /\ bytes_pushed_' - bytes_popped_' = stored + more
      /\ bytes_popped_ \in Nat /\ bytes_popped_' \in Nat /\ RingCapacity \in Nat
  <2>1. /\ bytes_popped_ \in Nat /\ bytes_popped_' \in Nat /\ RingCapacity \in Nat
        /\ bytes_pushed_ \in Nat /\ bytes_pushed_' \in Nat
    BY EndlessConstants DEF RingsInv
  <2>2. /\ bytes_popped_ <= bytes_pushed_ /\ bytes_pushed_ <= bytes_popped_ + RingCapacity
    BY DEF RingsInv
  <2>3. stored \in 0 .. RingCapacity
    BY <2>1, <2>2
  <2>4. more \in 0 .. RingCapacity - stored /\ bytes_popped_' = bytes_popped_
    BY <1>3
  <2>5. bytes_pushed_' - bytes_popped_' = stored + more
    BY <2>1, <2>4
  <2> HIDE DEF stored, more
  <2>6. stored + more \in 0 .. RingCapacity
    BY <2>1, <2>3, <2>4
  <2> QED
    BY <2>1, <2>3, <2>5, <2>6
<1>5. readable_region = Along(ring, bytes_popped_, stored)
  BY <1>4, RegionIsAlong DEF readable_region, bytes_stored
<1>6. readable_region' = new
  <2>1. SubSeq(storage(ring', bytes_popped_' % RingCapacity), 1, stored + more) = new
    BY <1>3, <1>4, RegionIsAlong
  <2> QED
    BY <2>1, <1>4 DEF readable_region, bytes_stored
<1> HIDE DEF stored, more
<1>7. /\ Len(readable_region) = stored /\ Len(new) = stored + more
      /\ readable_region = SubSeq(new, 1, stored)
  <2>1. Len(readable_region) = stored /\ Len(new) = stored + more
    BY <1>3, <1>4, <1>5 DEF Along
  <2>2. SubSeq(new, 1, stored) = [i \in 1 .. stored |-> new[i]]
    BY <1>3, <1>4 DEF Along
  <2>3. \A i \in 1 .. stored : new[i] = Along(ring', bytes_popped_, stored)[i]
    BY <1>3, <1>4 DEF Along
  <2>4. Along(ring', bytes_popped_, stored) =
            [i \in 1 .. stored |-> Along(ring', bytes_popped_, stored)[i]]
    BY <1>4 DEF Along
  <2> QED
    BY <2>1, <2>2, <2>3, <2>4, <1>3, <1>5
<1> HIDE DEF new
<1>8. CASE more = 0
  <2>1. readable_region' = readable_region
    <3>1. stored + more = stored
      BY <1>8, <1>4
    <3> QED
      BY <3>1, <1>3, <1>5, <1>6 DEF new
  <2> QED
    BY <2>1, <1>1, <1>2 DEF Contents!contents_vars, TapeWindow
<1>9. CASE more # 0
  <2>1. Len(readable_region') > Len(readable_region) /\ Len(readable_region') <= RingCapacity
    BY <1>9, <1>3, <1>4, <1>6, <1>7
  <2>2. readable_region = SubSeq(readable_region', 1, Len(readable_region))
    BY <1>6, <1>7
  <2>3. Contents!Put
    BY <2>1, <2>2, <1>1, <1>2 DEF Contents!Put, TapeWindow
  <2> QED
    BY <2>3 DEF Contents!ContentsNext
<1> QED
  BY <1>8, <1>9

LEMMA PopIsGet ==
    ASSUME RingsInv, RingsInv', NEW n \in 1 .. RingCapacity, pop(n)
    PROVE  Contents!Get
<1> DEFINE stored == bytes_pushed_ - bytes_popped_
           f == bytes_popped_
<1>1. /\ num_popped_' = num_popped_ /\ endless' = endless /\ ring' = ring
      /\ bytes_pushed_' = bytes_pushed_ /\ bytes_popped_' = f + n /\ n <= stored
  BY DEF pop, endless_vars, bytes_stored
<1>2. TapeWindow' = TapeWindow
  BY <1>1 DEF TapeWindow, safe_get, range_begin, range_end, storage
<1>3. /\ stored \in 0 .. RingCapacity /\ f \in Nat /\ RingCapacity \in Nat
      /\ stored - n \in 0 .. RingCapacity /\ n \in 1 .. stored /\ f + n \in Nat
      /\ bytes_pushed_' - bytes_popped_' = stored - n
  BY <1>1, EndlessConstants DEF RingsInv
<1>4. readable_region = Along(ring, f, stored)
  BY <1>3, RegionIsAlong DEF readable_region, bytes_stored
<1>5. readable_region' = Along(ring, f + n, stored - n)
  <2>1. SubSeq(storage(ring, (f + n) % RingCapacity), 1, stored - n) = Along(ring, f + n, stored - n)
    BY <1>3, RegionIsAlong
  <2> QED
    BY <2>1, <1>1, <1>3 DEF readable_region, bytes_stored
<1> HIDE DEF stored, f
<1>6. Len(readable_region) = stored
  BY <1>3, <1>4 DEF Along
<1>7. SubSeq(readable_region, n + 1, stored) = Along(ring, f + n, stored - n)
  <2> DEFINE s == Along(ring, f, stored)
             t == SubSeq(s, n + 1, stored)
  <2>1. /\ Len(s) = stored /\ s = [i \in 1 .. stored |-> ring[(f + i - 1) % RingCapacity]]
    BY <1>3 DEF Along
  <2>2. t = [i \in 1 .. stored - n |-> s[i + n]]
    BY <2>1, <1>3
  <2>3. ASSUME NEW i \in 1 .. stored - n
        PROVE  s[i + n] = ring[(f + n + i - 1) % RingCapacity]
    <3>1. i + n \in 1 .. stored /\ f + (i + n) - 1 = f + n + i - 1
      BY <1>3
    <3>2. s[i + n] = ring[(f + (i + n) - 1) % RingCapacity]
      BY <3>1, <2>1
    <3> QED
      BY <3>1, <3>2
  <2>4. Along(ring, f + n, stored - n) =
            [i \in 1 .. stored - n |-> ring[(f + n + i - 1) % RingCapacity]]
    BY DEF Along
  <2> HIDE DEF s
  <2> QED
    BY <2>2, <2>3, <2>4, <1>4 DEF s
<1>8. \E m \in 1 .. Len(readable_region) :
          readable_region' = SubSeq(readable_region, m + 1, Len(readable_region))
  BY <1>3, <1>5, <1>6, <1>7
<1> QED
  BY <1>8, <1>1, <1>2 DEF Contents!Get, TapeWindow

(* Rings run over the ends of their storage and behave as if there were    *)
(* none: what is read of an EndlessBuffer's tape was written there or is   *)
(* blank, and what a RingBuffer holds keeps its order and all its bytes    *)
(* until it is read (ring_buffer.hh, typed_ring_buffer.hh).                *)
THEOREM RingsBehaveAsEndless == RingsSpec => RingsAreEndless
<1>1. RingsInit => Contents!ContentsInit
  <2> SUFFICES ASSUME RingsInit PROVE Contents!ContentsInit
    OBVIOUS
  <2>1. /\ endless = [p \in Places |-> 0] /\ num_popped_ = 0
        /\ bytes_pushed_ = 0 /\ bytes_popped_ = 0
    BY DEF RingsInit
  <2>2. RingsInv
    BY RingsStart
  <2>3. TapeWindow = Along(endless, 0, RingCapacity) /\ readable_region = Along(ring, 0, 0)
    BY <2>1, <2>2, MappedTo DEF TapeWindow
  <2>4. \A i \in 1 .. RingCapacity : endless[(0 + i - 1) % RingCapacity] = 0
    <3> SUFFICES ASSUME NEW i \in 1 .. RingCapacity
                 PROVE  endless[(0 + i - 1) % RingCapacity] = 0
      OBVIOUS
    <3> DEFINE x == 0 + i - 1
    <3>1. RingCapacity \in Nat \ {0} /\ x \in Int
      BY EndlessConstants
    <3> HIDE DEF x
    <3>2. x % RingCapacity \in 0 .. RingCapacity - 1
      BY <3>1, Quotient
    <3> QED
      BY <3>2, <2>1 DEF Places, x
  <2>5. TapeWindow = [i \in 1 .. RingCapacity |-> 0]
    BY <2>3, <2>4 DEF Along
  <2>6. readable_region = << >>
    BY <2>3 DEF Along
  <2> QED
    BY <2>1, <2>5, <2>6 DEF Contents!ContentsInit, TapeWindow
<1>2. RingsInv /\ RingsInv' /\ [RingsNext]_rings_vars
          => [Contents!ContentsNext]_(Contents!contents_vars)
  <2> SUFFICES ASSUME RingsInv, RingsInv', [RingsNext]_rings_vars
               PROVE  [Contents!ContentsNext]_(Contents!contents_vars)
    OBVIOUS
  <2>1. ASSUME NEW pos \in 0 .. MaxPosition, NEW value \in Elements, safe_set(pos, value)
        PROVE  [Contents!ContentsNext]_(Contents!contents_vars)
    <3>1. pos \in Nat
      BY EndlessConstants
    <3> QED
      BY <3>1, <2>1, WriteIsWrite
  <2>2. ASSUME NEW n \in Nat \ {0}, pop_endless(n)
        PROVE  [Contents!ContentsNext]_(Contents!contents_vars)
    BY <2>2, PopIsAdvance DEF Contents!ContentsNext
  <2>3. ASSUME NEW n \in 1 .. MaxPosition - num_popped_, pop_endless(n)
        PROVE  [Contents!ContentsNext]_(Contents!contents_vars)
    <3>1. n \in Nat \ {0}
      OBVIOUS
    <3> QED
      BY <3>1, <2>2, <2>3
  <2>4. CASE UNCHANGED rings_vars
    BY <2>4 DEF rings_vars, endless_vars, fifo_vars, Contents!contents_vars,
                safe_get, range_begin, range_end, readable_region, bytes_stored, storage
  <2>5. ASSUME NEW index \in 0 .. MaxPosition, pop_before(index)
        PROVE  [Contents!ContentsNext]_(Contents!contents_vars)
    <3>1. CASE index <= range_begin
      BY <3>1, <2>4, <2>5 DEF pop_before
    <3>2. CASE ~(index <= range_begin)
      <4>1. index - range_begin \in Nat \ {0}
        BY <3>2, EndlessConstants DEF RingsInv, range_begin
      <4> QED
        BY <4>1, <3>2, <2>2, <2>5 DEF pop_before
    <3> QED
      BY <3>1, <3>2
  <2>6. ASSUME NEW b \in Elements, NEW c \in Elements, NEW n \in 0 .. 2,
               \/ push_from_const_str(SubSeq(<<b, c>>, 1, n))
               \/ push_from_fd(SubSeq(<<b, c>>, 1, n))
        PROVE  [Contents!ContentsNext]_(Contents!contents_vars)
    <3>1. SubSeq(<<b, c>>, 1, n) \in Seq(Elements)
      OBVIOUS
    <3>2. push_from_const_str(SubSeq(<<b, c>>, 1, n))
      BY <2>6 DEF push_from_fd
    <3> QED
      BY <3>1, <3>2, PushIsPut
  <2>7. ASSUME NEW n \in 1 .. RingCapacity, pop(n)
        PROVE  [Contents!ContentsNext]_(Contents!contents_vars)
    BY <2>7, PopIsGet DEF Contents!ContentsNext
  <2> QED
    BY <2>1, <2>3, <2>4, <2>5, <2>6, <2>7 DEF RingsNext
<1> QED
  BY <1>1, <1>2, RingsStart, RingsNextKeepsInv, PTL
     DEF RingsSpec, RingsAreEndless, Contents!ContentsSpec

------------------------------------------------------------------------------
(* What TLC runs of MCMedia, one part in each behaviour and fairness       *)
(* added, is among the behaviours of every part of it: the theorems above  *)
(* hold of it.                                                             *)
THEOREM MediaRunsParts == Spec => RingSpec /\ SourceSpec /\ ZoomSpec /\ DevicesSpec /\ FeedSpec
<1>1. Init => RingInit /\ SourceInit /\ ZoomInit /\ DevicesInit /\ FeedInit
  BY DEF Init
<1>2. [Next]_vars => /\ [RingNext]_ring_vars /\ [SourceNext]_source_vars
                     /\ [ZoomNext]_zoom_vars /\ [DevicesNext]_device_vars /\ [FeedNext]_feed_vars
  <2>1. UNCHANGED vars => /\ UNCHANGED ring_vars /\ UNCHANGED source_vars
                          /\ UNCHANGED zoom_vars /\ UNCHANGED device_vars /\ UNCHANGED feed_vars
    BY DEF vars
  <2>2. Next => /\ [RingNext]_ring_vars /\ [SourceNext]_source_vars
                /\ [ZoomNext]_zoom_vars /\ [DevicesNext]_device_vars /\ [FeedNext]_feed_vars
    BY Zenon DEF Next
  <2> QED
    BY <2>1, <2>2
<1> QED
  BY <1>1, <1>2, PTL DEF Spec, RingSpec, SourceSpec, ZoomSpec, DevicesSpec, FeedSpec
=============================================================================
