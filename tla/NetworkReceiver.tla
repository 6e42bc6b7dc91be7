--------------------------- MODULE NetworkReceiver ---------------------------
(***************************************************************************)
(* The receiving half of a NetworkConnection (src/network/receiver.{hh,cc} *)
(* on top of EndlessBuffer in src/util/typed_ring_buffer.hh): a sliding    *)
(* window of frames received out of order, the first frame still needed,   *)
(* and the ring of recently received packets that selective                *)
(* acknowledgements are chosen from.                                       *)
(*                                                                         *)
(* The frames of a packet are a set: the loop over them stores, discards   *)
(* and skips to the same final state in every order (ReceiverLoop checks   *)
(* this against the loop itself), only the statistics depend on it.        *)
(***************************************************************************)
EXTENDS Integers, FiniteSets, Sequences

CONSTANTS
    WindowCapacity,   \* capacity of the receiver's frames_ (8192)
    RecentCapacity,   \* capacity of recent_packets_ (512)
    SackCapacity,     \* capacity of packets_received in a receiver section (32)
    FrameLimit,       \* bound: the peer's frames are 0 .. FrameLimit - 1
    SeqnoLimit        \* bound: the peer's packets are 0 .. SeqnoLimit - 1

ASSUME ReceiverConstants ==
    /\ WindowCapacity \in Nat \ {0}
    /\ RecentCapacity \in Nat \ {0}
    /\ SackCapacity \in Nat \ {0, 1}
    /\ FrameLimit \in Nat
    /\ SeqnoLimit \in Nat

VARIABLES
    receiver_begin,         \* frames_.range_begin()
    stored,                 \* frames in the window that have a value
    next_frame_needed,      \* next_frame_needed_
    unreceived_beyond,      \* unreceived_beyond_this_frame_index_
    biggest_seqno_received, \* biggest_seqno_received_, NoSeqno when empty
    recent_packets          \* recent_packets_, oldest first: [seqno, frames]

receiver_vars == <<receiver_begin, stored, next_frame_needed,
                   unreceived_beyond, biggest_seqno_received, recent_packets>>

NoSeqno == -1

ReceiverEndFrom(begin) == begin + WindowCapacity
ReceiverEnd == ReceiverEndFrom(receiver_begin)

Records == [seqno : Nat, frames : SUBSET Nat]

TypeOK ==
    /\ receiver_begin \in Nat
    /\ stored \subseteq receiver_begin .. ReceiverEnd - 1
    /\ next_frame_needed \in receiver_begin .. ReceiverEnd
    /\ unreceived_beyond \in Nat
    /\ biggest_seqno_received \in Nat \cup {NoSeqno}
    /\ recent_packets \in Seq(Records)
    /\ Len(recent_packets) <= RecentCapacity

Init ==
    /\ receiver_begin = 0
    /\ stored = {}
    /\ next_frame_needed = 0
    /\ unreceived_beyond = 0
    /\ biggest_seqno_received = NoSeqno
    /\ recent_packets = << >>

-----------------------------------------------------------------------------
(* Variant: the window moves up to the frame, not until the frame fits.    *)
BeginsFor_Eager(frames) ==
    {b \in {receiver_begin} \cup {f \in frames : f >= ReceiverEnd} :
        \A f \in frames : f < ReceiverEndFrom(b)}

(* Where discard_frames may leave range_begin for the frames of a packet:  *)
(* a frame beyond the end moves the window up until it just fits.          *)
BeginsFor(frames) ==
    {b \in {receiver_begin} \cup {f - WindowCapacity + 1 : f \in frames} :
        b >= receiver_begin /\ \A f \in frames : f < ReceiverEndFrom(b)}

(* Variants: the frame that is needed next is taken for one that is        *)
(* acknowledged; the first of the window is lost.                          *)
Held_NotNext(frames, begin) ==
    {f \in stored \cup {g \in frames : g > next_frame_needed} : f >= begin}
Held_NotFirst(frames, begin) ==
    {f \in stored \cup {g \in frames : g >= next_frame_needed} : f > begin}

(* What the window holds after a packet: frames below next_frame_needed_   *)
(* are already acknowledged, the others are stored, and those the window   *)
(* moved past are discarded.                                               *)
Held(frames, begin) ==
    {f \in stored \cup {g \in frames : g >= next_frame_needed} : f >= begin}

(* Variant: a discard restarts the walk at the old range_begin.            *)
WalkFrom_Old(begin) == receiver_begin

(* A discard restarts the walk at the new range_begin.                     *)
WalkFrom(begin) ==
    IF begin > receiver_begin THEN begin ELSE next_frame_needed

(* advance_next_frame_needed: where the walk over the frames of `have`     *)
(* that starts at `from` stops, in the window that starts at `begin`.      *)
StopsOfWalk(from, have, begin) ==
    {n \in from .. ReceiverEndFrom(begin) :
        /\ from .. n - 1 \subseteq have
        /\ n < ReceiverEndFrom(begin) => n \notin have}

(* The ring of recent packets with one more record, the oldest making room.*)
Remember(record) ==
    LET kept == IF Len(recent_packets) >= RecentCapacity
                THEN Tail(recent_packets) ELSE recent_packets
    IN  Append(kept, record)

(* receive_sender_section.  Only a packet with frames is remembered for    *)
(* selective acks.                                                         *)
receive_sender_section(seqno, frames) ==
    \E begin \in BeginsFor(frames) :
        /\ receiver_begin' = begin
        /\ stored' = Held(frames, begin)
        /\ next_frame_needed' \in
             StopsOfWalk(WalkFrom(begin), Held(frames, begin), begin)
        /\ unreceived_beyond' \in
             {n \in {unreceived_beyond} \cup {f + 1 : f \in frames} :
                n >= unreceived_beyond /\ \A f \in frames : f < n}
        /\ biggest_seqno_received' =
             IF seqno > biggest_seqno_received THEN seqno
             ELSE biggest_seqno_received
        /\ recent_packets' =
             IF frames = {} THEN recent_packets
             ELSE Remember([seqno |-> seqno, frames |-> frames])

(* pop_frames: the application has consumed num frames, none of them still *)
(* needed (the code throws otherwise).                                     *)
pop_frames(num) ==
    /\ num \in 1 .. next_frame_needed - receiver_begin
    /\ receiver_begin' = receiver_begin + num
    /\ stored' = {f \in stored : f >= receiver_begin + num}
    /\ UNCHANGED <<next_frame_needed, unreceived_beyond,
                   biggest_seqno_received, recent_packets>>

-----------------------------------------------------------------------------
(* The positions of recent_packets_ worth a selective ack: the packet      *)
(* holds a frame that next_frame_needed does not acknowledge, and is not   *)
(* the biggest, which is always named.                                     *)
WorthSacking ==
    {i \in DOMAIN recent_packets :
        /\ recent_packets[i].seqno # biggest_seqno_received
        /\ \E f \in recent_packets[i].frames : f > next_frame_needed}

(* packets_received of set_receiver_section: the biggest sequence number,  *)
(* then the newest packets worth an ack while there is room.  The room is  *)
(* counted in entries: a packet received twice may be named twice.         *)
Sacks ==
    IF biggest_seqno_received = NoSeqno
    THEN {}
    ELSE {biggest_seqno_received} \cup
         {recent_packets[i].seqno :
            i \in {j \in WorthSacking :
                     Cardinality({k \in WorthSacking : k > j}) < SackCapacity - 1}}

-----------------------------------------------------------------------------
(* The peer: any packet in any order, duplicates included.                 *)
Next ==
    \/ \E seqno \in 0 .. SeqnoLimit - 1, frames \in SUBSET (0 .. FrameLimit - 1) :
          receive_sender_section(seqno, frames)
    \/ \E num \in 1 .. WindowCapacity : pop_frames(num)

Spec == Init /\ [][Next]_receiver_vars

-----------------------------------------------------------------------------
(* Everything in the window below next_frame_needed_ is there to be        *)
(* consumed, and next_frame_needed_ itself is not: neither a discard, which*)
(* jumps it to range_begin, nor a pop leaves it short of or past the gap.  *)
NeededIsFirstGap ==
    /\ receiver_begin .. next_frame_needed - 1 \subseteq stored
    /\ next_frame_needed \notin stored

(* A frame of a remembered packet is settled: below next_frame_needed_ or  *)
(* held in the window.  A selective ack of the packet is then honest, and  *)
(* set_receiver_section never meets the frame it still needs, where it     *)
(* throws "BUG: packet received but frame still needed???".                *)
RecentIsSettled ==
    \A i \in DOMAIN recent_packets : \A f \in recent_packets[i].frames :
        f < next_frame_needed \/ f \in stored

(* What a receiver section has promised is never taken back: the window,   *)
(* next_frame_needed_ and the biggest sequence number only grow, and a     *)
(* frame that was held stays held until next_frame_needed_ has passed it.  *)
PromisesKept ==
    [][ /\ receiver_begin' >= receiver_begin
        /\ next_frame_needed' >= next_frame_needed
        /\ biggest_seqno_received' >= biggest_seqno_received
        /\ \A f \in stored : f \in stored' \/ f < next_frame_needed'
      ]_receiver_vars
=============================================================================
