---------------------------- MODULE NetworkSender ----------------------------
(***************************************************************************)
(* The sending half of a NetworkConnection (src/network/sender.{hh,cc}):   *)
(* a window of frames, each of which is outstanding and perhaps in flight, *)
(* a window of records of the packets sent, and the rules by which a       *)
(* receiver section resolves packets as acknowledged or assumed lost.      *)
(*                                                                         *)
(* A frame is its index: push_frame stores the encoder's front frame under *)
(* next_frame_index_ and never rewrites it.  The buffers frames_ and       *)
(* frame_status_ are popped together, so they share one begin.  The bits   *)
(* of a FrameStatus are membership in two sets.                            *)
(***************************************************************************)
EXTENDS Integers, FiniteSets

CONSTANTS
    FrameCapacity,    \* capacity of frames_ and frame_status_ (8192)
    PacketCapacity,   \* capacity of packets_in_flight_ (512)
    FramesPerPacket,  \* FrameType::frames_per_packet (8 audio, 2 video)
    ReorderWindow,    \* reorder_window (2 packets)
    MaxFrames,        \* bound: frames pushed in a behaviour
    MaxPackets        \* bound: packets sent in a behaviour

ASSUME SenderConstants ==
    /\ FrameCapacity \in Nat \ {0}
    /\ PacketCapacity \in Nat \ {0}
    /\ FramesPerPacket \in Nat \ {0, 1}
    /\ ReorderWindow \in Nat
    /\ MaxFrames \in Nat
    /\ MaxPackets \in Nat

VARIABLES
    sender_begin,         \* frames_.range_begin() = frame_status_.range_begin()
    next_frame_index,     \* next_frame_index_
    outstanding,          \* frames whose status has the outstanding bit
    in_flight,            \* frames whose status has the in_flight bit
    greatest_sack,        \* greatest_sack_, NoSack when it has no value
    next_sequence_number, \* next_sequence_number_
    carried,              \* packets_in_flight_: sequence number -> record.frames
    acked,                \* packets whose record has the acked bit
    assumed_lost,         \* packets whose record has the assumed_lost bit
    need_immediate_send   \* need_immediate_send_

sender_vars == <<sender_begin, next_frame_index, outstanding, in_flight,
                 greatest_sack, next_sequence_number, carried, acked,
                 assumed_lost, need_immediate_send>>

NoSack == -1

SenderEnd_Short == sender_begin + FrameCapacity - 1   \* variant: off by one
SenderEnd == sender_begin + FrameCapacity

(* packets_in_flight_ only moves when a packet does not fit, so its range  *)
(* follows from the next sequence number.                                  *)
PacketsBeginFor(n) == IF n > PacketCapacity THEN n - PacketCapacity ELSE 0
PacketsBegin == PacketsBeginFor(next_sequence_number)
PacketsEnd == PacketsBegin + PacketCapacity
PacketWindow == PacketsBegin .. next_sequence_number - 1

(* Packets neither acknowledged nor given up.                              *)
Unresolved == PacketWindow \ (acked \cup assumed_lost)

NeedsSend_InFlightToo == outstanding      \* variant: the in_flight bit is not read
NeedsSend == outstanding \ in_flight

TypeOK ==
    /\ sender_begin \in Nat
    /\ next_frame_index \in Nat
    /\ outstanding \subseteq sender_begin .. next_frame_index - 1
    /\ in_flight \subseteq outstanding
    /\ greatest_sack \in Nat \cup {NoSack}
    /\ next_sequence_number \in Nat
    /\ carried \in [PacketWindow -> SUBSET (0 .. next_frame_index - 1)]
    /\ acked \subseteq PacketWindow
    /\ assumed_lost \subseteq PacketWindow
    /\ need_immediate_send \in BOOLEAN

Init ==
    /\ sender_begin = 0
    /\ next_frame_index = 0
    /\ outstanding = {}
    /\ in_flight = {}
    /\ greatest_sack = NoSack
    /\ next_sequence_number = 0
    /\ carried = [p \in 0 .. -1 |-> {}]
    /\ acked = {}
    /\ assumed_lost = {}
    /\ need_immediate_send = FALSE

-----------------------------------------------------------------------------
(* Variant of push_frame: the status of a new frame starts as { true, true }.*)
push_frame_InFlight ==
    /\ ~need_immediate_send
    /\ next_frame_index < MaxFrames
    /\ next_frame_index < SenderEnd
    /\ outstanding' = outstanding \cup {next_frame_index}
    /\ in_flight' = in_flight \cup {next_frame_index}
    /\ next_frame_index' = next_frame_index + 1
    /\ need_immediate_send' = TRUE
    /\ UNCHANGED <<sender_begin, greatest_sack, next_sequence_number, carried,
                   acked, assumed_lost>>

(* push_frame: a full window drops its oldest frame.  The conditions under *)
(* which the code throws are guards here: whoever calls push_frame has to  *)
(* show that they hold (see FrameStream and MixServer).                    *)
push_frame ==
    LET begin == IF next_frame_index >= SenderEnd
                 THEN next_frame_index - FrameCapacity + 1
                 ELSE sender_begin
    IN  /\ ~need_immediate_send
        /\ next_frame_index >= sender_begin
        /\ next_frame_index < MaxFrames
        /\ sender_begin' = begin
        /\ outstanding' = {f \in outstanding : f >= begin} \cup {next_frame_index}
        /\ in_flight' = {f \in in_flight : f >= begin}
        /\ next_frame_index' = next_frame_index + 1
        /\ need_immediate_send' = TRUE
        /\ UNCHANGED <<greatest_sack, next_sequence_number, carried, acked,
                       assumed_lost>>

(* The k least elements of a set of frames.                                *)
Oldest(F, k) == {f \in F : Cardinality({g \in F : g < f}) < k}

(* The frames of the next packet: the newest frame if it needs sending,    *)
(* then the oldest frames that need sending until the packet is full.      *)
FramesToSend ==
    LET newest == NeedsSend \cap {next_frame_index - 1}
    IN  newest \cup Oldest(NeedsSend \ newest,
                           FramesPerPacket - Cardinality(newest))

(* Variants of assume_departed: it ignores the verdict a packet already    *)
(* has; it does nothing.                                                   *)
DepartedFrom_Resolved(packets) == UNION {carried[p] : p \in packets}
DepartedFrom_Never(packets) == {}

(* assume_departed: the outstanding frames that a set of packets carried   *)
(* are no longer in flight; resolved packets are left alone.               *)
DepartedFrom(packets) ==
    UNION {carried[p] : p \in packets \ (acked \cup assumed_lost)}

(* set_sender_section.  A packet that falls out of the window is assumed   *)
(* to have departed before it is popped.                                   *)
set_sender_section ==
    LET begin   == PacketsBeginFor(next_sequence_number + 1)
        expired == {p \in PacketWindow : p < begin}
        frames  == FramesToSend
    IN  /\ sender_begin <= next_frame_index
        /\ next_sequence_number < MaxPackets
        /\ next_sequence_number' = next_sequence_number + 1
        /\ in_flight' = (in_flight \cup frames) \ DepartedFrom(expired)
        /\ need_immediate_send' =
             (need_immediate_send /\ next_frame_index - 1 \notin frames)
        /\ carried' = [p \in begin .. next_sequence_number |->
                         IF p = next_sequence_number THEN frames ELSE carried[p]]
        /\ acked' = acked \ expired
        /\ assumed_lost' = assumed_lost \ expired
        /\ UNCHANGED <<sender_begin, next_frame_index, outstanding, greatest_sack>>

-----------------------------------------------------------------------------
(* The greatest of the sacks, NoSack if there is none.                     *)
Greatest(sacks) == {s \in sacks \cup {NoSack} : \A t \in sacks : t <= s}

(* Variant: one packet less of reordering is tolerated.                    *)
AdjudicatedUntil_Early(sack) ==
    IF sack > ReorderWindow THEN sack - ReorderWindow + 1 ELSE PacketsBegin

(* departure_adjudicated_until_seqno, for any value of the greatest sack.  *)
AdjudicatedUntil(sack) ==
    IF sack > ReorderWindow THEN sack - ReorderWindow ELSE PacketsBegin

(* The packets that a new greatest sack makes the sender give up: sent     *)
(* more than ReorderWindow packets before it, still in the window, and not *)
(* acknowledged.                                                           *)
NewlyLost(sack, acks) ==
    {p \in PacketWindow : /\ AdjudicatedUntil(greatest_sack) <= p
                          /\ p < AdjudicatedUntil(sack)} \ acks

(* receive_receiver_section once next_frame_needed has popped the frames   *)
(* below begin: every sack in the window acknowledges its packet, whose    *)
(* frames are then settled; if the section advanced the greatest sack, the *)
(* packets well before it are assumed lost.                                *)
settle(begin, sacks, complete) ==
    \E top \in Greatest(sacks) :
      LET acks     == acked \cup (sacks \cap PacketWindow)
          settled  == UNION {carried[p] : p \in acks \ acked}
          advances == complete /\ top > greatest_sack
          lost     == IF advances THEN NewlyLost(top, acks) ELSE {}
      IN  /\ sender_begin' = begin
          /\ outstanding' = {f \in outstanding : f >= begin} \ settled
          /\ in_flight' = {f \in in_flight : f >= begin}
                            \ (settled \cup DepartedFrom(lost))
          /\ acked' = acks
          /\ assumed_lost' = assumed_lost \cup lost
          /\ greatest_sack' = IF advances THEN top ELSE greatest_sack

(* receive_receiver_section for next_frame_needed = needed and the set of  *)
(* sequence numbers sacks in packets_received.  A section that needs a     *)
(* frame beyond the window is ignored; one that names a packet beyond the  *)
(* packet window is abandoned at that entry, after any of the others.      *)
receive_receiver_section(needed, sacks) ==
    /\ IF needed >= SenderEnd
       THEN UNCHANGED <<sender_begin, outstanding, in_flight, acked,
                        assumed_lost, greatest_sack>>
       ELSE LET begin    == IF needed > sender_begin THEN needed ELSE sender_begin
                in_range == {p \in sacks : p < PacketsEnd}
            IN  IF in_range = sacks
                THEN settle(begin, sacks, TRUE)
                ELSE \E read \in SUBSET in_range : settle(begin, read, FALSE)
    /\ UNCHANGED <<next_frame_index, next_sequence_number, carried,
                   need_immediate_send>>

-----------------------------------------------------------------------------
(* One past the newest frame that any packet has carried: the newest frame *)
(* is missing from every packet exactly until the send that follows push.  *)
SentEnd == IF need_immediate_send THEN next_frame_index - 1 ELSE next_frame_index

(* The peer: its section never needs a frame beyond the next one to be     *)
(* sent and never names a packet that was not sent.  FrameStream checks    *)
(* both of a real receiver.                                                *)
Next ==
    \/ push_frame
    \/ set_sender_section
    \/ \E needed \in 0 .. SentEnd,
          sacks \in SUBSET (0 .. next_sequence_number - 1) :
            receive_receiver_section(needed, sacks)

Spec == Init /\ [][Next]_sender_vars

-----------------------------------------------------------------------------
(* The in_flight bit of an outstanding frame is exact: it is set while a   *)
(* packet that carries the frame is unresolved, so that a later ack, loss  *)
(* or expiry will free the frame, and only then, so that it is sent again  *)
(* once all its packets have a verdict.                                    *)
InFlightIsCarried ==
    \A f \in outstanding :
        f \in in_flight <=> \E p \in Unresolved : f \in carried[p]

(* No frame that still matters rides in two unresolved packets: the sender *)
(* does not retransmit what it believes to be in flight.                   *)
CarriedOnce ==
    \A p, q \in Unresolved : p # q => carried[p] \cap carried[q] \cap outstanding = {}

(* A packet in the window that was not acknowledged is given up exactly    *)
(* when more than ReorderWindow packets sent after it have been overtaken  *)
(* by a sack: reordering inside the window is never taken for a loss, and  *)
(* no packet well before the greatest sack is left without a verdict.      *)
VerdictsAreExact ==
    \A p \in PacketWindow \ acked :
        p \in assumed_lost <=> p + ReorderWindow < greatest_sack

(* push_frame leaves a frame that the next packet will carry, so a send    *)
(* always clears need_immediate_send and the next push does not throw      *)
(* "packet pushed but not sent".                                           *)
PushedFrameNeedsSend ==
    need_immediate_send => next_frame_index - 1 \in NeedsSend

(* A frame that was settled is never sent again, and a frame in flight     *)
(* needs an acknowledgement, a verdict or an expiry to leave that state:   *)
(* its carrier was unresolved before the step and is not after it.         *)
StaysSettled ==
    /\ \A f \in outstanding' : f \in outstanding \/ f = next_frame_index
    /\ \A f \in (in_flight \ in_flight') \cap outstanding' :
          \E p \in Unresolved : f \in carried[p] /\ p \notin Unresolved'

SettledForGood == [][StaysSettled]_sender_vars
=============================================================================
