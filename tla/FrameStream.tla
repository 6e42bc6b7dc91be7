----------------------------- MODULE FrameStream -----------------------------
(***************************************************************************)
(* One direction of a NetworkConnection (src/network/connection.cc): the   *)
(* frames that one end's NetworkSender offers, the other end's             *)
(* NetworkReceiver, and a network that loses, duplicates and reorders.     *)
(* Each packet of a NetworkConnection carries a sender section for one     *)
(* direction and a receiver section for the other; the two directions      *)
(* share no state, so that each of them is this module.                    *)
(***************************************************************************)
EXTENDS Integers, FiniteSets, Sequences

CONSTANTS
    FrameCapacity, PacketCapacity, FramesPerPacket, ReorderWindow,
    MaxFrames, MaxPackets,
    WindowCapacity, RecentCapacity, SackCapacity,
    MaxTransit    \* bound: acks in the network at once

(* The constants of the two halves, see NetworkSender and NetworkReceiver. *)
ASSUME StreamConstants ==
    /\ FrameCapacity \in Nat \ {0}
    /\ PacketCapacity \in Nat \ {0}
    /\ FramesPerPacket \in Nat \ {0, 1}
    /\ ReorderWindow \in Nat
    /\ MaxFrames \in Nat
    /\ MaxPackets \in Nat
    /\ WindowCapacity \in Nat \ {0}
    /\ RecentCapacity \in Nat \ {0}
    /\ SackCapacity \in Nat \ {0, 1}
    /\ MaxTransit \in Nat \ {0}

VARIABLES
    sender_begin, next_frame_index, outstanding, in_flight, greatest_sack,
    next_sequence_number, carried, acked, assumed_lost, need_immediate_send,
    receiver_begin, stored, next_frame_needed, unreceived_beyond,
    biggest_seqno_received, recent_packets,
    sections,   \* sender sections in the network: [seqno, frames]
    acks,       \* receiver sections in the network: [needed, sacks]
    consumed    \* history of the frames the receiving application took

S == INSTANCE NetworkSender
R == INSTANCE NetworkReceiver WITH FrameLimit <- MaxFrames, SeqnoLimit <- MaxPackets

sender_part == <<sender_begin, next_frame_index, outstanding, in_flight,
                 greatest_sack, next_sequence_number, carried, acked,
                 assumed_lost, need_immediate_send>>
receiver_part == <<receiver_begin, stored, next_frame_needed, unreceived_beyond,
                   biggest_seqno_received, recent_packets>>

stream_vars == <<sender_part, receiver_part, sections, acks, consumed>>

Init ==
    /\ S!Init
    /\ R!Init
    /\ sections = {}
    /\ acks = {}
    /\ consumed = << >>

-----------------------------------------------------------------------------
Push ==
    /\ S!push_frame
    /\ UNCHANGED <<receiver_part, sections, acks, consumed>>

(* send_packet at the sending end.                                         *)
SendSection ==
    /\ S!set_sender_section
    /\ sections' = sections \cup
         {[seqno |-> next_sequence_number, frames |-> S!FramesToSend]}
    /\ UNCHANGED <<receiver_part, acks, consumed>>

(* send_packet at the receiving end.  An ack beyond the bound displaces    *)
(* another, which is thereby lost.                                         *)
SendAck ==
    /\ \E kept \in SUBSET acks :
         /\ Cardinality(kept) < MaxTransit
         /\ Cardinality(acks \ kept) <= 1
         /\ acks' = kept \cup {[needed |-> next_frame_needed, sacks |-> R!Sacks]}
    /\ UNCHANGED <<sender_part, receiver_part, sections, consumed>>

(* receive_packet at either end.  A section stays in the network: it is    *)
(* lost if it is never received, and duplicated if it is received again.   *)
ReceiveSection ==
    \E s \in sections :
        /\ R!receive_sender_section(s.seqno, s.frames)
        /\ UNCHANGED <<sender_part, sections, acks, consumed>>

ReceiveAck ==
    \E a \in acks :
        /\ S!receive_receiver_section(a.needed, a.sacks)
        /\ UNCHANGED <<receiver_part, sections, acks, consumed>>

(* The receiving application takes the oldest frame of the window, as      *)
(* vsclient.cc and client.cc do, one pop_frames( 1 ) at a time.            *)
Consume ==
    /\ R!pop_frames(1)
    /\ consumed' = Append(consumed, receiver_begin)
    /\ UNCHANGED <<sender_part, sections, acks>>

Next ==
    \/ Push \/ SendSection \/ SendAck \/ ReceiveSection \/ ReceiveAck \/ Consume

Spec == Init /\ [][Next]_stream_vars

-----------------------------------------------------------------------------
TypeOK ==
    /\ S!TypeOK
    /\ R!TypeOK
    /\ sections \subseteq [seqno : 0 .. MaxPackets - 1, frames : SUBSET (0 .. MaxFrames - 1)]
    /\ acks \subseteq [needed : 0 .. MaxFrames, sacks : SUBSET (0 .. MaxPackets - 1)]
    /\ consumed \in Seq(Nat)

(* The receiver holds the frame or has moved past it.                      *)
Received(f) == f < next_frame_needed \/ f \in stored

(* What both ends assume of their peer.  A section never needs a frame     *)
(* that was not sent and never names a packet that was not sent, so the    *)
(* checks that throw or count bad acks in sender.cc are about stale peers  *)
(* only; and a packet in an ack was received with everything it carried,   *)
(* however late the ack.                                                   *)
PeerIsHonest ==
    /\ next_frame_needed <= S!SentEnd
    /\ \A a \in acks :
        /\ a.needed <= next_frame_needed
        /\ \A p \in a.sacks :
              /\ p < next_sequence_number
              /\ p \in S!PacketWindow => \A f \in carried[p] : Received(f)

(* A frame the sender has written off is received, unless a full window    *)
(* forced the sender to drop it; in particular a selective ack, however    *)
(* late or duplicated, never settles a frame the receiver lacks.           *)
WrittenOffIsReceived ==
    \A f \in 0 .. next_frame_index - 1 :
        f \in outstanding \/ Received(f) \/ f + FrameCapacity < next_frame_index

(* The sender's window starts no later than the receiver needs, or the     *)
(* producer is a whole window ahead.                                       *)
BeginIsJustified ==
    sender_begin <= next_frame_needed \/ sender_begin + FrameCapacity = next_frame_index

(* The application sees the frames in order, each once, and misses one     *)
(* only if the producer overran the receiver's window.                     *)
Delivery == INSTANCE FrameDelivery
              WITH produced <- next_frame_index, Window <- WindowCapacity
InOrderDelivery == Delivery!Spec
=============================================================================
