---------------------------- MODULE StreamProgress ----------------------------
(***************************************************************************)
(* Progress of a FrameStream over a network that loses at most MaxLosses   *)
(* sections and delivers the rest in any order.  Both ends keep sending:   *)
(* the "network transmit" and "send acks" rules of networkclient.cc,       *)
(* videoclient.cc, multiserver.cc and videoserver.cc fire on a clock.  To  *)
(* keep the state space finite, a packet without frames is sent only when  *)
(* the network is quiet, and an ack only after a packet came in: the real  *)
(* ends send more of both.                                                 *)
(***************************************************************************)
EXTENDS FrameStream

CONSTANT MaxLosses   \* bound: sections the network may lose

VARIABLES
    losses,     \* sections lost so far
    ack_due     \* a packet came in since the last ack was sent

progress_vars == <<stream_vars, losses, ack_due>>

LiveInit == Init /\ losses = 0 /\ ack_due = FALSE

LivePush == Push /\ UNCHANGED <<losses, ack_due>>

LiveSend ==
    /\ \/ S!NeedsSend # {}
       \/ outstanding # {} /\ sections = {} /\ acks = {} /\ ~ack_due
    /\ SendSection
    /\ UNCHANGED <<losses, ack_due>>

LiveAck ==
    /\ ack_due
    /\ ack_due' = FALSE
    /\ acks' = acks \cup {[needed |-> next_frame_needed, sacks |-> R!Sacks]}
    /\ UNCHANGED <<sender_part, receiver_part, sections, consumed, losses>>

LiveReceiveSection ==
    \E s \in sections :
        /\ R!receive_sender_section(s.seqno, s.frames)
        /\ sections' = sections \ {s}
        /\ ack_due' = TRUE
        /\ UNCHANGED <<sender_part, acks, consumed, losses>>

LiveReceiveAck ==
    \E a \in acks :
        /\ S!receive_receiver_section(a.needed, a.sacks)
        /\ acks' = acks \ {a}
        /\ UNCHANGED <<receiver_part, sections, consumed, losses, ack_due>>

Lose ==
    /\ losses < MaxLosses
    /\ losses' = losses + 1
    /\ \/ \E s \in sections : sections' = sections \ {s} /\ UNCHANGED acks
       \/ \E a \in acks : acks' = acks \ {a} /\ UNCHANGED sections
    /\ UNCHANGED <<sender_part, receiver_part, consumed, ack_due>>

LiveConsume == Consume /\ UNCHANGED <<losses, ack_due>>

LiveNext ==
    \/ LivePush \/ LiveSend \/ LiveAck \/ LiveReceiveSection \/ LiveReceiveAck
    \/ Lose \/ LiveConsume

(* Every rule of the event loops that stays interested is run, and the     *)
(* network delivers what it does not lose.                                 *)
Fairness ==
    /\ WF_progress_vars(LivePush)
    /\ WF_progress_vars(LiveSend)
    /\ WF_progress_vars(LiveAck)
    /\ WF_progress_vars(LiveReceiveSection)
    /\ WF_progress_vars(LiveReceiveAck)
    /\ WF_progress_vars(LiveConsume)

LiveSpec == LiveInit /\ [][LiveNext]_progress_vars /\ Fairness

-----------------------------------------------------------------------------
(* Every frame pushed gets to the application although packets and acks    *)
(* are lost: loss detection by later sacks or by expiry of the packet      *)
(* window always makes it eligible again.                                  *)
EveryFrameArrives == <>(consumed = [i \in 1 .. MaxFrames |-> i - 1])

(* Once everything has arrived and acks that say so keep arriving, the     *)
(* sender ends up with nothing outstanding instead of retransmitting for   *)
(* ever.  The exception is a window that is exactly full when all of it    *)
(* has arrived: the ack that needs the frame beyond it is taken for a bad  *)
(* one (src/network/sender.cc:179), until the producer pushes again.       *)
SettlesUnlessFull ==
    <>[](outstanding = {} \/ next_frame_needed = sender_begin + FrameCapacity)
=============================================================================
