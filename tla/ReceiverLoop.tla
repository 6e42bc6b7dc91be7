----------------------------- MODULE ReceiverLoop -----------------------------
(***************************************************************************)
(* The two loops of src/network/receiver.cc step by step, to justify the   *)
(* closed forms of NetworkReceiver: the loop of receive_sender_section     *)
(* over the frames of a packet in the order they lie in it, with its       *)
(* discards and early continues, and the loop of set_receiver_section from *)
(* the newest remembered packet to the oldest.                             *)
(***************************************************************************)
EXTENDS NetworkReceiver

(* The part of the state the frame loop works on.                          *)
Window == [begin |-> receiver_begin, have |-> stored, needed |-> next_frame_needed,
           beyond |-> unreceived_beyond]

(* advance_next_frame_needed: the loop ends within a window's length.      *)
advance(w) ==
    LET after[turns \in 0 .. WindowCapacity] ==
            IF turns = 0 THEN w.needed
            ELSE IF /\ after[turns - 1] < ReceiverEndFrom(w.begin)
                    /\ after[turns - 1] \in w.have
                 THEN after[turns - 1] + 1
                 ELSE after[turns - 1]
    IN  [w EXCEPT !.needed = after[WindowCapacity]]

(* Variant: a discard leaves next_frame_needed_ behind the window.         *)
discard_Behind(w, num) ==
    [w EXCEPT !.begin = @ + num, !.have = {f \in @ : f >= w.begin + num}]

(* discard_frames                                                          *)
discard(w, num) ==
    advance([w EXCEPT !.begin = @ + num,
                      !.have = {f \in @ : f >= w.begin + num},
                      !.needed = w.begin + num])

(* The body of the frame loop.                                             *)
take_frame(w0, f) ==
    LET w == [w0 EXCEPT !.beyond = IF f + 1 > @ THEN f + 1 ELSE @]
        roomy == IF f >= ReceiverEndFrom(w.begin)
                 THEN discard(w, f - ReceiverEndFrom(w.begin) + 1)
                 ELSE w
    IN  IF f < w.needed THEN w ELSE [roomy EXCEPT !.have = @ \cup {f}]

ReceiveLoop(frames) ==
    LET after[i \in 0 .. Len(frames)] ==
            IF i = 0 THEN Window ELSE take_frame(after[i - 1], frames[i])
    IN  advance(after[Len(frames)])

(* The body of the sack loop, on [sacks, full, bug].                       *)
offer(acc, packet) ==
    IF acc.full \/ packet.seqno = biggest_seqno_received
    THEN acc
    ELSE LET list == IF \E f \in packet.frames : f > next_frame_needed
                     THEN Append(acc.sacks, packet.seqno) ELSE acc.sacks
         IN  [sacks |-> list,
              full |-> list # acc.sacks /\ Len(list) >= SackCapacity,
              bug |-> acc.bug \/ next_frame_needed \in packet.frames]

SackLoop ==
    LET n == Len(recent_packets)
        after[i \in 0 .. n] ==
            IF i = 0
            THEN [sacks |-> IF biggest_seqno_received = NoSeqno THEN << >>
                            ELSE <<biggest_seqno_received>>,
                  full |-> FALSE, bug |-> FALSE]
            ELSE offer(after[i - 1], recent_packets[n + 1 - i])
    IN  after[n]

-----------------------------------------------------------------------------
(* All packets of up to three different frames, in every order.            *)
PacketOrders ==
    {<<f>> : f \in 0 .. FrameLimit - 1} \cup
    {s \in [1 .. 2 -> 0 .. FrameLimit - 1] : s[1] # s[2]} \cup
    {s \in [1 .. 3 -> 0 .. FrameLimit - 1] : s[1] # s[2] /\ s[1] # s[3] /\ s[2] # s[3]}

(* Whatever the order of the frames in a packet, and wherever the window   *)
(* stands, the loop ends in the one state that the closed form names.      *)
EndsAsStated(s) ==
    LET w      == ReceiveLoop(s)
        frames == {s[i] : i \in DOMAIN s}
    IN  /\ BeginsFor(frames) = {w.begin}
        /\ Held(frames, w.begin) = w.have
        /\ StopsOfWalk(WalkFrom(w.begin), w.have, w.begin) = {w.needed}

FrameLoopAgrees == \A s \in PacketOrders : EndsAsStated(s)

(* The sack loop stays within the array, does not meet a frame it still    *)
(* needs, and names the packets that Sacks names, the newest always among  *)
(* them: a burst of old packets in the ring cannot crowd it out.           *)
SackLoopAgrees ==
    /\ ~SackLoop.bug
    /\ Len(SackLoop.sacks) <= SackCapacity
    /\ {SackLoop.sacks[i] : i \in DOMAIN SackLoop.sacks} = Sacks
    /\ biggest_seqno_received # NoSeqno => biggest_seqno_received \in Sacks

(* The receiver's two loops, over a packet's frames (receiver.cc:18) and   *)
(* over the recent packets (receiver.cc:80), do what their closed forms    *)
(* say, which the composed modules use in their place.                     *)
LoopsAgree == FrameLoopAgrees /\ SackLoopAgrees
=============================================================================
