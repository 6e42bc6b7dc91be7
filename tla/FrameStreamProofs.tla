--------------------------- MODULE FrameStreamProofs ---------------------------
(***************************************************************************)
(* Proofs about one direction of a connection for every window, packet     *)
(* size, ring and number of frames.  The proofs about the two halves are   *)
(* instantiated rather than repeated: the composition shows that each half *)
(* meets only the peer that its own Next allows, so that both run as their *)
(* specifications say, and adds what relates the two: what is in the       *)
(* network was sent, what the receiver remembers came from the network,    *)
(* and what it has received it never loses.                                *)
(***************************************************************************)
EXTENDS FrameStream, TLAPS

SP == INSTANCE NetworkSenderProofs
RP == INSTANCE NetworkReceiverProofs WITH FrameLimit <- MaxFrames, SeqnoLimit <- MaxPackets

-----------------------------------------------------------------------------
(* The sender is within the bounds of the model.                           *)
WithinBounds == next_frame_index <= MaxFrames /\ next_sequence_number <= MaxPackets

(* A section in the network was sent: its frames were, its number was, and *)
(* while the sender remembers the packet, it remembers these frames.       *)
SectionsWereSent ==
    /\ sections \subseteq RP!Records
    /\ \A s \in sections :
           /\ s.seqno \in 0 .. next_sequence_number - 1
           /\ s.frames \subseteq 0 .. S!SentEnd - 1
           /\ s.seqno \in S!PacketWindow => s.frames = carried[s.seqno]

(* What the receiver holds was sent.                                       *)
HeldWasSent ==
    /\ stored \subseteq 0 .. S!SentEnd - 1
    /\ next_frame_needed <= S!SentEnd

(* The packets the receiver may name in an ack came from the network, and  *)
(* it has received all of their frames.                                    *)
NamedWasReceived ==
    /\ \A i \in DOMAIN recent_packets : recent_packets[i] \in sections
    /\ biggest_seqno_received # R!NoSeqno =>
         \E s \in sections : /\ s.seqno = biggest_seqno_received
                             /\ \A f \in s.frames : Received(f)

(* An ack in the network, however old, promised what is still so.          *)
AcksAreTrue ==
    /\ acks \subseteq [needed : Nat, sacks : SUBSET Nat]
    /\ \A a \in acks :
           /\ a.needed \in 0 .. next_frame_needed
           /\ \A p \in a.sacks : \E s \in sections :
                 s.seqno = p /\ \A f \in s.frames : Received(f)

(* The window starts after the last frame consumed, and the frames between *)
(* were overrun.                                                           *)
SkipIsJustified ==
    /\ consumed \in Seq(Nat)
    /\ \/ receiver_begin = Delivery!NextToConsume
       \/ /\ Delivery!NextToConsume < receiver_begin
          /\ receiver_begin + WindowCapacity <= next_frame_index

Inv ==
    /\ SP!Inv
    /\ RP!Inv
    /\ WithinBounds
    /\ SectionsWereSent
    /\ HeldWasSent
    /\ NamedWasReceived
    /\ AcksAreTrue
    /\ SkipIsJustified
    /\ WrittenOffIsReceived
    /\ BeginIsJustified

-----------------------------------------------------------------------------
(* A definition reached through S or R is the one reached through SP or RP.*)
LEMMA Constants == SP!SenderConstants /\ RP!ReceiverConstants
  BY StreamConstants DEF StreamConstants, SP!SenderConstants, RP!ReceiverConstants

LEMMA SameWindow ==
    /\ S!PacketWindow = SP!PacketWindow
    /\ S!PacketWindow' = SP!PacketWindow'
    /\ S!SentEnd = SP!SentEnd
    /\ S!SentEnd' = SP!SentEnd'
    /\ S!FramesToSend = SP!FramesToSend
    /\ S!SenderEnd = SP!SenderEnd
  BY DEF S!PacketWindow, S!PacketsBegin, S!PacketsBeginFor, S!SentEnd, S!SenderEnd,
         S!FramesToSend, S!NeedsSend, S!Oldest, S!Cardinality,
         SP!PacketWindow, SP!PacketsBegin, SP!PacketsBeginFor, SP!SentEnd, SP!SenderEnd,
         SP!FramesToSend, SP!NeedsSend, SP!Oldest, SP!Cardinality

LEMMA SameInit == /\ S!Init <=> SP!Init
                  /\ R!Init <=> RP!Init
  BY DEF S!Init, SP!Init, S!NoSack, SP!NoSack, R!Init, RP!Init, R!NoSeqno, RP!NoSeqno

LEMMA SamePush == S!push_frame <=> SP!push_frame
  BY DEF S!push_frame, SP!push_frame, S!SenderEnd, SP!SenderEnd

LEMMA SameSend == S!set_sender_section <=> SP!set_sender_section
  <1>1. /\ S!PacketsBeginFor(next_sequence_number + 1)
             = SP!PacketsBeginFor(next_sequence_number + 1)
        /\ \A packets : S!DepartedFrom(packets) = SP!DepartedFrom(packets)
    BY DEF S!PacketsBeginFor, SP!PacketsBeginFor, S!DepartedFrom, SP!DepartedFrom
  <1>2. QED
    BY <1>1, SameWindow, ZenonT(60) DEF S!set_sender_section, SP!set_sender_section

LEMMA SameSettle ==
    ASSUME NEW begin, NEW sacks, NEW complete
    PROVE  S!settle(begin, sacks, complete) <=> SP!settle(begin, sacks, complete)
  <1>1. /\ S!Greatest(sacks) = SP!Greatest(sacks)
        /\ \A packets : S!DepartedFrom(packets) = SP!DepartedFrom(packets)
        /\ \A top, acknowledged : S!NewlyLost(top, acknowledged) = SP!NewlyLost(top, acknowledged)
    BY SameWindow
       DEF S!Greatest, S!NoSack, S!DepartedFrom, S!NewlyLost, S!AdjudicatedUntil,
           S!PacketsBegin, S!PacketsBeginFor,
           SP!Greatest, SP!NoSack, SP!DepartedFrom, SP!NewlyLost, SP!AdjudicatedUntil,
           SP!PacketsBegin, SP!PacketsBeginFor
  <1>2. QED
    BY <1>1, SameWindow DEF S!settle, SP!settle

LEMMA SameSection ==
    ASSUME NEW needed, NEW sacks
    PROVE  S!receive_receiver_section(needed, sacks)
             <=> SP!receive_receiver_section(needed, sacks)
  <1>1. S!PacketsEnd = SP!PacketsEnd
    BY DEF S!PacketsEnd, S!PacketsBegin, S!PacketsBeginFor,
           SP!PacketsEnd, SP!PacketsBegin, SP!PacketsBeginFor
  <1>2. QED
    BY <1>1, SameSettle, SameWindow
       DEF S!receive_receiver_section, SP!receive_receiver_section

LEMMA SameReceive ==
    ASSUME NEW seqno, NEW frames
    PROVE  R!receive_sender_section(seqno, frames) <=> RP!receive_sender_section(seqno, frames)
  <1>1. /\ R!BeginsFor(frames) = RP!BeginsFor(frames)
        /\ \A begin : /\ R!Held(frames, begin) = RP!Held(frames, begin)
                      /\ R!WalkFrom(begin) = RP!WalkFrom(begin)
        /\ \A from, have, begin : R!StopsOfWalk(from, have, begin) = RP!StopsOfWalk(from, have, begin)
        /\ \A record : R!Remember(record) = RP!Remember(record)
    BY DEF R!BeginsFor, R!Held, R!WalkFrom, R!StopsOfWalk, R!Remember,
           R!ReceiverEnd, R!ReceiverEndFrom,
           RP!BeginsFor, RP!Held, RP!WalkFrom, RP!StopsOfWalk, RP!Remember,
           RP!ReceiverEnd, RP!ReceiverEndFrom
  <1>2. QED
    BY <1>1 DEF R!receive_sender_section, RP!receive_sender_section

LEMMA SamePop ==
    ASSUME NEW num PROVE R!pop_frames(num) <=> RP!pop_frames(num)
  BY DEF R!pop_frames, RP!pop_frames

-----------------------------------------------------------------------------
(* A half that does not move keeps its invariant.                          *)
LEMMA SenderRests == ASSUME SP!Inv, UNCHANGED sender_part PROVE SP!Inv'
  <1>1. UNCHANGED SP!sender_vars
    BY DEF sender_part, SP!sender_vars
  <1>2. QED BY <1>1, Constants, SP!NextInv

LEMMA ReceiverRests == ASSUME RP!Inv, UNCHANGED receiver_part PROVE RP!Inv'
  <1>1. UNCHANGED RP!receiver_vars
    BY DEF receiver_part, RP!receiver_vars
  <1>2. QED BY <1>1, Constants, RP!NextInv

LEMMA Types ==
    ASSUME SP!Inv, RP!Inv
    PROVE  /\ sender_begin \in Nat
           /\ next_frame_index \in Nat
           /\ next_sequence_number \in Nat
           /\ outstanding \subseteq sender_begin .. next_frame_index - 1
           /\ S!SentEnd \in Nat
           /\ S!SentEnd <= next_frame_index
           /\ S!PacketWindow \subseteq 0 .. next_sequence_number - 1
           /\ \A p \in S!PacketWindow : carried[p] \subseteq 0 .. S!SentEnd - 1
           /\ receiver_begin \in Nat
           /\ next_frame_needed \in Nat
           /\ receiver_begin <= next_frame_needed
           /\ stored \subseteq Nat
           /\ biggest_seqno_received \in Nat \cup {-1}
  <1>1. SP!TypeOK /\ RP!TypeOK /\ SP!WindowInv /\ SP!UnsentIsUncarried
    BY DEF SP!Inv, RP!Inv
  <1>2. /\ SP!PacketWindow \subseteq Nat
        /\ \A p \in SP!PacketWindow : p < next_sequence_number
    BY <1>1, Constants, SP!WindowTypes
  <1>3. SP!SentEnd \in Nat /\ SP!SentEnd <= next_frame_index
    BY <1>1 DEF SP!TypeOK, SP!WindowInv, SP!SentEnd
  <1>4. ASSUME NEW p \in SP!PacketWindow, NEW f \in carried[p]
        PROVE  f \in 0 .. SP!SentEnd - 1
    <2>1. f \in 0 .. next_frame_index - 1
      BY <1>1, <1>4 DEF SP!TypeOK
    <2>2. QED
      BY <1>1, <1>3, <1>4, <2>1 DEF SP!SentEnd, SP!UnsentIsUncarried, SP!TypeOK
  <1>5. /\ receiver_begin \in Nat /\ next_frame_needed \in Nat
        /\ receiver_begin <= next_frame_needed /\ stored \subseteq Nat
        /\ biggest_seqno_received \in Nat \cup {-1}
    BY <1>1, StreamConstants
       DEF StreamConstants, RP!TypeOK, RP!ReceiverEnd, RP!ReceiverEndFrom, RP!NoSeqno
  <1>6. QED
    BY <1>1, <1>2, <1>3, <1>4, <1>5, SameWindow DEF SP!TypeOK

(* What the receiver has received it still has after any step of it.       *)
LEMMA ReceivedStays ==
    ASSUME NEW f \in Nat, Received(f),
           next_frame_needed \in Nat, next_frame_needed' \in Nat,
           next_frame_needed' >= next_frame_needed,
           \A g \in stored : g \in stored' \/ g < next_frame_needed'
    PROVE  Received(f)'
  BY DEF Received

LEMMA HonestPeer == ASSUME Inv PROVE PeerIsHonest
  <1>1. ASSUME NEW a \in acks, NEW p \in a.sacks
        PROVE  /\ p < next_sequence_number
               /\ p \in S!PacketWindow => \A f \in carried[p] : Received(f)
    <2>1. PICK s \in sections : s.seqno = p /\ \A f \in s.frames : Received(f)
      BY <1>1 DEF Inv, AcksAreTrue
    <2>2. /\ s.seqno \in 0 .. next_sequence_number - 1
          /\ s.seqno \in S!PacketWindow => s.frames = carried[s.seqno]
      BY DEF Inv, SectionsWereSent
    <2>3. QED BY <2>1, <2>2, Types DEF Inv
  <1>2. QED
    BY <1>1, Types DEF Inv, PeerIsHonest, AcksAreTrue, HeldWasSent

-----------------------------------------------------------------------------
LEMMA StreamInit == Init => Inv
  <1> SUFFICES ASSUME Init PROVE Inv
    OBVIOUS
  <1>1. SP!Init /\ RP!Init
    BY SameInit DEF Init
  <1>2. SP!Inv /\ RP!Inv
    BY <1>1, Constants, SP!InitInv, RP!InitInv
  <1>3. WithinBounds /\ HeldWasSent /\ BeginIsJustified
    BY <1>1, StreamConstants
       DEF StreamConstants, SP!Init, RP!Init, WithinBounds, HeldWasSent, BeginIsJustified, S!SentEnd
  <1>4. SectionsWereSent /\ AcksAreTrue /\ WrittenOffIsReceived
    BY <1>1 DEF Init, SP!Init, SectionsWereSent, AcksAreTrue, WrittenOffIsReceived
  <1>5. NamedWasReceived /\ SkipIsJustified
    BY <1>1 DEF Init, RP!Init, NamedWasReceived, SkipIsJustified, Delivery!NextToConsume,
                R!NoSeqno, RP!NoSeqno
  <1>6. QED BY <1>2, <1>3, <1>4, <1>5 DEF Inv

LEMMA PushKeepsInv == ASSUME Inv, Push PROVE Inv'
  <1> DEFINE begin == IF next_frame_index >= SP!SenderEnd
                      THEN next_frame_index - FrameCapacity + 1
                      ELSE sender_begin
  <1>1. /\ S!push_frame /\ SP!push_frame
        /\ UNCHANGED <<receiver_part, sections, acks, consumed>>
    BY SamePush DEF Push
  <1>2. /\ ~need_immediate_send
        /\ next_frame_index < MaxFrames
        /\ sender_begin' = begin
        /\ outstanding' = {f \in outstanding : f >= begin} \cup {next_frame_index}
        /\ next_frame_index' = next_frame_index + 1
        /\ need_immediate_send' = TRUE
        /\ UNCHANGED <<next_sequence_number, carried>>
    BY <1>1 DEF SP!push_frame
  <1>3. SP!Inv' /\ RP!Inv'
    BY <1>1, Constants, SP!PushStep, ReceiverRests DEF Inv
  <1>4. /\ sender_begin \in Nat /\ next_frame_index \in Nat
        /\ next_frame_needed \in Nat /\ receiver_begin \in Nat
        /\ SP!SenderEnd = sender_begin + FrameCapacity
        /\ FrameCapacity \in Nat /\ WindowCapacity \in Nat
    BY Types, StreamConstants DEF Inv, StreamConstants, SP!SenderEnd
  <1>5. S!SentEnd' = S!SentEnd /\ S!PacketWindow' = S!PacketWindow
    BY <1>2, <1>4 DEF S!SentEnd, S!PacketWindow, S!PacketsBegin, S!PacketsBeginFor
  <1>6. \A f : Received(f)' <=> Received(f)
    BY <1>1 DEF Received, receiver_part
  <1>7. WithinBounds'
    BY <1>2, <1>4, StreamConstants DEF Inv, WithinBounds, StreamConstants
  <1>8. SectionsWereSent'
    BY <1>1, <1>2, <1>5 DEF Inv, SectionsWereSent
  <1>9. HeldWasSent'
    BY <1>1, <1>5 DEF Inv, HeldWasSent, receiver_part
  <1>10. NamedWasReceived' /\ AcksAreTrue'
    BY <1>1, <1>6 DEF Inv, NamedWasReceived, AcksAreTrue, receiver_part
  <1>11. SkipIsJustified'
    BY <1>1, <1>2, <1>4 DEF Inv, SkipIsJustified, Delivery!NextToConsume, receiver_part
  <1>12. WrittenOffIsReceived'
    <2> SUFFICES ASSUME NEW f \in 0 .. next_frame_index
                 PROVE  \/ f \in outstanding' \/ Received(f)
                        \/ f + FrameCapacity < next_frame_index + 1
      BY <1>2, <1>4, <1>6 DEF WrittenOffIsReceived
    <2>1. CASE f = next_frame_index
      BY <2>1, <1>2
    <2>2. CASE f # next_frame_index /\ f \notin outstanding
      BY <2>2, <1>4 DEF Inv, WrittenOffIsReceived
    <2>3. CASE f \in outstanding /\ f < begin
      <3>1. f >= sender_begin
        BY <2>3, Types DEF Inv
      <3>2. QED BY <2>3, <3>1, <1>4
    <2>4. CASE f \in outstanding /\ f >= begin
      BY <2>4, <1>2
    <2>5. QED BY <2>1, <2>2, <2>3, <2>4, <1>4
  <1>13. BeginIsJustified'
    BY <1>1, <1>2, <1>4 DEF Inv, BeginIsJustified, receiver_part
  <1>14. QED
    BY <1>3, <1>7, <1>8, <1>9, <1>10, <1>11, <1>12, <1>13 DEF Inv

(* A packet that is sent is a new one: nothing in the network has its      *)
(* number, and the packets that stay in the window keep their frames.      *)
LEMMA SendKeepsInv == ASSUME Inv, SendSection PROVE Inv'
  <1> DEFINE n == next_sequence_number
             new == [seqno |-> n, frames |-> S!FramesToSend]
  <1>1. /\ S!set_sender_section /\ SP!set_sender_section
        /\ sections' = sections \cup {new}
        /\ UNCHANGED <<receiver_part, acks, consumed>>
    BY SameSend DEF SendSection
  <1>2. /\ n < MaxPackets
        /\ n' = n + 1
        /\ need_immediate_send' = (need_immediate_send /\ next_frame_index - 1 \notin S!FramesToSend)
        /\ carried' = [p \in SP!PacketsBeginFor(n + 1) .. n |->
                         IF p = n THEN S!FramesToSend ELSE carried[p]]
        /\ UNCHANGED <<sender_begin, next_frame_index, outstanding>>
    BY <1>1, SameWindow DEF SP!set_sender_section
  <1>3. SP!Inv' /\ RP!Inv'
    BY <1>1, Constants, SP!SendStep, ReceiverRests DEF Inv
  <1>4. /\ n \in Nat /\ next_frame_index \in Nat
        /\ S!SentEnd \in Nat /\ S!SentEnd <= next_frame_index
    BY Types DEF Inv
  <1>5. /\ S!FramesToSend \subseteq 0 .. next_frame_index - 1
        /\ need_immediate_send => next_frame_index - 1 \in S!FramesToSend
    <2>1. /\ SP!FramesToSend \subseteq outstanding
          /\ SP!NeedsSend \cap {next_frame_index - 1} \subseteq SP!FramesToSend
      BY Constants, SP!FramesToSendNeedIt DEF SP!NeedsSend
    <2>2. outstanding \subseteq 0 .. next_frame_index - 1
      BY Types DEF Inv
    <2>3. QED BY <2>1, <2>2, SameWindow DEF Inv, SP!Inv, SP!PushedFrameNeedsSend
  <1>6. S!SentEnd' = next_frame_index
    BY <1>2, <1>5 DEF S!SentEnd
  <1>7. /\ S!PacketWindow' \subseteq SP!PacketsBeginFor(n + 1) .. n
        /\ S!PacketWindow' \subseteq S!PacketWindow \cup {n}
        /\ n \notin S!PacketWindow
    BY <1>2, <1>4, StreamConstants
       DEF StreamConstants, S!PacketWindow, S!PacketsBegin, S!PacketsBeginFor, SP!PacketsBeginFor
  <1>8. \A p \in S!PacketWindow' : carried'[p] = IF p = n THEN S!FramesToSend ELSE carried[p]
    BY <1>2, <1>7
  <1>9. \A f : Received(f)' <=> Received(f)
    BY <1>1 DEF Received, receiver_part
  <1>10. WithinBounds'
    BY <1>2, <1>4, StreamConstants DEF Inv, WithinBounds, StreamConstants
  <1>11. SectionsWereSent'
    <2> SUFFICES ASSUME NEW s \in sections'
                 PROVE  /\ s.seqno \in 0 .. n
                        /\ s.frames \subseteq 0 .. next_frame_index - 1
                        /\ s.seqno \in S!PacketWindow' => s.frames = carried'[s.seqno]
      <3>1. sections' \subseteq RP!Records
        BY <1>1, <1>4, <1>5 DEF Inv, SectionsWereSent, RP!Records
      <3>2. QED BY <1>2, <1>4, <1>6, <3>1 DEF SectionsWereSent
    <2>1. CASE s = new
      BY <2>1, <1>4, <1>5, <1>8
    <2>2. CASE s \in sections
      <3>1. /\ s.seqno \in 0 .. n - 1
            /\ s.frames \subseteq 0 .. S!SentEnd - 1
            /\ s.seqno \in S!PacketWindow => s.frames = carried[s.seqno]
        BY <2>2 DEF Inv, SectionsWereSent
      <3>2. QED BY <3>1, <1>4, <1>7, <1>8
    <2>3. QED BY <2>1, <2>2, <1>1
  <1>12. HeldWasSent'
    BY <1>1, <1>4, <1>6, Types DEF Inv, HeldWasSent, receiver_part
  <1>13. NamedWasReceived' /\ AcksAreTrue'
    BY <1>1, <1>9 DEF Inv, NamedWasReceived, AcksAreTrue, receiver_part
  <1>14. SkipIsJustified'
    BY <1>1, <1>2 DEF Inv, SkipIsJustified, Delivery!NextToConsume, receiver_part
  <1>15. WrittenOffIsReceived' /\ BeginIsJustified'
    BY <1>1, <1>2, <1>9 DEF Inv, WrittenOffIsReceived, BeginIsJustified, receiver_part
  <1>16. QED
    BY <1>3, <1>10, <1>11, <1>12, <1>13, <1>14, <1>15 DEF Inv

(* An ack names the biggest packet and some of the remembered ones.        *)
LEMMA SendAckKeepsInv == ASSUME Inv, SendAck PROVE Inv'
  <1>1. PICK kept \in SUBSET acks :
          acks' = kept \cup {[needed |-> next_frame_needed, sacks |-> R!Sacks]}
    BY DEF SendAck
  <1>2. UNCHANGED <<sender_part, receiver_part, sections, consumed>>
    BY DEF SendAck
  <1>3. SP!Inv' /\ RP!Inv'
    BY <1>2, SenderRests, ReceiverRests DEF Inv
  <1>4. ASSUME NEW p \in R!Sacks
        PROVE  \E s \in sections : s.seqno = p /\ \A f \in s.frames : Received(f)
    <2>1. CASE biggest_seqno_received # R!NoSeqno /\ p = biggest_seqno_received
      BY <2>1 DEF Inv, NamedWasReceived
    <2>2. CASE \E i \in DOMAIN recent_packets : p = recent_packets[i].seqno
      <3>1. PICK i \in DOMAIN recent_packets : p = recent_packets[i].seqno
        BY <2>2
      <3>2. recent_packets[i] \in sections
        BY DEF Inv, NamedWasReceived
      <3>3. \A f \in recent_packets[i].frames : Received(f)
        BY DEF Inv, RP!Inv, RP!RecentIsSettled, Received
      <3>4. QED BY <3>1, <3>2, <3>3
    <2>3. QED
      BY <2>1, <2>2, <1>4 DEF R!Sacks, R!WorthSacking
  <1>5. \A f : Received(f)' <=> Received(f)
    BY <1>2 DEF Received, receiver_part
  <1>6. AcksAreTrue'
    <2> SUFFICES ASSUME NEW a \in acks'
                 PROVE  /\ a.needed \in 0 .. next_frame_needed
                        /\ \A p \in a.sacks : \E s \in sections :
                              s.seqno = p /\ \A f \in s.frames : Received(f)
      <3>1. acks' \subseteq [needed : Nat, sacks : SUBSET Nat]
        <4>1. R!Sacks \subseteq Nat
          BY <1>4 DEF Inv, SectionsWereSent
        <4>2. next_frame_needed \in Nat
          BY Types DEF Inv
        <4>3. acks \subseteq [needed : Nat, sacks : SUBSET Nat]
          BY DEF Inv, AcksAreTrue
        <4>4. [needed |-> next_frame_needed, sacks |-> R!Sacks] \in [needed : Nat, sacks : SUBSET Nat]
          BY <4>1, <4>2
        <4>5. QED BY <1>1, <4>3, <4>4
      <3>2. QED BY <1>2, <1>5, <3>1 DEF AcksAreTrue, receiver_part
    <2>1. CASE a \in acks
      BY <2>1 DEF Inv, AcksAreTrue
    <2>2. CASE a = [needed |-> next_frame_needed, sacks |-> R!Sacks]
      BY <2>2, <1>4, Types DEF Inv
    <2>3. QED BY <1>1, <2>1, <2>2
  <1>7. S!SentEnd' = S!SentEnd /\ S!PacketWindow' = S!PacketWindow
    BY <1>2 DEF S!SentEnd, S!PacketWindow, S!PacketsBegin, S!PacketsBeginFor, sender_part
  <1>8. WithinBounds' /\ SectionsWereSent' /\ HeldWasSent'
    BY <1>2, <1>7
       DEF Inv, WithinBounds, SectionsWereSent, HeldWasSent, sender_part, receiver_part
  <1>9. NamedWasReceived' /\ WrittenOffIsReceived' /\ BeginIsJustified' /\ SkipIsJustified'
    BY <1>2, <1>5
       DEF Inv, NamedWasReceived, WrittenOffIsReceived, BeginIsJustified, SkipIsJustified,
           Delivery!NextToConsume, sender_part, receiver_part
  <1>10. QED BY <1>3, <1>6, <1>8, <1>9 DEF Inv

(* A section is received: nothing received is lost, what is stored or      *)
(* counted was in the section, and the window moves only up to where a     *)
(* frame that was sent just fits.                                          *)
LEMMA ReceiveKeepsInv == ASSUME Inv, ReceiveSection PROVE Inv'
  <1>1. PICK s \in sections : R!receive_sender_section(s.seqno, s.frames)
    BY DEF ReceiveSection
  <1>2. UNCHANGED <<sender_part, sections, acks, consumed>>
    BY DEF ReceiveSection
  <1> DEFINE seqno == s.seqno
             frames == s.frames
  <1>3. /\ seqno \in 0 .. MaxPackets - 1 /\ frames \in SUBSET (0 .. MaxFrames - 1)
        /\ frames \subseteq 0 .. S!SentEnd - 1
        /\ S!SentEnd \in Nat /\ S!SentEnd <= next_frame_index
    <2>1. /\ seqno \in 0 .. next_sequence_number - 1
          /\ frames \subseteq 0 .. S!SentEnd - 1
      BY DEF Inv, SectionsWereSent
    <2>2. QED
      BY <2>1, Types, StreamConstants DEF Inv, WithinBounds, StreamConstants
  <1>4. RP!receive_sender_section(seqno, frames)
    BY <1>1, SameReceive
  <1>5. /\ RP!Inv'
        /\ next_frame_needed' >= next_frame_needed
        /\ \A f \in stored : f \in stored' \/ f < next_frame_needed'
    BY <1>3, <1>4, Constants, RP!ReceiveStep DEF Inv
  <1>6. SP!Inv'
    BY <1>2, SenderRests DEF Inv
  <1>7. PICK begin \in RP!BeginsFor(frames) :
          /\ receiver_begin' = begin
          /\ stored' = RP!Held(frames, begin)
          /\ next_frame_needed' \in
               RP!StopsOfWalk(RP!WalkFrom(begin), RP!Held(frames, begin), begin)
          /\ biggest_seqno_received' =
               IF seqno > biggest_seqno_received THEN seqno ELSE biggest_seqno_received
          /\ recent_packets' = IF frames = {} THEN recent_packets
                               ELSE RP!Remember([seqno |-> seqno, frames |-> frames])
    BY <1>4 DEF RP!receive_sender_section
  <1>8. /\ begin \in Nat
        /\ begin >= receiver_begin
        /\ next_frame_needed' \in Nat
        /\ next_frame_needed' >= begin
        /\ next_frame_needed \in Nat
        /\ receiver_begin \in Nat
        /\ WindowCapacity \in Nat
        /\ WindowCapacity > 0
        /\ begin .. next_frame_needed' - 1 \subseteq stored'
    <2>1. frames \in SUBSET Nat
      BY <1>3
    <2>2. WindowCapacity \in Nat /\ WindowCapacity > 0
      BY StreamConstants
    <2>3. /\ begin \in Nat
          /\ next_frame_needed' \in begin .. begin + WindowCapacity
          /\ begin >= receiver_begin
          /\ begin .. next_frame_needed' - 1 \subseteq stored'
      BY <2>1, <1>7, Constants, RP!WalkResumes DEF Inv
    <2>4. next_frame_needed' \in Nat /\ next_frame_needed' >= begin
      BY <2>2, <2>3
    <2>5. next_frame_needed \in Nat /\ receiver_begin \in Nat
      BY Types DEF Inv
    <2>6. QED BY <2>2, <2>3, <2>4, <2>5
  <1>9. \/ begin = receiver_begin
        \/ /\ begin > receiver_begin
           /\ \E f \in frames : begin = f - WindowCapacity + 1
    BY <1>7, <1>8 DEF RP!BeginsFor
  <1> HIDE DEF frames
  <1>10. \A f \in Nat : Received(f) => Received(f)'
    BY <1>5, <1>8, ReceivedStays
  <1>11. \A f \in frames : Received(f)'
    <2> SUFFICES ASSUME NEW f \in frames PROVE Received(f)'
      OBVIOUS
    <2>0. f \in Nat
      BY <1>3
    <2>1. CASE f < begin
      BY <2>0, <2>1, <1>8 DEF Received
    <2>2. CASE f >= begin /\ f >= next_frame_needed
      BY <2>2, <1>7 DEF RP!Held, Received
    <2>3. CASE f < next_frame_needed
      BY <2>0, <2>3, <1>5, <1>8 DEF Received
    <2>4. QED BY <2>0, <2>1, <2>2, <2>3, <1>8
  <1>12. S!SentEnd' = S!SentEnd /\ S!PacketWindow' = S!PacketWindow
    BY <1>2 DEF S!SentEnd, S!PacketWindow, S!PacketsBegin, S!PacketsBeginFor, sender_part
  <1>13. HeldWasSent'
    <2>1. stored' \subseteq 0 .. S!SentEnd - 1
      BY <1>3, <1>7 DEF Inv, HeldWasSent, RP!Held
    <2>2. CASE next_frame_needed' > begin
      <3>1. \A b, n \in Nat : n > b => n - 1 \in b .. n - 1
        OBVIOUS
      <3>2. next_frame_needed' - 1 \in begin .. next_frame_needed' - 1
        BY <2>2, <1>8, <3>1
      <3>3. next_frame_needed' - 1 \in stored'
        BY <3>2, <1>8
      <3>4. next_frame_needed' - 1 \in 0 .. S!SentEnd - 1
        BY <3>3, <2>1
      <3>5. \A n \in Nat, e \in Nat : n - 1 \in 0 .. e - 1 => n <= e
        OBVIOUS
      <3>6. next_frame_needed' <= S!SentEnd
        BY <3>4, <3>5, <1>3, <1>8
      <3>7. QED BY <3>6, <2>1, <1>12 DEF HeldWasSent
    <2>3. CASE next_frame_needed' = begin /\ begin = receiver_begin
      BY <2>1, <2>3, <1>3, <1>8, <1>12, Types DEF Inv, HeldWasSent
    <2>4. CASE next_frame_needed' = begin /\ \E f \in frames : begin = f - WindowCapacity + 1
      BY <2>1, <2>4, <1>3, <1>8, <1>12, StreamConstants DEF HeldWasSent, StreamConstants
    <2>5. QED BY <2>2, <2>3, <2>4, <1>8, <1>9
  <1>14. WithinBounds' /\ SectionsWereSent'
    BY <1>2, <1>12 DEF Inv, WithinBounds, SectionsWereSent, sender_part
  <1>15. \A t \in sections : (\A f \in t.frames : Received(f)) => \A f \in t.frames : Received(f)'
    BY <1>3, <1>10 DEF Inv, SectionsWereSent
  <1>16. NamedWasReceived'
    <2>1. ASSUME NEW i \in DOMAIN recent_packets' PROVE recent_packets'[i] \in sections
      <3>1. CASE frames = {}
        BY <2>1, <3>1, <1>7 DEF Inv, NamedWasReceived
      <3>2. CASE frames # {}
        <4> DEFINE record == [seqno |-> seqno, frames |-> frames]
        <4>1. record \in RP!Records
          BY <1>3 DEF RP!Records
        <4>2. \/ recent_packets'[i] = record
              \/ \E j \in DOMAIN recent_packets : recent_packets'[i] = recent_packets[j]
          BY <2>1, <3>2, <4>1, <1>7, Constants, RP!RememberKeeps DEF Inv, RP!Inv
        <4>3. record = s
          BY DEF Inv, SectionsWereSent, RP!Records, frames
        <4>4. QED BY <4>2, <4>3 DEF Inv, NamedWasReceived
      <3>3. QED BY <3>1, <3>2
    <2>2. biggest_seqno_received' # R!NoSeqno =>
            \E t \in sections : /\ t.seqno = biggest_seqno_received'
                                /\ \A f \in t.frames : Received(f)'
      <3>1. CASE seqno > biggest_seqno_received
        BY <3>1, <1>7, <1>11 DEF frames
      <3>2. CASE ~(seqno > biggest_seqno_received)
        BY <3>2, <1>7, <1>15 DEF Inv, NamedWasReceived
      <3>3. QED BY <3>1, <3>2
    <2>3. QED BY <1>2, <2>1, <2>2 DEF NamedWasReceived, R!NoSeqno
  <1>17. AcksAreTrue'
    <2> SUFFICES ASSUME NEW a \in acks
                 PROVE  /\ a.needed \in 0 .. next_frame_needed'
                        /\ \A p \in a.sacks : \E t \in sections :
                              t.seqno = p /\ \A f \in t.frames : Received(f)'
      BY <1>2 DEF Inv, AcksAreTrue
    <2>1. QED BY <1>5, <1>8, <1>15 DEF Inv, AcksAreTrue
  <1>18. SkipIsJustified'
    <2>1. Delivery!NextToConsume' = Delivery!NextToConsume
      BY <1>2 DEF Delivery!NextToConsume
    <2>2. Delivery!NextToConsume \in Nat
      BY DEF Inv, SkipIsJustified, Delivery!NextToConsume
    <2>3. next_frame_index' = next_frame_index /\ next_frame_index \in Nat
      BY <1>2, Types DEF Inv, sender_part
    <2>4. QED
      BY <1>2, <1>3, <1>7, <1>8, <1>9, <2>1, <2>2, <2>3 DEF Inv, SkipIsJustified
  <1>19. WrittenOffIsReceived'
    BY <1>2, <1>10 DEF Inv, WrittenOffIsReceived, sender_part
  <1>20. BeginIsJustified'
    BY <1>2, <1>5, <1>8, Types DEF Inv, BeginIsJustified, sender_part
  <1>21. QED
    BY <1>5, <1>6, <1>13, <1>14, <1>16, <1>17, <1>18, <1>19, <1>20 DEF Inv

(* An ack is received: what it settles was received.                       *)
LEMMA ReceiveAckKeepsInv == ASSUME Inv, ReceiveAck PROVE Inv'
  <1>1. PICK a \in acks : S!receive_receiver_section(a.needed, a.sacks)
    BY DEF ReceiveAck
  <1>2. UNCHANGED <<receiver_part, sections, acks, consumed>>
    BY DEF ReceiveAck
  <1>3. /\ a.needed \in 0 .. S!SentEnd
        /\ a.needed <= next_frame_needed
        /\ a.sacks \in SUBSET (0 .. next_sequence_number - 1)
    <2>1. PeerIsHonest
      BY HonestPeer
    <2>2. a \in [needed : Nat, sacks : SUBSET Nat]
      BY DEF Inv, AcksAreTrue
    <2>3. QED
      BY <2>1, <2>2, Types DEF Inv, PeerIsHonest
  <1>4. SP!receive_receiver_section(a.needed, a.sacks)
    BY <1>1, SameSection
  <1>5. SP!Inv' /\ RP!Inv'
    BY <1>2, <1>3, <1>4, SameWindow, Constants, SP!SectionStep, ReceiverRests DEF Inv
  <1>6. UNCHANGED <<next_frame_index, next_sequence_number, carried, need_immediate_send>>
    BY <1>4 DEF SP!receive_receiver_section
  <1>7. /\ sender_begin \in Nat /\ next_frame_index \in Nat /\ next_frame_needed \in Nat
        /\ outstanding \subseteq Nat
        /\ a.needed \in Nat
    BY <1>3, Types DEF Inv
  <1>8. /\ sender_begin' = sender_begin \/ sender_begin' = a.needed
        /\ \A f \in outstanding :
             \/ f \in outstanding' \/ f < a.needed
             \/ \E p \in a.sacks : p \in S!PacketWindow /\ f \in carried[p]
    <2>1. CASE a.needed >= SP!SenderEnd
      BY <2>1, <1>4 DEF SP!receive_receiver_section
    <2>2. CASE ~(a.needed >= SP!SenderEnd)
      <3> DEFINE begin == IF a.needed > sender_begin THEN a.needed ELSE sender_begin
      <3>1. PICK read \in SUBSET a.sacks, complete \in BOOLEAN :
               SP!settle(begin, read, complete)
        BY <2>2, <1>4 DEF SP!receive_receiver_section
      <3>2. /\ sender_begin' = begin
            /\ outstanding' = {f \in outstanding : f >= begin}
                                \ UNION {carried[p] : p \in (acked \cup (read \cap SP!PacketWindow)) \ acked}
        BY <3>1 DEF SP!settle
      <3>3. \A f \in outstanding : f < begin => f < a.needed
        <4>1. \A f \in outstanding : f >= sender_begin
          BY Types DEF Inv
        <4>2. QED BY <4>1, <1>7
      <3>4. \A f \in outstanding : f >= begin \/ f < begin
        BY <1>7
      <3> HIDE DEF begin
      <3>5. ASSUME NEW f \in outstanding, f \notin outstanding', ~(f < a.needed)
            PROVE  \E p \in a.sacks : p \in S!PacketWindow /\ f \in carried[p]
        BY <3>2, <3>3, <3>4, <3>5, SameWindow
      <3>6. QED BY <3>2, <3>5 DEF begin
    <2>3. QED BY <2>1, <2>2
  <1>9. \A f : Received(f)' <=> Received(f)
    BY <1>2 DEF Received, receiver_part
  <1>10. WrittenOffIsReceived'
    <2> SUFFICES ASSUME NEW f \in 0 .. next_frame_index - 1, f \notin outstanding',
                        ~(f + FrameCapacity < next_frame_index)
                 PROVE  Received(f)
      BY <1>6, <1>9 DEF WrittenOffIsReceived
    <2>1. CASE f \notin outstanding
      BY <2>1 DEF Inv, WrittenOffIsReceived
    <2>2. CASE f < a.needed
      BY <2>2, <1>3, <1>7 DEF Received
    <2>3. CASE \E p \in a.sacks : p \in S!PacketWindow /\ f \in carried[p]
      BY <2>3, HonestPeer DEF PeerIsHonest
    <2>4. QED BY <2>1, <2>2, <2>3, <1>8
  <1>11. BeginIsJustified'
    BY <1>2, <1>3, <1>6, <1>7, <1>8 DEF Inv, BeginIsJustified, receiver_part
  <1>12. S!SentEnd' = S!SentEnd /\ S!PacketWindow' = S!PacketWindow
    BY <1>6 DEF S!SentEnd, S!PacketWindow, S!PacketsBegin, S!PacketsBeginFor
  <1>13. WithinBounds' /\ SectionsWereSent' /\ HeldWasSent'
    BY <1>2, <1>6, <1>12 DEF Inv, WithinBounds, SectionsWereSent, HeldWasSent, receiver_part
  <1>14. NamedWasReceived' /\ AcksAreTrue' /\ SkipIsJustified'
    BY <1>2, <1>6, <1>9
       DEF Inv, NamedWasReceived, AcksAreTrue, SkipIsJustified, Delivery!NextToConsume,
           receiver_part
  <1>15. QED BY <1>5, <1>10, <1>11, <1>13, <1>14 DEF Inv

(* The application takes the oldest frame of the window.                   *)
LEMMA ConsumeKeepsInv == ASSUME Inv, Consume PROVE Inv'
  <1>1. /\ R!pop_frames(1) /\ RP!pop_frames(1)
        /\ consumed' = Append(consumed, receiver_begin)
        /\ UNCHANGED <<sender_part, sections, acks>>
    BY SamePop DEF Consume
  <1>2. /\ receiver_begin' = receiver_begin + 1
        /\ stored' = {f \in stored : f >= receiver_begin + 1}
        /\ UNCHANGED <<next_frame_needed, biggest_seqno_received, recent_packets>>
    BY <1>1 DEF RP!pop_frames
  <1>3. /\ receiver_begin \in Nat /\ next_frame_needed \in Nat /\ stored \subseteq Nat
        /\ next_frame_index \in Nat
    BY Types DEF Inv
  <1>4. 1 \in 1 .. WindowCapacity
    BY StreamConstants
  <1>5. /\ RP!Inv'
        /\ \A f \in stored : f \in stored' \/ f < next_frame_needed'
    BY <1>1, <1>4, Constants, RP!PopStep DEF Inv
  <1>6. SP!Inv'
    BY <1>1, SenderRests DEF Inv
  <1>7. \A f \in Nat : Received(f) => Received(f)'
    BY <1>2, <1>3, <1>5, ReceivedStays
  <1>8. \A s \in sections : (\A f \in s.frames : Received(f)) => \A f \in s.frames : Received(f)'
    BY <1>7 DEF Inv, SectionsWereSent
  <1>9. S!SentEnd' = S!SentEnd /\ S!PacketWindow' = S!PacketWindow
    BY <1>1 DEF S!SentEnd, S!PacketWindow, S!PacketsBegin, S!PacketsBeginFor, sender_part
  <1>10. WithinBounds' /\ SectionsWereSent' /\ HeldWasSent'
    BY <1>1, <1>2, <1>9 DEF Inv, WithinBounds, SectionsWereSent, HeldWasSent, sender_part
  <1>11. NamedWasReceived' /\ AcksAreTrue'
    BY <1>1, <1>2, <1>8 DEF Inv, NamedWasReceived, AcksAreTrue
  <1>12. SkipIsJustified'
    <2>1. consumed \in Seq(Nat)
      BY DEF Inv, SkipIsJustified
    <2>2. /\ consumed' \in Seq(Nat)
          /\ consumed' # << >>
          /\ consumed'[Len(consumed')] = receiver_begin
      BY <1>1, <1>3, <2>1
    <2>3. Delivery!NextToConsume' = receiver_begin'
      BY <1>2, <2>2 DEF Delivery!NextToConsume
    <2>4. QED BY <2>2, <2>3 DEF SkipIsJustified
  <1>13. WrittenOffIsReceived'
    BY <1>1, <1>7 DEF Inv, WrittenOffIsReceived, sender_part
  <1>14. BeginIsJustified'
    BY <1>1, <1>2 DEF Inv, BeginIsJustified, sender_part
  <1>15. QED
    BY <1>5, <1>6, <1>10, <1>11, <1>12, <1>13, <1>14 DEF Inv

LEMMA StreamNext == Inv /\ [Next]_stream_vars => Inv'
  <1> SUFFICES ASSUME Inv, [Next]_stream_vars PROVE Inv'
    OBVIOUS
  <1>1. CASE UNCHANGED stream_vars
    <2>1. UNCHANGED <<sender_part, receiver_part, sections, acks, consumed>>
      BY <1>1 DEF stream_vars
    <2>2. SP!Inv' /\ RP!Inv'
      BY <2>1, SenderRests, ReceiverRests DEF Inv
    <2>3. /\ S!SentEnd' = S!SentEnd /\ S!PacketWindow' = S!PacketWindow
          /\ \A f : Received(f)' <=> Received(f)
      BY <2>1 DEF S!SentEnd, S!PacketWindow, S!PacketsBegin, S!PacketsBeginFor, Received,
                  sender_part, receiver_part
    <2>4. QED
      BY <2>1, <2>2, <2>3
         DEF Inv, WithinBounds, SectionsWereSent, HeldWasSent, NamedWasReceived, AcksAreTrue,
             SkipIsJustified, WrittenOffIsReceived, BeginIsJustified, Delivery!NextToConsume,
             sender_part, receiver_part
  <1>2. QED
    BY <1>1, PushKeepsInv, SendKeepsInv, SendAckKeepsInv, ReceiveKeepsInv,
       ReceiveAckKeepsInv, ConsumeKeepsInv
       DEF Next

-----------------------------------------------------------------------------
(* The state of a stream keeps its type.                                   *)
THEOREM StreamTypeCorrect == Spec => []TypeOK
  <1>1. Inv => TypeOK
    <2> SUFFICES ASSUME Inv PROVE TypeOK
      OBVIOUS
    <2>1. S!TypeOK
      BY SameWindow
         DEF Inv, SP!Inv, SP!TypeOK, S!TypeOK, SP!NoSack, S!NoSack
    <2>2. R!TypeOK
      BY DEF Inv, RP!Inv, RP!TypeOK, R!TypeOK, RP!ReceiverEnd, RP!ReceiverEndFrom,
             R!ReceiverEnd, R!ReceiverEndFrom, RP!Records, R!Records, RP!NoSeqno, R!NoSeqno
    <2>3. /\ next_frame_needed \in Nat /\ next_sequence_number \in Nat
          /\ next_frame_index \in Nat /\ S!SentEnd \in Nat
          /\ next_frame_needed <= MaxFrames /\ next_sequence_number <= MaxPackets
          /\ S!SentEnd <= MaxFrames
          /\ MaxFrames \in Nat /\ MaxPackets \in Nat
      BY Types, StreamConstants DEF Inv, HeldWasSent, WithinBounds
    <2>4. ASSUME NEW s \in sections
          PROVE  s \in [seqno : 0 .. MaxPackets - 1, frames : SUBSET (0 .. MaxFrames - 1)]
      <3>1. s = [seqno |-> s.seqno, frames |-> s.frames]
        BY DEF Inv, SectionsWereSent, RP!Records
      <3>2. s.seqno \in 0 .. MaxPackets - 1 /\ s.frames \subseteq 0 .. MaxFrames - 1
        BY <2>3 DEF Inv, SectionsWereSent
      <3>3. QED BY <3>1, <3>2
    <2>5. ASSUME NEW a \in acks
          PROVE  a \in [needed : 0 .. MaxFrames, sacks : SUBSET (0 .. MaxPackets - 1)]
      <3>1. a = [needed |-> a.needed, sacks |-> a.sacks]
        BY DEF Inv, AcksAreTrue
      <3>2. a.needed \in 0 .. MaxFrames
        BY <2>3 DEF Inv, AcksAreTrue
      <3>3. a.sacks \subseteq 0 .. MaxPackets - 1
        BY <2>3 DEF Inv, AcksAreTrue, SectionsWereSent
      <3>4. QED BY <3>1, <3>2, <3>3
    <2>6. QED BY <2>1, <2>2, <2>4, <2>5 DEF Inv, SkipIsJustified, TypeOK
  <1>2. QED BY StreamInit, StreamNext, <1>1, PTL DEF Spec

(* Both ends may trust their peer, however late its acks come: the checks  *)
(* of sender.cc for a frame or a packet that was not sent never fire, and  *)
(* an ack only ever names what was received.                               *)
THEOREM StreamPeerIsHonest == Spec => []PeerIsHonest
  <1>1. Inv => PeerIsHonest
    BY HonestPeer
  <1>2. QED BY StreamInit, StreamNext, <1>1, PTL DEF Spec

(* The sender writes off only what the receiver has, or what a full window *)
(* made it drop.                                                           *)
THEOREM StreamWrittenOffIsReceived == Spec => []WrittenOffIsReceived
  <1>1. Inv => WrittenOffIsReceived
    BY DEF Inv
  <1>2. QED BY StreamInit, StreamNext, <1>1, PTL DEF Spec

(* The sender's window is never ahead of the receiver's need, unless the   *)
(* producer is a whole window ahead.                                       *)
THEOREM StreamBeginIsJustified == Spec => []BeginIsJustified
  <1>1. Inv => BeginIsJustified
    BY DEF Inv
  <1>2. QED BY StreamInit, StreamNext, <1>1, PTL DEF Spec

(* Each half of the stream runs as its own specification says: the peer    *)
(* and the network give it nothing that the proofs about it do not allow.  *)
THEOREM StreamRunsSender == Spec => S!Spec
  <1>1. Init => S!Init
    BY DEF Init
  <1>2. Inv /\ [Next]_stream_vars => [S!Next]_(S!sender_vars)
    <2> SUFFICES ASSUME Inv, [Next]_stream_vars PROVE [S!Next]_(S!sender_vars)
      OBVIOUS
    <2>1. CASE Push \/ SendSection
      BY <2>1 DEF Push, SendSection, S!Next
    <2>2. CASE ReceiveAck
      <3>1. PICK a \in acks : S!receive_receiver_section(a.needed, a.sacks)
        BY <2>2 DEF ReceiveAck
      <3>2. a.needed \in 0 .. S!SentEnd /\ a.sacks \in SUBSET (0 .. next_sequence_number - 1)
        <4>1. a \in [needed : Nat, sacks : SUBSET Nat]
          BY DEF Inv, AcksAreTrue
        <4>2. QED BY <4>1, HonestPeer, Types DEF Inv, PeerIsHonest
      <3>3. QED BY <3>1, <3>2 DEF S!Next
    <2>3. CASE SendAck \/ ReceiveSection \/ Consume \/ UNCHANGED stream_vars
      <3>1. UNCHANGED sender_part
        BY <2>3 DEF SendAck, ReceiveSection, Consume, stream_vars
      <3>2. QED BY <3>1 DEF sender_part, S!sender_vars
    <2>4. QED BY <2>1, <2>2, <2>3 DEF Next
  <1>3. QED BY StreamInit, StreamNext, <1>1, <1>2, PTL DEF Spec, S!Spec

THEOREM StreamRunsReceiver == Spec => R!Spec
  <1>1. Init => R!Init
    BY DEF Init
  <1>2. Inv /\ [Next]_stream_vars => [R!Next]_(R!receiver_vars)
    <2> SUFFICES ASSUME Inv, [Next]_stream_vars PROVE [R!Next]_(R!receiver_vars)
      OBVIOUS
    <2>1. CASE ReceiveSection
      <3>1. PICK s \in sections : R!receive_sender_section(s.seqno, s.frames)
        BY <2>1 DEF ReceiveSection
      <3>2. /\ s.seqno \in 0 .. next_sequence_number - 1
            /\ s.frames \subseteq 0 .. S!SentEnd - 1
        BY DEF Inv, SectionsWereSent
      <3>3. s.seqno \in 0 .. MaxPackets - 1 /\ s.frames \in SUBSET (0 .. MaxFrames - 1)
        BY <3>2, Types, StreamConstants DEF Inv, WithinBounds
      <3>4. QED BY <3>1, <3>3 DEF R!Next
    <2>2. CASE Consume
      <3>1. 1 \in 1 .. WindowCapacity
        BY StreamConstants
      <3>2. QED BY <2>2, <3>1 DEF Consume, R!Next
    <2>3. CASE Push \/ SendSection \/ SendAck \/ ReceiveAck \/ UNCHANGED stream_vars
      <3>1. UNCHANGED receiver_part
        BY <2>3 DEF Push, SendSection, SendAck, ReceiveAck, stream_vars
      <3>2. QED BY <3>1 DEF receiver_part, R!receiver_vars
    <2>4. QED BY <2>1, <2>2, <2>3 DEF Next
  <1>3. QED BY StreamInit, StreamNext, <1>1, <1>2, PTL DEF Spec, R!Spec

(* The stream delivers in order: what the application consumes is the      *)
(* producer's frames in order, each at most once, and a frame is skipped   *)
(* only when the producer has run a whole receiver window past it.         *)
THEOREM StreamDeliversInOrder == Spec => InOrderDelivery
  <1>1. Init => Delivery!Init
    BY DEF Init, S!Init, Delivery!Init
  <1>2. Inv /\ [Next]_stream_vars => [Delivery!Next]_(Delivery!delivery_vars)
    <2> SUFFICES ASSUME Inv, [Next]_stream_vars
                 PROVE  [Delivery!Next]_(Delivery!delivery_vars)
      OBVIOUS
    <2>1. CASE Push
      BY <2>1 DEF Push, S!push_frame, Delivery!Next, Delivery!Produce
    <2>2. CASE Consume
      <3>1. /\ RP!pop_frames(1)
            /\ consumed' = Append(consumed, receiver_begin)
            /\ next_frame_index' = next_frame_index
        BY <2>2, SamePop DEF Consume, sender_part
      <3>2. receiver_begin < next_frame_needed
        BY <3>1, Types DEF Inv, RP!pop_frames
      <3>3. receiver_begin \in Nat /\ next_frame_index \in Nat /\ receiver_begin < next_frame_index
        BY <3>2, Types DEF Inv, HeldWasSent
      <3>4. Delivery!NextToConsume \in Nat
        BY DEF Inv, SkipIsJustified, Delivery!NextToConsume
      <3>5. /\ receiver_begin \in Delivery!NextToConsume .. next_frame_index - 1
            /\ \/ receiver_begin = Delivery!NextToConsume
               \/ receiver_begin + WindowCapacity <= next_frame_index
        BY <3>3, <3>4 DEF Inv, SkipIsJustified
      <3>6. QED BY <3>1, <3>5 DEF Delivery!Next, Delivery!Consume
    <2>3. CASE SendSection \/ SendAck \/ ReceiveSection \/ ReceiveAck \/ UNCHANGED stream_vars
      <3>1. UNCHANGED <<next_frame_index, consumed>>
        BY <2>3 DEF SendSection, S!set_sender_section, SendAck, ReceiveSection, ReceiveAck,
                    S!receive_receiver_section, sender_part, stream_vars
      <3>2. QED BY <3>1 DEF Delivery!delivery_vars
    <2>4. QED BY <2>1, <2>2, <2>3 DEF Next
  <1>3. QED BY StreamInit, StreamNext, <1>1, <1>2, PTL DEF Spec, InOrderDelivery, Delivery!Spec
=============================================================================
