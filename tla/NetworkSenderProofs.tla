------------------------- MODULE NetworkSenderProofs -------------------------
(***************************************************************************)
(* Proofs about the sender for every window, packet size and reorder       *)
(* window.  That no frame is stuck in flight is not inductive by itself: a *)
(* packet that is given up clears the in_flight bit of every outstanding   *)
(* frame it carried, which is right only because no other unresolved       *)
(* packet carries the frame (CarriedOnce), which in turn holds because     *)
(* what an unresolved packet carries is marked in flight and so is not     *)
(* chosen again (CarriedIsInFlight).                                       *)
(***************************************************************************)
EXTENDS NetworkSender, TLAPS

(* The windows are consistent and what was sacked was sent.                *)
WindowInv ==
    /\ sender_begin <= next_frame_index
    /\ greatest_sack < next_sequence_number
    /\ need_immediate_send => sender_begin < next_frame_index

(* The two directions of InFlightIsCarried.                                *)
HasCarrier ==
    \A f \in in_flight : \E p \in Unresolved : f \in carried[p]

CarriedIsInFlight ==
    \A p \in Unresolved : carried[p] \cap outstanding \subseteq in_flight

(* The two directions of VerdictsAreExact.                                 *)
Adjudicated ==
    \A p \in PacketWindow :
        p + ReorderWindow < greatest_sack => p \in acked \cup assumed_lost

LossHasEvidence ==
    \A p \in assumed_lost : p + ReorderWindow < greatest_sack

(* A frame that waits for its first packet is in none.                     *)
UnsentIsUncarried ==
    need_immediate_send => \A p \in PacketWindow : next_frame_index - 1 \notin carried[p]

Inv ==
    /\ TypeOK
    /\ WindowInv
    /\ HasCarrier
    /\ CarriedOnce
    /\ CarriedIsInFlight
    /\ PushedFrameNeedsSend
    /\ UnsentIsUncarried
    /\ Adjudicated
    /\ LossHasEvidence

LEMMA InitInv == Init => Inv
  <1> SUFFICES ASSUME Init PROVE Inv
    OBVIOUS
  <1>1. PacketWindow = 0 .. -1 /\ PacketWindow = {}
    BY SenderConstants
       DEF SenderConstants, Init, PacketWindow, PacketsBegin, PacketsBeginFor
  <1>2. carried \in [PacketWindow -> SUBSET (0 .. next_frame_index - 1)]
    BY <1>1 DEF Init
  <1>3. TypeOK
    BY <1>2 DEF Init, TypeOK, NoSack
  <1>4. WindowInv
    BY DEF Init, WindowInv, NoSack
  <1>5. QED
    BY <1>1, <1>3, <1>4
       DEF Init, Inv, HasCarrier, CarriedOnce, CarriedIsInFlight,
           PushedFrameNeedsSend, UnsentIsUncarried, Adjudicated, LossHasEvidence,
           Unresolved

(* The packet window is a window of natural numbers that ends before the   *)
(* next sequence number.                                                   *)
LEMMA WindowTypes ==
    ASSUME TypeOK
    PROVE  /\ PacketsBegin \in Nat
           /\ PacketsBegin <= next_sequence_number
           /\ PacketWindow \subseteq Nat
           /\ PacketWindow \subseteq PacketsBegin .. next_sequence_number - 1
           /\ \A p \in PacketWindow : p < next_sequence_number
           /\ Unresolved \subseteq PacketWindow
  BY SenderConstants
     DEF SenderConstants, TypeOK, PacketWindow, PacketsBegin, PacketsBeginFor, Unresolved

-----------------------------------------------------------------------------
LEMMA PushStep == ASSUME Inv, push_frame PROVE Inv'
  <1> DEFINE begin == IF next_frame_index >= SenderEnd
                      THEN next_frame_index - FrameCapacity + 1
                      ELSE sender_begin
  <1>1. /\ ~need_immediate_send
        /\ sender_begin' = begin
        /\ outstanding' = {f \in outstanding : f >= begin} \cup {next_frame_index}
        /\ in_flight' = {f \in in_flight : f >= begin}
        /\ next_frame_index' = next_frame_index + 1
        /\ need_immediate_send' = TRUE
        /\ UNCHANGED <<greatest_sack, next_sequence_number, carried, acked, assumed_lost>>
    BY DEF push_frame
  <1>2. begin \in Nat /\ begin >= sender_begin /\ begin <= next_frame_index
    BY SenderConstants DEF SenderConstants, Inv, TypeOK, WindowInv, SenderEnd
  <1> HIDE DEF begin
  <1>3. PacketWindow' = PacketWindow /\ Unresolved' = Unresolved
    BY <1>1 DEF PacketWindow, PacketsBegin, PacketsBeginFor, Unresolved
  <1>4. \A p \in PacketWindow : next_frame_index \notin carried[p]
    BY DEF Inv, TypeOK
  <1>5. TypeOK'
    <2>1. sender_begin' \in Nat /\ next_frame_index' \in Nat /\ need_immediate_send' \in BOOLEAN
      BY <1>1, <1>2 DEF Inv, TypeOK
    <2>2. outstanding' \subseteq sender_begin' .. next_frame_index' - 1
      <3> SUFFICES ASSUME NEW f \in outstanding'
                   PROVE  f \in begin .. next_frame_index
        <4>1. sender_begin' = begin /\ next_frame_index' - 1 = next_frame_index
          BY <1>1 DEF Inv, TypeOK
        <4>2. QED BY <4>1
      <3>1. CASE f = next_frame_index
        BY <3>1, <1>2 DEF Inv, TypeOK
      <3>2. CASE f \in outstanding /\ f >= begin
        BY <3>2, <1>2 DEF Inv, TypeOK
      <3>3. QED BY <1>1, <3>1, <3>2
    <2>3. in_flight' \subseteq outstanding'
      BY <1>1 DEF Inv, TypeOK
    <2>4. carried' \in [PacketWindow' -> SUBSET (0 .. next_frame_index' - 1)]
      BY <1>1, <1>3 DEF Inv, TypeOK
    <2>5. QED BY <1>1, <1>3, <2>1, <2>2, <2>3, <2>4 DEF Inv, TypeOK
  <1>6. WindowInv'
    BY <1>1, <1>2 DEF Inv, TypeOK, WindowInv
  <1>7. HasCarrier'
    BY <1>1, <1>3 DEF Inv, HasCarrier
  <1>8. CarriedOnce'
    BY <1>1, <1>3, <1>4 DEF Inv, CarriedOnce, Unresolved
  <1>9. CarriedIsInFlight'
    BY <1>1, <1>3, <1>4 DEF Inv, CarriedIsInFlight, Unresolved
  <1>10. PushedFrameNeedsSend'
    <2>1. next_frame_index \notin in_flight
      BY DEF Inv, TypeOK
    <2>2. next_frame_index' - 1 = next_frame_index
      BY <1>1 DEF Inv, TypeOK
    <2>3. QED BY <1>1, <2>1, <2>2 DEF PushedFrameNeedsSend, NeedsSend
  <1>11. Adjudicated' /\ LossHasEvidence'
    BY <1>1, <1>3 DEF Inv, Adjudicated, LossHasEvidence
  <1>12. UnsentIsUncarried'
    <2>1. next_frame_index' - 1 = next_frame_index
      BY <1>1 DEF Inv, TypeOK
    <2>2. QED BY <1>1, <1>3, <1>4, <2>1 DEF UnsentIsUncarried
  <1>13. QED BY <1>5, <1>6, <1>7, <1>8, <1>9, <1>10, <1>11, <1>12 DEF Inv

-----------------------------------------------------------------------------
(* A packet takes frames that need sending, and the newest if it does.     *)
LEMMA FramesToSendNeedIt ==
    /\ FramesToSend \subseteq NeedsSend
    /\ NeedsSend \cap {next_frame_index - 1} \subseteq FramesToSend
  BY DEF FramesToSend, Oldest

LEMMA SendStep == ASSUME Inv, set_sender_section PROVE Inv'
  <1> DEFINE n == next_sequence_number
             begin == PacketsBeginFor(n + 1)
             expired == {p \in PacketWindow : p < begin}
             frames == FramesToSend
  <1>1. /\ next_sequence_number' = n + 1
        /\ in_flight' = (in_flight \cup frames) \ DepartedFrom(expired)
        /\ need_immediate_send' = (need_immediate_send /\ next_frame_index - 1 \notin frames)
        /\ carried' = [p \in begin .. n |-> IF p = n THEN frames ELSE carried[p]]
        /\ acked' = acked \ expired
        /\ assumed_lost' = assumed_lost \ expired
        /\ UNCHANGED <<sender_begin, next_frame_index, outstanding, greatest_sack>>
    BY DEF set_sender_section
  <1>2. frames \subseteq outstanding \ in_flight
    BY FramesToSendNeedIt DEF NeedsSend
  <1>3. /\ n \in Nat /\ begin \in Nat /\ begin <= n
        /\ begin >= PacketsBegin
        /\ PacketWindow' = begin .. n
        /\ n \notin PacketWindow
        /\ PacketWindow' = (PacketWindow \ expired) \cup {n}
    BY <1>1, SenderConstants
       DEF SenderConstants, Inv, TypeOK, PacketWindow, PacketsBegin, PacketsBeginFor
  <1> HIDE DEF begin, frames
  <1>4. carried'[n] = frames /\ \A p \in PacketWindow \ expired : carried'[p] = carried[p]
    BY <1>1, <1>3
  <1> HIDE DEF n, expired
  <1>5. Unresolved' = (Unresolved \ expired) \cup {n}
    BY <1>1, <1>3 DEF Inv, TypeOK, Unresolved
  <1>6. DepartedFrom(expired) = UNION {carried[p] : p \in Unresolved \cap expired}
    BY DEF DepartedFrom, Unresolved, expired
  <1>7. \A f \in outstanding : f \in DepartedFrom(expired) =>
           /\ f \in in_flight
           /\ \A p \in Unresolved \ expired : f \notin carried[p]
    BY <1>6 DEF Inv, CarriedOnce, CarriedIsInFlight
  <1>8. TypeOK'
    <2>1. next_sequence_number' \in Nat
      BY <1>1, <1>3
    <2>2. frames \subseteq 0 .. next_frame_index - 1
      BY <1>2 DEF Inv, TypeOK
    <2>3. carried' \in [PacketWindow' -> SUBSET (0 .. next_frame_index - 1)]
      <3>1. \A p \in PacketWindow' : carried'[p] \in SUBSET (0 .. next_frame_index - 1)
        BY <1>3, <1>4, <2>2 DEF Inv, TypeOK
      <3>2. carried' = [p \in PacketWindow' |-> carried'[p]]
        BY <1>1, <1>3
      <3>3. QED BY <3>1, <3>2
    <2>4. in_flight' \subseteq outstanding'
      BY <1>1, <1>2 DEF Inv, TypeOK
    <2>5. acked' \subseteq PacketWindow' /\ assumed_lost' \subseteq PacketWindow'
      BY <1>1, <1>3 DEF Inv, TypeOK
    <2>6. need_immediate_send' \in BOOLEAN
      BY <1>1 DEF Inv, TypeOK
    <2>7. QED BY <1>1, <2>1, <2>3, <2>4, <2>5, <2>6 DEF Inv, TypeOK
  <1>9. WindowInv'
    BY <1>1 DEF Inv, TypeOK, WindowInv, n, NoSack
  <1>10. HasCarrier'
    <2> SUFFICES ASSUME NEW f \in in_flight'
                 PROVE  \E p \in Unresolved' : f \in carried'[p]
      BY DEF HasCarrier
    <2>1. CASE f \in frames
      BY <2>1, <1>4, <1>5
    <2>2. CASE f \in in_flight
      <3>1. PICK p \in Unresolved : f \in carried[p]
        BY <2>2 DEF Inv, HasCarrier
      <3>2. p \notin expired
        BY <3>1, <1>1, <1>6
      <3>3. p \in PacketWindow \ expired
        BY <3>2 DEF Unresolved
      <3> QED BY <3>1, <3>2, <3>3, <1>4, <1>5
    <2>3. QED BY <1>1, <2>1, <2>2
  <1>11. CarriedIsInFlight'
    <2> SUFFICES ASSUME NEW p \in Unresolved', NEW f \in carried'[p], f \in outstanding
                 PROVE  f \in in_flight'
      BY <1>1 DEF CarriedIsInFlight
    <2>1. CASE p = n
      BY <2>1, <1>1, <1>2, <1>4, <1>7
    <2>2. CASE p \in Unresolved \ expired
      <3>1. f \in carried[p]
        BY <2>2, <1>4 DEF Unresolved
      <3> QED BY <2>2, <3>1, <1>1, <1>7 DEF Inv, CarriedIsInFlight
    <2>3. QED BY <1>5, <2>1, <2>2
  <1>12. CarriedOnce'
    <2>1. \A p \in Unresolved \ expired : carried'[p] = carried[p]
      BY <1>4 DEF Unresolved
    <2>2. \A p \in Unresolved \ expired : carried[p] \cap frames = {}
      BY <1>2 DEF Inv, CarriedIsInFlight
    <2>3. \A p, q \in Unresolved \ expired :
             p # q => carried[p] \cap carried[q] \cap outstanding = {}
      BY DEF Inv, CarriedOnce
    <2>4. QED BY <1>1, <1>4, <1>5, <2>1, <2>2, <2>3, ZenonT(60) DEF CarriedOnce
  <1>13. PushedFrameNeedsSend' /\ UnsentIsUncarried'
    <2>1. ~need_immediate_send'
      BY <1>1, FramesToSendNeedIt DEF Inv, PushedFrameNeedsSend, frames
    <2>2. QED BY <2>1 DEF PushedFrameNeedsSend, UnsentIsUncarried
  <1>14. Adjudicated'
    <2> SUFFICES ASSUME NEW p \in PacketWindow', p + ReorderWindow < greatest_sack
                 PROVE  p \in acked' \cup assumed_lost'
      BY <1>1 DEF Adjudicated
    <2>1. p # n
      BY SenderConstants DEF SenderConstants, Inv, TypeOK, WindowInv, n, NoSack
    <2>2. QED BY <2>1, <1>1, <1>3 DEF Inv, Adjudicated
  <1>15. LossHasEvidence'
    BY <1>1 DEF Inv, LossHasEvidence
  <1>16. QED
    BY <1>8, <1>9, <1>10, <1>11, <1>12, <1>13, <1>14, <1>15 DEF Inv

-----------------------------------------------------------------------------
LEMMA SettleStep ==
    ASSUME Inv,
           NEW begin \in Nat, begin >= sender_begin, begin <= SentEnd,
           NEW sacks \in SUBSET (0 .. next_sequence_number - 1),
           NEW complete \in BOOLEAN,
           settle(begin, sacks, complete),
           UNCHANGED <<next_frame_index, next_sequence_number, carried,
                       need_immediate_send>>
    PROVE  Inv'
  <1>1. PICK top \in Greatest(sacks) :
         LET acks     == acked \cup (sacks \cap PacketWindow)
             settled  == UNION {carried[p] : p \in acks \ acked}
             advances == complete /\ top > greatest_sack
             lost     == IF advances THEN NewlyLost(top, acks) ELSE {}
         IN  /\ sender_begin' = begin
             /\ outstanding' = {f \in outstanding : f >= begin} \ settled
             /\ in_flight' = {f \in in_flight : f >= begin}
                               \ (settled \cup DepartedFrom(lost))
             /\ acked' = acks
             /\ assumed_lost' = assumed_lost \cup lost
             /\ greatest_sack' = IF advances THEN top ELSE greatest_sack
    BY DEF settle
  <1> DEFINE acks     == acked \cup (sacks \cap PacketWindow)
             settled  == UNION {carried[p] : p \in acks \ acked}
             advances == complete /\ top > greatest_sack
             lost     == IF advances THEN NewlyLost(top, acks) ELSE {}
  <1>2. /\ sender_begin' = begin
        /\ outstanding' = {f \in outstanding : f >= begin} \ settled
        /\ in_flight' = {f \in in_flight : f >= begin} \ (settled \cup DepartedFrom(lost))
        /\ acked' = acks
        /\ assumed_lost' = assumed_lost \cup lost
        /\ greatest_sack' = IF advances THEN top ELSE greatest_sack
    BY <1>1
  <1>3. /\ top \in Nat \cup {NoSack}
        /\ top < next_sequence_number
        /\ advances => top \in Nat
    <2>1. next_sequence_number \in Nat /\ greatest_sack \in Nat \cup {NoSack}
      BY DEF Inv, TypeOK
    <2>2. QED BY <2>1 DEF Greatest, NoSack
  <1>4. /\ PacketWindow' = PacketWindow
        /\ lost \subseteq PacketWindow \ acks
        /\ acks \subseteq PacketWindow
    BY DEF PacketWindow, PacketsBegin, PacketsBeginFor, NewlyLost, Inv, TypeOK
  <1>5. advances => \A p \in PacketWindow :
           p < AdjudicatedUntil(top) <=> p + ReorderWindow < top
    BY <1>3, WindowTypes, SenderConstants
       DEF SenderConstants, AdjudicatedUntil, Inv, NoSack
  <1>6. \A p \in PacketWindow :
           p < AdjudicatedUntil(greatest_sack) <=> p + ReorderWindow < greatest_sack
    BY WindowTypes, SenderConstants
       DEF SenderConstants, AdjudicatedUntil, Inv, TypeOK, NoSack
  <1>7. Unresolved' = Unresolved \ (acks \cup lost)
    BY <1>2, <1>4 DEF Unresolved
  <1>8. DepartedFrom(lost) = UNION {carried[p] : p \in lost \cap Unresolved}
    BY <1>4 DEF DepartedFrom, Unresolved
  <1>9. SentEnd <= next_frame_index /\ SentEnd \in Int
    BY DEF SentEnd, Inv, TypeOK
  <1>10. lost = {p \in PacketWindow \ acks :
                   /\ advances
                   /\ p + ReorderWindow < top
                   /\ ~(p + ReorderWindow < greatest_sack)}
    <2>1. CASE ~advances
      BY <2>1
    <2>2. CASE advances
      <3>1. /\ AdjudicatedUntil(greatest_sack) \in Int
            /\ \A p \in PacketWindow : p \in Int
        BY WindowTypes, SenderConstants
           DEF SenderConstants, AdjudicatedUntil, Inv, TypeOK, NoSack
      <3>2. lost = NewlyLost(top, acks)
        BY <2>2
      <3> HIDE DEF lost, acks
      <3>3. QED BY <2>2, <3>1, <3>2, <1>5, <1>6 DEF NewlyLost
    <2>3. QED BY <2>1, <2>2
  <1> HIDE DEF acks, settled, lost, advances
  <1>11. TypeOK'
    <2>1. outstanding' \subseteq sender_begin' .. next_frame_index' - 1
      <3> SUFFICES ASSUME NEW f \in outstanding' PROVE f \in begin .. next_frame_index - 1
        BY <1>2
      <3>1. f \in outstanding /\ f >= begin
        BY <1>2
      <3> QED BY <3>1 DEF Inv, TypeOK
    <2>2. in_flight' \subseteq outstanding'
      BY <1>2 DEF Inv, TypeOK
    <2>3. greatest_sack' \in Nat \cup {NoSack}
      BY <1>2, <1>3 DEF Inv, TypeOK
    <2>4. acked' \subseteq PacketWindow' /\ assumed_lost' \subseteq PacketWindow'
      BY <1>2, <1>4 DEF Inv, TypeOK
    <2>5. sender_begin' \in Nat
      BY <1>2
    <2>6. carried' \in [PacketWindow' -> SUBSET (0 .. next_frame_index' - 1)]
      BY <1>4 DEF Inv, TypeOK
    <2>7. QED BY <2>1, <2>2, <2>3, <2>4, <2>5, <2>6 DEF Inv, TypeOK
  <1>12. WindowInv'
    <2>1. sender_begin' <= next_frame_index'
      BY <1>2, <1>9 DEF Inv, TypeOK
    <2>2. greatest_sack' < next_sequence_number'
      BY <1>2, <1>3 DEF Inv, WindowInv
    <2>3. need_immediate_send' => sender_begin' < next_frame_index'
      BY <1>2 DEF SentEnd, Inv, TypeOK
    <2>4. QED BY <2>1, <2>2, <2>3 DEF WindowInv
  <1>13. HasCarrier'
    <2> SUFFICES ASSUME NEW f \in in_flight'
                 PROVE  \E p \in Unresolved' : f \in carried[p]
      BY DEF HasCarrier
    <2>1. PICK p \in Unresolved : f \in carried[p]
      BY <1>2 DEF Inv, HasCarrier
    <2>2. p \notin acks
      BY <2>1, <1>2 DEF settled, Unresolved
    <2>3. p \notin lost
      BY <2>1, <1>2, <1>8
    <2>4. QED BY <2>1, <2>2, <2>3, <1>7
  <1>14. CarriedOnce'
    BY <1>2, <1>7 DEF Inv, CarriedOnce
  <1>15. CarriedIsInFlight'
    <2> SUFFICES ASSUME NEW p \in Unresolved', NEW f \in carried[p], f \in outstanding'
                 PROVE  f \in in_flight'
      BY DEF CarriedIsInFlight
    <2>1. f \in in_flight /\ f >= begin /\ f \notin settled
      BY <1>2, <1>7 DEF Inv, CarriedIsInFlight
    <2>2. f \notin DepartedFrom(lost)
      BY <1>2, <1>7, <1>8 DEF Inv, CarriedOnce
    <2>3. QED BY <2>1, <2>2, <1>2
  <1>20. UnsentIsUncarried'
    BY <1>4 DEF Inv, UnsentIsUncarried
  <1>16. PushedFrameNeedsSend'
    <2> SUFFICES ASSUME need_immediate_send
                 PROVE  next_frame_index - 1 \in outstanding' \ in_flight'
      BY DEF PushedFrameNeedsSend, NeedsSend
    <2>1. next_frame_index - 1 \in outstanding \ in_flight
      BY DEF Inv, PushedFrameNeedsSend, NeedsSend
    <2>2. next_frame_index - 1 >= begin
      BY DEF SentEnd, Inv, TypeOK
    <2>3. next_frame_index - 1 \notin settled
      <3> SUFFICES ASSUME NEW p \in acks \ acked, next_frame_index - 1 \in carried[p]
                   PROVE  FALSE
        BY DEF settled
      <3>1. p \in PacketWindow
        BY <1>4
      <3>2. QED
        BY <3>1 DEF Inv, UnsentIsUncarried
    <2>4. QED BY <1>2, <2>1, <2>2, <2>3
  <1>17. Adjudicated'
    <2> SUFFICES ASSUME NEW p \in PacketWindow, p + ReorderWindow < greatest_sack'
                 PROVE  p \in acked' \cup assumed_lost'
      BY <1>4 DEF Adjudicated
    <2>1. CASE p + ReorderWindow < greatest_sack
      BY <2>1, <1>2 DEF Inv, Adjudicated, acks
    <2>2. CASE ~(p + ReorderWindow < greatest_sack)
      BY <2>2, <1>2, <1>10
    <2>3. QED BY <2>1, <2>2
  <1>18. LossHasEvidence'
    <2> SUFFICES ASSUME NEW p \in assumed_lost'
                 PROVE  p + ReorderWindow < greatest_sack'
      BY DEF LossHasEvidence
    <2>1. CASE p \in lost
      BY <2>1, <1>2, <1>10
    <2>2. CASE p \in assumed_lost
      <3>1. p \in Nat /\ p + ReorderWindow < greatest_sack
        BY <2>2, WindowTypes DEF Inv, TypeOK, LossHasEvidence
      <3>2. greatest_sack' >= greatest_sack /\ greatest_sack' \in Int
        BY <1>2, <1>3 DEF advances, Inv, TypeOK, NoSack
      <3>3. QED
        BY <3>1, <3>2, SenderConstants DEF SenderConstants, Inv, TypeOK, NoSack
    <2>3. QED BY <1>2, <2>1, <2>2
  <1>19. QED
    BY <1>11, <1>12, <1>13, <1>14, <1>15, <1>16, <1>20, <1>17, <1>18 DEF Inv

LEMMA SectionStep ==
    ASSUME Inv,
           NEW needed \in 0 .. SentEnd,
           NEW sacks \in SUBSET (0 .. next_sequence_number - 1),
           receive_receiver_section(needed, sacks)
    PROVE  Inv'
  <1>1. UNCHANGED <<next_frame_index, next_sequence_number, carried, need_immediate_send>>
    BY DEF receive_receiver_section
  <1>2. CASE needed >= SenderEnd
    <2>1. UNCHANGED sender_vars
      BY <1>1, <1>2 DEF receive_receiver_section, sender_vars
    <2>2. QED
      BY <2>1 DEF sender_vars, Inv, TypeOK, WindowInv, UnsentIsUncarried,
                  HasCarrier, CarriedOnce, CarriedIsInFlight,
                  PushedFrameNeedsSend, Adjudicated, LossHasEvidence, NeedsSend,
                  PacketWindow, PacketsBegin, PacketsBeginFor, Unresolved
  <1>3. CASE ~(needed >= SenderEnd)
    <2> DEFINE begin == IF needed > sender_begin THEN needed ELSE sender_begin
    <2>1. begin \in Nat /\ begin >= sender_begin /\ begin <= SentEnd
      BY DEF Inv, TypeOK, WindowInv, SentEnd
    <2>2. \/ settle(begin, sacks, TRUE)
          \/ \E read \in SUBSET {p \in sacks : p < PacketsEnd} : settle(begin, read, FALSE)
      BY <1>3 DEF receive_receiver_section
    <2> HIDE DEF begin
    <2>3. QED
      BY <1>1, <2>1, <2>2, SettleStep
  <1>4. QED BY <1>2, <1>3

LEMMA NextInv == Inv /\ [Next]_sender_vars => Inv'
  <1> SUFFICES ASSUME Inv, [Next]_sender_vars PROVE Inv'
    OBVIOUS
  <1>1. CASE push_frame
    BY <1>1, PushStep
  <1>2. CASE set_sender_section
    BY <1>2, SendStep
  <1>3. ASSUME NEW needed \in 0 .. SentEnd,
               NEW sacks \in SUBSET (0 .. next_sequence_number - 1),
               receive_receiver_section(needed, sacks)
        PROVE  Inv'
    BY <1>3, SectionStep
  <1>4. CASE UNCHANGED sender_vars
    BY <1>4 DEF sender_vars, Inv, TypeOK, WindowInv, UnsentIsUncarried,
                HasCarrier, CarriedOnce, CarriedIsInFlight,
                PushedFrameNeedsSend, Adjudicated, LossHasEvidence, NeedsSend,
                PacketWindow, PacketsBegin, PacketsBeginFor, Unresolved
  <1>5. QED BY <1>1, <1>2, <1>3, <1>4 DEF Next

-----------------------------------------------------------------------------
(* The sender's state keeps its type, its window and its packet window.    *)
THEOREM SenderTypeCorrect == Spec => []TypeOK
  <1>1. Inv => TypeOK
    BY DEF Inv
  <1>2. QED BY InitInv, NextInv, <1>1, PTL DEF Spec

(* No frame is stuck in flight: some unresolved packet carries it.         *)
THEOREM SenderInFlightIsCarried == Spec => []InFlightIsCarried
  <1>1. Inv => InFlightIsCarried
    BY DEF Inv, TypeOK, HasCarrier, CarriedIsInFlight, InFlightIsCarried
  <1>2. QED BY InitInv, NextInv, <1>1, PTL DEF Spec

(* No frame that matters rides in two unresolved packets, and what an      *)
(* unresolved packet carries is marked in flight.                          *)
THEOREM SenderCarriesOnce == Spec => []CarriedOnce
  <1>1. Inv => CarriedOnce
    BY DEF Inv
  <1>2. QED BY InitInv, NextInv, <1>1, PTL DEF Spec

(* The next send clears need_immediate_send, so a caller that sends after  *)
(* every push never meets the exception "packet pushed but not sent".      *)
THEOREM SenderPushedFrameNeedsSend == Spec => []PushedFrameNeedsSend
  <1>1. Inv => PushedFrameNeedsSend
    BY DEF Inv
  <1>2. QED BY InitInv, NextInv, <1>1, PTL DEF Spec

(* A packet that was not acknowledged is given up exactly when the         *)
(* greatest sack has overtaken it by more than the reorder window.         *)
THEOREM SenderVerdictsAreExact == Spec => []VerdictsAreExact
  <1>1. Inv => VerdictsAreExact
    BY DEF Inv, Adjudicated, LossHasEvidence, VerdictsAreExact
  <1>2. QED BY InitInv, NextInv, <1>1, PTL DEF Spec

-----------------------------------------------------------------------------
LEMMA PushStaysSettled == ASSUME Inv, push_frame PROVE StaysSettled
  <1>1. \E begin : /\ sender_begin' = begin
                   /\ outstanding' = {f \in outstanding : f >= begin} \cup {next_frame_index}
                   /\ in_flight' = {f \in in_flight : f >= begin}
    BY DEF push_frame
  <1>2. next_frame_index \notin in_flight
    BY DEF Inv, TypeOK
  <1>3. QED BY <1>1, <1>2 DEF StaysSettled

LEMMA SendStaysSettled == ASSUME Inv, set_sender_section PROVE StaysSettled
  <1> DEFINE begin == PacketsBeginFor(next_sequence_number + 1)
             expired == {p \in PacketWindow : p < begin}
  <1>1. /\ outstanding' = outstanding
        /\ in_flight \ in_flight' \subseteq DepartedFrom(expired)
        /\ next_sequence_number' = next_sequence_number + 1
    BY DEF set_sender_section
  <1>2. PacketsBegin' = begin /\ begin \in Int /\ PacketWindow \subseteq Int
    BY <1>1, WindowTypes, SenderConstants
       DEF SenderConstants, PacketsBegin, PacketsBeginFor, Inv, TypeOK
  <1>3. \A p \in expired : p \notin Unresolved'
    BY <1>2 DEF Unresolved, PacketWindow
  <1>4. \A f \in DepartedFrom(expired) : \E p \in Unresolved : p \in expired /\ f \in carried[p]
    BY DEF DepartedFrom, Unresolved
  <1> HIDE DEF expired
  <1>5. QED BY <1>1, <1>3, <1>4 DEF StaysSettled

LEMMA SectionStaysSettled ==
    ASSUME Inv,
           NEW begin, NEW sacks, NEW complete,
           settle(begin, sacks, complete),
           UNCHANGED <<next_sequence_number, carried>>
    PROVE  StaysSettled
  <1>1. PICK lost, settled :
           /\ lost \subseteq PacketWindow
           /\ outstanding' = {f \in outstanding : f >= begin} \ settled
           /\ in_flight' = {f \in in_flight : f >= begin}
                             \ (settled \cup DepartedFrom(lost))
           /\ assumed_lost' = assumed_lost \cup lost
    <2>1. PICK top \in Greatest(sacks) :
           LET acks     == acked \cup (sacks \cap PacketWindow)
               settled  == UNION {carried[p] : p \in acks \ acked}
               advances == complete /\ top > greatest_sack
               lost     == IF advances THEN NewlyLost(top, acks) ELSE {}
           IN  /\ outstanding' = {f \in outstanding : f >= begin} \ settled
               /\ in_flight' = {f \in in_flight : f >= begin}
                                 \ (settled \cup DepartedFrom(lost))
               /\ assumed_lost' = assumed_lost \cup lost
      BY DEF settle
    <2>2. \A acks : NewlyLost(top, acks) \subseteq PacketWindow
      BY DEF NewlyLost
    <2>3. QED BY <2>1, <2>2
  <1>2. \A f \in DepartedFrom(lost) : \E p \in Unresolved : p \in lost /\ f \in carried[p]
    BY <1>1 DEF DepartedFrom, Unresolved
  <1>3. \A p \in lost : p \notin Unresolved'
    BY <1>1 DEF Unresolved
  <1>4. QED BY <1>1, <1>2, <1>3 DEF StaysSettled

(* A frame leaves the in-flight state only with a verdict on the packet    *)
(* that carries it, and a settled frame never becomes outstanding again.   *)
THEOREM SenderSettledForGood == Spec => SettledForGood
  <1>1. Inv /\ [Next]_sender_vars => [StaysSettled]_sender_vars
    <2> SUFFICES ASSUME Inv, Next, sender_vars' # sender_vars PROVE StaysSettled
      BY DEF Inv
    <2>1. CASE push_frame
      BY <2>1, PushStaysSettled
    <2>2. CASE set_sender_section
      BY <2>2, SendStaysSettled
    <2>3. ASSUME NEW needed, NEW sacks, receive_receiver_section(needed, sacks)
          PROVE  StaysSettled
      <3>1. UNCHANGED <<next_frame_index, next_sequence_number, carried, need_immediate_send>>
        BY <2>3 DEF receive_receiver_section
      <3>2. CASE needed >= SenderEnd
        BY <2>3, <3>1, <3>2 DEF receive_receiver_section, StaysSettled
      <3>3. CASE ~(needed >= SenderEnd)
        BY <2>3, <3>1, <3>3, SectionStaysSettled DEF receive_receiver_section
      <3>4. QED BY <3>2, <3>3
    <2>4. QED BY <2>1, <2>2, <2>3 DEF Next
  <1>2. QED BY InitInv, NextInv, <1>1, PTL DEF Spec, SettledForGood
=============================================================================
