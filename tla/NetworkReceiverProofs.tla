------------------------ MODULE NetworkReceiverProofs ------------------------
(***************************************************************************)
(* Proofs about the receiver for every window, ring and section size.      *)
(* The inductive invariant is TypeOK with NeededIsFirstGap: a discard      *)
(* restarts the walk at range_begin, and only because everything below     *)
(* next_frame_needed_ is stored does the walk come back to it.             *)
(* At the end the loops of the code are shown to do what the closed forms  *)
(* say, by induction over their turns.                                     *)
(***************************************************************************)
EXTENDS ReceiverLoop, Numbers, FiniteSetTheorems, TLAPS

Inv == TypeOK /\ NeededIsFirstGap /\ RecentIsSettled

(* A packet from the peer, as Next enumerates them.                        *)
LEMMA SectionTypes ==
    ASSUME NEW seqno \in 0 .. SeqnoLimit - 1, NEW frames \in SUBSET (0 .. FrameLimit - 1)
    PROVE  seqno \in Nat /\ frames \in SUBSET Nat
  BY ReceiverConstants DEF ReceiverConstants

(* What any packet does to the window: where the window and the walk can   *)
(* end, in terms of where they stood.                                      *)
LEMMA WalkResumes ==
    ASSUME Inv,
           NEW frames \in SUBSET Nat,
           NEW begin \in BeginsFor(frames),
           NEW n \in StopsOfWalk(WalkFrom(begin), Held(frames, begin), begin)
    PROVE  /\ begin \in Nat /\ begin >= receiver_begin
           /\ Held(frames, begin) \subseteq begin .. begin + WindowCapacity - 1
           /\ n \in begin .. begin + WindowCapacity
           /\ n >= next_frame_needed
           /\ begin .. n - 1 \subseteq Held(frames, begin)
           /\ n \notin Held(frames, begin)
  <1> DEFINE have == Held(frames, begin)
             from == WalkFrom(begin)
  <1>1. begin \in Nat /\ begin >= receiver_begin
    BY ReceiverConstants DEF ReceiverConstants, Inv, TypeOK, BeginsFor
  <1>2. have \subseteq begin .. begin + WindowCapacity - 1
    <2> SUFFICES ASSUME NEW f \in have PROVE f \in begin .. begin + WindowCapacity - 1
      OBVIOUS
    <2>1. CASE f \in stored
      BY <1>1, <2>1, ReceiverConstants
         DEF Held, ReceiverConstants, Inv, TypeOK, ReceiverEnd, ReceiverEndFrom
    <2>2. CASE f \in frames
      BY <1>1, <2>2, ReceiverConstants DEF Held, ReceiverConstants, BeginsFor, ReceiverEndFrom
    <2>3. QED BY <2>1, <2>2 DEF Held
  <1>3. from \in begin .. begin + WindowCapacity
    BY <1>1, ReceiverConstants
       DEF WalkFrom, ReceiverConstants, Inv, TypeOK, ReceiverEnd, ReceiverEndFrom
  <1>4. /\ n \in from .. begin + WindowCapacity
        /\ from .. n - 1 \subseteq have
        /\ n < begin + WindowCapacity => n \notin have
    BY DEF StopsOfWalk, ReceiverEndFrom
  <1>5. n \in begin .. begin + WindowCapacity
    BY <1>1, <1>3, <1>4, ReceiverConstants DEF ReceiverConstants
  <1>6. n \notin have
    BY <1>1, <1>2, <1>4, <1>5, ReceiverConstants DEF ReceiverConstants
  <1>7. begin .. n - 1 \subseteq have
    <2>1. CASE begin > receiver_begin
      BY <1>4, <2>1 DEF WalkFrom
    <2>2. CASE begin = receiver_begin
      <3>1. begin .. next_frame_needed - 1 \subseteq have
        BY <1>1, <2>2 DEF Held, Inv, TypeOK, NeededIsFirstGap
      <3>2. from = next_frame_needed
        BY <2>2, <1>1 DEF WalkFrom
      <3> QED
        BY <1>1, <1>3, <1>4, <1>5, <3>1, <3>2, ReceiverConstants
           DEF Inv, TypeOK, ReceiverConstants
    <2>3. QED BY <1>1, <2>1, <2>2 DEF Inv, TypeOK
  <1>8. n >= next_frame_needed
    <2>1. CASE begin > receiver_begin
      <3> SUFFICES ASSUME n < next_frame_needed PROVE FALSE
        BY <1>5, <1>1, ReceiverConstants DEF Inv, TypeOK, ReceiverConstants
      <3>1. n \in receiver_begin .. next_frame_needed - 1
        BY <1>1, <1>5, ReceiverConstants DEF Inv, TypeOK, ReceiverConstants
      <3>2. n \in have
        BY <1>1, <1>5, <3>1 DEF Held, Inv, NeededIsFirstGap
      <3> QED BY <3>2, <1>6
    <2>2. CASE begin = receiver_begin
      BY <2>2, <1>1, <1>3, <1>4, ReceiverConstants DEF WalkFrom, Inv, TypeOK, ReceiverConstants
    <2>3. QED BY <1>1, <2>1, <2>2 DEF Inv, TypeOK
  <1>9. QED BY <1>1, <1>2, <1>5, <1>6, <1>7, <1>8

-----------------------------------------------------------------------------
LEMMA InitInv == Init => Inv
  BY ReceiverConstants
     DEF ReceiverConstants, Init, Inv, TypeOK, NeededIsFirstGap, RecentIsSettled,
         ReceiverEnd, ReceiverEndFrom, Records, NoSeqno

(* The ring keeps its type and its size, and every record in it afterwards *)
(* was in it before or is the new one.                                     *)
LEMMA RememberKeeps ==
    ASSUME TypeOK, NEW record \in Records
    PROVE  /\ Remember(record) \in Seq(Records)
           /\ Len(Remember(record)) <= RecentCapacity
           /\ \A i \in DOMAIN Remember(record) :
                \/ Remember(record)[i] = record
                \/ \E j \in DOMAIN recent_packets : Remember(record)[i] = recent_packets[j]
  <1> DEFINE full == Len(recent_packets) >= RecentCapacity
             kept == IF full THEN Tail(recent_packets) ELSE recent_packets
  <1>1. /\ kept \in Seq(Records)
        /\ Len(kept) < RecentCapacity
        /\ \A i \in 1 .. Len(kept) :
              \E j \in DOMAIN recent_packets : kept[i] = recent_packets[j]
    <2>1. CASE full
      <3>1. recent_packets \in Seq(Records) /\ Len(recent_packets) = RecentCapacity
        BY <2>1, ReceiverConstants DEF TypeOK, ReceiverConstants
      <3>2. recent_packets # << >>
        BY <3>1, ReceiverConstants DEF ReceiverConstants
      <3>3. /\ Tail(recent_packets) \in Seq(Records)
            /\ Len(Tail(recent_packets)) = Len(recent_packets) - 1
            /\ \A i \in 1 .. Len(recent_packets) - 1 :
                  Tail(recent_packets)[i] = recent_packets[i + 1]
        BY <3>1, <3>2
      <3> QED BY <2>1, <3>1, <3>3, ReceiverConstants DEF ReceiverConstants
    <2>2. CASE ~full
      BY <2>2, ReceiverConstants DEF TypeOK, ReceiverConstants
    <2>3. QED BY <2>1, <2>2
  <1>2. Remember(record) = Append(kept, record)
    BY DEF Remember
  <1> HIDE DEF kept
  <1>3. QED
    BY <1>1, <1>2, ReceiverConstants DEF ReceiverConstants

LEMMA ReceiveStep ==
    ASSUME Inv,
           NEW seqno \in 0 .. SeqnoLimit - 1,
           NEW frames \in SUBSET (0 .. FrameLimit - 1),
           receive_sender_section(seqno, frames)
    PROVE  /\ Inv'
           /\ receiver_begin' >= receiver_begin
           /\ next_frame_needed' >= next_frame_needed
           /\ biggest_seqno_received' >= biggest_seqno_received
           /\ \A f \in stored : f \in stored' \/ f < next_frame_needed'
  <1>1. seqno \in Nat /\ frames \in SUBSET Nat
    BY SectionTypes
  <1>2. PICK begin \in BeginsFor(frames) :
          /\ receiver_begin' = begin
          /\ stored' = Held(frames, begin)
          /\ next_frame_needed' \in
               StopsOfWalk(WalkFrom(begin), Held(frames, begin), begin)
          /\ unreceived_beyond' \in
               {n \in {unreceived_beyond} \cup {f + 1 : f \in frames} :
                  n >= unreceived_beyond /\ \A f \in frames : f < n}
          /\ biggest_seqno_received' =
               IF seqno > biggest_seqno_received THEN seqno ELSE biggest_seqno_received
          /\ recent_packets' = IF frames = {} THEN recent_packets
                               ELSE Remember([seqno |-> seqno, frames |-> frames])
    BY DEF receive_sender_section
  <1>3. /\ begin \in Nat /\ begin >= receiver_begin
        /\ stored' \subseteq begin .. begin + WindowCapacity - 1
        /\ next_frame_needed' \in begin .. begin + WindowCapacity
        /\ next_frame_needed' >= next_frame_needed
        /\ begin .. next_frame_needed' - 1 \subseteq stored'
        /\ next_frame_needed' \notin stored'
    BY <1>1, <1>2, WalkResumes
  <1>4. /\ unreceived_beyond' \in Nat
        /\ biggest_seqno_received' \in Nat \cup {NoSeqno}
        /\ biggest_seqno_received' >= biggest_seqno_received
    BY <1>1, <1>2 DEF Inv, TypeOK, NoSeqno
  <1>5. \A f \in stored \cup frames : f \in stored' \/ f < next_frame_needed'
    <2> SUFFICES ASSUME NEW f \in stored \cup frames PROVE f \in stored' \/ f < next_frame_needed'
      OBVIOUS
    <2>0. f \in Nat
      BY <1>1 DEF Inv, TypeOK
    <2>1. CASE f < begin
      BY <2>0, <2>1, <1>3, ReceiverConstants DEF ReceiverConstants
    <2>2. CASE f >= begin /\ f \in stored
      BY <2>2, <1>2 DEF Held
    <2>3. CASE f >= begin /\ f \in frames /\ f >= next_frame_needed
      BY <2>3, <1>2 DEF Held
    <2>4. CASE f \in frames /\ f < next_frame_needed
      BY <2>0, <2>4, <1>3, ReceiverConstants DEF Inv, TypeOK, ReceiverConstants
    <2>5. QED BY <2>0, <1>3, <2>1, <2>2, <2>3, <2>4 DEF Inv, TypeOK
  <1>6. /\ recent_packets' \in Seq(Records)
        /\ Len(recent_packets') <= RecentCapacity
        /\ \A i \in DOMAIN recent_packets' :
             \/ recent_packets'[i].frames = frames
             \/ \E j \in DOMAIN recent_packets : recent_packets'[i] = recent_packets[j]
    <2>1. CASE frames = {}
      BY <2>1, <1>2 DEF Inv, TypeOK
    <2>2. CASE frames # {}
      <3>1. [seqno |-> seqno, frames |-> frames] \in Records
        BY <1>1 DEF Records
      <3>2. recent_packets' = Remember([seqno |-> seqno, frames |-> frames])
        BY <1>2, <2>2
      <3> QED BY <3>1, <3>2, RememberKeeps DEF Inv
    <2>3. QED BY <2>1, <2>2
  <1>7. TypeOK'
    BY <1>2, <1>3, <1>4, <1>6, ReceiverConstants
       DEF TypeOK, ReceiverEnd, ReceiverEndFrom, ReceiverConstants
  <1>8. NeededIsFirstGap'
    BY <1>2, <1>3 DEF NeededIsFirstGap
  <1>9. RecentIsSettled'
    <2> SUFFICES ASSUME NEW i \in DOMAIN recent_packets', NEW f \in recent_packets'[i].frames
                 PROVE  f < next_frame_needed' \/ f \in stored'
      BY DEF RecentIsSettled
    <2>1. CASE recent_packets'[i].frames = frames
      BY <2>1, <1>5
    <2>2. CASE \E j \in DOMAIN recent_packets : recent_packets'[i] = recent_packets[j]
      <3>1. PICK j \in DOMAIN recent_packets : recent_packets'[i] = recent_packets[j]
        BY <2>2
      <3>2. f < next_frame_needed \/ f \in stored
        BY <3>1 DEF Inv, RecentIsSettled
      <3>3. recent_packets[j] \in Records
        BY DEF Inv, TypeOK
      <3>4. f \in Nat
        BY <3>1, <3>3 DEF Records
      <3>5. next_frame_needed \in Nat /\ next_frame_needed' \in Nat
        BY <1>3, ReceiverConstants DEF Inv, TypeOK, ReceiverConstants, ReceiverEnd, ReceiverEndFrom
      <3> QED BY <3>2, <3>4, <3>5, <1>3, <1>5
    <2>3. QED BY <1>6, <2>1, <2>2
  <1>10. QED BY <1>2, <1>3, <1>4, <1>5, <1>7, <1>8, <1>9 DEF Inv

LEMMA PopStep ==
    ASSUME Inv, NEW num \in 1 .. WindowCapacity, pop_frames(num)
    PROVE  /\ Inv'
           /\ receiver_begin' >= receiver_begin
           /\ \A f \in stored : f \in stored' \/ f < next_frame_needed'
  <1>1. /\ num \in 1 .. next_frame_needed - receiver_begin
        /\ receiver_begin' = receiver_begin + num
        /\ stored' = {f \in stored : f >= receiver_begin + num}
        /\ UNCHANGED <<next_frame_needed, unreceived_beyond,
                       biggest_seqno_received, recent_packets>>
    BY DEF pop_frames
  <1>2. \A f \in stored : f \in stored' \/ f < next_frame_needed'
    BY <1>1, ReceiverConstants
       DEF Inv, TypeOK, ReceiverConstants, ReceiverEnd, ReceiverEndFrom
  <1>3. TypeOK'
    <2>1. receiver_begin' \in Nat
      BY <1>1 DEF Inv, TypeOK
    <2>2. stored' \subseteq receiver_begin' .. receiver_begin' + WindowCapacity - 1
      <3> SUFFICES ASSUME NEW f \in stored'
                   PROVE  f \in receiver_begin' .. receiver_begin' + WindowCapacity - 1
        OBVIOUS
      <3>1. f \in stored /\ f >= receiver_begin'
        BY <1>1
      <3>2. f \in receiver_begin .. receiver_begin + WindowCapacity - 1
        BY <3>1, ReceiverConstants
           DEF Inv, TypeOK, ReceiverConstants, ReceiverEnd, ReceiverEndFrom
      <3> QED BY <1>1, <2>1, <3>1, <3>2, ReceiverConstants DEF Inv, TypeOK, ReceiverConstants
    <2>3. next_frame_needed' \in receiver_begin' .. receiver_begin' + WindowCapacity
      BY <1>1, ReceiverConstants
         DEF Inv, TypeOK, ReceiverConstants, ReceiverEnd, ReceiverEndFrom
    <2>4. /\ unreceived_beyond' \in Nat
          /\ biggest_seqno_received' \in Nat \cup {NoSeqno}
          /\ recent_packets' \in Seq(Records)
          /\ Len(recent_packets') <= RecentCapacity
      BY <1>1 DEF Inv, TypeOK
    <2>5. QED
      BY <1>1, <2>1, <2>2, <2>3, <2>4, ReceiverConstants
         DEF TypeOK, ReceiverConstants, ReceiverEnd, ReceiverEndFrom
  <1>4. NeededIsFirstGap'
    BY <1>1, ReceiverConstants
       DEF Inv, TypeOK, NeededIsFirstGap, ReceiverConstants, ReceiverEnd, ReceiverEndFrom
  <1>5. RecentIsSettled'
    <2> SUFFICES ASSUME NEW i \in DOMAIN recent_packets, NEW f \in recent_packets[i].frames
                 PROVE  f < next_frame_needed \/ f \in stored'
      BY <1>1 DEF RecentIsSettled
    <2> QED BY <1>1, <1>2 DEF Inv, RecentIsSettled
  <1>6. QED BY <1>1, <1>2, <1>3, <1>4, <1>5 DEF Inv, TypeOK

LEMMA NextInv == Inv /\ [Next]_receiver_vars => Inv'
  <1> SUFFICES ASSUME Inv, [Next]_receiver_vars PROVE Inv'
    OBVIOUS
  <1>1. ASSUME NEW seqno \in 0 .. SeqnoLimit - 1, NEW frames \in SUBSET (0 .. FrameLimit - 1),
               receive_sender_section(seqno, frames)
        PROVE  Inv'
    BY <1>1, ReceiveStep
  <1>2. ASSUME NEW num \in 1 .. WindowCapacity, pop_frames(num)
        PROVE  Inv'
    BY <1>2, PopStep
  <1>3. CASE UNCHANGED receiver_vars
    BY <1>3 DEF receiver_vars, Inv, TypeOK, NeededIsFirstGap, RecentIsSettled,
                ReceiverEnd, ReceiverEndFrom
  <1>4. QED BY <1>1, <1>2, <1>3 DEF Next

(* The receiver's state keeps its type: the window never holds a frame     *)
(* outside its range and next_frame_needed_ never leaves it.               *)
THEOREM ReceiverTypeCorrect == Spec => []TypeOK
  <1>1. Inv => TypeOK
    BY DEF Inv
  <1>2. QED BY InitInv, NextInv, <1>1, PTL DEF Spec

(* next_frame_needed_ is the first gap of the window, always.              *)
THEOREM ReceiverNeededIsFirstGap == Spec => []NeededIsFirstGap
  <1>1. Inv => NeededIsFirstGap
    BY DEF Inv
  <1>2. QED BY InitInv, NextInv, <1>1, PTL DEF Spec

(* The exception "BUG: packet received but frame still needed???" of       *)
(* set_receiver_section cannot be thrown, whatever packets arrive.         *)
THEOREM ReceiverRecentIsSettled == Spec => []RecentIsSettled
  <1>1. Inv => RecentIsSettled
    BY DEF Inv
  <1>2. QED BY InitInv, NextInv, <1>1, PTL DEF Spec

(* The receiver never takes back what its sections promised.               *)
THEOREM ReceiverPromisesKept == Spec => PromisesKept
  <1> DEFINE Kept == /\ receiver_begin' >= receiver_begin
                     /\ next_frame_needed' >= next_frame_needed
                     /\ biggest_seqno_received' >= biggest_seqno_received
                     /\ \A f \in stored : f \in stored' \/ f < next_frame_needed'
  <1>1. Inv /\ [Next]_receiver_vars => [Kept]_receiver_vars
    <2> SUFFICES ASSUME Inv, Next PROVE Kept
      OBVIOUS
    <2>1. ASSUME NEW seqno \in 0 .. SeqnoLimit - 1, NEW frames \in SUBSET (0 .. FrameLimit - 1),
                 receive_sender_section(seqno, frames)
          PROVE  Kept
      BY <2>1, ReceiveStep
    <2>2. ASSUME NEW num \in 1 .. WindowCapacity, pop_frames(num)
          PROVE  Kept
      <3>1. UNCHANGED <<next_frame_needed, biggest_seqno_received>>
        BY <2>2 DEF pop_frames
      <3>2. next_frame_needed \in Int /\ biggest_seqno_received \in Int
        BY ReceiverConstants
           DEF Inv, TypeOK, NoSeqno, ReceiverConstants, ReceiverEnd, ReceiverEndFrom
      <3> QED BY <2>2, <3>1, <3>2, PopStep
    <2>3. QED BY <2>1, <2>2 DEF Next
  <1>2. QED BY InitInv, NextInv, <1>1, PTL DEF Spec, PromisesKept

-----------------------------------------------------------------------------
(* The loops.  A window that has taken some frames is as the closed forms  *)
(* say, except that its walk need not have come to its end.                *)

WindowSet == [begin : Nat, have : SUBSET Nat, needed : Nat, beyond : Nat]

LEMMA AdvanceStops ==
    ASSUME NEW w \in WindowSet, w.needed \in w.begin .. w.begin + WindowCapacity
    PROVE  \E n \in StopsOfWalk(w.needed, w.have, w.begin) : advance(w) = [w EXCEPT !.needed = n]
<1> DEFINE from == w.needed
           end == ReceiverEndFrom(w.begin)
           have == w.have
           C == WindowCapacity
           S == from .. end
           Step(n) == IF n < end /\ n \in have THEN n + 1 ELSE n
           step == [i \in 1 .. C |-> [n \in S |-> Step(n)]]
           IsAfter(g) == g = [i \in 0 .. C |-> IF i = 0 THEN from
                                ELSE IF g[i - 1] < end /\ g[i - 1] \in have
                                     THEN g[i - 1] + 1 ELSE g[i - 1]]
           after == CHOOSE g : IsAfter(g)
<1>1. /\ C \in Nat \ {0} /\ from \in Nat /\ end \in Nat /\ w.begin \in Nat
      /\ end = w.begin + C /\ from \in S /\ w.begin <= from
  BY ReceiverConstants DEF WindowSet, ReceiverEndFrom
<1>2. \A n \in S : Step(n) \in S
  BY <1>1
<1>3. step \in [1 .. C -> [S -> S]] /\ \A i \in 1 .. C : \A n \in S : step[i][n] = Step(n)
  BY <1>2
<1> HIDE DEF step, C, end, have, from
<1>4. PICK f : Recursion(f, C, S, from, step)
  <2> HIDE DEF S
  <2> QED
    BY <1>1, <1>3, RecursionOnNat
<1>5. f \in [0 .. C -> S] /\ f[0] = from /\ \A i \in 1 .. C : f[i] = step[i][f[i - 1]]
  BY <1>4 DEF Recursion
<1>6. ASSUME NEW i \in 1 .. C PROVE f[i - 1] \in S /\ f[i] = Step(f[i - 1])
  <2>1. i - 1 \in 0 .. C
    BY <1>1
  <2> HIDE DEF S, Step
  <2> QED
    BY <2>1, <1>3, <1>5
<1>7. IsAfter(f)
  <2>1. \A i \in 0 .. C : i = 0 \/ i \in 1 .. C
    BY <1>1
  <2>2. \A i \in 0 .. C : f[i] = IF i = 0 THEN from
                                 ELSE IF f[i - 1] < end /\ f[i - 1] \in have
                                      THEN f[i - 1] + 1 ELSE f[i - 1]
    BY <2>1, <1>5, <1>6
  <2> QED
    BY <2>2, <1>5
<1>8. IsAfter(after)
  BY <1>7
<1> HIDE DEF after
<1>9. advance(w) = [w EXCEPT !.needed = after[C]]
  BY DEF advance, after, C, from, end, have
<1>10. /\ after[0] = from
       /\ \A i \in 1 .. C : after[i] = Step(after[i - 1])
  <2>1. 0 \in 0 .. C
    BY <1>1
  <2>2. \A i \in 1 .. C : i \in 0 .. C /\ i # 0
    BY <1>1
  <2> QED
    BY <2>1, <2>2, <1>8
<1> HIDE DEF IsAfter
<1> DEFINE Walked(n, m) == /\ n \in S
                           /\ from .. n - 1 \subseteq have
                           /\ n >= from + m \/ ~(n < end /\ n \in have)
           T == {m \in Nat : m <= C => Walked(after[m], m)}
<1>11. 0 \in T
  BY <1>1, <1>10
<1>12. ASSUME NEW m \in T PROVE m + 1 \in T
  <2>1. CASE m + 1 > C
    BY <2>1, <1>1
  <2>2. CASE m + 1 <= C
    <3> DEFINE n == after[m]
    <3>1. m \in Nat /\ m + 1 \in 1 .. C /\ (m + 1) - 1 = m /\ Walked(n, m)
      BY <2>2, <1>1
    <3>2. after[m + 1] = Step(n)
      BY <3>1, <1>10
    <3> HIDE DEF n
    <3>3. n \in Nat /\ n \in S
      BY <3>1, <1>1
    <3>4. CASE n < end /\ n \in have
      <4>1. Step(n) = n + 1 /\ n + 1 \in S /\ n + 1 >= from + (m + 1)
        BY <3>1, <3>3, <3>4, <1>1
      <4>2. \A k \in from .. (n + 1) - 1 : k \in from .. n - 1 \/ k = n
        BY <3>3, <1>1
      <4>3. from .. (n + 1) - 1 \subseteq have
        BY <4>2, <3>1, <3>4
      <4> QED
        BY <4>1, <4>3, <3>1, <3>2
    <3>5. CASE ~(n < end /\ n \in have)
      <4>1. Step(n) = n
        BY <3>5
      <4> QED
        BY <4>1, <3>1, <3>2, <3>5
    <3> QED
      BY <3>4, <3>5
  <2>3. m \in Nat
    OBVIOUS
  <2> HIDE DEF T
  <2> QED
    BY <2>1, <2>2, <2>3, <1>1
<1>13. T = Nat
  <2>1. T \subseteq Nat
    OBVIOUS
  <2> HIDE DEF T
  <2> QED
    BY <2>1, <1>11, <1>12, NatSetInduction
<1>14. Walked(after[C], C)
  <2> HIDE DEF Walked
  <2> QED
    BY <1>13, <1>1
<1>15. after[C] \in StopsOfWalk(from, have, w.begin)
  <2> DEFINE n == after[C]
  <2> HIDE DEF n
  <2>1. n \in Nat /\ n \in from .. end /\ from .. n - 1 \subseteq have
        /\ (n < end => n \notin have)
    BY <1>14, <1>1 DEF n
  <2> QED
    BY <2>1 DEF StopsOfWalk, n, end
<1> QED
  BY <1>9, <1>15 DEF from, have

LEMMA OneStop ==
    ASSUME NEW from \in Nat, NEW have, NEW begin \in Nat, NEW n \in StopsOfWalk(from, have, begin)
    PROVE  StopsOfWalk(from, have, begin) = {n}
<1>1. ReceiverEndFrom(begin) \in Nat
  BY ReceiverConstants DEF ReceiverEndFrom
<1>2. ASSUME NEW a \in StopsOfWalk(from, have, begin), NEW b \in StopsOfWalk(from, have, begin), a < b
      PROVE  FALSE
  <2>1. a \in from .. ReceiverEndFrom(begin) /\ b \in from .. ReceiverEndFrom(begin)
        /\ from .. b - 1 \subseteq have /\ (a < ReceiverEndFrom(begin) => a \notin have)
    BY DEF StopsOfWalk
  <2>2. a \in from .. b - 1 /\ a < ReceiverEndFrom(begin)
    BY <2>1, <1>1, <1>2
  <2> QED
    BY <2>1, <2>2
<1>3. \A a \in StopsOfWalk(from, have, begin) : a \in Nat
  BY <1>1 DEF StopsOfWalk
<1>4. \A a \in StopsOfWalk(from, have, begin) : a = n
  BY <1>2, <1>3
<1> QED
  BY <1>4

(* BeginsFor names one place.                                              *)
IsBegin(b, frames) ==
    /\ b \in Nat /\ b >= receiver_begin
    /\ \A f \in frames : f < b + WindowCapacity
    /\ b = receiver_begin \/ \E f \in frames : b = f - WindowCapacity + 1

LEMMA OneBegin ==
    ASSUME Inv, NEW frames \in SUBSET Nat, NEW b, IsBegin(b, frames)
    PROVE  BeginsFor(frames) = {b}
<1>1. WindowCapacity \in Nat \ {0} /\ receiver_begin \in Nat /\ b \in Nat
  BY ReceiverConstants DEF Inv, TypeOK, IsBegin
<1>2. b \in BeginsFor(frames)
  BY DEF IsBegin, BeginsFor, ReceiverEndFrom
<1>3. ASSUME NEW a \in BeginsFor(frames) PROVE a = b
  <2>1. /\ a = receiver_begin \/ \E f \in frames : a = f - WindowCapacity + 1
        /\ a >= receiver_begin
        /\ \A f \in frames : f < a + WindowCapacity
    BY DEF BeginsFor, ReceiverEndFrom
  <2>2. a \in Int
    BY <2>1, <1>1
  <2>3. ~(a < b)
    <3> SUFFICES ASSUME a < b PROVE FALSE
      OBVIOUS
    <3>1. b # receiver_begin
      BY <2>1, <2>2, <1>1
    <3>2. PICK f \in frames : b = f - WindowCapacity + 1
      BY <3>1 DEF IsBegin
    <3>3. f < a + WindowCapacity /\ f \in Nat
      BY <2>1
    <3> QED
      BY <3>2, <3>3, <2>2, <1>1
  <2>4. ~(b < a)
    <3> SUFFICES ASSUME b < a PROVE FALSE
      OBVIOUS
    <3>1. a # receiver_begin
      BY <2>2, <1>1 DEF IsBegin
    <3>2. PICK f \in frames : a = f - WindowCapacity + 1
      BY <3>1, <2>1
    <3>3. f < b + WindowCapacity /\ f \in Nat
      BY DEF IsBegin
    <3> QED
      BY <3>2, <3>3, <2>2, <1>1
  <2> QED
    BY <2>2, <2>3, <2>4, <1>1
<1> QED
  BY <1>2, <1>3

Took(w, frames) ==
    /\ w \in WindowSet
    /\ IsBegin(w.begin, frames)
    /\ w.have = Held(frames, w.begin)
    /\ w.needed \in w.begin .. w.begin + WindowCapacity
    /\ w.begin .. w.needed - 1 \subseteq w.have
    /\ w.needed >= next_frame_needed
    /\ w.begin = receiver_begin => w.needed = next_frame_needed

(* Only the window, what it has and what is needed matter.                 *)
LEMMA TookFields ==
    ASSUME NEW w, NEW v \in WindowSet, NEW frames, Took(w, frames),
           v.begin = w.begin, v.have = w.have, v.needed = w.needed
    PROVE  Took(v, frames)
  BY DEF Took

LEMMA TakeFrameKeeps ==
    ASSUME Inv, NEW frames \in SUBSET Nat, NEW w0, Took(w0, frames), NEW f \in Nat
    PROVE  Took(take_frame(w0, f), frames \cup {f})
<1> DEFINE w == [w0 EXCEPT !.beyond = IF f + 1 > @ THEN f + 1 ELSE @]
           C == WindowCapacity
           more == frames \cup {f}
<1>1. C \in Nat \ {0} /\ receiver_begin \in Nat /\ next_frame_needed \in Nat
      /\ next_frame_needed <= receiver_begin + C /\ receiver_begin <= next_frame_needed
      /\ more \subseteq Nat
  BY ReceiverConstants DEF Inv, TypeOK, ReceiverEnd, ReceiverEndFrom
<1>2. w \in WindowSet /\ w.begin = w0.begin /\ w.have = w0.have /\ w.needed = w0.needed
  <2>1. w0 \in WindowSet
    BY DEF Took
  <2> QED
    BY <2>1 DEF WindowSet
<1>3. /\ f < w.needed => take_frame(w0, f) = w
      /\ ~(f < w.needed) /\ ~(f >= w.begin + C) =>
            take_frame(w0, f) = [w EXCEPT !.have = @ \cup {f}]
      /\ ~(f < w.needed) /\ f >= w.begin + C =>
            take_frame(w0, f) = [discard(w, f - (w.begin + C) + 1) EXCEPT !.have = @ \cup {f}]
  BY DEF take_frame, ReceiverEndFrom
<1>4. Took(w, frames)
  BY <1>2, TookFields
<1> HIDE DEF w
<1> DEFINE b == w.begin
           n == w.needed
           have == w.have
<1>5. /\ b \in Nat /\ b >= receiver_begin /\ n \in Nat /\ have \subseteq Nat
      /\ \A g \in frames : g < b + C
      /\ b = receiver_begin \/ \E g \in frames : b = g - C + 1
      /\ have = Held(frames, b)
      /\ n >= b /\ n <= b + C /\ b .. n - 1 \subseteq have
      /\ n >= next_frame_needed /\ (b = receiver_begin => n = next_frame_needed)
  BY <1>2, <1>4 DEF Took, WindowSet, IsBegin
<1>6. \A g \in stored : g \in Nat
  BY DEF Inv, TypeOK
<1>7. CASE f < n
  <2>1. take_frame(w0, f) = w
    BY <1>3, <1>7
  <2>2. IsBegin(b, more)
    <3> HIDE DEF b, n, have
    <3>1. f < b + C
      BY <1>1, <1>5, <1>7
    <3> QED
      BY <3>1, <1>5 DEF IsBegin
  <2>3. Held(more, b) = have
    <3>1. ASSUME f >= next_frame_needed, f >= b PROVE f \in have
      BY <3>1, <1>5, <1>7
    <3> HIDE DEF have, b, n
    <3>2. \A g \in Held(more, b) : g \in have
      BY <3>1, <1>5 DEF Held
    <3>3. \A g \in have : g \in Held(more, b)
      BY <1>5 DEF Held
    <3> QED
      BY <3>2, <3>3
  <2> QED
    BY <2>1, <2>2, <2>3, <1>4 DEF Took
<1>8. CASE f >= n /\ f < b + C
  <2> DEFINE v == [w EXCEPT !.have = @ \cup {f}]
  <2>1. take_frame(w0, f) = v
    BY <1>1, <1>3, <1>5, <1>8
  <2>2. v \in WindowSet /\ v.begin = b /\ v.needed = n /\ v.have = have \cup {f}
    BY <1>2 DEF WindowSet
  <2> HIDE DEF v
  <2>3. IsBegin(b, more)
    BY <1>1, <1>5, <1>8 DEF IsBegin
  <2>4. f >= next_frame_needed /\ f >= b
    BY <1>1, <1>5, <1>8
  <2> HIDE DEF b, n, have
  <2>5. Held(more, b) = have \cup {f}
    <3>1. \A g \in Held(more, b) : g \in have \cup {f}
      BY <1>5 DEF Held
    <3>2. \A g \in have \cup {f} : g \in Held(more, b)
      BY <2>4, <1>5 DEF Held
    <3> QED
      BY <3>1, <3>2
  <2>6. b .. n - 1 \subseteq have \cup {f} /\ n \in b .. b + C
    BY <1>5, <1>1
  <2>7. v.have = Held(more, v.begin) /\ IsBegin(v.begin, more)
    BY <2>2, <2>3, <2>5
  <2>8. v.needed \in v.begin .. v.begin + C /\ v.begin .. v.needed - 1 \subseteq v.have
        /\ v.needed >= next_frame_needed
        /\ (v.begin = receiver_begin => v.needed = next_frame_needed)
    BY <2>2, <2>6, <1>5
  <2> QED
    BY <2>1, <2>2, <2>7, <2>8 DEF Took
<1>9. CASE f >= n /\ f >= b + C
  <2> DEFINE c == f - C + 1
             left == {g \in have : g >= c}
             u == [w EXCEPT !.begin = c, !.have = left, !.needed = c]
  <2>1. c \in Nat /\ c > b /\ c > receiver_begin /\ c <= f /\ f < c + C
        /\ b + (f - (b + C) + 1) = c
    BY <1>1, <1>5, <1>9
  <2>2. left \subseteq Nat
    BY <1>5
  <2> HIDE DEF c
  <2>3. u \in WindowSet /\ u.begin = c /\ u.have = left /\ u.needed = c
    <3> HIDE DEF left
    <3> QED
      BY <2>1, <2>2, <1>2 DEF WindowSet
  <2>4. discard(w, f - (b + C) + 1) = advance(u)
    BY <2>1 DEF discard
  <2> HIDE DEF u
  <2>5. u.needed \in u.begin .. u.begin + C
    BY <2>1, <2>3, <1>1
  <2>6. PICK m \in StopsOfWalk(c, left, c) : advance(u) = [u EXCEPT !.needed = m]
    BY <2>3, <2>5, AdvanceStops
  <2>7. m \in c .. c + C /\ c .. m - 1 \subseteq left /\ (m < c + C => m \notin left)
    BY DEF StopsOfWalk, ReceiverEndFrom
  <2> DEFINE v == [advance(u) EXCEPT !.have = @ \cup {f}]
  <2>8. take_frame(w0, f) = v
    <3>1. ~(f < n)
      BY <1>5, <1>9
    <3> QED
      BY <3>1, <2>4, <1>3, <1>9
  <2>9. v \in WindowSet /\ v.begin = c /\ v.needed = m /\ v.have = left \cup {f}
    <3>1. m \in Nat
      BY <2>1, <2>7, <1>1
    <3> HIDE DEF left
    <3> QED
      BY <3>1, <2>3, <2>6 DEF WindowSet
  <2> HIDE DEF v
  <2>10. IsBegin(c, more)
    <3>1. \A g \in frames : g < c + C
      <4> SUFFICES ASSUME NEW g \in frames PROVE g < c + C
        OBVIOUS
      <4>1. g \in Nat /\ g < b + C
        BY <1>5
      <4> QED
        BY <4>1, <2>1, <1>1, <1>5
    <3>2. c = f - C + 1
      BY DEF c
    <3> QED
      BY <2>1, <3>1, <3>2, <1>1 DEF IsBegin
  <2>11. Held(more, c) = left \cup {f}
    <3>1. f >= next_frame_needed
      BY <1>1, <1>5, <1>9
    <3> HIDE DEF b, n, have
    <3>2. \A g \in Held(more, c) : g = f \/ (g \in Held(frames, b) /\ g >= c)
      <4> SUFFICES ASSUME NEW g \in Held(more, c), g # f
                   PROVE  g \in Held(frames, b) /\ g >= c
        OBVIOUS
      <4>1. g >= c /\ (g \in stored \/ (g \in frames /\ g >= next_frame_needed)) /\ g \in Nat
        BY <1>6 DEF Held
      <4>2. g >= b
        BY <4>1, <2>1, <1>5
      <4> QED
        BY <4>1, <4>2 DEF Held
    <3>3. \A g \in left : g \in Held(more, c)
      BY <1>5 DEF Held
    <3>4. f \in Held(more, c)
      BY <3>1, <2>1 DEF Held
    <3> QED
      BY <3>2, <3>3, <3>4, <1>5
  <2>12. m >= next_frame_needed
    <3> SUFFICES ASSUME m < next_frame_needed PROVE FALSE
      BY <2>1, <2>7, <1>1
    <3>1. m \in Nat /\ m \in receiver_begin .. next_frame_needed - 1 /\ m >= c /\ m >= b
      BY <2>1, <2>7, <1>1, <1>5
    <3>2. m \in stored
      BY <3>1 DEF Inv, NeededIsFirstGap
    <3>3. m \in left
      BY <3>1, <3>2, <1>5 DEF Held
    <3>4. m < c + C
      BY <3>1, <2>1, <1>1
    <3> QED
      BY <3>3, <3>4, <2>7
  <2> HIDE DEF left
  <2>13. v.have = Held(more, v.begin) /\ IsBegin(v.begin, more)
    BY <2>9, <2>10, <2>11
  <2>14. v.needed \in v.begin .. v.begin + C /\ v.begin .. v.needed - 1 \subseteq v.have
         /\ v.needed >= next_frame_needed /\ v.begin # receiver_begin
    BY <2>1, <2>7, <2>9, <2>12, <1>1
  <2> QED
    BY <2>8, <2>9, <2>13, <2>14 DEF Took
<1> QED
  BY <1>1, <1>5, <1>7, <1>8, <1>9

(* The whole loop, for any number of frames in any order.                  *)
LEMMA LoopEndsAsStated ==
    ASSUME Inv, NEW s \in Seq(Nat)
    PROVE  EndsAsStated(s)
<1> DEFINE n == Len(s)
           Some == {w \in WindowSet : \E frames \in SUBSET Nat : Took(w, frames)}
           step == [i \in 1 .. n |-> [w \in Some |-> take_frame(w, s[i])]]
           IsAfter(g) == g = [i \in 0 .. n |-> IF i = 0 THEN Window ELSE take_frame(g[i - 1], s[i])]
           after == CHOOSE g : IsAfter(g)
<1>1. n \in Nat /\ \A i \in 1 .. n : s[i] \in Nat
  OBVIOUS
<1>2. Window \in Some /\ Took(Window, {})
  <2>1. /\ Window \in WindowSet /\ Window.begin = receiver_begin
        /\ Window.have = stored /\ Window.needed = next_frame_needed
    <3>1. receiver_begin \in Nat /\ stored \in SUBSET Nat /\ next_frame_needed \in Nat
          /\ unreceived_beyond \in Nat
      BY ReceiverConstants DEF Inv, TypeOK
    <3> QED
      BY <3>1 DEF Window, WindowSet
  <2>2. IsBegin(receiver_begin, {})
    BY DEF IsBegin, Inv, TypeOK
  <2>3. Held({}, receiver_begin) = stored
    <3>1. \A f \in stored : f >= receiver_begin
      BY ReceiverConstants DEF Inv, TypeOK
    <3> QED
      BY <3>1 DEF Held
  <2>4. /\ next_frame_needed \in receiver_begin .. receiver_begin + WindowCapacity
        /\ receiver_begin .. next_frame_needed - 1 \subseteq stored
    BY DEF Inv, TypeOK, NeededIsFirstGap, ReceiverEnd, ReceiverEndFrom
  <2>5. next_frame_needed >= next_frame_needed
    BY <2>4, ReceiverConstants DEF Inv, TypeOK
  <2>6. Took(Window, {})
    BY <2>1, <2>2, <2>3, <2>4, <2>5 DEF Took
  <2>7. {} \in SUBSET Nat
    OBVIOUS
  <2> QED
    BY <2>1, <2>6, <2>7
<1>3. ASSUME NEW i \in 1 .. n, NEW w \in Some PROVE take_frame(w, s[i]) \in Some
  <2>1. PICK frames \in SUBSET Nat : Took(w, frames)
    OBVIOUS
  <2>2. Took(take_frame(w, s[i]), frames \cup {s[i]})
    BY <2>1, <1>1, TakeFrameKeeps
  <2>3. frames \cup {s[i]} \in SUBSET Nat
    BY <1>1
  <2> QED
    BY <2>2, <2>3 DEF Took
<1>4. step \in [1 .. n -> [Some -> Some]]
      /\ \A i \in 1 .. n : \A w \in Some : step[i][w] = take_frame(w, s[i])
  BY <1>3
<1> DEFINE first == Window
<1> HIDE DEF step, Some, first
<1>5. PICK f : Recursion(f, n, Some, first, step)
  <2>1. first \in Some
    BY <1>2 DEF first
  <2> QED
    BY <2>1, <1>1, <1>4, RecursionOnNat
<1>6. f \in [0 .. n -> Some] /\ f[0] = Window /\ \A i \in 1 .. n : f[i] = step[i][f[i - 1]]
  BY <1>5 DEF Recursion, first
<1>7. ASSUME NEW i \in 1 .. n PROVE f[i] = take_frame(f[i - 1], s[i])
  <2>1. i - 1 \in 0 .. n
    BY <1>1
  <2> QED
    BY <2>1, <1>4, <1>6
<1>8. IsAfter(f)
  <2>1. \A i \in 0 .. n : i = 0 \/ i \in 1 .. n
    BY <1>1
  <2>2. \A i \in 0 .. n : f[i] = IF i = 0 THEN Window ELSE take_frame(f[i - 1], s[i])
    BY <2>1, <1>6, <1>7
  <2> QED
    BY <2>2, <1>6
<1>9. IsAfter(after)
  BY <1>8
<1> HIDE DEF after
<1>10. ReceiveLoop(s) = advance(after[n])
  BY DEF ReceiveLoop, after
<1>11. after[0] = Window /\ \A i \in 1 .. n : after[i] = take_frame(after[i - 1], s[i])
  <2>1. 0 \in 0 .. n
    BY <1>1
  <2>2. \A i \in 1 .. n : i \in 0 .. n /\ i # 0
    BY <1>1
  <2> QED
    BY <2>1, <2>2, <1>9
<1> HIDE DEF IsAfter
<1> DEFINE First(m) == {s[i] : i \in 1 .. m}
           T == {m \in Nat : m <= n => Took(after[m], First(m))}
<1>12. 0 \in T
  <2>1. First(0) = {}
    OBVIOUS
  <2> QED
    BY <2>1, <1>2, <1>11
<1>13. ASSUME NEW m \in T PROVE m + 1 \in T
  <2>1. CASE m + 1 > n
    BY <2>1, <1>1
  <2>2. CASE m + 1 <= n
    <3>1. m \in Nat /\ m + 1 \in 1 .. n /\ (m + 1) - 1 = m
      BY <2>2, <1>1
    <3>2. Took(after[m], First(m)) /\ after[m + 1] = take_frame(after[m], s[m + 1])
      BY <3>1, <1>11
    <3>3. First(m) \in SUBSET Nat /\ s[m + 1] \in Nat
      BY <3>1, <1>1
    <3>4. First(m + 1) = First(m) \cup {s[m + 1]}
      <4>1. \A k \in 1 .. m + 1 : k \in 1 .. m \/ k = m + 1
        BY <3>1
      <4>2. \A k \in 1 .. m : k \in 1 .. m + 1
        BY <3>1
      <4>3. m + 1 \in 1 .. m + 1
        BY <3>1
      <4> QED
        BY <4>1, <4>2, <4>3
    <3> HIDE DEF First
    <3>5. Took(take_frame(after[m], s[m + 1]), First(m) \cup {s[m + 1]})
      BY <3>2, <3>3, TakeFrameKeeps
    <3>6. Took(after[m + 1], First(m + 1))
      BY <3>2, <3>4, <3>5
    <3> QED
      BY <3>1, <3>6
  <2>3. m \in Nat
    OBVIOUS
  <2> HIDE DEF T
  <2> QED
    BY <2>1, <2>2, <2>3, <1>1
<1>14. T = Nat
  <2>1. T \subseteq Nat
    OBVIOUS
  <2> HIDE DEF T
  <2> QED
    BY <2>1, <1>12, <1>13, NatSetInduction
<1> DEFINE w == after[n]
           frames == {s[i] : i \in DOMAIN s}
<1>15. Took(w, frames) /\ frames \in SUBSET Nat
  <2>1. frames = First(n)
    OBVIOUS
  <2>2. frames \in SUBSET Nat
    OBVIOUS
  <2> HIDE DEF First, frames
  <2> QED
    BY <2>1, <2>2, <1>1, <1>14
<1> HIDE DEF w, frames
<1>16. PICK m \in StopsOfWalk(w.needed, w.have, w.begin) : advance(w) = [w EXCEPT !.needed = m]
  BY <1>15, AdvanceStops DEF Took
<1> DEFINE b == w.begin
           have == w.have
           from == WalkFrom(b)
<1>17. /\ b \in Nat /\ receiver_begin \in Nat /\ next_frame_needed \in Nat /\ w.needed \in Nat
       /\ w.needed \in b .. b + WindowCapacity /\ b .. w.needed - 1 \subseteq have
       /\ b >= receiver_begin /\ next_frame_needed >= receiver_begin
       /\ b = receiver_begin => w.needed = next_frame_needed
       /\ m \in w.needed .. ReceiverEndFrom(b) /\ w.needed .. m - 1 \subseteq have
       /\ m < ReceiverEndFrom(b) => m \notin have
       /\ m \in Nat /\ ReceiverEndFrom(b) \in Nat
  <2>1. b \in Nat /\ w.needed \in Nat
    BY <1>15 DEF Took, WindowSet
  <2>2. ReceiverEndFrom(b) \in Nat
    BY <2>1, ReceiverConstants DEF ReceiverEndFrom
  <2>3. receiver_begin \in Nat /\ next_frame_needed \in Nat /\ next_frame_needed >= receiver_begin
    BY ReceiverConstants DEF Inv, TypeOK
  <2>4. /\ m \in w.needed .. ReceiverEndFrom(b) /\ w.needed .. m - 1 \subseteq have
        /\ m < ReceiverEndFrom(b) => m \notin have
    BY DEF StopsOfWalk
  <2> QED
    BY <2>1, <2>2, <2>3, <2>4, <1>15 DEF Took, IsBegin
<1>18. advance(w).begin = b /\ advance(w).have = have /\ advance(w).needed = m
  <2>1. w \in WindowSet
    BY <1>15 DEF Took
  <2> QED
    BY <2>1, <1>16 DEF WindowSet
<1> HIDE DEF b, have
<1>19. from \in Nat /\ from <= w.needed /\ from >= b
  BY <1>17 DEF WalkFrom
<1> HIDE DEF from
<1>20. m \in StopsOfWalk(from, have, b)
  <2>1. m \in from .. ReceiverEndFrom(b)
    BY <1>17, <1>19
  <2>2. \A k \in from .. m - 1 : k \in b .. w.needed - 1 \/ k \in w.needed .. m - 1
    BY <1>17, <1>19
  <2>3. from .. m - 1 \subseteq have
    BY <2>2, <1>17
  <2> QED
    BY <2>1, <2>3, <1>17 DEF StopsOfWalk
<1>21. StopsOfWalk(from, have, b) = {m}
  BY <1>17, <1>19, <1>20, OneStop
<1>22. BeginsFor(frames) = {b} /\ Held(frames, b) = have
  <2>1. IsBegin(b, frames) /\ have = Held(frames, b)
    BY <1>15 DEF Took, b, have
  <2> QED
    BY <2>1, <1>15, OneBegin
<1>23. ReceiveLoop(s) = advance(w)
  BY <1>10 DEF w
<1> QED
  BY <1>18, <1>21, <1>22, <1>23 DEF EndsAsStated, frames, from

LEMMA OrdersAreSequences == PacketOrders \subseteq Seq(Nat)
<1>1. 0 .. FrameLimit - 1 \subseteq Nat
  BY ReceiverConstants
<1>2. ASSUME NEW f \in 0 .. FrameLimit - 1 PROVE <<f>> \in Seq(Nat)
  BY <1>1, <1>2
<1>3. ASSUME NEW n \in Nat, NEW s \in [1 .. n -> 0 .. FrameLimit - 1] PROVE s \in Seq(Nat)
  BY <1>1, <1>3
<1> QED
  BY <1>2, <1>3 DEF PacketOrders

------------------------------------------------------------------------------
(* The sack loop, which looks at the newest packet first.                  *)

NewestKnown == recent_packets # << >> => biggest_seqno_received # NoSeqno

LEMMA SackLoopNames ==
    ASSUME Inv, NewestKnown
    PROVE  SackLoopAgrees
<1> DEFINE n == Len(recent_packets)
           Room == SackCapacity
           start == [sacks |-> IF biggest_seqno_received = NoSeqno THEN << >>
                               ELSE <<biggest_seqno_received>>,
                     full |-> FALSE, bug |-> FALSE]
           packet(i) == recent_packets[n + 1 - i]
           Some == [sacks : Seq(Int), full : BOOLEAN, bug : {FALSE}]
           step == [i \in 1 .. n |-> [acc \in Some |-> offer(acc, packet(i))]]
           IsAfter(g) == g = [i \in 0 .. n |-> IF i = 0 THEN start ELSE offer(g[i - 1], packet(i))]
           after == CHOOSE g : IsAfter(g)
<1>1. /\ n \in Nat /\ Room \in Nat /\ Room > 1 /\ next_frame_needed \in Nat
      /\ biggest_seqno_received \in Int
      /\ \A i \in 1 .. n : recent_packets[i] \in Records
  BY ReceiverConstants DEF Inv, TypeOK, NoSeqno
<1>2. \A i \in 1 .. n : n + 1 - i \in 1 .. n
  BY <1>1
<1>3. ASSUME NEW i \in 1 .. n
      PROVE  /\ packet(i).seqno \in Int /\ next_frame_needed \notin packet(i).frames
  <2> DEFINE k == n + 1 - i
  <2>1. k \in 1 .. n /\ k \in DOMAIN recent_packets
    BY <1>2, <1>1
  <2> HIDE DEF k
  <2>2. recent_packets[k].seqno \in Nat
    BY <2>1, <1>1 DEF Records
  <2>3. \A f \in recent_packets[k].frames : f < next_frame_needed \/ f \in stored
    BY <2>1 DEF Inv, RecentIsSettled
  <2>4. next_frame_needed \notin stored /\ ~(next_frame_needed < next_frame_needed)
    BY <1>1 DEF Inv, NeededIsFirstGap
  <2>5. next_frame_needed \notin recent_packets[k].frames
    BY <2>3, <2>4
  <2> QED
    BY <2>2, <2>5 DEF k
<1> HIDE DEF packet
<1>4. start \in Some
  BY <1>1
<1> DEFINE Worthy(i) == \E f \in packet(i).frames : f > next_frame_needed
           Newest(i) == packet(i).seqno = biggest_seqno_received
<1>5. ASSUME NEW i \in 1 .. n, NEW acc \in Some
      PROVE  /\ offer(acc, packet(i)) \in Some
             /\ acc.full \/ Newest(i) => offer(acc, packet(i)) = acc
             /\ ~acc.full /\ ~Newest(i) /\ ~Worthy(i) =>
                  /\ offer(acc, packet(i)).sacks = acc.sacks
                  /\ offer(acc, packet(i)).full = FALSE
             /\ ~acc.full /\ ~Newest(i) /\ Worthy(i) =>
                  /\ offer(acc, packet(i)).sacks = Append(acc.sacks, packet(i).seqno)
                  /\ Len(acc.sacks) + 1 >= Room => offer(acc, packet(i)).full = TRUE
                  /\ ~(Len(acc.sacks) + 1 >= Room) => offer(acc, packet(i)).full = FALSE
  <2> DEFINE list == IF Worthy(i) THEN Append(acc.sacks, packet(i).seqno) ELSE acc.sacks
             bug == acc.bug \/ next_frame_needed \in packet(i).frames
             full == list # acc.sacks /\ Len(list) >= Room
  <2>1. acc.sacks \in Seq(Int) /\ acc.full \in BOOLEAN /\ acc.bug = FALSE
    OBVIOUS
  <2>2. packet(i).seqno \in Int
    BY <1>3
  <2>3. bug = FALSE
    BY <2>1, <1>3
  <2>4. Len(acc.sacks) \in Nat /\ Append(acc.sacks, packet(i).seqno) \in Seq(Int)
        /\ Len(Append(acc.sacks, packet(i).seqno)) = Len(acc.sacks) + 1
    BY <2>1, <2>2
  <2>5. Append(acc.sacks, packet(i).seqno) # acc.sacks
    BY <2>4
  <2>6. list \in Seq(Int)
    BY <2>1, <2>4
  <2>7. acc.full \/ Newest(i) => offer(acc, packet(i)) = acc
    BY DEF offer
  <2>8. ~acc.full /\ ~Newest(i) =>
          offer(acc, packet(i)) = [sacks |-> list, full |-> full, bug |-> bug]
    BY DEF offer
  <2>9. Worthy(i) =>
          /\ list = Append(acc.sacks, packet(i).seqno)
          /\ Len(acc.sacks) + 1 >= Room => full = TRUE
          /\ ~(Len(acc.sacks) + 1 >= Room) => full = FALSE
    BY <2>4, <2>5
  <2>10. ~Worthy(i) => list = acc.sacks /\ full = FALSE
    OBVIOUS
  <2>11. full \in BOOLEAN
    OBVIOUS
  <2> HIDE DEF list, full, bug, Worthy, Newest, Some
  <2>12. [sacks |-> list, full |-> full, bug |-> bug] \in Some
    BY <2>3, <2>6, <2>11 DEF Some
  <2>13. offer(acc, packet(i)) \in Some
    BY <2>7, <2>8, <2>12
  <2>14. ~acc.full /\ ~Newest(i) =>
          /\ offer(acc, packet(i)).sacks = list
          /\ offer(acc, packet(i)).full = full
    BY <2>8
  <2> QED
    BY <2>7, <2>9, <2>10, <2>13, <2>14
<1>6. step \in [1 .. n -> [Some -> Some]]
      /\ \A i \in 1 .. n : \A acc \in Some : step[i][acc] = offer(acc, packet(i))
  BY <1>5
<1> HIDE DEF step, Some, start
<1>7. PICK f : Recursion(f, n, Some, start, step)
  BY <1>1, <1>4, <1>6, RecursionOnNat
<1>8. f \in [0 .. n -> Some] /\ f[0] = start /\ \A i \in 1 .. n : f[i] = step[i][f[i - 1]]
  BY <1>7 DEF Recursion
<1>9. ASSUME NEW i \in 1 .. n PROVE f[i] = offer(f[i - 1], packet(i)) /\ f[i - 1] \in Some
  <2>1. i - 1 \in 0 .. n
    BY <1>1
  <2> QED
    BY <2>1, <1>6, <1>8
<1>10. IsAfter(f)
  <2>1. \A i \in 0 .. n : i = 0 \/ i \in 1 .. n
    BY <1>1
  <2>2. \A i \in 0 .. n : f[i] = IF i = 0 THEN start ELSE offer(f[i - 1], packet(i))
    BY <2>1, <1>8, <1>9
  <2> QED
    BY <2>2, <1>8
<1>11. IsAfter(after)
  BY <1>10
<1> HIDE DEF after
<1>12. SackLoop = after[n]
  BY DEF SackLoop, after, start, packet
<1>13. after[0] = start /\ \A i \in 1 .. n : after[i] = offer(after[i - 1], packet(i))
  <2>1. 0 \in 0 .. n
    BY <1>1
  <2>2. \A i \in 1 .. n : i \in 0 .. n /\ i # 0
    BY <1>1
  <2> QED
    BY <2>1, <2>2, <1>11
<1> HIDE DEF IsAfter
<1> DEFINE Behind(k) == {j \in WorthSacking : j > k}
           Named(k) == {recent_packets[i].seqno :
                           i \in {j \in Behind(k) : Cardinality(Behind(j)) < Room - 1}}
           Elems(s) == {s[i] : i \in 1 .. Len(s)}
           Fine(acc, k) ==
               /\ acc \in Some /\ Elems(acc.sacks) = {biggest_seqno_received} \cup Named(k)
               /\ ~acc.full => Len(acc.sacks) = 1 + Cardinality(Behind(k)) /\ Len(acc.sacks) < Room
               /\ acc.full => Len(acc.sacks) = Room /\ Cardinality(Behind(k)) >= Room - 1
<1>14. /\ WorthSacking \subseteq 1 .. n
       /\ \A k : IsFiniteSet(Behind(k)) /\ Cardinality(Behind(k)) \in Nat
  <2>1. WorthSacking \subseteq 1 .. n
    BY DEF WorthSacking
  <2>2. IsFiniteSet(1 .. n)
    BY <1>1, FS_Interval
  <2>3. \A k : Behind(k) \in SUBSET (1 .. n)
    BY <2>1
  <2> HIDE DEF Behind
  <2>4. \A k : IsFiniteSet(Behind(k))
    BY <2>2, <2>3, FS_Subset
  <2> QED
    BY <2>1, <2>4, FS_CardinalityType
<1>15. CASE biggest_seqno_received = NoSeqno
  <2>1. n = 0
    BY <1>15 DEF NewestKnown
  <2>2. SackLoop = start
    BY <2>1, <1>12, <1>13
  <2>3. SackLoop.sacks = <<>> /\ ~SackLoop.bug
    BY <2>2, <1>15 DEF start
  <2>4. Sacks = {}
    BY <1>15 DEF Sacks
  <2> QED
    BY <2>3, <2>4, <1>1, <1>15 DEF SackLoopAgrees
<1>16. CASE biggest_seqno_received # NoSeqno
  <2> DEFINE T == {m \in Nat : m <= n => Fine(after[m], n - m)}
  <2>1. 0 \in T
    <3>1. Behind(n) = {}
      <4>1. \A j \in WorthSacking : ~(j > n)
        BY <1>1, <1>14
      <4> QED
        BY <4>1
    <3>2. Cardinality(Behind(n)) = 0
      BY <3>1, FS_EmptySet
    <3>3. Named(n) = {}
      BY <3>1
    <3>4. start.sacks = <<biggest_seqno_received>> /\ start.full = FALSE
      BY <1>16 DEF start
    <3>5. Elems(<<biggest_seqno_received>>) = {biggest_seqno_received}
          /\ Len(<<biggest_seqno_received>>) = 1
      OBVIOUS
    <3> HIDE DEF Elems, Behind, Named
    <3>6. Fine(start, n)
      BY <3>2, <3>3, <3>4, <3>5, <1>1, <1>4
    <3> HIDE DEF Fine
    <3> QED
      BY <3>6, <1>1, <1>13
  <2>2. ASSUME NEW i \in 1 .. n, NEW acc, Fine(acc, n - i + 1)
        PROVE  Fine(offer(acc, packet(i)), n - i)
    <3> DEFINE p == n + 1 - i
               k == n - i
               next == offer(acc, packet(i))
    <3>1. p \in 1 .. n /\ k \in Nat /\ p = k + 1 /\ n - i + 1 = p /\ packet(i) = recent_packets[p]
      BY <1>1 DEF packet
    <3>2. p \in WorthSacking <=> ~Newest(i) /\ Worthy(i)
      BY <3>1, <1>1 DEF WorthSacking
    <3> HIDE DEF p, k, next
    <3>3. /\ p \in WorthSacking => Behind(k) = Behind(p) \cup {p}
          /\ p \notin WorthSacking => Behind(k) = Behind(p)
          /\ p \notin Behind(p)
      <4>1. \A j \in WorthSacking : j \in Nat
        BY <1>14
      <4>2. \A j \in WorthSacking : j > k <=> j > p \/ j = p
        BY <4>1, <3>1
      <4>3. ~(p > p)
        BY <3>1
      <4> QED
        BY <4>2, <4>3
    <3>4. Fine(acc, p)
      BY <2>2, <3>1
    <3>5. acc \in Some /\ acc.sacks \in Seq(Int) /\ Len(acc.sacks) \in Nat
      <4>1. acc \in Some
        BY <3>4
      <4>2. acc.sacks \in Seq(Int)
        BY <4>1 DEF Some
      <4> QED
        BY <4>1, <4>2
    <3>6. Cardinality(Behind(p)) \in Nat /\ Cardinality(Behind(k)) \in Nat
          /\ IsFiniteSet(Behind(p))
      BY <1>14
    <3> HIDE DEF Behind, Elems
    <3>7. p \in WorthSacking => Cardinality(Behind(k)) = Cardinality(Behind(p)) + 1
      BY <3>3, <3>6, FS_AddElement
    <3>8. /\ p \notin WorthSacking => Named(k) = Named(p)
          /\ p \in WorthSacking /\ ~(Cardinality(Behind(p)) < Room - 1) => Named(k) = Named(p)
          /\ p \in WorthSacking /\ Cardinality(Behind(p)) < Room - 1 =>
                Named(k) = Named(p) \cup {packet(i).seqno}
      <4>1. p \in WorthSacking => \A j : j \in Behind(k) <=> j \in Behind(p) \/ j = p
        BY <3>3
      <4> QED
        BY <4>1, <3>1, <3>3
    <3> HIDE DEF Named
    <3>9. /\ next \in Some
          /\ acc.full \/ Newest(i) => next = acc
          /\ ~acc.full /\ ~Newest(i) /\ ~Worthy(i) => next.sacks = acc.sacks /\ next.full = FALSE
          /\ ~acc.full /\ ~Newest(i) /\ Worthy(i) =>
                /\ next.sacks = Append(acc.sacks, packet(i).seqno)
                /\ Len(acc.sacks) + 1 >= Room => next.full = TRUE
                /\ ~(Len(acc.sacks) + 1 >= Room) => next.full = FALSE
      BY <3>5, <1>5 DEF next
    <3> HIDE DEF Worthy, Newest, Some
    <3>10. CASE p \notin WorthSacking
      <4>1. next.sacks = acc.sacks /\ next.full = acc.full /\ next \in Some
        <5>1. acc.full \in BOOLEAN
          BY <3>5 DEF Some
        <5> QED
          BY <3>2, <3>9, <3>10, <5>1
      <4>2. Behind(k) = Behind(p) /\ Named(k) = Named(p)
        BY <3>3, <3>8, <3>10
      <4>3. Fine(next, k)
        BY <3>4, <4>1, <4>2
      <4> QED
        BY <4>3 DEF next, k
    <3>11. CASE p \in WorthSacking /\ acc.full
      <4>1. next = acc
        BY <3>9, <3>11
      <4>2. Cardinality(Behind(p)) >= Room - 1 /\ Len(acc.sacks) = Room
        BY <3>4, <3>11
      <4>3. Named(k) = Named(p) /\ Cardinality(Behind(k)) >= Room - 1
        BY <4>2, <3>6, <3>7, <3>8, <3>11, <1>1
      <4>4. Fine(next, k)
        BY <3>4, <3>11, <4>1, <4>2, <4>3
      <4> QED
        BY <4>4 DEF next, k
    <3>12. CASE p \in WorthSacking /\ ~acc.full
      <4> DEFINE longer == Append(acc.sacks, packet(i).seqno)
                 len == Len(acc.sacks)
      <4>1. /\ next.sacks = longer /\ next \in Some
            /\ len + 1 >= Room => next.full = TRUE
            /\ ~(len + 1 >= Room) => next.full = FALSE
        BY <3>2, <3>9, <3>12
      <4>2. len = 1 + Cardinality(Behind(p)) /\ len < Room
        BY <3>4, <3>12
      <4>3. packet(i).seqno \in Int
        BY <1>3
      <4>4. Len(longer) = len + 1 /\ longer[len + 1] = packet(i).seqno
            /\ \A j \in 1 .. len : longer[j] = acc.sacks[j]
        BY <3>5, <4>3
      <4>5. Elems(longer) = Elems(acc.sacks) \cup {packet(i).seqno}
        <5> HIDE DEF longer
        <5>1. \A j \in 1 .. len + 1 : j \in 1 .. len \/ j = len + 1
          BY <3>5
        <5>2. \A j \in 1 .. len : j \in 1 .. len + 1
          BY <3>5
        <5>3. len + 1 \in 1 .. len + 1
          BY <3>5
        <5> HIDE DEF len
        <5>4. \A j \in 1 .. len + 1 : longer[j] \in Elems(acc.sacks) \cup {packet(i).seqno}
          BY <4>4, <5>1 DEF Elems, len
        <5>5. \A j \in 1 .. len : acc.sacks[j] \in Elems(longer)
          BY <4>4, <5>2 DEF Elems
        <5>6. packet(i).seqno \in Elems(longer)
          BY <4>4, <5>3 DEF Elems
        <5>7. Elems(longer) \subseteq Elems(acc.sacks) \cup {packet(i).seqno}
          BY <5>4, <4>4 DEF Elems
        <5>8. Elems(acc.sacks) \subseteq Elems(longer)
          BY <5>5 DEF Elems, len
        <5> QED
          BY <5>6, <5>7, <5>8
      <4> HIDE DEF longer, len
      <4>6. len \in Nat
        BY <3>5 DEF len
      <4>7. Named(k) = Named(p) \cup {packet(i).seqno}
        BY <4>2, <4>6, <3>6, <3>8, <3>12, <1>1
      <4>8. Cardinality(Behind(k)) = len
        BY <4>2, <4>6, <3>6, <3>7, <3>12
      <4>9. Elems(acc.sacks) = {biggest_seqno_received} \cup Named(p)
        BY <3>4
      <4>10. Elems(next.sacks) = {biggest_seqno_received} \cup Named(k)
        BY <4>1, <4>5, <4>7, <4>9
      <4>11. Len(next.sacks) = len + 1
        BY <4>1, <4>4
      <4>12. ASSUME len + 1 >= Room PROVE Fine(next, k)
        <5>1. next.full = TRUE
          BY <4>1, <4>12
        <5>2. Len(next.sacks) = Room /\ Cardinality(Behind(k)) >= Room - 1
          BY <4>2, <4>6, <4>8, <4>11, <4>12, <1>1
        <5> QED
          BY <5>1, <5>2, <4>1, <4>10
      <4>13. ASSUME ~(len + 1 >= Room) PROVE Fine(next, k)
        <5>1. next.full = FALSE
          BY <4>1, <4>13
        <5>2. Len(next.sacks) = 1 + Cardinality(Behind(k)) /\ Len(next.sacks) < Room
          BY <4>6, <4>8, <4>11, <4>13, <1>1
        <5> QED
          BY <5>1, <5>2, <4>1, <4>10
      <4>14. Fine(next, k)
        BY <4>12, <4>13
      <4> QED
        BY <4>14 DEF next, k
    <3> QED
      BY <3>10, <3>11, <3>12
  <2> HIDE DEF Fine
  <2>3. ASSUME NEW m \in T PROVE m + 1 \in T
    <3>1. CASE m + 1 > n
      BY <3>1, <1>1
    <3>2. CASE m + 1 <= n
      <4>1. m \in Nat /\ m + 1 \in 1 .. n /\ (m + 1) - 1 = m /\ n - m = n - (m + 1) + 1
        BY <3>2, <1>1
      <4>2. Fine(after[m], n - (m + 1) + 1)
        BY <4>1
      <4>3. after[m + 1] = offer(after[m], packet(m + 1))
        BY <4>1, <1>13
      <4>4. Fine(after[m + 1], n - (m + 1))
        BY <4>1, <4>2, <4>3, <2>2
      <4> QED
        BY <4>1, <4>4
    <3>3. m \in Nat
      OBVIOUS
    <3> HIDE DEF T
    <3> QED
      BY <3>1, <3>2, <3>3, <1>1
  <2>4. T = Nat
    <3>1. T \subseteq Nat
      OBVIOUS
    <3> HIDE DEF T
    <3> QED
      BY <3>1, <2>1, <2>3, NatSetInduction
  <2>5. Fine(after[n], 0)
    <3>1. n - n = 0
      BY <1>1
    <3> QED
      BY <3>1, <2>4, <1>1
  <2>6. Behind(0) = WorthSacking
    <3>1. \A j \in WorthSacking : j > 0
      BY <1>1, <1>14
    <3> QED
      BY <3>1
  <2> DEFINE acc == after[n]
  <2>7. /\ Elems(acc.sacks) = {biggest_seqno_received} \cup Named(0)
        /\ Len(acc.sacks) <= Room /\ ~acc.bug /\ acc.sacks \in Seq(Int)
    <3>1. acc \in Some /\ Elems(acc.sacks) = {biggest_seqno_received} \cup Named(0)
          /\ (~acc.full => Len(acc.sacks) < Room) /\ (acc.full => Len(acc.sacks) = Room)
      BY <2>5 DEF Fine
    <3>2. acc.full \in BOOLEAN /\ acc.bug = FALSE /\ acc.sacks \in Seq(Int)
      BY <3>1 DEF Some
    <3>3. Len(acc.sacks) \in Nat
      BY <3>2
    <3>4. Len(acc.sacks) < Room \/ Len(acc.sacks) = Room
      BY <3>1
    <3>5. Len(acc.sacks) <= Room
      BY <3>3, <3>4, <1>1
    <3> QED
      BY <3>1, <3>2, <3>5
  <2>8. Sacks = {biggest_seqno_received} \cup Named(0)
    BY <2>6, <1>16 DEF Sacks
  <2>9. {acc.sacks[i] : i \in DOMAIN acc.sacks} = Elems(acc.sacks)
    BY <2>7
  <2> QED
    BY <2>7, <2>8, <2>9, <1>12 DEF SackLoopAgrees
<1> QED
  BY <1>15, <1>16

LEMMA NewestStaysKnown == Inv /\ NewestKnown /\ [Next]_receiver_vars => NewestKnown'
<1> SUFFICES ASSUME Inv, NewestKnown, [Next]_receiver_vars PROVE NewestKnown'
  OBVIOUS
<1>1. ASSUME NEW seqno \in 0 .. SeqnoLimit - 1, NEW frames \in SUBSET (0 .. FrameLimit - 1),
             receive_sender_section(seqno, frames)
      PROVE  NewestKnown'
  <2>1. biggest_seqno_received' = IF seqno > biggest_seqno_received THEN seqno
                                  ELSE biggest_seqno_received
    BY <1>1 DEF receive_sender_section
  <2>2. seqno \in Nat /\ biggest_seqno_received \in Nat \cup {-1}
    BY <1>1, SectionTypes DEF Inv, TypeOK, NoSeqno
  <2>3. biggest_seqno_received' # -1
    BY <2>1, <2>2
  <2> QED
    BY <2>3 DEF NewestKnown, NoSeqno
<1>2. ASSUME NEW num \in 1 .. WindowCapacity, pop_frames(num) PROVE NewestKnown'
  BY <1>2 DEF pop_frames, NewestKnown
<1>3. CASE UNCHANGED receiver_vars
  BY <1>3 DEF receiver_vars, NewestKnown
<1> QED
  BY <1>1, <1>2, <1>3 DEF Next

(* Both loops do what the composed modules take them to do: a packet with  *)
(* any number of frames in any order ends in the one state of its closed   *)
(* form, and a section names the newest packets worth an ack, and the      *)
(* biggest, within the room there is (receiver.cc:18 and 80).              *)
THEOREM ReceiverLoopsAgree == Spec => [](LoopsAgree /\ \A s \in Seq(Nat) : EndsAsStated(s))
<1>1. Init => Inv /\ NewestKnown
  BY InitInv DEF Init, NewestKnown
<1>2. Inv /\ NewestKnown /\ [Next]_receiver_vars => (Inv /\ NewestKnown)'
  BY NextInv, NewestStaysKnown
<1>3. Inv /\ NewestKnown => LoopsAgree /\ \A s \in Seq(Nat) : EndsAsStated(s)
  <2> SUFFICES ASSUME Inv, NewestKnown
               PROVE  LoopsAgree /\ \A s \in Seq(Nat) : EndsAsStated(s)
    OBVIOUS
  <2>1. \A s \in Seq(Nat) : EndsAsStated(s)
    BY LoopEndsAsStated
  <2>2. FrameLoopAgrees
    BY <2>1, OrdersAreSequences DEF FrameLoopAgrees
  <2> QED
    BY <2>1, <2>2, SackLoopNames DEF LoopsAgree
<1> QED
  BY <1>1, <1>2, <1>3, PTL DEF Spec
=============================================================================
