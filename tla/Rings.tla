--------------------------------- MODULE Rings --------------------------------
(***************************************************************************)
(* The ring buffers of util/: an EndlessBuffer, as decoders, boards and    *)
(* receivers use it, and a RingBuffer, as sockets and sessions use it.     *)
(* Each lies in a storage that is mapped twice, one copy after the other   *)
(* (RingStorage), so that a region may run over its end.                   *)
(***************************************************************************)
EXTENDS Integers, Sequences, FiniteSetsExt

CONSTANTS
    RingCapacity,
    Elements,      \* what may be stored; 0 stands for T {}
    MaxPosition    \* bound on positions, of the one and of the other

ASSUME EndlessConstants ==
    /\ RingCapacity \in Nat \ {0} /\ MaxPosition \in Nat
    /\ 0 \in Elements

VARIABLES
    endless,         \* the storage of the EndlessBuffer
    num_popped_,
    ring,            \* the storage of the RingBuffer
    bytes_pushed_, bytes_popped_

endless_vars == <<endless, num_popped_>>
fifo_vars == <<ring, bytes_pushed_, bytes_popped_>>
rings_vars == <<endless_vars, fifo_vars>>

(* storage(index): capacity() places from index on, in the two copies.     *)
Places == 0 .. RingCapacity - 1
storage(memory, index) == [i \in 1 .. RingCapacity |-> memory[(index + i - 1) % RingCapacity]]
Stored(memory, index, piece) ==
    [p \in Places |->
        LET i == ((p - index) % RingCapacity) + 1 IN
        IF i <= Len(piece) THEN piece[i] ELSE memory[p]]

RingsInit ==
    /\ endless = [p \in Places |-> 0] /\ num_popped_ = 0
    /\ ring = [p \in Places |-> 0] /\ bytes_pushed_ = 0 /\ bytes_popped_ = 0

------------------------------------------------------------------------------
(* EndlessBuffer and SafeEndlessBuffer.                                    *)
range_begin == num_popped_
range_end == num_popped_ + RingCapacity

safe_get(pos) ==
    IF pos < range_begin \/ pos >= range_end THEN 0
    ELSE storage(endless, num_popped_ % RingCapacity)[pos - range_begin + 1]

safe_set(pos, value) ==
    /\ endless' = IF pos < range_begin \/ pos >= range_end THEN endless
                  ELSE Stored(endless, pos % RingCapacity, <<value>>)
    /\ UNCHANGED <<num_popped_, fifo_vars>>

X_Erased(n) ==
    LET first == num_popped_ % RingCapacity IN
    [p \in Places |-> IF p \in first .. first + n - 1 THEN 0 ELSE endless[p]]

(* What is popped is erased, all of it when more than there is is popped.  *)
Erased(n) ==
    Stored(endless, num_popped_ % RingCapacity, [i \in 1 .. Min({n, RingCapacity}) |-> 0])

pop_endless(n) ==
    /\ endless' = Erased(n)
    /\ num_popped_' = num_popped_ + n
    /\ UNCHANGED fifo_vars

pop_before(index) ==
    IF index <= range_begin THEN UNCHANGED rings_vars
    ELSE pop_endless(index - range_begin)

------------------------------------------------------------------------------
(* RingBuffer, and TypedRingBuffer, which differs in what it counts.       *)
bytes_stored == bytes_pushed_ - bytes_popped_
readable_region == SubSeq(storage(ring, bytes_popped_ % RingCapacity), 1, bytes_stored)
room == RingCapacity - bytes_stored

(* What the caller has is copied as far as there is room, and pushed.      *)
push_from_const_str(str) ==
    LET n == Min({Len(str), room}) IN
    /\ ring' = Stored(ring, bytes_pushed_ % RingCapacity, SubSeq(str, 1, n))
    /\ bytes_pushed_' = bytes_pushed_ + n
    /\ UNCHANGED <<endless_vars, bytes_popped_>>

(* A descriptor reads some bytes; to read none at all is an error.         *)
push_from_fd(bytes) ==
    /\ room > 0 /\ Len(bytes) <= room
    /\ push_from_const_str(bytes)

pop(n) ==
    /\ n <= bytes_stored
    /\ bytes_popped_' = bytes_popped_ + n
    /\ UNCHANGED <<endless_vars, ring, bytes_pushed_>>

RingsNext ==
    \/ \E pos \in 0 .. MaxPosition, value \in Elements : safe_set(pos, value)
    \/ \E n \in 1 .. MaxPosition - num_popped_ : pop_endless(n)
    \/ \E index \in 0 .. MaxPosition : pop_before(index)
    \/ \E b, c \in Elements, n \in 0 .. 2 :
          /\ bytes_pushed_ + n <= MaxPosition
          /\ \/ push_from_const_str(SubSeq(<<b, c>>, 1, n))
             \/ push_from_fd(SubSeq(<<b, c>>, 1, n))
    \/ \E n \in 1 .. RingCapacity : pop(n)

RingsSpec == RingsInit /\ [][RingsNext]_rings_vars

------------------------------------------------------------------------------
(* Rings behave as if there were none: what a place of the tape gives was  *)
(* written there or is blank, never left over from a position a capacity   *)
(* before, and bytes come out as they went in, although both run over the  *)
(* storage's end again and again.                                          *)
Contents == INSTANCE RingContents WITH
    Capacity <- RingCapacity, Values <- Elements, Blank <- 0,
    begin <- num_popped_,
    window <- [i \in 1 .. RingCapacity |-> safe_get(range_begin + i - 1)],
    queue <- readable_region

RingsAreEndless == Contents!ContentsSpec
=============================================================================
