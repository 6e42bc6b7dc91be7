----------------------------- MODULE RingContents -----------------------------
(***************************************************************************)
(* What the ring buffers promise, without rings: an endless tape of which  *)
(* a window can be written, each of its places first read as Blank, and a  *)
(* queue of limited length.                                                *)
(***************************************************************************)
EXTENDS Integers, Sequences

CONSTANTS Capacity, Values, Blank

VARIABLES
    begin,    \* the position of the window on the tape
    window,   \* what is on the tape in the window
    queue

contents_vars == <<begin, window, queue>>

ContentsInit ==
    /\ begin = 0
    /\ window = [i \in 1 .. Capacity |-> Blank]
    /\ queue = << >>

Write ==
    /\ \E i \in 1 .. Capacity, v \in Values : window' = [window EXCEPT ![i] = v]
    /\ UNCHANGED <<begin, queue>>

Advance ==
    /\ begin' > begin
    /\ window' = [i \in 1 .. Capacity |->
          IF i + begin' - begin <= Capacity THEN window[i + begin' - begin] ELSE Blank]
    /\ UNCHANGED queue

Put ==
    /\ Len(queue') > Len(queue) /\ Len(queue') <= Capacity
    /\ queue = SubSeq(queue', 1, Len(queue))
    /\ UNCHANGED <<begin, window>>

Get ==
    /\ \E n \in 1 .. Len(queue) : queue' = SubSeq(queue, n + 1, Len(queue))
    /\ UNCHANGED <<begin, window>>

ContentsNext == Write \/ Advance \/ Put \/ Get

ContentsSpec == ContentsInit /\ [][ContentsNext]_contents_vars
=============================================================================
