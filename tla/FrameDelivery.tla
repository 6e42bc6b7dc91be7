---------------------------- MODULE FrameDelivery ----------------------------
(***************************************************************************)
(* What a stream of frames promises its two applications.  The producer's  *)
(* frames are consumed in order, each at most once, and a frame may be     *)
(* skipped only if the producer ran a whole window ahead of it.            *)
(***************************************************************************)
EXTENDS Integers, Sequences

CONSTANT Window    \* frames a receiver can hold

VARIABLES
    produced,   \* number of frames pushed so far
    consumed    \* frames handed to the application, in the order of handing

delivery_vars == <<produced, consumed>>

NextToConsume == IF consumed = << >> THEN 0 ELSE consumed[Len(consumed)] + 1

Init == produced = 0 /\ consumed = << >>

Produce == produced' = produced + 1 /\ UNCHANGED consumed

(* Frame f is next, or everything from the next one to f was overrun.      *)
Consume ==
    \E f \in NextToConsume .. produced - 1 :
        /\ f = NextToConsume \/ f + Window <= produced
        /\ consumed' = Append(consumed, f)
        /\ UNCHANGED produced

Next == Produce \/ Consume

Spec == Init /\ [][Next]_delivery_vars
=============================================================================
