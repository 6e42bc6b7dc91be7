----------------------------- MODULE MCMixServer -----------------------------
(* MixServer with frames of 2 samples; the ratios of the other lengths to  *)
(* a frame are the code's, except the board, which is as small as it may be.*)
EXTENDS MixServer

MCDefaultLag == [target |-> 8, min |-> 1, max |-> 16]
MCLagMessages == {[target |-> 16, min |-> 2, max |-> 20]}
==============================================================================
