----------------------------- MODULE MCAudioClient -----------------------------
(* AudioClient with frames of 4 samples and lags of 1 to 3 frames.         *)
EXTENDS AudioClient

MCDefaultLag == [target |-> 8, min |-> 4, max |-> 12]
MCLags == {[target |-> 1, min |-> 0, max |-> 4]}
=============================================================================
