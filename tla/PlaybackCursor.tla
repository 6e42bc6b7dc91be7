---------------------------- MODULE PlaybackCursor ----------------------------
(***************************************************************************)
(* The playback cursor (src/playback/cursor.{hh,cc}): which received frame *)
(* is decoded next, how many samples have come out of it, and whether time *)
(* is compressed or expanded to hold the lag behind the newest frame.      *)
(*                                                                         *)
(* frontier is the first sample that no received frame covers, so it is a  *)
(* multiple of FrameSamples.  The stretcher belongs to the cursor's owner  *)
(* and outlives a cursor; its ratio is kept here in percent.               *)
(***************************************************************************)
EXTENDS Integers

CONSTANTS
    FrameSamples,   \* opus_frame::NUM_SAMPLES (120)
    Chunks,         \* lengths that the stretcher gives for one frame
    MaxChunk,       \* samples in an AudioSlice (1024)
    DefaultLag,     \* the lags of a new session (960, 120, 1920)
    Lags            \* lags that a control program asks for

LagType == [target : Nat \ {0}, min : Nat, max : Nat]

(* A target of 0 makes a reset start at the frontier, where the code       *)
(* throws "internal error"; no program of the repository asks for it.      *)
ASSUME CursorConstants ==
    /\ FrameSamples \in Nat \ {0}
    /\ MaxChunk \in Nat
    /\ Chunks \subseteq 0 .. MaxChunk
    /\ DefaultLag \in LagType
    /\ Lags \subseteq LagType

VARIABLES
    frame_cursor,   \* frame_cursor_, NoCursor when it has no value
    num_output,     \* num_samples_output_, 0 when it has no value
    rate,           \* rate_
    ratio,          \* the stretcher's time ratio, in percent
    lag             \* target_lag_samples_, min_lag_samples_, max_lag_samples_

cursor_vars == <<frame_cursor, num_output, rate, ratio, lag>>

NoCursor == -1
initialized == frame_cursor # NoCursor

CursorTypeOK ==
    /\ frame_cursor \in Nat \cup {NoCursor}
    /\ num_output \in Nat
    /\ rate \in {"Steady", "Compressing", "Expanding"}
    /\ ratio \in {95, 100, 105}
    /\ lag \in LagType

(* A new session has a new cursor; the stretcher stays as it was.          *)
FreshCursor ==
    /\ frame_cursor' = NoCursor
    /\ num_output' = 0
    /\ rate' = "Steady"
    /\ lag' = DefaultLag
    /\ UNCHANGED ratio

(* Variant: the last sample before the frame.                              *)
greatest_read_location_Before(frame) == frame * FrameSamples - 1

(* The last sample that decoding a frame takes.                            *)
greatest_read_location(frame) == frame * FrameSamples + FrameSamples - 1

(* Where a cursor starts, and starts again after an underflow.             *)
FrameAtLag(frontier) == (frontier - lag.target) \div FrameSamples

(* setup: a cursor without a frame starts once there is enough audio.      *)
setup(global, frontier) ==
    /\ IF ~initialized /\ frontier > lag.target
       THEN /\ frame_cursor' = FrameAtLag(frontier)
            /\ num_output' = global
            /\ rate' = "Steady"
       ELSE UNCHANGED <<frame_cursor, num_output, rate>>
    /\ UNCHANGED <<ratio, lag>>

(* The stretching behaviour of one call, from the rate at its start.  The  *)
(* mean margin, on which a change also depends, may be any.                *)
stretch(rate_before, margin) ==
    LET stops == \/ rate_before = "Compressing" /\ margin <= lag.target
                 \/ rate_before = "Expanding" /\ margin >= lag.target
        rate_now == IF stops THEN "Steady" ELSE rate_before
    IN  \/ /\ rate' = rate_now
           /\ ratio' = IF stops THEN 100 ELSE ratio
        \/ /\ rate_now = "Steady"
           /\ margin > lag.max
           /\ rate' = "Compressing"
           /\ ratio' = 95
        \/ /\ rate_now = "Steady"
           /\ margin < lag.min
           /\ rate' = "Expanding"
           /\ ratio' = 105

(* sample: decode the cursor's frame, or silence where it is missing.  A   *)
(* cursor that has run out of frames falls back to its lag, or gives up    *)
(* when there is not enough audio for that.                                *)
sample(frontier) ==
    LET underflow == greatest_read_location(frame_cursor) >= frontier
        frame     == IF underflow THEN FrameAtLag(frontier) ELSE frame_cursor
    IN  /\ initialized
        /\ IF underflow /\ frontier < lag.target
           THEN /\ frame_cursor' = NoCursor
                /\ num_output' = 0
                /\ UNCHANGED <<rate, ratio>>
           ELSE /\ greatest_read_location(frame) < frontier
                /\ stretch(IF underflow THEN "Steady" ELSE rate,
                           frontier - greatest_read_location(frame))
                /\ \E chunk \in Chunks : num_output' = num_output + chunk
                /\ frame_cursor' = frame + 1
        /\ UNCHANGED lag

(* How many of the frames from begin on the cursor is done with.           *)
ok_to_pop(begin) == IF frame_cursor > begin THEN frame_cursor - begin ELSE 0
=============================================================================
