--------------------------- MODULE AudioClientProofs ---------------------------
(***************************************************************************)
(* Proofs about the audio client, for every frame length, slack, lag and   *)
(* stretcher that the assumptions admit, and any bursts of the device.     *)
(* What is decoded is kept ahead of the device by an argument about the    *)
(* last poll: no rule was interested then, so the decode cursor was more   *)
(* than a frame and Slack ahead of the device, and only what the device    *)
(* has had since can have overtaken it.                                    *)
(***************************************************************************)
EXTENDS AudioClient, TLAPS

ClockRuns ==
    /\ playback_begin = device_cursor
    /\ quiet_cursor <= device_cursor

DecodedAhead ==
    /\ session => quiet_cursor + FrameSamples + Slack < decode_cursor
    /\ decoding => session /\ decode_cursor <= device_cursor + FrameSamples + Slack
    /\ initialized => session /\ decode_cursor <= num_output + FrameSamples

(* A client that has aborted stays in the call in which it was late.       *)
AbortedInDecode == AbortsOnlyWhenLate /\ (aborted => decoding)

EncodedUpToPoll ==
    /\ EncodersInStep
    /\ capture_begin = min_encode_cursor
    /\ quiet_cursor < min_encode_cursor + FrameSamples

FramesInOrder ==
    /\ frames_begin <= next_needed
    /\ next_needed <= beyond
    /\ initialized => frame_cursor <= beyond

Inv ==
    /\ TypeOK /\ ClockRuns /\ DecodedAhead /\ AbortedInDecode
    /\ EncodedUpToPoll /\ FramesInOrder

LEMMA ConstantFacts ==
    /\ FrameSamples \in Nat /\ FrameSamples > 0
    /\ MaxChunk \in Nat /\ Chunks \subseteq Nat
    /\ DefaultLag \in LagType /\ Lags \subseteq LagType
    /\ Slack \in Nat
    /\ BufferSamples \in Nat /\ BufferSamples > 2 * FrameSamples + Slack + MaxChunk
    /\ ReceiverFrames \in Nat /\ MaxFrontier \in Nat
  BY CursorConstants, ClientConstants DEF CursorConstants, ClientConstants

(* The division of the language, as the code uses it.                      *)
LEMMA DivBounds ==
    ASSUME NEW a \in Nat, NEW d \in Nat \ {0}
    PROVE  /\ a \div d \in Nat
           /\ (a \div d) * d <= a
           /\ a < (a \div d) * d + d
  BY SMT

(* Multiples are in the order of their factors.                            *)
LEMMA FactorOrder ==
    ASSUME NEW m \in Nat, NEW n \in Nat, NEW d \in Nat \ {0}, m * d < n * d
    PROVE  m < n
  BY SMT

LEMMA NextMultiple ==
    ASSUME NEW m \in Nat, NEW d \in Nat
    PROVE  (m + 1) * d = m * d + d /\ m * d \in Nat
  BY SMT

LEMMA GreaterBounds ==
    ASSUME NEW a \in Nat, NEW b \in Int
    PROVE  Greater(a, b) \in Nat /\ a <= Greater(a, b)
  BY DEF Greater

LEMMA LaterBound ==
    ASSUME NEW a \in Nat, NEW b \in Nat, NEW c \in Nat, NEW d \in Nat, a <= b + d, b <= c
    PROVE  a <= c + d
  BY SMT

LEMMA SumIsNat ==
    ASSUME NEW a \in Nat, NEW b \in Nat
    PROVE  a + b \in Nat
  BY SMT

(* The frame at a cursor's lag is one that has been sent, and its last     *)
(* sample lies before the frontier: the reset of an underflow never ends   *)
(* in the code's "internal error".                                         *)
THEOREM ResetLandsBefore ==
    ASSUME lag \in LagType, beyond \in Nat, lag.target <= frontier
    PROVE  /\ FrameAtLag(frontier) \in Nat
           /\ FrameAtLag(frontier) < beyond
           /\ greatest_read_location(FrameAtLag(frontier)) < frontier
  <1> DEFINE q == FrameAtLag(frontier)
  <1>0. FrameSamples \in Nat \ {0} /\ lag.target \in Nat /\ lag.target > 0
    BY ConstantFacts DEF LagType
  <1>1. frontier \in Nat /\ frontier = beyond * FrameSamples
    BY <1>0, NextMultiple DEF frontier
  <1>2. frontier - lag.target \in Nat
    BY <1>0, <1>1
  <1>3. q \in Nat /\ q * FrameSamples <= frontier - lag.target
    BY <1>0, <1>2, DivBounds DEF FrameAtLag
  <1>4. q * FrameSamples \in Nat
    BY <1>0, <1>3, NextMultiple
  <1>5. q * FrameSamples < beyond * FrameSamples
    BY <1>0, <1>1, <1>3, <1>4
  <1>6. q < beyond
    <2> HIDE DEF q
    <2> QED BY <1>0, <1>3, <1>5, FactorOrder
  <1>7. q + 1 <= beyond /\ (q + 1) * FrameSamples = q * FrameSamples + FrameSamples
    BY <1>0, <1>3, <1>6, NextMultiple
  <1>8. (q + 1) * FrameSamples <= beyond * FrameSamples
    <2>1. q + 1 = beyond \/ q + 1 < beyond
      BY <1>3, <1>7
    <2>2. CASE q + 1 < beyond
      <3> HIDE DEF q
      <3> QED BY <1>0, <1>3, <2>2, SMT
    <2> QED BY <2>1, <2>2, <1>1
  <1>9. QED BY <1>0, <1>1, <1>3, <1>4, <1>6, <1>7, <1>8 DEF greatest_read_location

(* setup starts a cursor at a frame that has been sent.                    *)
LEMMA SetupEffect ==
    ASSUME CursorTypeOK, beyond \in Nat, NEW global \in Nat, setup(global, frontier)
    PROVE  /\ CursorTypeOK'
           /\ \/ frame_cursor' = frame_cursor /\ num_output' = num_output
              \/ ~initialized /\ frame_cursor' < beyond /\ num_output' = global
  <1>0. lag \in LagType /\ lag.target \in Nat
    BY DEF CursorTypeOK, LagType
  <1>1. CASE ~initialized /\ frontier > lag.target
    <2>1. frontier \in Nat
      BY ConstantFacts, NextMultiple DEF frontier
    <2>2. FrameAtLag(frontier) \in Nat /\ FrameAtLag(frontier) < beyond
      BY <1>0, <1>1, <2>1, ResetLandsBefore
    <2>3. QED BY <1>1, <2>2 DEF setup, CursorTypeOK
  <1>2. CASE ~(~initialized /\ frontier > lag.target)
    BY <1>2 DEF setup, CursorTypeOK
  <1>3. QED BY <1>1, <1>2

(* sample moves a cursor that still has a frame by at most one frame, to   *)
(* one that has been sent or will be next, and never takes output back.    *)
LEMMA SampleEffect ==
    ASSUME CursorTypeOK, beyond \in Nat, sample(frontier)
    PROVE  /\ CursorTypeOK'
           /\ initialized
           /\ initialized' => /\ num_output' >= num_output
                              /\ frame_cursor' <= frame_cursor + 1
                              /\ frame_cursor' <= beyond
  <1> DEFINE underflow == greatest_read_location(frame_cursor) >= frontier
             frame == IF underflow THEN FrameAtLag(frontier) ELSE frame_cursor
  <1>0. /\ lag \in LagType /\ lag.target \in Nat /\ num_output \in Nat
        /\ rate \in {"Steady", "Compressing", "Expanding"} /\ ratio \in {95, 100, 105}
        /\ FrameSamples \in Nat \ {0} /\ Chunks \subseteq Nat
    BY ConstantFacts DEF CursorTypeOK, LagType
  <1>1. initialized /\ frame_cursor \in Nat /\ lag' = lag
    BY DEF sample, initialized, CursorTypeOK
  <1>2. frontier \in Nat /\ frontier = beyond * FrameSamples
    BY <1>0, NextMultiple DEF frontier
  <1>3. CASE underflow /\ frontier < lag.target
    <2>1. frame_cursor' = NoCursor /\ num_output' = 0 /\ rate' = rate /\ ratio' = ratio
      BY <1>3 DEF sample
    <2>2. QED BY <1>0, <1>1, <2>1 DEF CursorTypeOK, initialized, NoCursor
  <1>4. CASE ~(underflow /\ frontier < lag.target)
    <2>1. /\ greatest_read_location(frame) < frontier
          /\ stretch(IF underflow THEN "Steady" ELSE rate,
                     frontier - greatest_read_location(frame))
          /\ \E chunk \in Chunks : num_output' = num_output + chunk
          /\ frame_cursor' = frame + 1
      BY <1>4 DEF sample
    <2>2. num_output' \in Nat /\ num_output' >= num_output
      BY <2>1, <1>0
    <2>3. rate' \in {"Steady", "Compressing", "Expanding"} /\ ratio' \in {95, 100, 105}
      BY <2>1, <1>0 DEF stretch
    <2>4. frame_cursor * FrameSamples \in Nat
      BY <1>0, <1>1, NextMultiple
    <2>5. frame \in Nat /\ frame < beyond /\ frame <= frame_cursor
      <3>1. CASE underflow
        <4>1. frame = FrameAtLag(frontier) /\ frame \in Nat /\ frame < beyond
          BY <1>0, <1>2, <1>4, <3>1, ResetLandsBefore
        <4>2. frontier < (frame_cursor + 1) * FrameSamples
          BY <1>0, <1>1, <1>2, <2>4, <3>1, NextMultiple DEF greatest_read_location
        <4>3. beyond < frame_cursor + 1
          BY <1>0, <1>1, <1>2, <4>2, FactorOrder
        <4>4. QED BY <1>1, <4>1, <4>3
      <3>2. CASE ~underflow
        <4>1. frame = frame_cursor
          BY <3>2
        <4>2. frame_cursor * FrameSamples < beyond * FrameSamples
          BY <1>0, <1>2, <2>4, <3>2 DEF greatest_read_location
        <4>3. QED BY <1>0, <1>1, <4>1, <4>2, FactorOrder
      <3>3. QED BY <3>1, <3>2
    <2>6. frame_cursor' \in Nat /\ frame_cursor' <= frame_cursor + 1 /\ frame_cursor' <= beyond
      <3> HIDE DEF frame
      <3> QED BY <1>1, <2>1, <2>5
    <2>7. QED BY <1>0, <1>1, <2>2, <2>3, <2>6 DEF CursorTypeOK
  <1>5. QED BY <1>3, <1>4
-----------------------------------------------------------------------------
(* The steps that leave the cursor alone, for use by the lemmas below.     *)
CursorRests == SampleArrives \/ ServiceDevice \/ (\E ch \in Channels : Encode(ch))
                 \/ PopFrame("transmit") \/ PopFrame("discard") \/ PlaySilence \/ Poll

LEMMA RestingSteps ==
    ASSUME CursorRests \/ UNCHANGED vars
    PROVE  UNCHANGED <<frame_vars, cursor_vars, session, decoding>>
  BY DEF CursorRests, SampleArrives, ServiceDevice, Encode, encode_one_frame, PopFrame, PlaySilence,
         Poll, Stopped, vars, frame_vars, cursor_vars

LEMMA StepKinds ==
    ASSUME [Next]_vars
    PROVE  \/ CursorRests \/ UNCHANGED vars
           \/ DecodeBegin \/ DecodeSample \/ DecodeEnd
           \/ KeyReply \/ NetworkReceive \/ SetCursorLag
  BY DEF Next, CursorRests, Stopped

(* Frames are popped only up to the first one that is missing, and the     *)
(* cursor keeps behind the newest one.                                     *)
LEMMA FramesStayInOrder ==
    ASSUME Inv, [Next]_vars
    PROVE  FramesInOrder' /\ CursorTypeOK'
  <1>0. /\ frames_begin \in Nat /\ next_needed \in Nat /\ beyond \in Nat
        /\ decode_cursor \in Nat /\ CursorTypeOK
        /\ frames_begin <= next_needed /\ next_needed <= beyond
        /\ initialized => frame_cursor <= beyond
    BY DEF Inv, TypeOK, FramesInOrder
  <1>1. CASE CursorRests \/ UNCHANGED vars
    <2>1. UNCHANGED <<frame_vars, cursor_vars>>
      BY <1>1, RestingSteps
    <2>2. QED BY <1>0, <2>1 DEF FramesInOrder, CursorTypeOK, initialized, frame_vars, cursor_vars
  <1>2. CASE DecodeBegin
    <2>1. UNCHANGED frame_vars /\ setup(decode_cursor, frontier)
      BY <1>2 DEF DecodeBegin
    <2>2. /\ CursorTypeOK'
          /\ frame_cursor' = frame_cursor \/ frame_cursor' < beyond
      BY <1>0, <2>1, SetupEffect
    <2>3. frame_cursor' \in Int /\ frame_cursor \in Int
      BY <1>0, <2>2 DEF CursorTypeOK, NoCursor
    <2>4. QED BY <1>0, <2>1, <2>2, <2>3 DEF FramesInOrder, initialized, frame_vars
  <1>3. CASE DecodeSample
    <2>1. UNCHANGED frame_vars /\ sample(frontier)
      BY <1>3 DEF DecodeSample
    <2>2. CursorTypeOK' /\ (initialized' => frame_cursor' <= beyond)
      BY <1>0, <2>1, SampleEffect
    <2>3. QED BY <1>0, <2>1, <2>2 DEF FramesInOrder, frame_vars
  <1>4. CASE DecodeEnd
    <2>1. CASE session' = FALSE /\ NewSession
      <3>1. /\ frames_begin' = 0 /\ next_needed' = 0 /\ beyond' = 0
            /\ frame_cursor' = NoCursor /\ num_output' = 0 /\ rate' = "Steady"
            /\ lag' = DefaultLag /\ ratio' = ratio
        BY <2>1 DEF NewSession, FreshCursor
      <3>2. QED BY <1>0, <3>1, ConstantFacts DEF FramesInOrder, initialized, CursorTypeOK
    <2>2. CASE /\ frames_begin' = frames_begin + Lesser(ok_to_pop(frames_begin),
                                                        next_needed - frames_begin)
               /\ UNCHANGED <<next_needed, beyond, cursor_vars, session>>
      <3>1. UNCHANGED <<frame_cursor, num_output, rate, ratio, lag>>
        BY <2>2 DEF cursor_vars
      <3>2. frame_cursor \in Int
        BY <1>0 DEF CursorTypeOK, NoCursor
      <3>3. frames_begin' <= next_needed
        BY <1>0, <2>2, <3>2 DEF Lesser, ok_to_pop
      <3>4. QED BY <1>0, <2>2, <3>1, <3>3 DEF FramesInOrder, CursorTypeOK, initialized
    <2>3. QED BY <1>4, <2>1, <2>2 DEF DecodeEnd
  <1>5. CASE KeyReply
    BY <1>0, <1>5 DEF KeyReply, FramesInOrder, CursorTypeOK, initialized, frame_vars, cursor_vars
  <1>6. CASE NetworkReceive
    <2>1. UNCHANGED <<frame_cursor, num_output, rate, ratio, lag>>
      BY <1>6 DEF NetworkReceive, cursor_vars
    <2>2. /\ beyond' \in beyond .. MaxFrontier
          /\ frames_begin' = Greater(frames_begin, beyond' - ReceiverFrames)
          /\ next_needed' \in Greater(next_needed, frames_begin') .. beyond'
      BY <1>6 DEF NetworkReceive
    <2>3. beyond' \in Int /\ beyond <= beyond' /\ frames_begin' \in Int
      <3>1. ReceiverFrames \in Nat /\ MaxFrontier \in Nat
        BY ConstantFacts
      <3>2. beyond' \in Int /\ beyond <= beyond'
        BY <1>0, <2>2, <3>1
      <3>3. beyond' - ReceiverFrames \in Int
        BY <3>1, <3>2
      <3>4. frames_begin' \in Nat
        BY <1>0, <2>2, <3>3, GreaterBounds
      <3>5. QED BY <3>2, <3>4
    <2>4. next_needed' \in Int /\ frames_begin' <= next_needed' /\ next_needed' <= beyond'
      BY <1>0, <2>2, <2>3 DEF Greater
    <2>5. frame_cursor \in Int
      BY <1>0 DEF CursorTypeOK, NoCursor
    <2>6. QED BY <1>0, <2>1, <2>3, <2>4, <2>5 DEF FramesInOrder, CursorTypeOK, initialized
  <1>7. CASE SetCursorLag
    <2>1. /\ UNCHANGED <<frame_cursor, num_output, rate, ratio>> /\ lag' \in LagType
          /\ UNCHANGED frame_vars
      BY <1>7, ConstantFacts DEF SetCursorLag
    <2>2. QED BY <1>0, <2>1 DEF FramesInOrder, CursorTypeOK, initialized, frame_vars
  <1>8. QED BY <1>1, <1>2, <1>3, <1>4, <1>5, <1>6, <1>7, StepKinds

LEMMA TypesStay ==
    ASSUME Inv, [Next]_vars
    PROVE  TypeOK'
  <1>0. /\ TypeOK
        /\ frames_begin <= next_needed
    BY DEF Inv, FramesInOrder
  <1>1. CursorTypeOK'
    BY FramesStayInOrder
  <1>2. CASE UNCHANGED vars
    BY <1>0, <1>1, <1>2 DEF TypeOK, vars, device_vars, encoder_vars, frame_vars
  <1>3. CASE SampleArrives
    BY <1>0, <1>1, <1>3 DEF TypeOK, SampleArrives, encoder_vars, frame_vars
  <1>4. CASE ServiceDevice
    BY <1>0, <1>1, <1>4 DEF TypeOK, ServiceDevice, Serve, Rules, Greater, PlaybackBegin,
                            encoder_vars, frame_vars
  <1>5. ASSUME NEW ch \in Channels, Encode(ch) PROVE TypeOK'
    <2>1. /\ pushed' = [pushed EXCEPT ![ch] = @ + 1]
          /\ encoded' = encoded \cup {ch}
          /\ capture_begin' = Greater(capture_begin, PopFromSource)
          /\ serving' \in {"encode1", "encode2"}
          /\ UNCHANGED <<device_vars, num_popped, frame_vars, session, decode_cursor, decoding,
                         aborted>>
      BY <1>5 DEF Encode, encode_one_frame, Serve
    <2>2. pushed' \in [Channels -> Nat] /\ encoded' \subseteq Channels
      <3>1. pushed \in [Channels -> Nat] /\ encoded \subseteq Channels
        BY <1>0 DEF TypeOK
      <3>2. QED BY <2>1, <3>1
    <2>3. pushed'[1] * FrameSamples \in Nat /\ pushed'[2] * FrameSamples \in Nat
      BY <2>2, ConstantFacts, NextMultiple DEF Channels
    <2>4. capture_begin' \in Nat
      BY <1>0, <2>1, <2>3 DEF TypeOK, PopFromSource, Greater, Lesser
    <2>5. serving' \in {Rules[i] : i \in DOMAIN Rules} \cup {NoRule}
      BY <2>1 DEF Rules
    <2>6. QED BY <1>0, <1>1, <2>1, <2>2, <2>4, <2>5 DEF TypeOK, device_vars, frame_vars
  <1>6. ASSUME NEW rule \in {"transmit", "discard"}, PopFrame(rule) PROVE TypeOK'
    BY <1>0, <1>1, <1>6 DEF TypeOK, PopFrame, Serve, Rules, Popped, device_vars, frame_vars
  <1>7. CASE PlaySilence
    BY <1>0, <1>1, <1>7, ConstantFacts DEF TypeOK, PlaySilence, Serve, Rules, device_vars,
                                        encoder_vars, frame_vars
  <1>8. CASE Poll
    BY <1>0, <1>1, <1>8 DEF TypeOK, Poll, encoder_vars, frame_vars
  <1>9. CASE DecodeBegin
    BY <1>0, <1>1, <1>9 DEF TypeOK, DecodeBegin, Serve, Rules, device_vars, encoder_vars, frame_vars
  <1>10. CASE DecodeSample
    BY <1>0, <1>1, <1>10 DEF TypeOK, DecodeSample, device_vars, encoder_vars, frame_vars
  <1>11. CASE DecodeEnd
    <2>1. frame_cursor \in Int
      BY <1>0 DEF TypeOK, CursorTypeOK, NoCursor
    <2>2. frames_begin' \in Nat /\ next_needed' \in Nat /\ beyond' \in Nat
      BY <1>0, <1>11, <2>1 DEF TypeOK, DecodeEnd, NewSession, Lesser, ok_to_pop
    <2>3. decode_cursor' \in Nat /\ session' \in BOOLEAN /\ decoding' \in BOOLEAN
      <3>1. FrameSamples \in Nat /\ decode_cursor \in Nat /\ session \in BOOLEAN
        BY <1>0, ConstantFacts DEF TypeOK
      <3>2. decode_cursor + FrameSamples \in Nat
        BY <3>1, SumIsNat
      <3>3. session' \in BOOLEAN
        BY <1>11, <3>1 DEF DecodeEnd
      <3>4. decode_cursor' = decode_cursor + FrameSamples /\ decoding' = FALSE
        BY <1>11 DEF DecodeEnd
      <3>5. QED BY <3>2, <3>3, <3>4
    <2>4. UNCHANGED <<device_vars, encoder_vars, serving, aborted>>
      BY <1>11 DEF DecodeEnd
    <2>5. QED BY <1>0, <1>1, <2>2, <2>3, <2>4 DEF TypeOK, device_vars, encoder_vars
  <1>12. CASE KeyReply
    BY <1>0, <1>1, <1>12 DEF TypeOK, KeyReply, device_vars, encoder_vars, frame_vars
  <1>13. CASE NetworkReceive
    <2>1. /\ beyond' \in beyond .. MaxFrontier
          /\ frames_begin' = Greater(frames_begin, beyond' - ReceiverFrames)
          /\ next_needed' \in Greater(next_needed, frames_begin') .. beyond'
          /\ serving' = NoRule
          /\ UNCHANGED <<device_vars, encoder_vars, session, decode_cursor, decoding, aborted>>
      BY <1>13 DEF NetworkReceive
    <2>2. beyond' \in Nat /\ frames_begin' \in Nat
      <3>1. /\ ReceiverFrames \in Nat /\ MaxFrontier \in Nat
            /\ beyond \in Nat /\ frames_begin \in Nat
        BY <1>0, ConstantFacts DEF TypeOK
      <3>2. beyond' \in Nat
        BY <2>1, <3>1
      <3>3. beyond' - ReceiverFrames \in Int
        BY <3>1, <3>2
      <3>4. frames_begin' \in Nat
        BY <2>1, <3>1, <3>3, GreaterBounds
      <3>5. QED BY <3>2, <3>4
    <2>3. next_needed' \in Nat
      BY <1>0, <2>1, <2>2 DEF TypeOK, Greater
    <2>4. QED BY <1>0, <1>1, <2>1, <2>2, <2>3 DEF TypeOK, device_vars, encoder_vars
  <1>14. CASE SetCursorLag
    BY <1>0, <1>1, <1>14 DEF TypeOK, SetCursorLag, device_vars, encoder_vars, frame_vars
  <1>15. QED
    BY <1>2, <1>3, <1>4, <1>5, <1>6, <1>7, <1>8, <1>9, <1>10, <1>11, <1>12, <1>13, <1>14
    DEF Next, Stopped

LEMMA ClockStays ==
    ASSUME Inv, [Next]_vars
    PROVE  ClockRuns'
  <1>0. /\ device_cursor \in Nat /\ available \in Nat /\ quiet_cursor \in Nat
        /\ playback_begin = device_cursor
        /\ quiet_cursor <= device_cursor
    BY DEF Inv, TypeOK, ClockRuns
  <1>1. CASE UNCHANGED device_vars
    BY <1>0, <1>1 DEF ClockRuns, device_vars
  <1>2. CASE SampleArrives
    BY <1>0, <1>2 DEF SampleArrives, ClockRuns
  <1>3. CASE ServiceDevice
    BY <1>0, <1>3 DEF ServiceDevice, ClockRuns, PlaybackBegin, Greater
  <1>4. CASE Poll
    <2>1. available = 0
      BY <1>0, <1>4 DEF Poll, Quiet, Interested
    <2>2. QED BY <1>0, <1>4, <2>1 DEF Poll, ClockRuns
  <1>5. QED
    BY <1>1, <1>2, <1>3, <1>4 DEF Next, Stopped, vars, Encode, encode_one_frame, PopFrame, DecodeBegin,
       DecodeSample, DecodeEnd, PlaySilence, KeyReply, NetworkReceive, SetCursorLag

(* When the loop polls, what has been decoded or left silent ends more     *)
(* than a frame and Slack ahead of the device.                             *)
LEMMA QuietIsAhead ==
    ASSUME Inv, Quiet
    PROVE  device_cursor + FrameSamples + Slack < decode_cursor
  <1>0. device_cursor + FrameSamples + Slack \in Nat /\ decode_cursor \in Nat
    BY ConstantFacts DEF Inv, TypeOK
  <1>1. ~decode_due
    BY DEF Inv, TypeOK, Quiet, Interested
  <1>2. QED BY <1>0, <1>1 DEF decode_due

LEMMA StaysDecodedAhead ==
    ASSUME Inv, [Next]_vars
    PROVE  DecodedAhead'
  <1>0. /\ device_cursor \in Nat /\ available \in Nat /\ quiet_cursor \in Nat
        /\ decode_cursor \in Nat /\ num_output \in Nat /\ beyond \in Nat
        /\ quiet_cursor <= device_cursor
        /\ CursorTypeOK
        /\ FrameSamples \in Nat /\ Slack \in Nat
    BY ConstantFacts DEF Inv, TypeOK, CursorTypeOK, ClockRuns
  <1>1. /\ session => quiet_cursor + FrameSamples + Slack < decode_cursor
        /\ decoding => session /\ decode_cursor <= device_cursor + FrameSamples + Slack
        /\ initialized => session /\ decode_cursor <= num_output + FrameSamples
    BY DEF Inv, DecodedAhead
  <1>2. ASSUME UNCHANGED <<device_cursor, quiet_cursor, frame_cursor, num_output, session,
                           decode_cursor, decoding>>
        PROVE  DecodedAhead'
    BY <1>1, <1>2 DEF DecodedAhead, initialized
  <1>3. CASE ServiceDevice
    <2>1. device_cursor' \in Nat /\ device_cursor' >= device_cursor /\ ~decoding /\ ~decoding'
      BY <1>0, <1>3 DEF ServiceDevice, Serve
    <2>2. UNCHANGED <<quiet_cursor, frame_cursor, num_output, session, decode_cursor>>
      BY <1>3 DEF ServiceDevice, cursor_vars
    <2>3. QED BY <1>0, <1>1, <2>1, <2>2 DEF DecodedAhead, initialized
  <1>4. CASE DecodeBegin
    <2>1. /\ session /\ session' = session /\ decoding'
          /\ decode_cursor <= device_cursor + FrameSamples + Slack
          /\ UNCHANGED <<device_cursor, quiet_cursor, decode_cursor>>
          /\ setup(decode_cursor, frontier)
      BY <1>0, <1>4 DEF DecodeBegin, Serve, Interested, decode_due, device_vars
    <2>2. \/ frame_cursor' = frame_cursor /\ num_output' = num_output
          \/ num_output' = decode_cursor
      BY <1>0, <2>1, SetupEffect
    <2>3. initialized' => decode_cursor <= num_output' + FrameSamples
      BY <1>0, <1>1, <2>2 DEF initialized
    <2>4. QED BY <1>1, <2>1, <2>3 DEF DecodedAhead
  <1>5. CASE DecodeSample
    <2>1. /\ decoding /\ decoding' = decoding /\ session' = session /\ WantsSample
          /\ UNCHANGED <<device_cursor, quiet_cursor, decode_cursor>>
          /\ sample(frontier)
      BY <1>5 DEF DecodeSample, device_vars
    <2>2. /\ initialized' => num_output' >= num_output
          /\ num_output' \in Nat
      BY <1>0, <2>1, SampleEffect DEF CursorTypeOK
    <2>3. initialized' => decode_cursor <= num_output' + FrameSamples
      <3>1. decode_cursor <= num_output + FrameSamples
        BY <1>1, <2>1 DEF WantsSample
      <3>2. ASSUME initialized' PROVE decode_cursor <= num_output' + FrameSamples
        BY <1>0, <2>2, <3>1, <3>2, LaterBound
      <3>3. QED BY <3>2
    <2>4. QED BY <1>1, <2>1, <2>3 DEF DecodedAhead
  <1>6. CASE DecodeEnd
    <2>1. /\ decoding /\ ~WantsSample /\ ~decoding'
          /\ decode_cursor' = decode_cursor + FrameSamples
          /\ UNCHANGED <<device_cursor, quiet_cursor>>
      BY <1>6 DEF DecodeEnd, device_vars
    <2>2. CASE session' = FALSE /\ NewSession
      BY <2>1, <2>2 DEF DecodedAhead, NewSession, FreshCursor, initialized
    <2>3. CASE UNCHANGED <<cursor_vars, session>>
      <3>1. UNCHANGED <<frame_cursor, num_output, session>>
        BY <2>3 DEF cursor_vars
      <3>2. initialized => decode_cursor <= num_output
        BY <1>0, <2>1 DEF WantsSample
      <3>3. QED BY <1>0, <1>1, <2>1, <3>1, <3>2 DEF DecodedAhead, initialized
    <2>4. QED BY <1>6, <2>2, <2>3 DEF DecodeEnd
  <1>7. CASE PlaySilence
    <2>1. /\ ~session /\ ~session' /\ ~decoding'
          /\ UNCHANGED <<frame_cursor, num_output>>
      BY <1>7 DEF PlaySilence, Serve, Interested, cursor_vars
    <2>2. QED BY <1>1, <2>1 DEF DecodedAhead, initialized
  <1>8. CASE Poll
    <2>1. device_cursor + FrameSamples + Slack < decode_cursor
      BY <1>8, QuietIsAhead DEF Poll
    <2>2. /\ quiet_cursor' = device_cursor /\ ~decoding /\ ~decoding'
          /\ UNCHANGED <<frame_cursor, num_output, session, decode_cursor>>
      BY <1>8 DEF Poll, Quiet, cursor_vars
    <2>3. QED BY <1>1, <2>1, <2>2 DEF DecodedAhead, initialized
  <1>9. CASE KeyReply
    <2>1. device_cursor + FrameSamples + Slack < decode_cursor
      BY <1>9, QuietIsAhead DEF KeyReply
    <2>2. /\ ~session /\ session' /\ ~decoding /\ ~decoding'
          /\ UNCHANGED <<quiet_cursor, frame_cursor, num_output, decode_cursor>>
      BY <1>9 DEF KeyReply, Quiet, cursor_vars, device_vars
    <2>3. QED BY <1>0, <1>1, <2>1, <2>2 DEF DecodedAhead, initialized
  <1>10. CASE NetworkReceive \/ SetCursorLag \/ SampleArrives \/ UNCHANGED vars
           \/ (\E ch \in Channels : Encode(ch)) \/ PopFrame("transmit") \/ PopFrame("discard")
    BY <1>2, <1>10 DEF NetworkReceive, SetCursorLag, SampleArrives, Encode, encode_one_frame, PopFrame, vars,
                       device_vars, cursor_vars
  <1>11. QED
    BY <1>3, <1>4, <1>5, <1>6, <1>7, <1>8, <1>9, <1>10 DEF Next, Stopped

(* The slice is not behind the device unless the device has overtaken what *)
(* was decoded at the last poll, and always fits before the buffer's end.  *)
LEMMA StaysAborted ==
    ASSUME Inv, [Next]_vars
    PROVE  AbortedInDecode'
  <1>0. /\ AbortsOnlyWhenLate /\ (aborted => decoding)
        /\ device_cursor \in Nat /\ quiet_cursor \in Nat
        /\ decode_cursor \in Nat /\ num_output \in Nat /\ beyond \in Nat
        /\ CursorTypeOK
        /\ playback_begin = device_cursor
    BY DEF Inv, TypeOK, CursorTypeOK, ClockRuns, AbortedInDecode
  <1>1. CASE UNCHANGED vars
    BY <1>0, <1>1 DEF AbortedInDecode, AbortsOnlyWhenLate, vars, device_vars
  <1>2. CASE DecodeSample
    <2>1. /\ decoding /\ WantsSample /\ sample(frontier)
          /\ aborted' = (initialized' /\ ~SliceFits)
          /\ UNCHANGED <<device_cursor, quiet_cursor, decoding>>
      BY <1>2 DEF DecodeSample, device_vars
    <2>2. /\ quiet_cursor + FrameSamples + Slack < decode_cursor
          /\ decode_cursor <= device_cursor + FrameSamples + Slack
          /\ decode_cursor <= num_output + FrameSamples
          /\ num_output < decode_cursor
      BY <2>1 DEF Inv, DecodedAhead, WantsSample
    <2>3. ASSUME initialized' PROVE num_output' \in Nat /\ num_output' <= num_output + MaxChunk
      <3>1. PICK chunk \in Chunks : num_output' = num_output + chunk
        BY <2>1, <2>3 DEF sample, initialized
      <3>2. chunk \in Nat /\ chunk <= MaxChunk /\ MaxChunk \in Nat
        BY CursorConstants DEF CursorConstants
      <3>3. QED BY <1>0, <3>1, <3>2
    <2>4. ASSUME initialized' PROVE num_output' <= playback_begin + BufferSamples
      BY <1>0, <2>2, <2>3, <2>4, ConstantFacts
    <2>5. ASSUME aborted' PROVE device_cursor' > quiet_cursor' + Slack + 1
      <3>1. initialized' /\ ~SliceFits
        BY <2>1, <2>5
      <3>2. num_output' <= playback_begin + BufferSamples
        BY <2>4, <3>1
      <3>3. ~(playback_begin <= num_output)
        BY <3>1, <3>2 DEF SliceFits
      <3>4. num_output < device_cursor
        BY <1>0, <3>3
      <3>5. FrameSamples \in Nat /\ Slack \in Nat
        BY ConstantFacts
      <3>6. QED BY <1>0, <2>1, <2>2, <3>4, <3>5
    <2>6. QED BY <2>1, <2>5 DEF AbortedInDecode, AbortsOnlyWhenLate
  <1>3. CASE ~aborted /\ ~aborted'
    BY <1>3 DEF AbortedInDecode, AbortsOnlyWhenLate
  <1>4. ASSUME Next, ~UNCHANGED vars, ~DecodeSample PROVE ~aborted /\ ~aborted'
    <2>1. CASE SampleArrives \/ DecodeEnd
      BY <2>1 DEF SampleArrives, DecodeEnd
    <2>2. CASE \/ ServiceDevice \/ (\E ch \in Channels : Encode(ch))
               \/ PopFrame("transmit") \/ PopFrame("discard") \/ DecodeBegin \/ PlaySilence
      BY <1>0, <2>2 DEF ServiceDevice, Encode, PopFrame, DecodeBegin, PlaySilence, Serve
    <2>3. CASE Poll \/ KeyReply \/ NetworkReceive \/ SetCursorLag
      BY <1>0, <2>3 DEF Poll, KeyReply, NetworkReceive, SetCursorLag, Quiet
    <2>4. QED BY <1>4, <2>1, <2>2, <2>3 DEF Next, Stopped
  <1>5. QED BY <1>1, <1>2, <1>3, <1>4

LEMMA EncodersStayInStep ==
    ASSUME Inv, [Next]_vars
    PROVE  EncodedUpToPoll'
  <1> DEFINE low == min_encode_cursor
  <1>0. /\ pushed \in [Channels -> Nat] /\ encoded \subseteq Channels /\ num_popped \in Nat
        /\ device_cursor \in Nat /\ quiet_cursor \in Nat /\ capture_begin \in Nat
        /\ FrameSamples \in Nat /\ FrameSamples > 0
        /\ quiet_cursor <= device_cursor
    BY ConstantFacts DEF Inv, TypeOK, ClockRuns
  <1>1. /\ \A ch \in Channels : pushed[ch] = num_popped + (IF ch \in encoded THEN 1 ELSE 0)
        /\ capture_begin = low
        /\ quiet_cursor < low + FrameSamples
    BY DEF Inv, EncodedUpToPoll, EncodersInStep
  <1>2. \A ch \in Channels : pushed[ch] \in Nat /\ encode_cursor(ch) \in Nat
    BY <1>0, NextMultiple DEF encode_cursor
  <1>3. low \in Nat /\ low <= encode_cursor(1) /\ low <= encode_cursor(2)
          /\ (low = encode_cursor(1) \/ low = encode_cursor(2))
    BY <1>2 DEF min_encode_cursor, Lesser, Channels
  <1>4. ASSUME UNCHANGED <<encoder_vars, quiet_cursor>>
        PROVE  EncodedUpToPoll'
    BY <1>1, <1>4 DEF EncodedUpToPoll, EncodersInStep, min_encode_cursor, encode_cursor, encoder_vars
  <1>5. ASSUME NEW ch \in Channels, Encode(ch) PROVE EncodedUpToPoll'
    <2>1. /\ pushed' = [pushed EXCEPT ![ch] = @ + 1]
          /\ encoded' = encoded \cup {ch}
          /\ capture_begin' = Greater(capture_begin, PopFromSource)
          /\ quiet_cursor' = quiet_cursor /\ num_popped' = num_popped
      BY <1>5 DEF Encode, encode_one_frame, device_vars
    <2>2. ch \notin encoded
      BY <1>5 DEF Encode, encode_one_frame, Serve, Interested, can_encode_frame, Channels
    <2>3. EncodersInStep'
      BY <1>0, <1>1, <2>1, <2>2 DEF EncodersInStep
    <2>4. \A c \in Channels : /\ encode_cursor(c)' \in Nat
                              /\ encode_cursor(c) <= encode_cursor(c)'
      <3> SUFFICES ASSUME NEW c \in Channels
                   PROVE  encode_cursor(c)' \in Nat /\ encode_cursor(c) <= encode_cursor(c)'
        OBVIOUS
      <3>1. pushed'[c] = pushed[c] \/ pushed'[c] = pushed[c] + 1
        BY <1>0, <2>1
      <3>2. QED BY <1>0, <1>2, <3>1, NextMultiple DEF encode_cursor
    <2>5. /\ low' \in Nat /\ low <= low' /\ low' = PopFromSource
      BY <1>2, <2>4 DEF min_encode_cursor, Lesser, Channels, PopFromSource, encode_cursor
    <2>6. capture_begin' = low'
      BY <1>0, <1>1, <1>3, <2>1, <2>5 DEF Greater
    <2>7. quiet_cursor' < low' + FrameSamples
      <3> HIDE DEF low
      <3> QED BY <1>0, <1>1, <1>3, <2>1, <2>5
    <2>8. QED BY <2>3, <2>6, <2>7 DEF EncodedUpToPoll
  <1>6. ASSUME NEW rule \in {"transmit", "discard"}, PopFrame(rule) PROVE EncodedUpToPoll'
    <2>1. encoded = Channels
      BY <1>6 DEF PopFrame, Serve, Interested, has_frame
    <2>2. /\ encoded' = {} /\ num_popped' = num_popped + 1
          /\ UNCHANGED <<pushed, capture_begin, quiet_cursor>>
      BY <1>6 DEF PopFrame, Popped, device_vars
    <2>3. EncodersInStep'
      BY <1>0, <1>1, <2>1, <2>2 DEF EncodersInStep
    <2>4. QED BY <1>1, <2>2, <2>3 DEF EncodedUpToPoll, min_encode_cursor, encode_cursor
  <1>7. CASE Poll
    <2>1. /\ quiet_cursor' = device_cursor /\ UNCHANGED encoder_vars
          /\ ~can_encode_frame(1) /\ ~can_encode_frame(2) /\ ~has_frame
      BY <1>7 DEF Poll, Quiet, Interested, encoder_vars
    <2>2. \A ch \in Channels : device_cursor < encode_cursor(ch) + FrameSamples \/ ch \in encoded
      BY <1>0, <1>2, <2>1 DEF can_encode_frame, Channels
    <2>3. device_cursor < low + FrameSamples
      <3>1. CASE encoded = {}
        <4> HIDE DEF low
        <4> QED BY <1>3, <2>2, <3>1 DEF Channels
      <3>2. ASSUME NEW ch \in Channels, ch \in encoded PROVE device_cursor < low + FrameSamples
        <4>1. PICK other \in Channels : other \notin encoded
          BY <1>0, <2>1 DEF has_frame
        <4>2. Channels = {ch, other}
          BY <3>2, <4>1 DEF Channels
        <4>3. pushed[ch] = pushed[other] + 1
          BY <1>0, <1>1, <3>2, <4>1
        <4>4. encode_cursor(ch) = encode_cursor(other) + FrameSamples
          BY <1>0, <1>2, <4>3, NextMultiple DEF encode_cursor
        <4>5. low = encode_cursor(other)
          BY <1>0, <1>2, <1>3, <4>2, <4>4 DEF Channels
        <4>6. QED BY <2>2, <4>1, <4>5
      <3>3. QED BY <1>0, <3>1, <3>2
    <2>4. QED
      BY <1>1, <2>1, <2>3 DEF EncodedUpToPoll, EncodersInStep, min_encode_cursor,
                              encode_cursor, encoder_vars
  <1>8. QED
    BY <1>4, <1>5, <1>6, <1>7 DEF Next, Stopped, vars, device_vars, SampleArrives, ServiceDevice,
       DecodeBegin, DecodeSample, DecodeEnd, PlaySilence, KeyReply, NetworkReceive, SetCursorLag

-----------------------------------------------------------------------------
LEMMA Initially == Init => Inv
  <1> SUFFICES ASSUME Init PROVE Inv
    OBVIOUS
  <1>1. TypeOK
    BY ConstantFacts DEF Init, TypeOK, CursorTypeOK, Channels
  <1>2. ClockRuns
    BY ConstantFacts DEF Init, ClockRuns
  <1>3. DecodedAhead
    BY DEF Init, DecodedAhead, initialized
  <1>4. EncodedUpToPoll
    <2>1. encode_cursor(1) = 0 /\ encode_cursor(2) = 0
      BY ConstantFacts DEF Init, encode_cursor, Channels
    <2>2. QED BY <2>1, ConstantFacts DEF Init, EncodedUpToPoll, EncodersInStep, min_encode_cursor,
                                      Lesser, Channels
  <1>5. FramesInOrder
    BY DEF Init, FramesInOrder, initialized
  <1>6. AbortedInDecode
    BY DEF Init, AbortedInDecode, AbortsOnlyWhenLate
  <1>7. QED BY <1>1, <1>2, <1>3, <1>4, <1>5, <1>6 DEF Inv

THEOREM Invariance == Spec => []Inv
  <1>1. Inv /\ [Next]_vars => Inv'
    BY TypesStay, ClockStays, StaysDecodedAhead, StaysAborted, EncodersStayInStep,
       FramesStayInOrder DEF Inv
  <1>2. QED BY Initially, <1>1, PTL DEF Spec

(* Every variable keeps its type.                                          *)
THEOREM ClientTypeOK == Spec => []TypeOK
  <1>1. Inv => TypeOK
    BY DEF Inv
  <1>2. QED BY Invariance, <1>1, PTL

(* check_bounds aborts the client only if the loop has served more than    *)
(* Slack + 1 samples since it last polled, whatever happened before that.  *)
THEOREM ClientAbortsOnlyWhenLate == Spec => []AbortsOnlyWhenLate
  <1>1. Inv => AbortsOnlyWhenLate
    BY DEF Inv, AbortedInDecode
  <1>2. QED BY Invariance, <1>1, PTL

(* Whenever the loop polls, a playing session is ahead of the device.      *)
THEOREM ClientAheadOfDevice == Spec => []AheadOfDevice
  <1>1. Inv => AheadOfDevice
    <2> SUFFICES ASSUME Inv, Quiet, session, initialized
                 PROVE  num_output > device_cursor + Slack
      BY DEF AheadOfDevice
    <2>1. /\ device_cursor \in Nat /\ decode_cursor \in Nat /\ num_output \in Nat
          /\ decode_cursor <= num_output + FrameSamples
      BY DEF Inv, TypeOK, CursorTypeOK, DecodedAhead
    <2>2. QED BY <2>1, QuietIsAhead, ConstantFacts
  <1>2. QED BY Invariance, <1>1, PTL

(* The two encoders work on the same frame.                                *)
THEOREM ClientEncodersInStep == Spec => []EncodersInStep
  <1>1. Inv => EncodersInStep
    BY DEF Inv, EncodedUpToPoll
  <1>2. QED BY Invariance, <1>1, PTL

(* What an encoder reads is in the capture buffer.                         *)
THEOREM ClientCaptureHolds == Spec => []CaptureHolds
  <1>1. Inv => CaptureHolds
    <2> SUFFICES ASSUME Inv
                 PROVE  /\ \A ch \in Channels : capture_begin <= encode_cursor(ch)
                        /\ device_cursor <= quiet_cursor + BufferSamples - FrameSamples + 1 =>
                             device_cursor <= capture_begin + BufferSamples
      BY DEF CaptureHolds
    <2>0. /\ device_cursor \in Nat /\ quiet_cursor \in Nat
          /\ pushed \in [Channels -> Nat]
      BY DEF Inv, TypeOK
    <2>1. encode_cursor(1) \in Nat /\ encode_cursor(2) \in Nat
      BY <2>0, ConstantFacts, NextMultiple DEF encode_cursor, Channels
    <2>2. /\ capture_begin = Lesser(encode_cursor(1), encode_cursor(2))
          /\ quiet_cursor < capture_begin + FrameSamples
      BY DEF Inv, EncodedUpToPoll, min_encode_cursor
    <2>3. /\ capture_begin \in Nat
          /\ capture_begin <= encode_cursor(1) /\ capture_begin <= encode_cursor(2)
      BY <2>1, <2>2 DEF Lesser
    <2>4. QED BY <2>0, <2>2, <2>3, ConstantFacts DEF Channels
  <1>2. QED BY Invariance, <1>1, PTL

(* Within a session no frame is jumped over.                               *)
THEOREM ClientNoFrameSkipped == Spec => NoFrameSkipped
  <1>1. Inv /\ Inv' /\ [Next]_vars => [CursorMovesOn]_vars
    <2> SUFFICES ASSUME Inv, Inv', [Next]_vars, session, session', initialized, initialized'
                 PROVE  frame_cursor' <= frame_cursor + 1 /\ frame_cursor' <= beyond'
      BY DEF CursorMovesOn
    <2>1. /\ CursorTypeOK /\ beyond \in Nat /\ decode_cursor \in Nat
          /\ frame_cursor \in Nat
      BY DEF Inv, TypeOK, CursorTypeOK, initialized
    <2>2. frame_cursor' <= beyond'
      BY DEF Inv, FramesInOrder
    <2>3. CASE UNCHANGED frame_cursor
      BY <2>1, <2>2, <2>3
    <2>4. CASE DecodeBegin
      BY <2>1, <2>2, <2>4, SetupEffect DEF DecodeBegin
    <2>5. CASE DecodeSample
      BY <2>1, <2>2, <2>5, SampleEffect DEF DecodeSample
    <2>6. CASE DecodeEnd
      <3>1. UNCHANGED frame_cursor
        BY <2>6 DEF DecodeEnd, cursor_vars
      <3>2. QED BY <2>3, <3>1
    <2>7. CASE CursorRests \/ UNCHANGED vars
      BY <2>3, <2>7, RestingSteps DEF cursor_vars
    <2>8. CASE KeyReply \/ NetworkReceive \/ SetCursorLag
      BY <2>3, <2>8 DEF KeyReply, NetworkReceive, SetCursorLag, cursor_vars
    <2>9. QED BY <2>4, <2>5, <2>6, <2>7, <2>8, StepKinds
  <1>2. QED BY Invariance, <1>1, PTL DEF Spec, NoFrameSkipped
=============================================================================
