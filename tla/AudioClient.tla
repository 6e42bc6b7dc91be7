------------------------------ MODULE AudioClient ------------------------------
(***************************************************************************)
(* The audio client (src/audio, src/playback/networkclient.cc): the rules  *)
(* of its event loop between the sound device, the two encoders and the    *)
(* session.  Every sample has a position on the device's clock; samples    *)
(* themselves are left out.                                                *)
(*                                                                         *)
(* The loop looks at its rules in the order in which they were added,      *)
(* serves one as long as it stays interested, and starts again; it polls   *)
(* sockets only when no rule is interested.  The device's clock runs while *)
(* callbacks do.                                                           *)
(***************************************************************************)
EXTENDS PlaybackCursor

CONSTANTS
    Slack,            \* samples decoded ahead beyond a frame (60)
    BufferSamples,    \* capacity of the capture and playback buffers (65536)
    ReceiverFrames,   \* capacity of the receiver's window (8192)
    MaxBurst,         \* bound: samples that pass from one poll to the next
    MaxCursor,        \* bound: samples that the device delivers
    MaxFrontier       \* bound: frames that the server sends

ASSUME ClientConstants ==
    /\ Slack \in Nat
    /\ BufferSamples \in Nat
    /\ BufferSamples > 2 * FrameSamples + Slack + MaxChunk
    /\ ReceiverFrames \in Nat \ {0}
    /\ MaxBurst \in Nat \ {0}
    /\ MaxCursor \in Nat
    /\ MaxFrontier \in Nat

VARIABLES
    available,        \* samples that the microphone has and nobody has read
    device_cursor,    \* the microphone's cursor_
    quiet_cursor,     \* the device's cursor when the loop last polled
    playback_begin,   \* playback_.range_begin()
    capture_begin,    \* capture_.range_begin()
    pushed,           \* num_pushed_ of each encoder
    encoded,          \* encoders whose output_ has a value
    num_popped,       \* num_popped_
    session,          \* session_.has_value()
    frames_begin,     \* frames().range_begin()
    next_needed,      \* next_frame_needed()
    beyond,           \* unreceived_beyond_this_frame_index()
    decode_cursor,    \* decode_cursor_
    decoding,         \* the loop is inside NetworkSession::decode
    serving,          \* the rule the loop has last served
    aborted           \* check_bounds has called abort()

device_vars  == <<available, device_cursor, quiet_cursor, playback_begin>>
encoder_vars == <<capture_begin, pushed, encoded, num_popped>>
frame_vars   == <<frames_begin, next_needed, beyond>>
vars == <<device_vars, encoder_vars, frame_vars, cursor_vars, session,
          decode_cursor, decoding, serving, aborted>>

Channels == {1, 2}
Rules == <<"device", "encode1", "encode2", "transmit", "discard", "decode", "silence">>
NoRule == "none"

Lesser(a, b)  == IF a < b THEN a ELSE b
Greater(a, b) == IF a > b THEN a ELSE b

frontier == beyond * FrameSamples
encode_cursor(ch) == pushed[ch] * FrameSamples
min_encode_cursor == Lesser(encode_cursor(1), encode_cursor(2))

TypeOK ==
    /\ CursorTypeOK
    /\ available \in Nat /\ device_cursor \in Nat /\ quiet_cursor \in Nat
    /\ playback_begin \in Nat /\ capture_begin \in Nat
    /\ pushed \in [Channels -> Nat]
    /\ encoded \subseteq Channels
    /\ num_popped \in Nat
    /\ frames_begin \in Nat /\ next_needed \in Nat /\ beyond \in Nat
    /\ decode_cursor \in Nat
    /\ session \in BOOLEAN
    /\ decoding \in BOOLEAN
    /\ aborted \in BOOLEAN
    /\ serving \in {Rules[i] : i \in DOMAIN Rules} \cup {NoRule}

Init ==
    /\ frame_cursor = NoCursor
    /\ num_output = 0
    /\ rate = "Steady"
    /\ ratio = 100
    /\ lag = DefaultLag
    /\ available = 0
    /\ device_cursor = 0
    /\ quiet_cursor = 0
    /\ playback_begin = 0
    /\ capture_begin = 0
    /\ pushed = [ch \in Channels |-> 0]
    /\ encoded = {}
    /\ num_popped = 0
    /\ session = FALSE
    /\ frames_begin = 0
    /\ next_needed = 0
    /\ beyond = 0
    /\ decode_cursor = 0
    /\ decoding = FALSE
    /\ serving = NoRule
    /\ aborted = FALSE

-----------------------------------------------------------------------------
can_encode_frame(ch) ==
    device_cursor >= encode_cursor(ch) + FrameSamples /\ ch \notin encoded

has_frame == encoded = Channels

(* The playback buffer is filled a frame and a bit ahead of the device.    *)
decode_due == device_cursor + FrameSamples + Slack >= decode_cursor

(* The interest of each rule.                                              *)
Interested ==
    {r \in {"device"} : available > 0}
      \cup {r \in {"encode1"} : can_encode_frame(1)}
      \cup {r \in {"encode2"} : can_encode_frame(2)}
      \cup {r \in {"transmit"} : has_frame /\ session}
      \cup {r \in {"discard"} : has_frame /\ ~session}
      \cup {r \in {"decode"} : session /\ decode_due}
      \cup {r \in {"silence"} : ~session /\ decode_due}

(* wait_next_event, first part: a rule is served again while it stays      *)
(* interested; otherwise the first interested one is next.                 *)
Serve(rule) ==
    /\ ~decoding
    /\ rule \in Interested
    /\ serving # rule =>
         /\ serving \notin Interested
         /\ \E i \in DOMAIN Rules :
              /\ Rules[i] = rule
              /\ \A j \in 1 .. i - 1 : Rules[j] \notin Interested
    /\ serving' = rule

(* wait_next_event, second part: no rule is interested.                    *)
Quiet == ~decoding /\ Interested = {}

-----------------------------------------------------------------------------
(* The device's clock: a sample arrives at any time, also while a callback *)
(* runs.                                                                   *)
SampleArrives ==
    /\ ~aborted
    /\ device_cursor + available - quiet_cursor < MaxBurst
    /\ device_cursor + available < MaxCursor
    /\ available' = available + 1
    /\ UNCHANGED <<device_cursor, quiet_cursor, playback_begin, encoder_vars,
                   frame_vars, cursor_vars, session, decode_cursor, decoding, serving,
                   aborted>>

(* Variant: the playback buffer is popped a frame too far.                 *)
PlaybackBegin_Ahead(cursor) == cursor + FrameSamples

(* service_device pops what has been played.                               *)
PlaybackBegin(cursor) == cursor

(* service_device: what the microphone has is captured while the playback  *)
(* buffer is played; a device that reports an error drops it and restarts. *)
ServiceDevice ==
    /\ Serve("device")
    /\ \/ device_cursor' = device_cursor + available
       \/ UNCHANGED device_cursor
    /\ available' = 0
    /\ playback_begin' = Greater(playback_begin, PlaybackBegin(device_cursor'))
    /\ UNCHANGED <<quiet_cursor, encoder_vars, frame_vars, cursor_vars, session,
                   decode_cursor, decoding, aborted>>

(* Variant: the capture buffer is popped up to the encoder that is ahead.  *)
PopFromSource_Greater == Greater(pushed'[1] * FrameSamples, pushed'[2] * FrameSamples)

(* pop_from_source: what both encoders have read is popped.                *)
PopFromSource == Lesser(pushed'[1] * FrameSamples, pushed'[2] * FrameSamples)

(* TrackedEncoder::encode_one_frame.  It would throw if the encoder still  *)
(* had an output, with which can_encode_frame is FALSE.                    *)
encode_one_frame(ch) ==
    /\ encoded' = encoded \cup {ch}
    /\ pushed' = [pushed EXCEPT ![ch] = @ + 1]

(* Rules "encode [ch1]" and "encode [ch2]".                                *)
Encode(ch) ==
    /\ Serve(IF ch = 1 THEN "encode1" ELSE "encode2")
    /\ encode_one_frame(ch)
    /\ capture_begin' = Greater(capture_begin, PopFromSource)
    /\ UNCHANGED <<device_vars, num_popped, frame_vars, cursor_vars, session,
                   decode_cursor, decoding, aborted>>

(* Variant: pop_frame leaves the second encoder's output.                  *)
Popped_FirstOnly == encoded \ {1}

(* pop_frame: both outputs are consumed together.                          *)
Popped == {}

(* Rules "network transmit", where push_frame takes the frame for the      *)
(* connection, and "discard audio".                                        *)
PopFrame(rule) ==
    /\ Serve(rule)
    /\ encoded' = Popped
    /\ num_popped' = num_popped + 1
    /\ UNCHANGED <<device_vars, capture_begin, pushed, frame_vars, cursor_vars,
                   session, decode_cursor, decoding, aborted>>

-----------------------------------------------------------------------------
NewSession ==
    /\ FreshCursor
    /\ frames_begin' = 0
    /\ next_needed' = 0
    /\ beyond' = 0

(* decode, up to its loop.                                                 *)
DecodeBegin ==
    /\ Serve("decode")
    /\ setup(decode_cursor, frontier)
    /\ decoding' = TRUE
    /\ UNCHANGED <<device_vars, encoder_vars, frame_vars, session, decode_cursor, aborted>>

WantsSample == initialized /\ decode_cursor > num_output

(* EndlessBuffer::check_bounds for the slice that has just come out.       *)
SliceFits ==
    playback_begin <= num_output /\ num_output' <= playback_begin + BufferSamples

(* One turn of decode's loop: the slice, if there is one, goes to the      *)
(* playback buffer at num_output, where region() may abort the client.     *)
DecodeSample ==
    /\ decoding
    /\ ~aborted
    /\ WantsSample
    /\ sample(frontier)
    /\ aborted' = (initialized' /\ ~SliceFits)
    /\ UNCHANGED <<device_vars, encoder_vars, frame_vars, session, decode_cursor,
                   decoding, serving>>

(* The rest of decode and of its rule: used frames are popped, and the     *)
(* session may have gone without a good ack for too long.                  *)
DecodeEnd ==
    /\ decoding
    /\ ~aborted
    /\ ~WantsSample
    /\ decoding' = FALSE
    /\ decode_cursor' = decode_cursor + FrameSamples
    /\ \/ /\ frames_begin' = frames_begin + Lesser(ok_to_pop(frames_begin),
                                                   next_needed - frames_begin)
          /\ UNCHANGED <<next_needed, beyond, cursor_vars, session>>
       \/ /\ session' = FALSE
          /\ NewSession
    /\ UNCHANGED <<device_vars, encoder_vars, serving, aborted>>

(* Rule "play silence".                                                    *)
PlaySilence ==
    /\ Serve("silence")
    /\ decode_cursor' = decode_cursor + FrameSamples
    /\ UNCHANGED <<device_vars, encoder_vars, frame_vars, cursor_vars, session, decoding,
                   aborted>>

-----------------------------------------------------------------------------
(* The loop polls: the device has been waited for.                         *)
Poll ==
    /\ Quiet
    /\ quiet_cursor' = device_cursor
    /\ serving' = NoRule
    /\ UNCHANGED <<available, device_cursor, playback_begin, encoder_vars, frame_vars,
                   cursor_vars, session, decode_cursor, decoding, aborted>>

(* process_keyreply makes a session, which has the fields of a new one     *)
(* from the moment its predecessor ends.                                   *)
KeyReply ==
    /\ Quiet
    /\ ~session
    /\ session' = TRUE
    /\ serving' = NoRule
    /\ UNCHANGED <<device_vars, encoder_vars, frame_vars, cursor_vars, decode_cursor,
                   decoding, aborted>>

(* network_receive: frames up to some frame have come, perhaps with gaps.  *)
(* A receiver whose window overflows moves it up.                          *)
NetworkReceive ==
    /\ Quiet
    /\ session
    /\ beyond' \in beyond .. MaxFrontier
    /\ frames_begin' = Greater(frames_begin, beyond' - ReceiverFrames)
    /\ next_needed' \in Greater(next_needed, frames_begin') .. beyond'
    /\ serving' = NoRule
    /\ UNCHANGED <<device_vars, encoder_vars, cursor_vars, session, decode_cursor,
                   decoding, aborted>>

(* The controller's set_cursor_lag; without a session it does nothing.     *)
SetCursorLag ==
    /\ Quiet
    /\ session
    /\ lag' \in Lags
    /\ serving' = NoRule
    /\ UNCHANGED <<device_vars, encoder_vars, frame_vars, frame_cursor, num_output,
                   rate, ratio, session, decode_cursor, decoding, aborted>>

(* What is left of a client that has aborted: nothing.                     *)
Stopped == aborted /\ UNCHANGED vars

Next ==
    \/ SampleArrives
    \/ ServiceDevice
    \/ \E ch \in Channels : Encode(ch)
    \/ PopFrame("transmit")
    \/ PopFrame("discard")
    \/ DecodeBegin
    \/ DecodeSample
    \/ DecodeEnd
    \/ PlaySilence
    \/ Poll
    \/ KeyReply
    \/ NetworkReceive
    \/ SetCursorLag
    \/ Stopped

Spec == Init /\ [][Next]_vars

-----------------------------------------------------------------------------
(* A slice that decode writes is outside the playback buffer only if the   *)
(* loop has served more than Slack + 1 samples since it last polled:       *)
(* neither underflows, new sessions and stretched time nor an earlier      *)
(* burst that the client survived bring it to check_bounds' abort().       *)
AbortsOnlyWhenLate == aborted => device_cursor > quiet_cursor + Slack + 1

(* When the loop polls, a session that plays at all has filled the         *)
(* playback buffer more than Slack samples ahead of the device, also just  *)
(* after underflows, new sessions and device errors.                       *)
AheadOfDevice ==
    Quiet /\ session /\ initialized => num_output > device_cursor + Slack

(* The samples that an encoder is about to read are in the capture buffer: *)
(* the other encoder has not had them popped; and none that was captured   *)
(* fell off the buffer's end, as long as the loop polls once in a buffer   *)
(* less a frame.                                                           *)
CaptureHolds ==
    /\ \A ch \in Channels : capture_begin <= encode_cursor(ch)
    /\ device_cursor <= quiet_cursor + BufferSamples - FrameSamples + 1 =>
         device_cursor <= capture_begin + BufferSamples

(* The two encoders' outputs that are sent as one frame are of the same    *)
(* samples: each encoder has pushed what was popped and what it holds.     *)
EncodersInStep ==
    \A ch \in Channels : pushed[ch] = num_popped + (IF ch \in encoded THEN 1 ELSE 0)

(* Within a session a playing cursor never jumps over a frame: it moves on *)
(* by one, falls back to its lag, or stops; and it is not beyond the       *)
(* frames that the server has sent.                                        *)
CursorMovesOn ==
    session /\ session' /\ initialized /\ initialized' =>
        frame_cursor' <= frame_cursor + 1 /\ frame_cursor' <= beyond'

NoFrameSkipped == [][CursorMovesOn]_vars

(* src/playback/cursor.hh:12 calls the target lag the "end of              *)
(* time-compression": a frame that was that close to the frontier is not   *)
(* played compressed.  A reset leaves the stretcher's ratio as it was.     *)
CompressionEndsAtTarget ==
    [][DecodeSample /\ initialized' =>
         (ratio' = 95 => frontier - greatest_read_location(frame_cursor' - 1) > lag.target)]_vars
=============================================================================
