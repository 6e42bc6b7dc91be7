------------------------------ MODULE MixServer ------------------------------
(***************************************************************************)
(* The audio server's clock and windows (src/server/multiserver.cc,        *)
(* client.cc, audioboard.cc): the mix rule that fires once per frame of    *)
(* server time, the sessions that start at any time with an offset of      *)
(* their own, and the windows of samples on the boards, which are popped   *)
(* behind the mix and must still hold whatever the next round reads or     *)
(* writes: EndlessBuffer::check_bounds aborts the process otherwise.       *)
(*                                                                         *)
(* Time and positions are in samples.  Samples themselves, gains and Opus  *)
(* are left out.  Both boards are popped alike, and both feeds of a client *)
(* are decoded alike, so there is one of each.                             *)
(***************************************************************************)
EXTENDS Integers, FiniteSets

CONSTANTS
    Clients,        \* the server's clients_
    FrameSamples,   \* opus_frame::NUM_SAMPLES (120)
    WriterSamples,  \* big_opus_frame::NUM_SAMPLES (480)
    PopLag,         \* what the boards keep behind the mix (960)
    BoardCapacity,  \* capacity of the channels of a board (8192)
    MaxChunk,       \* most samples that one step of a Cursor puts out (1024)
    DefaultLag,     \* lags a feed starts with: [target, min, max]
    LagMessages,    \* set_cursor_lag messages the operator may send
    MaxClock        \* bound: samples of server time

ASSUME MixConstants ==
    /\ FrameSamples \in Nat \ {0}
    /\ WriterSamples \in Nat \ {0}
    /\ PopLag \in Nat /\ PopLag >= FrameSamples /\ PopLag >= WriterSamples
    /\ MaxChunk \in Nat \ {0}
    /\ BoardCapacity \in Nat
    /\ BoardCapacity >= PopLag + 2 * FrameSamples + MaxChunk
    /\ MaxClock \in Nat

ASSUME LagConstants ==
    LET Lags == [target : Nat, min : Nat, max : Nat]
    IN  DefaultLag \in Lags /\ LagMessages \subseteq Lags

VARIABLES
    clock,          \* server_clock()
    next_cursor,    \* next_cursor_sample_
    board_begin,    \* range_begin of the channels of the boards
    writer_cursor,  \* mix_cursor_ of the AudioWriters
    session         \* current_session_ of each client, at most one

mix_vars == <<clock, next_cursor, board_begin, writer_cursor, session>>

Larger(a, b) == IF a > b THEN a ELSE b

(* A Client: its place on the server's clock, what it has mixed, the       *)
(* frames it has pushed, num_samples_output_ of its feed when that is      *)
(* initialized, and the feed's lags.                                       *)
Sessions == [offset : Nat, mixed : Nat, frames : Nat, output : SUBSET Nat,
             lag : [target : Nat, min : Nat, max : Nat]]

(* server_mix_cursor                                                       *)
ServerMix(s) == s.mixed + s.offset * FrameSamples

TypeOK ==
    /\ clock \in Nat /\ next_cursor \in Nat /\ board_begin \in Nat /\ writer_cursor \in Nat
    /\ session \in [Clients -> SUBSET Sessions]
    /\ \A c \in Clients : \A s, t \in session[c] : s = t

Init ==
    /\ clock = 0
    /\ next_cursor = FrameSamples
    /\ board_begin = 0
    /\ writer_cursor = 0
    /\ session = [c \in Clients |-> {}]

-----------------------------------------------------------------------------
(* Time passes, by any amount between two rules.                           *)
Tick ==
    /\ \E now \in clock + 1 .. MaxClock : clock' = now
    /\ UNCHANGED <<next_cursor, board_begin, writer_cursor, session>>

(* outbound_frame_offset_: which frame of server time a session starts in. *)
(* Variant: the frame before it.                                           *)
StartingFrame_Earlier(now) ==
    IF now < FrameSamples THEN 0 ELSE now \div FrameSamples - 1
StartingFrame(now) == now \div FrameSamples

(* KnownClient::receive_packet makes a session of the packet that opens it *)
(* and Client::receive_packet gives it its place on the clock; an earlier  *)
(* session of the client is gone.                                          *)
NewClient(now) ==
    [offset |-> StartingFrame(now), mixed |-> 0, frames |-> 0,
     output |-> {}, lag |-> DefaultLag]

NewSession(c) ==
    /\ session' = [session EXCEPT ![c] = {NewClient(clock)}]
    /\ UNCHANGED <<clock, next_cursor, board_begin, writer_cursor>>

(* NetworkMultiServer::set_cursor_lag, by way of the Client and its feed:  *)
(* a client without a session is passed over.                              *)
set_lags(c, target_samples, min_samples, max_samples) ==
    session' = [session EXCEPT ![c] =
        {[s EXCEPT !.lag = [target |-> target_samples, min |-> min_samples,
                            max |-> max_samples]] : s \in @}]

(* The "control" rule of server_control.cc: the server is handed the       *)
(* minimum where it takes the target, and the target for the minimum.      *)
SetCursorLag(c) ==
    /\ \E m \in LagMessages : set_lags(c, m.min, m.target, m.max)
    /\ UNCHANGED <<clock, next_cursor, board_begin, writer_cursor>>

-----------------------------------------------------------------------------
(* AudioFeed::decode_into: a feed may start, at the cursor; one that has   *)
(* started and is short of the cursor puts out chunks until it gets there, *)
(* or runs dry, to start over another time.                                *)
AfterDecode(s) ==
    LET outputs == IF s.output = {} THEN {{}, {next_cursor}}
                   ELSE IF \E o \in s.output : o < next_cursor
                   THEN {{}} \cup {{o} : o \in next_cursor .. next_cursor + MaxChunk - 1}
                   ELSE {s.output}
    IN  {[s EXCEPT !.output = o] : o \in outputs}

(* Client::mix_and_encode: every whole frame up to the cursor is mixed,    *)
(* encoded and pushed.                                                     *)
FramesToMix(s) ==
    IF ServerMix(s) + FrameSamples <= next_cursor
    THEN (next_cursor - ServerMix(s)) \div FrameSamples
    ELSE 0

AfterMix(s) ==
    [s EXCEPT !.mixed = @ + FramesToMix(s) * FrameSamples,
              !.frames = @ + FramesToMix(s)]

(* AudioBoard::pop_samples_until.  Variant: nothing is kept for the writer. *)
PoppedUntil_Mixed(begin) == Larger(begin, next_cursor)
PoppedUntil(begin) ==
    IF next_cursor > PopLag THEN Larger(begin, next_cursor - PopLag) ELSE begin

(* What a round makes of a client.  A session whose last good ack is too   *)
(* old is dropped after decoding.                                          *)
AfterRound(c) ==
    {{}} \cup {{AfterMix(t)} : t \in UNION {AfterDecode(s) : s \in session[c]}}

(* AudioWriter::mix_and_write: whole frames of the writer's, as many as    *)
(* fit below the cursor.                                                   *)
mix_and_write(mix_cursor) ==
    IF mix_cursor + WriterSamples <= next_cursor
    THEN mix_cursor + WriterSamples * ((next_cursor - mix_cursor) \div WriterSamples)
    ELSE mix_cursor

(* The "mix+encode+send" rule.                                             *)
Mix ==
    /\ clock >= next_cursor
    /\ \E after \in [Clients -> UNION {AfterRound(c) : c \in Clients}] :
         /\ \A c \in Clients : after[c] \in AfterRound(c)
         /\ session' = after
    /\ writer_cursor' = mix_and_write(writer_cursor)
    /\ board_begin' = PoppedUntil(board_begin)
    /\ next_cursor' = next_cursor + FrameSamples
    /\ UNCHANGED clock

Next ==
    \/ Tick
    \/ \E c \in Clients : NewSession(c) \/ SetCursorLag(c)
    \/ Mix

Spec == Init /\ [][Next]_mix_vars

-----------------------------------------------------------------------------
(* Every session is in step with the server's clock, whenever it started   *)
(* and however late the rounds run: the next round finds at most one whole *)
(* frame to mix, and none that lies in the future.                         *)
InStep ==
    \A c \in Clients : \A s \in session[c] :
        /\ next_cursor < ServerMix(s) + 2 * FrameSamples
        /\ ServerMix(s) <= clock

(* A round pushes at most one frame into a session, because it sends one   *)
(* packet: a second push_frame before that would throw "packet pushed but  *)
(* not sent" (sender.hh).                                                  *)
OneFramePerRound ==
    \A c \in Clients : \A s \in session[c], t \in session'[c] :
        t.offset = s.offset => t.frames <= s.frames + 1

PushesAreSent == [][OneFramePerRound]_mix_vars

(* What the next round reads and writes is on the boards: where the mixers *)
(* read, where the writers read and where the feeds write, neither is      *)
(* popped nor beyond the end.                                              *)
BoardHolds ==
    /\ board_begin <= writer_cursor
    /\ next_cursor + MaxChunk - 1 <= board_begin + BoardCapacity
    /\ \A c \in Clients : \A s \in session[c] :
          board_begin <= ServerMix(s) /\ \A o \in s.output : board_begin <= o

(* A set_cursor_lag message sets the lags that its fields name             *)
(* (src/control/control_messages.hh:36, "target_samples {}, min_samples {},*)
(* max_samples {}").                                                       *)
LagAsAsked ==
    \A c \in Clients : \A s \in session[c] : s.lag \in LagMessages \cup {DefaultLag}
=============================================================================
