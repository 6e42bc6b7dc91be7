----------------------------- MODULE PartsProofs ------------------------------
(***************************************************************************)
(* Proofs about three parts of MCParts: the audio server's rounds          *)
(* (MixServer), HTTP (HttpReader, HttpStream) and a viewer's WebSocket     *)
(* (WebSocket).  The run explores them side by side; a theorem is about    *)
(* one of them, under the specification that has its steps alone, which    *)
(* what the run explores implements, as the last theorem says of all       *)
(* parts.                                                                  *)
(***************************************************************************)
EXTENDS MCParts, Numbers, SequenceTheorems, FiniteSetTheorems, TLAPS

------------------------------------------------------------------------------
(* MixServer.  Clock and windows, for any number of clients and any        *)
(* lengths that MixConstants allows.  InStep and BoardHolds are inductive  *)
(* together with three facts about the shared cursors: the round that is   *)
(* due is at most a frame ahead of the clock, the boards begin exactly     *)
(* PopLag behind the last round, and no feed is more than one round        *)
(* behind.                                                                 *)

CursorIsDue == next_cursor >= FrameSamples /\ next_cursor <= clock + FrameSamples

BoardBeginIs ==
    board_begin = IF next_cursor - FrameSamples > PopLag
                  THEN next_cursor - FrameSamples - PopLag ELSE 0

WriterKeepsUp == next_cursor < writer_cursor + WriterSamples + FrameSamples

FeedsKeepUp ==
    \A c \in Clients : \A s \in session[c] : \A o \in s.output :
        next_cursor <= o + FrameSamples

MixInv == TypeOK /\ InStep /\ CursorIsDue /\ BoardBeginIs /\ WriterKeepsUp /\ FeedsKeepUp

(* The division of the language, as the code uses it.                      *)
LEMMA DivBounds ==
    ASSUME NEW a \in Nat, NEW d \in Nat \ {0}
    PROVE  /\ a \div d \in Nat
           /\ (a \div d) * d <= a
           /\ a < (a \div d) * d + d
  BY SMT

(* A session that is in step has one frame to mix, or none; either way it  *)
(* is in step with the next round.                                         *)
LEMMA RoundKeepsStep ==
    ASSUME MixInv, clock >= next_cursor, NEW s \in Sessions,
           next_cursor < ServerMix(s) + 2 * FrameSamples, ServerMix(s) <= clock
    PROVE  /\ FramesToMix(s) \in 0 .. 1
           /\ AfterMix(s) \in Sessions
           /\ next_cursor + FrameSamples < ServerMix(AfterMix(s)) + 2 * FrameSamples
           /\ ServerMix(AfterMix(s)) <= clock
  <1> DEFINE m == ServerMix(s)
             ms == AfterMix(s)
  <1>0. FrameSamples \in Nat /\ FrameSamples > 0 /\ next_cursor \in Nat /\ clock \in Nat
    BY MixConstants DEF MixConstants, MixInv, TypeOK
  <1>1. s.offset \in Nat /\ s.mixed \in Nat /\ s.frames \in Nat
    BY DEF Sessions
  <1>2. s.offset * FrameSamples \in Nat
    BY <1>0, <1>1
  <1>3. m \in Nat /\ m = s.mixed + s.offset * FrameSamples
    BY <1>1, <1>2 DEF ServerMix
  <1>4. FramesToMix(s) = IF m + FrameSamples <= next_cursor THEN 1 ELSE 0
    <2>1. CASE m + FrameSamples <= next_cursor
      <3>1. next_cursor - m \in Nat /\ FrameSamples <= next_cursor - m
              /\ next_cursor - m < 2 * FrameSamples
        BY <1>0, <1>3, <2>1
      <3>2. (next_cursor - m) \div FrameSamples = 1
        BY <3>1, <1>0, DivBounds
      <3>3. QED BY <3>2, <2>1 DEF FramesToMix
    <2>2. CASE ~(m + FrameSamples <= next_cursor)
      BY <2>2 DEF FramesToMix
    <2>3. QED BY <2>1, <2>2
  <1>5. /\ ms.offset = s.offset
        /\ ms.mixed = s.mixed + FramesToMix(s) * FrameSamples
        /\ ms \in Sessions
    <2>1. FramesToMix(s) \in Nat /\ FramesToMix(s) * FrameSamples \in Nat
      BY <1>0, <1>4
    <2>2. s.mixed + FramesToMix(s) * FrameSamples \in Nat /\ s.frames + FramesToMix(s) \in Nat
      BY <1>1, <2>1
    <2>3. QED BY <2>2 DEF AfterMix, Sessions
  <1>6. ServerMix(ms) = m + FramesToMix(s) * FrameSamples
    BY <1>0, <1>1, <1>2, <1>3, <1>4, <1>5 DEF ServerMix
  <1>7. QED
    BY <1>0, <1>3, <1>4, <1>5, <1>6

(* What decoding leaves alone, and where it leaves the feed.               *)
LEMMA DecodeMovesOutput ==
    ASSUME MixInv, NEW s \in Sessions, NEW t \in AfterDecode(s)
    PROVE  /\ t \in Sessions
           /\ t.offset = s.offset /\ t.mixed = s.mixed /\ t.frames = s.frames
           /\ \A o \in t.output : o >= next_cursor
  <1>0. next_cursor \in Nat /\ MaxChunk \in Nat \ {0}
    BY MixConstants DEF MixConstants, MixInv, TypeOK
  <1>1. PICK p \in (IF s.output = {} THEN {{}, {next_cursor}}
                    ELSE IF \E o \in s.output : o < next_cursor
                    THEN {{}} \cup {{o} : o \in next_cursor .. next_cursor + MaxChunk - 1}
                    ELSE {s.output}) : t = [s EXCEPT !.output = p]
    BY DEF AfterDecode
  <1>2. s.output \subseteq Nat
    BY DEF Sessions
  <1>3. p \subseteq Nat /\ \A o \in p : o >= next_cursor
    <2>1. CASE s.output = {}
      BY <1>0, <1>1, <2>1
    <2>2. CASE s.output # {} /\ \E o \in s.output : o < next_cursor
      BY <1>0, <1>1, <2>2
    <2>3. CASE s.output # {} /\ ~\E o \in s.output : o < next_cursor
      BY <1>0, <1>1, <1>2, <2>3
    <2>4. QED BY <2>1, <2>2, <2>3
  <1>4. QED
    BY <1>1, <1>3 DEF Sessions

(* What a round makes of a session.                                        *)
LEMMA RoundPreserves ==
    ASSUME MixInv, Mix, NEW c \in Clients, NEW t \in session'[c]
    PROVE  \E s \in session[c] :
              /\ t \in Sessions
              /\ t.offset = s.offset /\ t.frames <= s.frames + 1
              /\ next_cursor' < ServerMix(t) + 2 * FrameSamples
              /\ ServerMix(t) <= clock
              /\ \A o \in t.output : next_cursor' <= o + FrameSamples
  <1>0. /\ FrameSamples \in Nat /\ next_cursor \in Nat /\ clock >= next_cursor
        /\ next_cursor' = next_cursor + FrameSamples
    BY MixConstants DEF MixConstants, MixInv, TypeOK, Mix
  <1>1. session'[c] \in AfterRound(c)
    BY DEF Mix
  <1>2. PICK s \in session[c] : \E d \in AfterDecode(s) : t = AfterMix(d)
    BY <1>1 DEF AfterRound
  <1>3. PICK d \in AfterDecode(s) : t = AfterMix(d)
    BY <1>2
  <1>4. s \in Sessions
    BY DEF MixInv, TypeOK
  <1>5. /\ d \in Sessions
        /\ d.offset = s.offset /\ d.mixed = s.mixed /\ d.frames = s.frames
        /\ \A o \in d.output : o >= next_cursor
    BY <1>4, DecodeMovesOutput
  <1>6. ServerMix(d) = ServerMix(s)
    BY <1>5 DEF ServerMix
  <1>7. next_cursor < ServerMix(d) + 2 * FrameSamples /\ ServerMix(d) <= clock
    BY <1>6 DEF MixInv, InStep
  <1>8. /\ FramesToMix(d) \in 0 .. 1
        /\ AfterMix(d) \in Sessions
        /\ next_cursor + FrameSamples < ServerMix(AfterMix(d)) + 2 * FrameSamples
        /\ ServerMix(AfterMix(d)) <= clock
    BY <1>0, <1>5, <1>7, RoundKeepsStep
  <1>9. t.offset = d.offset /\ t.output = d.output /\ t.frames = d.frames + FramesToMix(d)
    BY <1>3, <1>5 DEF AfterMix, Sessions
  <1>10. t.offset = s.offset /\ t.frames <= s.frames + 1
    BY <1>4, <1>5, <1>8, <1>9 DEF Sessions
  <1>11. \A o \in t.output : next_cursor' <= o + FrameSamples
    BY <1>0, <1>5, <1>9 DEF Sessions
  <1>12. QED
    BY <1>0, <1>3, <1>8, <1>10, <1>11

LEMMA MixStarts == ASSUME Init PROVE MixInv
  BY MixConstants
     DEF MixConstants, Init, MixInv, TypeOK, InStep, CursorIsDue, BoardBeginIs, WriterKeepsUp,
         FeedsKeepUp

(* A bound that a later time satisfies as well.                            *)
LEMMA LaterBound ==
    ASSUME NEW n \in Nat, NEW k \in Nat, NEW l \in Nat, NEW f \in Nat, n <= k + f, l > k
    PROVE  n <= l + f
  BY SMT

LEMMA TickInv == ASSUME MixInv, Tick PROVE MixInv'
  <1>0. /\ clock \in Nat /\ clock' \in Nat /\ clock' > clock
        /\ UNCHANGED <<next_cursor, board_begin, writer_cursor, session>>
    <2>1. PICK now \in clock + 1 .. MaxClock : clock' = now
      BY DEF Tick
    <2>2. clock \in Nat /\ MaxClock \in Nat
      BY MixConstants DEF MixConstants, MixInv, TypeOK
    <2>3. QED BY <2>1, <2>2 DEF Tick
  <1>1. TypeOK'
    BY <1>0 DEF MixInv, TypeOK
  <1>2. InStep'
    <2> SUFFICES ASSUME NEW c \in Clients, NEW s \in session[c]
                 PROVE  next_cursor < ServerMix(s) + 2 * FrameSamples /\ ServerMix(s) <= clock'
      BY <1>0 DEF InStep, ServerMix
    <2>1. s.mixed \in Nat /\ s.offset \in Nat /\ FrameSamples \in Nat
      BY MixConstants DEF MixConstants, MixInv, TypeOK, Sessions
    <2>2. s.offset * FrameSamples \in Nat
      BY <2>1
    <2>3. ServerMix(s) \in Nat
      BY <2>1, <2>2 DEF ServerMix
    <2>4. QED BY <1>0, <2>3 DEF MixInv, InStep
  <1>3. CursorIsDue'
    <2>1. FrameSamples \in Nat /\ next_cursor \in Nat /\ next_cursor' = next_cursor
      BY <1>0, MixConstants DEF MixConstants, MixInv, TypeOK
    <2>2. next_cursor >= FrameSamples /\ next_cursor <= clock + FrameSamples
      BY DEF MixInv, CursorIsDue
    <2>3. next_cursor' >= FrameSamples
      BY <2>1, <2>2
    <2>4. next_cursor <= clock' + FrameSamples
      BY <1>0, <2>1, <2>2, LaterBound
    <2>5. QED BY <2>1, <2>3, <2>4 DEF CursorIsDue
  <1>4. QED
    BY <1>0, <1>1, <1>2, <1>3 DEF MixInv, BoardBeginIs, WriterKeepsUp, FeedsKeepUp

(* A new session starts in the frame that the clock is in, so that the     *)
(* round that is due, at most a frame ahead of the clock, finds it in step.*)
LEMMA NewSessionInv == ASSUME MixInv, NEW c \in Clients, NewSession(c) PROVE MixInv'
  <1> DEFINE new == [offset |-> StartingFrame(clock), mixed |-> 0, frames |-> 0,
                     output |-> {}, lag |-> DefaultLag]
  <1>0. /\ session' = [session EXCEPT ![c] = {new}]
        /\ UNCHANGED <<clock, next_cursor, board_begin, writer_cursor>>
    BY DEF NewSession, NewClient
  <1>1. /\ FrameSamples \in Nat \ {0} /\ clock \in Nat /\ next_cursor \in Nat
        /\ session \in [Clients -> SUBSET Sessions]
    BY MixConstants DEF MixConstants, MixInv, TypeOK
  <1>2. /\ StartingFrame(clock) \in Nat
        /\ StartingFrame(clock) * FrameSamples <= clock
        /\ clock < StartingFrame(clock) * FrameSamples + FrameSamples
    BY <1>1, DivBounds DEF StartingFrame
  <1>3. new \in Sessions
    BY <1>2, LagConstants DEF Sessions, LagConstants
  <1>4. ServerMix(new) = StartingFrame(clock) * FrameSamples
    <2>1. StartingFrame(clock) * FrameSamples \in Nat
      BY <1>1, <1>2
    <2>2. QED BY <2>1 DEF ServerMix
  <1>5. next_cursor < ServerMix(new) + 2 * FrameSamples /\ ServerMix(new) <= clock
    <2>1. next_cursor <= clock + FrameSamples
      BY DEF MixInv, CursorIsDue
    <2>2. QED BY <1>1, <1>2, <1>4, <2>1
  <1>6. \A d \in Clients : session'[d] = IF d = c THEN {new} ELSE session[d]
    BY <1>0, <1>1
  <1>7. TypeOK'
    BY <1>0, <1>1, <1>3, <1>6 DEF MixInv, TypeOK
  <1>8. InStep'
    BY <1>0, <1>5, <1>6 DEF MixInv, InStep, ServerMix
  <1>9. FeedsKeepUp'
    BY <1>0, <1>6 DEF MixInv, FeedsKeepUp
  <1>10. QED
    BY <1>0, <1>7, <1>8, <1>9 DEF MixInv, CursorIsDue, BoardBeginIs, WriterKeepsUp

LEMMA SetCursorLagInv == ASSUME MixInv, NEW c \in Clients, SetCursorLag(c) PROVE MixInv'
  <1>0. UNCHANGED <<clock, next_cursor, board_begin, writer_cursor>>
    BY DEF SetCursorLag, set_lags
  <1>1. PICK m \in LagMessages :
          session' = [session EXCEPT ![c] =
            {[s EXCEPT !.lag = [target |-> m.min, min |-> m.target, max |-> m.max]] : s \in @}]
    BY DEF SetCursorLag, set_lags
  <1>2. session \in [Clients -> SUBSET Sessions]
    BY DEF MixInv, TypeOK
  <1>3. m \in [target : Nat, min : Nat, max : Nat]
    BY LagConstants DEF LagConstants
  <1>4. \A d \in Clients : \A t \in session'[d] : \E s \in session[d] :
          /\ t \in Sessions
          /\ t.offset = s.offset /\ t.mixed = s.mixed /\ t.output = s.output
    <2> SUFFICES ASSUME NEW d \in Clients, NEW t \in session'[d]
                 PROVE  \E s \in session[d] :
                          /\ t \in Sessions
                          /\ t.offset = s.offset /\ t.mixed = s.mixed /\ t.output = s.output
      OBVIOUS
    <2>1. CASE d # c
      BY <1>1, <1>2, <2>1
    <2>2. CASE d = c
      <3>1. PICK s \in session[c] :
              t = [s EXCEPT !.lag = [target |-> m.min, min |-> m.target, max |-> m.max]]
        BY <1>1, <1>2, <2>2
      <3>2. s \in Sessions
        BY <1>2
      <3>3. QED BY <1>3, <2>2, <3>1, <3>2 DEF Sessions
    <2>3. QED BY <2>1, <2>2
  <1>5. \A d \in Clients : \A t, u \in session'[d] : t = u
    <2>1. \A d \in Clients : \A s, t \in session[d] : s = t
      BY DEF MixInv, TypeOK
    <2>2. QED BY <1>1, <1>2, <2>1
  <1>6. TypeOK'
    <2>1. session' \in [Clients -> SUBSET Sessions]
      BY <1>1, <1>2, <1>4
    <2>2. QED BY <1>0, <1>5, <2>1 DEF MixInv, TypeOK
  <1>7. InStep'
    BY <1>0, <1>4 DEF MixInv, InStep, ServerMix
  <1>8. FeedsKeepUp'
    BY <1>0, <1>4 DEF MixInv, FeedsKeepUp
  <1>9. QED
    BY <1>0, <1>6, <1>7, <1>8 DEF MixInv, CursorIsDue, BoardBeginIs, WriterKeepsUp

(* A round moves the shared cursors by a frame, and the windows with them. *)
LEMMA RoundInv == ASSUME MixInv, Mix PROVE MixInv'
  <1>0. /\ FrameSamples \in Nat \ {0} /\ WriterSamples \in Nat \ {0}
        /\ PopLag \in Nat /\ PopLag >= FrameSamples
        /\ next_cursor \in Nat /\ clock \in Nat /\ board_begin \in Nat
        /\ writer_cursor \in Nat
    BY MixConstants DEF MixConstants, MixInv, TypeOK
  <1>1. /\ clock >= next_cursor /\ clock' = clock
        /\ next_cursor' = next_cursor + FrameSamples
        /\ board_begin' = PoppedUntil(board_begin)
    BY DEF Mix
  <1>2. \A c \in Clients : \A t \in session'[c] :
          /\ t \in Sessions
          /\ next_cursor' < ServerMix(t) + 2 * FrameSamples
          /\ ServerMix(t) <= clock
          /\ \A o \in t.output : next_cursor' <= o + FrameSamples
    BY RoundPreserves
  <1>3. writer_cursor' \in Nat /\ next_cursor' < writer_cursor' + WriterSamples + FrameSamples
    <2>1. CASE writer_cursor + WriterSamples <= next_cursor
      <3> DEFINE gap == next_cursor - writer_cursor
                 q == gap \div WriterSamples
      <3>1. gap \in Nat
        BY <1>0, <2>1
      <3>2. q \in Nat /\ gap < q * WriterSamples + WriterSamples
        BY <1>0, <3>1, DivBounds
      <3>3. q * WriterSamples \in Nat /\ WriterSamples * q = q * WriterSamples
        BY <1>0, <3>2
      <3>4. writer_cursor' = writer_cursor + WriterSamples * q
        BY <2>1 DEF Mix, mix_and_write
      <3> HIDE DEF q
      <3>5. QED BY <1>0, <1>1, <3>1, <3>2, <3>3, <3>4
    <2>2. CASE ~(writer_cursor + WriterSamples <= next_cursor)
      <3>1. writer_cursor' = writer_cursor
        BY <2>2 DEF Mix, mix_and_write
      <3>2. QED BY <1>0, <1>1, <2>2, <3>1
    <2>3. QED BY <2>1, <2>2
  <1>4. board_begin' \in Nat /\ BoardBeginIs'
    BY <1>0, <1>1 DEF MixInv, BoardBeginIs, PoppedUntil, Larger
  <1>5. TypeOK'
    <2>1. PICK after \in [Clients -> UNION {AfterRound(c) : c \in Clients}] :
            (\A c \in Clients : after[c] \in AfterRound(c)) /\ session' = after
      BY DEF Mix
    <2>2. session' \in [Clients -> SUBSET Sessions]
      BY <1>2, <2>1
    <2>3. \A c \in Clients : \A s, t \in session'[c] : s = t
      BY <2>1 DEF AfterRound
    <2>4. QED BY <1>0, <1>1, <1>3, <1>4, <2>2, <2>3 DEF TypeOK
  <1>6. InStep'
    BY <1>1, <1>2 DEF InStep, ServerMix
  <1>7. CursorIsDue'
    BY <1>0, <1>1 DEF CursorIsDue
  <1>8. WriterKeepsUp' /\ FeedsKeepUp'
    BY <1>2, <1>3 DEF WriterKeepsUp, FeedsKeepUp
  <1>9. QED
    BY <1>4, <1>5, <1>6, <1>7, <1>8 DEF MixInv

LEMMA MixStutters == ASSUME MixInv, UNCHANGED mix_vars PROVE MixInv'
  BY DEF mix_vars, MixInv, TypeOK, InStep, ServerMix, CursorIsDue, BoardBeginIs, WriterKeepsUp,
         FeedsKeepUp

(* The inductive invariant holds throughout.                               *)
LEMMA MixInvariance == Spec => []MixInv
  <1>1. MixInv /\ [Next]_mix_vars => MixInv'
    BY TickInv, NewSessionInv, SetCursorLagInv, RoundInv, MixStutters DEF Next
  <1>2. QED
    BY MixStarts, <1>1, PTL DEF Spec

-----------------------------------------------------------------------------
(* The type invariant of the server's clock, for any number of clients.    *)
THEOREM MixTypeCorrect == Spec => []TypeOK
  <1>1. MixInv => TypeOK
    BY DEF MixInv
  <1>2. QED BY MixInvariance, <1>1, PTL

(* Every session stays within a frame of the server's clock.               *)
THEOREM MixInStep == Spec => []InStep
  <1>1. MixInv => InStep
    BY DEF MixInv
  <1>2. QED BY MixInvariance, <1>1, PTL

(* No round reads or writes samples that the boards do not hold.           *)
THEOREM MixBoardHolds == Spec => []BoardHolds
  <1>1. ASSUME MixInv PROVE BoardHolds
    <2>0. /\ FrameSamples \in Nat \ {0} /\ WriterSamples \in Nat \ {0}
          /\ PopLag \in Nat /\ PopLag >= FrameSamples /\ PopLag >= WriterSamples
          /\ MaxChunk \in Nat /\ BoardCapacity \in Nat
          /\ BoardCapacity >= PopLag + 2 * FrameSamples + MaxChunk
          /\ next_cursor \in Nat /\ writer_cursor \in Nat
      BY <1>1, MixConstants DEF MixConstants, MixInv, TypeOK
    <2>1. /\ board_begin = IF next_cursor - FrameSamples > PopLag
                            THEN next_cursor - FrameSamples - PopLag ELSE 0
          /\ next_cursor < writer_cursor + WriterSamples + FrameSamples
      BY <1>1 DEF MixInv, BoardBeginIs, WriterKeepsUp
    <2>2. board_begin <= writer_cursor
      BY <2>0, <2>1
    <2>3. next_cursor + MaxChunk - 1 <= board_begin + BoardCapacity
      BY <2>0, <2>1
    <2>4. ASSUME NEW c \in Clients, NEW s \in session[c]
          PROVE  board_begin <= ServerMix(s) /\ \A o \in s.output : board_begin <= o
      <3>1. /\ s.mixed \in Nat /\ s.offset \in Nat /\ s.output \subseteq Nat
        BY <1>1 DEF MixInv, TypeOK, Sessions
      <3>2. s.offset * FrameSamples \in Nat
        BY <2>0, <3>1
      <3>3. ServerMix(s) \in Nat
        BY <3>1, <3>2 DEF ServerMix
      <3>4. next_cursor < ServerMix(s) + 2 * FrameSamples
        BY <1>1 DEF MixInv, InStep
      <3>5. \A o \in s.output : next_cursor <= o + FrameSamples
        BY <1>1 DEF MixInv, FeedsKeepUp
      <3>6. QED BY <2>0, <2>1, <3>1, <3>3, <3>4, <3>5
    <2>5. QED BY <2>2, <2>3, <2>4 DEF BoardHolds
  <1>2. QED BY MixInvariance, <1>1, PTL

(* No round pushes two frames into a session before it sends a packet.     *)
THEOREM MixPushesAreSent == Spec => PushesAreSent
  <1>1. MixInv /\ [Next]_mix_vars => [OneFramePerRound]_mix_vars
    <2> SUFFICES ASSUME MixInv, [Next]_mix_vars,
                        NEW c \in Clients, NEW s \in session[c], NEW t \in session'[c]
                 PROVE  t.frames <= s.frames + 1
      BY DEF OneFramePerRound
    <2>0. /\ session \in [Clients -> SUBSET Sessions]
          /\ s.frames \in Nat
          /\ \A d \in Clients : \A u, v \in session[d] : u = v
      BY DEF MixInv, TypeOK, Sessions
    <2>1. CASE Tick \/ UNCHANGED mix_vars
      BY <2>0, <2>1 DEF Tick, mix_vars
    <2>2. ASSUME NEW d \in Clients, NewSession(d) PROVE t.frames <= s.frames + 1
      <3>1. CASE d = c
        BY <2>0, <2>2, <3>1 DEF NewSession, NewClient
      <3>2. CASE d # c
        BY <2>0, <2>2, <3>2 DEF NewSession, NewClient
      <3>3. QED BY <3>1, <3>2
    <2>3. ASSUME NEW d \in Clients, SetCursorLag(d) PROVE t.frames <= s.frames + 1
      <3>1. PICK u \in session[c] : t.frames = u.frames
        BY <2>0, <2>3 DEF SetCursorLag, set_lags, Sessions
      <3>2. QED BY <2>0, <3>1
    <2>4. CASE Mix
      BY <2>0, <2>4, RoundPreserves
    <2>5. QED BY <2>1, <2>2, <2>3, <2>4 DEF Next
  <1>2. QED BY MixInvariance, <1>1, PTL DEF Spec, PushesAreSent

------------------------------------------------------------------------------
(* HttpReader and HttpStream.  Most of the facts below are about any       *)
(* string, any place in it and any well-formed message: what a reader      *)
(* makes of the next piece of a stream depends only on where in the        *)
(* message it stands, however the pieces are cut.                          *)

(* The strings that tokens are, with those named that the prover would not *)
(* otherwise take for strings.                                             *)
Tokens == STRING \cup
          {"CR", "LF", "SP", "TAB", ":", "0", "1", "2", "Content-Length", "Host",
           "Connection", "Upgrade", "Origin", "Sec-WebSocket-Key", "Sec-WebSocket-Accept",
           "GET", "HEAD", "POST", "/", "HTTP/1.0", "HTTP/1.1", "200", "All", "right",
           "a", "b", "c", "websocket", "key"}
Strings == Seq(Tokens)

LEMMA StringAlgebra ==
    /\ <<>> \in Strings /\ \A a, b \in Strings : a \o b \in Strings
    /\ \A a, b, c \in Strings : (a \o b) \o c = a \o (b \o c)
    /\ \A a \in Strings : a \o <<>> = a /\ <<>> \o a = a
    /\ \A t \in Tokens : <<t>> \in Strings /\ Len(<<t>>) = 1 /\ <<t>>[1] = t
<1>1. <<>> \in Strings /\ \A a, b \in Strings : a \o b \in Strings
  BY DEF Strings
<1>2. ASSUME NEW a \in Strings, NEW b \in Strings, NEW c \in Strings
      PROVE  (a \o b) \o c = a \o (b \o c)
  BY ConcatAssociative DEF Strings
<1>3. ASSUME NEW a \in Strings PROVE a \o <<>> = a /\ <<>> \o a = a
  BY ConcatEmptySeq DEF Strings
<1>4. ASSUME NEW t \in Tokens PROVE <<t>> \in Strings /\ Len(<<t>>) = 1 /\ <<t>>[1] = t
  BY DEF Strings
<1> QED
  BY <1>1, <1>2, <1>3, <1>4

(* How strings may be put in brackets.                                     *)
Cat(x, y) == x \o y
LEMMA Brackets ==
    ASSUME NEW U
    PROVE  \A x, y, z \in Seq(U) :
               Cat(x, y) \in Seq(U) /\ Cat(Cat(x, y), z) = Cat(x, Cat(y, z))
<1> SUFFICES ASSUME NEW x \in Seq(U), NEW y \in Seq(U), NEW z \in Seq(U)
             PROVE  Cat(x, y) \in Seq(U) /\ Cat(Cat(x, y), z) = Cat(x, Cat(y, z))
  OBVIOUS
<1>1. x \o y \in Seq(U)
  OBVIOUS
<1>2. (x \o y) \o z = x \o (y \o z)
  BY ConcatAssociative
<1> QED
  BY <1>1, <1>2 DEF Cat

LEMMA StringBrackets ==
    \A x, y, z \in Strings : Cat(x, y) \in Strings /\ Cat(Cat(x, y), z) = Cat(x, Cat(y, z))
BY Brackets DEF Strings

LEMMA TokenStrings ==
    /\ <<"SP">> \in Strings /\ <<":">> \in Strings /\ <<"CR">> \in Strings
    /\ CRLF \in Strings
  BY DEF Tokens, Strings, CRLF

LEMMA Cuts ==
    ASSUME NEW S, NEW s \in Seq(S), NEW n \in 0 .. Len(s)
    PROVE  /\ Upto(s, n) \in Seq(S) /\ From(s, n + 1) \in Seq(S)
           /\ Len(Upto(s, n)) = n /\ Len(From(s, n + 1)) = Len(s) - n
           /\ \A i \in 1 .. n : Upto(s, n)[i] = s[i]
           /\ \A i \in 1 .. Len(s) - n : From(s, n + 1)[i] = s[n + i]
           /\ Upto(s, n) \o From(s, n + 1) = s
<1>1. Len(s) \in Nat /\ 1 \in 1 .. Len(s) + 1 /\ n \in 1 - 1 .. Len(s) /\ Len(s) \in n .. Len(s)
  OBVIOUS
<1>2. SubSeq(s, 1, n) \o SubSeq(s, n + 1, Len(s)) = SubSeq(s, 1, Len(s))
  BY <1>1, ConcatAdjacentSubSeq
<1>3. SubSeq(s, 1, Len(s)) = s
  BY SubSeqFull
<1>4. \A i \in 1 .. n : s[i] \in S
  BY <1>1
<1>5. \A i \in n + 1 .. Len(s) : s[i] \in S
  BY <1>1
<1>6. /\ SubSeq(s, 1, n) \in Seq(S) /\ Len(SubSeq(s, 1, n)) = n
      /\ \A i \in 1 .. n : SubSeq(s, 1, n)[i] = s[i]
  <2>1. 1 \in Int /\ n \in Int
    BY <1>1
  <2>2. /\ SubSeq(s, 1, n) \in Seq(S) /\ Len(SubSeq(s, 1, n)) = IF 1 <= n THEN n - 1 + 1 ELSE 0
        /\ \A i \in 1 .. n - 1 + 1 : SubSeq(s, 1, n)[i] = s[1 + i - 1]
    BY <1>4, <2>1, SubSeqProperties
  <2> QED
    BY <2>2, <1>1
<1>7. /\ SubSeq(s, n + 1, Len(s)) \in Seq(S) /\ Len(SubSeq(s, n + 1, Len(s))) = Len(s) - n
      /\ \A i \in 1 .. Len(s) - n : SubSeq(s, n + 1, Len(s))[i] = s[n + i]
  <2>1. n + 1 \in Int /\ Len(s) \in Int
    BY <1>1
  <2>2. /\ SubSeq(s, n + 1, Len(s)) \in Seq(S)
        /\ Len(SubSeq(s, n + 1, Len(s))) = IF n + 1 <= Len(s) THEN Len(s) - (n + 1) + 1 ELSE 0
        /\ \A i \in 1 .. Len(s) - (n + 1) + 1 : SubSeq(s, n + 1, Len(s))[i] = s[n + 1 + i - 1]
    BY <1>5, <2>1, SubSeqProperties
  <2> QED
    BY <2>2, <1>1
<1> QED
  BY <1>2, <1>3, <1>6, <1>7 DEF Upto, From

LEMMA Ends ==
    ASSUME NEW S, NEW s \in Seq(S), NEW k \in 1 .. Len(s) + 1
    PROVE  /\ From(s, k) \in Seq(S) /\ Len(From(s, k)) = Len(s) + 1 - k
           /\ \A i \in 1 .. Len(s) + 1 - k : From(s, k)[i] = s[k - 1 + i]
<1>1. k - 1 \in 0 .. Len(s) /\ (k - 1) + 1 = k /\ Len(s) - (k - 1) = Len(s) + 1 - k
  OBVIOUS
<1>2. /\ From(s, (k - 1) + 1) \in Seq(S) /\ Len(From(s, (k - 1) + 1)) = Len(s) - (k - 1)
      /\ \A i \in 1 .. Len(s) - (k - 1) : From(s, (k - 1) + 1)[i] = s[k - 1 + i]
  BY <1>1, Cuts
<1> QED
  BY <1>1, <1>2

LEMMA Found ==
    ASSUME NEW s \in Strings, NEW x
    PROVE  /\ Find(s, x) \in 0 .. Len(s)
           /\ Find(s, x) = 0 => \A i \in 1 .. Len(s) : s[i] # x
           /\ Find(s, x) # 0 => s[Find(s, x)] = x /\ \A i \in 1 .. Find(s, x) - 1 : s[i] # x
<1> DEFINE M == {i \in 1 .. Len(s) : s[i] = x}
<1>1. Find(s, x) = IF M # {} THEN Min(M) ELSE 0
  BY DEF Find, SelectInSeq
<1>2. M \subseteq Nat /\ Len(s) \in Nat
  BY DEF Strings
<1>3. CASE M = {}
  BY <1>1, <1>2, <1>3
<1>4. CASE M # {}
  <2> DEFINE k == Min(M)
  <2>1. k \in M /\ \A y \in M : k <= y
    BY <1>2, <1>4, LeastNumber
  <2> HIDE DEF k
  <2>2. k \in 1 .. Len(s) /\ \A i \in 1 .. k - 1 : i \notin M /\ i \in 1 .. Len(s)
    BY <1>2, <2>1
  <2>3. Find(s, x) = k
    BY <1>1, <1>4 DEF k
  <2> QED
    BY <1>2, <2>1, <2>2, <2>3
<1> QED
  BY <1>3, <1>4

LEMMA FoundNot ==
    ASSUME NEW s \in Strings, NEW B
    PROVE  /\ FindFirstNot(s, B) \in 0 .. Len(s)
           /\ FindFirstNot(s, B) = 0 => \A i \in 1 .. Len(s) : s[i] \in B
           /\ FindFirstNot(s, B) # 0 => /\ s[FindFirstNot(s, B)] \notin B
                                        /\ \A i \in 1 .. FindFirstNot(s, B) - 1 : s[i] \in B
<1> DEFINE M == {i \in 1 .. Len(s) : s[i] \notin B}
<1>1. FindFirstNot(s, B) = IF M # {} THEN Min(M) ELSE 0
  BY DEF FindFirstNot, SelectInSeq
<1>2. M \subseteq Nat /\ Len(s) \in Nat
  BY DEF Strings
<1>3. CASE M = {}
  BY <1>1, <1>2, <1>3
<1>4. CASE M # {}
  <2> DEFINE k == Min(M)
  <2>1. k \in M /\ \A y \in M : k <= y
    BY <1>2, <1>4, LeastNumber
  <2> HIDE DEF k
  <2>2. k \in 1 .. Len(s) /\ \A i \in 1 .. k - 1 : i \notin M /\ i \in 1 .. Len(s)
    BY <1>2, <2>1
  <2>3. FindFirstNot(s, B) = k
    BY <1>1, <1>4 DEF k
  <2> QED
    BY <1>2, <2>1, <2>2, <2>3
<1> QED
  BY <1>3, <1>4

(* When the last token is no blank, it is the last that is none.           *)
LEMMA FoundLast ==
    ASSUME NEW s \in Strings, NEW B, s # <<>>, s[Len(s)] \notin B
    PROVE  FindLastNot(s, B) = Len(s)
<1> DEFINE M == {i \in 1 .. Len(s) : s[i] \notin B}
<1>1. FindLastNot(s, B) = IF M # {} THEN Max(M) ELSE 0
  BY DEF FindLastNot, SelectLastInSeq
<1>2. Len(s) \in Nat \ {0}
  BY EmptySeq DEF Strings
<1>3. Len(s) \in M /\ \A i \in M : i <= Len(s)
  BY <1>2
<1>4. Max(M) = Len(s)
  BY <1>2, <1>3 DEF Max
<1> QED
  BY <1>1, <1>3, <1>4

(* A separator in two texts that are the same is at the same place.        *)

LEMMA FoundAt ==
    ASSUME NEW s \in Strings, NEW x, NEW k \in 1 .. Len(s), s[k] = x,
           \A i \in 1 .. k - 1 : s[i] # x
    PROVE  Find(s, x) = k
<1>1. Len(s) \in Nat
  BY DEF Strings
<1>2. Find(s, x) \in 0 .. Len(s) /\ Find(s, x) # 0
  BY Found
<1>3. s[Find(s, x)] = x /\ \A i \in 1 .. Find(s, x) - 1 : s[i] # x
  BY <1>2, Found
<1> QED
  BY <1>1, <1>2, <1>3

LEMMA FoundNotAt ==
    ASSUME NEW s \in Strings, NEW B, NEW k \in 1 .. Len(s), s[k] \notin B,
           \A i \in 1 .. k - 1 : s[i] \in B
    PROVE  FindFirstNot(s, B) = k
<1>1. Len(s) \in Nat
  BY DEF Strings
<1>2. FindFirstNot(s, B) \in 0 .. Len(s) /\ FindFirstNot(s, B) # 0
  BY FoundNot
<1>3. s[FindFirstNot(s, B)] \notin B /\ \A i \in 1 .. FindFirstNot(s, B) - 1 : s[i] \in B
  BY <1>2, FoundNot
<1> QED
  BY <1>1, <1>2, <1>3

LEMMA FoundNowhere ==
    ASSUME NEW s \in Strings
    PROVE  /\ \A x : (\A i \in 1 .. Len(s) : s[i] # x) => Find(s, x) = 0
           /\ \A B : (\A i \in 1 .. Len(s) : s[i] \in B) => FindFirstNot(s, B) = 0
<1>1. Len(s) \in Nat
  BY DEF Strings
<1>2. ASSUME NEW x, \A i \in 1 .. Len(s) : s[i] # x PROVE Find(s, x) = 0
  BY <1>1, <1>2, Found
<1>3. ASSUME NEW B, \A i \in 1 .. Len(s) : s[i] \in B PROVE FindFirstNot(s, B) = 0
  BY <1>1, <1>3, FoundNot
<1> QED
  BY <1>2, <1>3

(* Two strings one after the other.                                        *)
LEMMA PlacesOfTwo ==
    ASSUME NEW S, NEW a \in Seq(S), NEW b \in Seq(S)
    PROVE  /\ a \o b \in Seq(S) /\ Len(a) \in Nat /\ Len(b) \in Nat
           /\ Len(a \o b) = Len(a) + Len(b)
           /\ \A i \in 1 .. Len(a) : (a \o b)[i] = a[i]
           /\ \A i \in 1 .. Len(b) : (a \o b)[Len(a) + i] = b[i]
<1>1. Len(a) \in Nat /\ Len(b) \in Nat
  OBVIOUS
<1>2. /\ a \o b \in Seq(S) /\ Len(a \o b) = Len(a) + Len(b)
      /\ \A i \in 1 .. Len(a) + Len(b) : (a \o b)[i] = IF i <= Len(a) THEN a[i] ELSE b[i - Len(a)]
  BY ConcatProperties
<1>3. \A i \in 1 .. Len(a) : (a \o b)[i] = a[i]
  BY <1>1, <1>2
<1>4. ASSUME NEW i \in 1 .. Len(b) PROVE (a \o b)[Len(a) + i] = b[i]
  <2>1. Len(a) + i \in 1 .. Len(a) + Len(b) /\ ~(Len(a) + i <= Len(a)) /\ Len(a) + i - Len(a) = i
    BY <1>1
  <2> QED
    BY <2>1, <1>2
<1> QED
  BY <1>1, <1>2, <1>3, <1>4

(* What is read in two pieces is read at once.                             *)
LEMMA StartedOn ==
    ASSUME NEW v \in Strings, NEW w \in Strings
    PROVE  /\ Started(<<>>, v) \in Strings
           /\ Started(Started(<<>>, v), w) = Started(<<>>, v \o w)
<1> DEFINE f == FindFirstNot(v, Blank)
           g == FindFirstNot(w, Blank)
           h == FindFirstNot(v \o w, Blank)
<1>0. /\ v \o w \in Strings /\ Len(v) \in Nat /\ Len(w) \in Nat /\ Len(v \o w) = Len(v) + Len(w)
      /\ \A i \in 1 .. Len(v) : (v \o w)[i] = v[i]
      /\ \A i \in 1 .. Len(w) : (v \o w)[Len(v) + i] = w[i]
  BY PlacesOfTwo DEF Strings
<1>1. Started(<<>>, v) = IF f = 0 THEN <<>> ELSE From(v, f)
  BY DEF Started
<1>2. Started(<<>>, v \o w) = IF h = 0 THEN <<>> ELSE From(v \o w, h)
  BY DEF Started
<1>3. Started(<<>>, w) = IF g = 0 THEN <<>> ELSE From(w, g)
  BY DEF Started
<1>4. f \in 0 .. Len(v) /\ g \in 0 .. Len(w)
  BY FoundNot
<1> HIDE DEF f, g, h
<1>5. CASE f # 0
  <2>1. v[f] \notin Blank /\ \A i \in 1 .. f - 1 : v[i] \in Blank
    BY <1>5, FoundNot DEF f
  <2>2. f \in 1 .. Len(v \o w) /\ (v \o w)[f] \notin Blank
        /\ \A i \in 1 .. f - 1 : (v \o w)[i] \in Blank
    BY <1>0, <1>4, <1>5, <2>1
  <2>3. h = f
    BY <2>2, <1>0, FoundNotAt DEF h
  <2>4. f \in 1 .. Len(v) + 1 /\ f \in 1 .. Len(v \o w) + 1
    BY <1>0, <1>4, <1>5
  <2>5. /\ From(v, f) \in Seq(Tokens) /\ Len(From(v, f)) = Len(v) + 1 - f
        /\ \A i \in 1 .. Len(v) + 1 - f : From(v, f)[i] = v[f - 1 + i]
    BY <2>4, Ends DEF Strings
  <2>6. /\ From(v \o w, f) \in Seq(Tokens) /\ Len(From(v \o w, f)) = Len(v \o w) + 1 - f
        /\ \A i \in 1 .. Len(v \o w) + 1 - f : From(v \o w, f)[i] = (v \o w)[f - 1 + i]
    BY <2>4, <1>0, Ends DEF Strings
  <2>7. From(v, f) # <<>>
    BY <2>5, <1>0, <1>4
  <2>8. From(v, f) \o w = From(v \o w, f)
    <3> DEFINE a == From(v, f)
               b == From(v \o w, f)
    <3>0. a \in Seq(Tokens) /\ w \in Seq(Tokens)
      BY <2>5 DEF Strings
    <3>1. /\ a \o w \in Seq(Tokens) /\ Len(a \o w) = Len(a) + Len(w) /\ Len(a) \in Nat
          /\ \A i \in 1 .. Len(a) : (a \o w)[i] = a[i]
          /\ \A i \in 1 .. Len(w) : (a \o w)[Len(a) + i] = w[i]
      BY <3>0, PlacesOfTwo
    <3>2. Len(a \o w) = Len(b)
      BY <3>1, <2>5, <2>6, <1>0, <2>4
    <3>3. ASSUME NEW i \in 1 .. Len(a \o w) PROVE (a \o w)[i] = b[i]
      <4>0. b[i] = (v \o w)[f - 1 + i]
        BY <3>1, <3>2, <2>6
      <4>1. CASE i <= Len(a)
        <5>1. (a \o w)[i] = a[i] /\ a[i] = v[f - 1 + i] /\ f - 1 + i \in 1 .. Len(v)
          BY <4>1, <3>1, <2>5, <2>4, <1>0
        <5> QED
          BY <5>1, <4>0, <1>0
      <4>2. CASE i > Len(a)
        <5> DEFINE j == i - Len(a)
        <5>1. j \in 1 .. Len(w) /\ i = Len(a) + j /\ f - 1 + i = Len(v) + j
          BY <4>2, <3>1, <2>5, <2>4, <1>0
        <5> HIDE DEF j
        <5>2. (a \o w)[i] = w[j]
          BY <5>1, <3>1
        <5>3. (v \o w)[f - 1 + i] = w[j]
          BY <5>1, <1>0
        <5> QED
          BY <5>2, <5>3, <4>0
      <4> QED
        BY <4>1, <4>2, <3>1, <1>0
    <3>4. a \o w \in Seq(Tokens) /\ b \in Seq(Tokens)
      BY <3>1, <2>6
    <3> HIDE DEF a, b
    <3>5. a \o w = b
      BY <3>2, <3>3, <3>4, SeqEqual
    <3> QED
      BY <3>5 DEF a, b
  <2>9. Started(From(v, f), w) = From(v, f) \o w
    BY <2>7 DEF Started
  <2> QED
    BY <1>1, <1>2, <1>5, <2>3, <2>5, <2>8, <2>9 DEF Strings
<1>6. CASE f = 0
  <2>1. \A i \in 1 .. Len(v) : v[i] \in Blank
    BY <1>6, FoundNot DEF f
  <2>2. CASE g = 0
    <3>1. \A i \in 1 .. Len(w) : w[i] \in Blank
      BY <2>2, FoundNot DEF g
    <3>2. ASSUME NEW i \in 1 .. Len(v \o w) PROVE (v \o w)[i] \in Blank
      <4>1. CASE i <= Len(v)
        BY <4>1, <1>0, <2>1
      <4>2. CASE i > Len(v)
        <5>1. i - Len(v) \in 1 .. Len(w) /\ Len(v) + (i - Len(v)) = i
          BY <4>2, <1>0
        <5> QED
          BY <5>1, <1>0, <3>1
      <4> QED
        BY <4>1, <4>2, <1>0
    <3>3. h = 0
      BY <3>2, <1>0, FoundNowhere DEF h
    <3>4. <<>> \in Strings
      BY DEF Strings
    <3> QED
      BY <1>1, <1>2, <1>3, <1>6, <2>2, <3>3, <3>4
  <2>3. CASE g # 0
    <3>1. w[g] \notin Blank /\ \A i \in 1 .. g - 1 : w[i] \in Blank
      BY <2>3, FoundNot DEF g
    <3> DEFINE k == Len(v) + g
    <3>2. k \in 1 .. Len(v \o w) /\ (v \o w)[k] \notin Blank
      BY <1>0, <1>4, <2>3, <3>1
    <3>3. ASSUME NEW i \in 1 .. k - 1 PROVE (v \o w)[i] \in Blank
      <4>1. CASE i <= Len(v)
        BY <4>1, <1>0, <2>1
      <4>2. CASE i > Len(v)
        <5>1. i - Len(v) \in 1 .. g - 1 /\ i - Len(v) \in 1 .. Len(w) /\ Len(v) + (i - Len(v)) = i
          BY <4>2, <1>0, <1>4
        <5> QED
          BY <5>1, <1>0, <3>1
      <4> QED
        BY <4>1, <4>2, <1>0, <1>4
    <3>4. h = k
      BY <3>2, <3>3, <1>0, FoundNotAt DEF h
    <3>5. g \in 1 .. Len(w) + 1 /\ k \in 1 .. Len(v \o w) + 1 /\ k = Len(v) + g
      BY <1>0, <1>4, <2>3
    <3> HIDE DEF k
    <3>6. /\ From(w, g) \in Seq(Tokens) /\ Len(From(w, g)) = Len(w) + 1 - g
          /\ \A i \in 1 .. Len(w) + 1 - g : From(w, g)[i] = w[g - 1 + i]
      BY <3>5, Ends DEF Strings
    <3>7. /\ From(v \o w, k) \in Seq(Tokens) /\ Len(From(v \o w, k)) = Len(v \o w) + 1 - k
          /\ \A i \in 1 .. Len(v \o w) + 1 - k : From(v \o w, k)[i] = (v \o w)[k - 1 + i]
      <4>1. v \o w \in Seq(Tokens)
        BY <1>0 DEF Strings
      <4> QED
        BY <3>5, <4>1, Ends
    <3>8. ASSUME NEW i \in 1 .. Len(From(w, g)) PROVE From(w, g)[i] = From(v \o w, k)[i]
      <4>1. g - 1 + i \in 1 .. Len(w) /\ Len(v) + (g - 1 + i) = k - 1 + i
            /\ i \in 1 .. Len(v \o w) + 1 - k
        <5>1. /\ Len(v) \in Nat /\ Len(w) \in Nat /\ Len(v \o w) = Len(v) + Len(w)
              /\ i \in 1 .. Len(w) + 1 - g
          BY <1>0, <3>6
        <5>2. g \in 1 .. Len(w) + 1 /\ k = Len(v) + g
          BY <3>5
        <5> QED
          BY ONLY <5>1, <5>2
      <4> QED
        BY <4>1, <3>6, <3>7, <1>0
    <3>9. Len(From(w, g)) = Len(From(v \o w, k))
      <4>1. Len(w) + 1 - g = Len(v \o w) + 1 - k
        BY <1>0, <3>5
      <4> QED
        BY <3>6, <3>7, <4>1
    <3>10. From(w, g) = From(v \o w, k)
      BY <3>6, <3>7, <3>8, <3>9, SeqEqual
    <3>11. <<>> \in Strings
      BY DEF Strings
    <3>12. h # 0
      BY <3>2, <3>4, <1>0
    <3> QED
      BY <1>1, <1>2, <1>3, <1>6, <2>3, <3>4, <3>10, <3>11, <3>12
  <2> QED
    BY <2>2, <2>3
<1> QED
  BY <1>5, <1>6

(* A name and a value, as HeaderLine has read them of y.                   *)
NamedAs(line, y) ==
    line = IF Find(y, ":") = 0 THEN <<y>>
           ELSE <<Upto(y, Find(y, ":") - 1), Started(<<>>, From(y, Find(y, ":") + 1))>>

LEMMA HeaderLineOn ==
    ASSUME NEW y \in Strings, NEW w \in Strings, NEW line, NamedAs(line, y)
    PROVE  NamedAs(HeaderLine(line, w), y \o w)
<1> DEFINE f == Find(y, ":")
           g == Find(w, ":")
           z == y \o w
<1>0. /\ z \in Strings /\ Len(y) \in Nat /\ Len(w) \in Nat /\ Len(z) = Len(y) + Len(w)
      /\ \A i \in 1 .. Len(y) : z[i] = y[i]
      /\ \A i \in 1 .. Len(w) : z[Len(y) + i] = w[i]
  BY PlacesOfTwo DEF Strings
<1>1. f \in 0 .. Len(y) /\ g \in 0 .. Len(w)
  BY Found
<1>2. line = IF f = 0 THEN <<y>> ELSE <<Upto(y, f - 1), Started(<<>>, From(y, f + 1))>>
  BY DEF NamedAs
<1>3. HeaderLine(line, w) =
          IF Len(line) = 2 THEN <<line[1], Started(line[2], w)>>
          ELSE IF g = 0 THEN <<line[1] \o w>>
          ELSE <<line[1] \o Upto(w, g - 1), Started(<<>>, From(w, g + 1))>>
  BY DEF HeaderLine
<1>4. NamedAs(HeaderLine(line, w), z) <=>
          HeaderLine(line, w) = IF Find(z, ":") = 0 THEN <<z>>
              ELSE <<Upto(z, Find(z, ":") - 1), Started(<<>>, From(z, Find(z, ":") + 1))>>
  BY DEF NamedAs
<1> SUFFICES HeaderLine(line, w) = IF Find(z, ":") = 0 THEN <<z>>
              ELSE <<Upto(z, Find(z, ":") - 1), Started(<<>>, From(z, Find(z, ":") + 1))>>
  BY <1>4
<1>5. y \in Seq(Tokens) /\ w \in Seq(Tokens) /\ z \in Seq(Tokens)
  BY <1>0 DEF Strings
<1>6. (f # 0 => y[f] = ":" /\ \A i \in 1 .. f - 1 : y[i] # ":")
      /\ (g # 0 => w[g] = ":" /\ \A i \in 1 .. g - 1 : w[i] # ":")
      /\ (f = 0 => \A i \in 1 .. Len(y) : y[i] # ":")
      /\ (g = 0 => \A i \in 1 .. Len(w) : w[i] # ":")
  BY Found
<1>7. z = y \o w
  OBVIOUS
<1> HIDE DEF f, g, z
<1>8. CASE f # 0
  <2>1. f \in 1 .. Len(z) /\ z[f] = ":" /\ \A i \in 1 .. f - 1 : z[i] # ":"
    <3>1. /\ f \in 1 .. Len(y) /\ f \in 1 .. Len(z)
          /\ \A i \in 1 .. f - 1 : i \in 1 .. Len(y)
      <4>1. Len(y) \in Nat /\ Len(z) \in Nat /\ Len(y) <= Len(z)
        BY <1>0
      <4> QED
        BY ONLY <4>1, <1>1, <1>8
    <3>2. y[f] = ":" /\ \A i \in 1 .. f - 1 : y[i] # ":"
      BY <1>6, <1>8
    <3>3. \A i \in 1 .. Len(y) : z[i] = y[i]
      BY <1>0
    <3> QED
      BY <3>1, <3>2, <3>3
  <2>2. Find(z, ":") = f
    BY <2>1, <1>0, FoundAt
  <2>3. f - 1 \in 0 .. Len(y) /\ f - 1 \in 0 .. Len(z) /\ f \in 0 .. Len(y) /\ f \in 0 .. Len(z)
    BY <1>0, <1>1, <1>8
  <2>4. /\ Upto(y, f - 1) \in Seq(Tokens) /\ Len(Upto(y, f - 1)) = f - 1
        /\ \A i \in 1 .. f - 1 : Upto(y, f - 1)[i] = y[i]
    BY <2>3, <1>5, Cuts
  <2>5. /\ Upto(z, f - 1) \in Seq(Tokens) /\ Len(Upto(z, f - 1)) = f - 1
        /\ \A i \in 1 .. f - 1 : Upto(z, f - 1)[i] = z[i]
    BY <2>3, <1>5, Cuts
  <2>6. Upto(y, f - 1) = Upto(z, f - 1)
    <3>1. \A i \in 1 .. f - 1 : y[i] = z[i]
      BY <1>0, <1>1
    <3> QED
      BY <2>4, <2>5, <3>1, SeqEqual
  <2>7. /\ From(y, f + 1) \in Seq(Tokens) /\ Len(From(y, f + 1)) = Len(y) - f
        /\ \A i \in 1 .. Len(y) - f : From(y, f + 1)[i] = y[f + i]
    BY <2>3, <1>5, Cuts
  <2>8. /\ From(z, f + 1) \in Seq(Tokens) /\ Len(From(z, f + 1)) = Len(z) - f
        /\ \A i \in 1 .. Len(z) - f : From(z, f + 1)[i] = z[f + i]
    BY <2>3, <1>5, Cuts
  <2> DEFINE a == From(y, f + 1)
             b == From(z, f + 1)
  <2>9. /\ a \o w \in Seq(Tokens) /\ Len(a) \in Nat /\ Len(a \o w) = Len(a) + Len(w)
        /\ \A i \in 1 .. Len(a) : (a \o w)[i] = a[i]
        /\ \A i \in 1 .. Len(w) : (a \o w)[Len(a) + i] = w[i]
    <3>1. a \in Seq(Tokens)
      BY <2>7
    <3> HIDE DEF a
    <3> QED
      BY <3>1, <1>5, PlacesOfTwo
  <2> HIDE DEF a, b
  <2>10. a \o w = b
    <3>1. Len(a \o w) = Len(b)
      BY <1>0, <1>1, <2>7, <2>8, <2>9 DEF a, b
    <3>2. ASSUME NEW i \in 1 .. Len(a \o w) PROVE (a \o w)[i] = b[i]
      <4>0. i \in 1 .. Len(z) - f /\ b[i] = z[f + i]
        BY <1>0, <1>1, <2>8, <3>1 DEF b
      <4>1. CASE i <= Len(a)
        <5>1. (a \o w)[i] = a[i] /\ a[i] = y[f + i] /\ f + i \in 1 .. Len(y)
          BY <1>1, <4>1, <2>7, <2>9 DEF a
        <5> QED
          BY <5>1, <4>0, <1>0
      <4>2. CASE i > Len(a)
        <5>0. Len(a) = Len(y) - f
          BY <2>7 DEF a
        <5>1. i - Len(a) \in 1 .. Len(w) /\ Len(a) + (i - Len(a)) = i
              /\ Len(y) + (i - Len(a)) = f + i
          BY <1>0, <1>1, <4>2, <5>0, <2>9
        <5>2. (a \o w)[i] = w[i - Len(a)] /\ z[f + i] = w[i - Len(a)]
          BY <5>1, <2>9, <1>0
        <5> QED
          BY <5>2, <4>0
      <4> QED
        BY <4>1, <4>2, <2>9
    <3>3. b \in Seq(Tokens)
      BY <2>8 DEF b
    <3> QED
      BY <2>9, <3>1, <3>2, <3>3, SeqEqual
  <2>11. Started(Started(<<>>, a), w) = Started(<<>>, b)
    <3>1. a \in Strings
      BY <2>7 DEF a, Strings
    <3> QED
      BY <2>10, <3>1, StartedOn
  <2>12. line = <<Upto(y, f - 1), Started(<<>>, a)>>
    BY <1>2, <1>8 DEF a
  <2>13. HeaderLine(line, w) = <<Upto(y, f - 1), Started(<<>>, b)>>
    BY <1>3, <2>11, <2>12
  <2> QED
    BY <2>13, <2>6, <2>2, <1>8 DEF b
<1>9. CASE f = 0
  <2>1. line = <<y>>
    BY <1>2, <1>9
  <2>2. CASE g = 0
    <3>1. ASSUME NEW i \in 1 .. Len(z) PROVE z[i] # ":"
      <4>1. CASE i <= Len(y)
        BY <4>1, <1>0, <1>6, <1>9
      <4>2. CASE i > Len(y)
        <5>1. i - Len(y) \in 1 .. Len(w) /\ Len(y) + (i - Len(y)) = i
          BY <4>2, <1>0
        <5> QED
          BY <5>1, <1>0, <1>6, <2>2
      <4> QED
        BY <4>1, <4>2, <1>0
    <3>2. Find(z, ":") = 0
      BY <3>1, <1>0, FoundNowhere
    <3>3. HeaderLine(line, w) = <<z>>
      BY <1>3, <1>7, <2>1, <2>2
    <3> QED
      BY <3>2, <3>3
  <2>3. CASE g # 0
    <3> DEFINE k == Len(y) + g
    <3>1. k \in 1 .. Len(z) /\ z[k] = ":" /\ k - 1 = Len(y) + (g - 1)
          /\ g - 1 \in 0 .. Len(w) /\ k - 1 \in 0 .. Len(z) /\ g \in 0 .. Len(w) /\ k \in 0 .. Len(z)
          /\ k = Len(y) + g
      BY <1>0, <1>1, <1>6, <2>3
    <3> HIDE DEF k
    <3>2. ASSUME NEW i \in 1 .. k - 1 PROVE z[i] # ":"
      <4>1. CASE i <= Len(y)
        BY <4>1, <1>0, <1>6, <1>9
      <4>2. CASE i > Len(y)
        <5>1. i - Len(y) \in 1 .. g - 1 /\ i - Len(y) \in 1 .. Len(w) /\ Len(y) + (i - Len(y)) = i
          BY <4>2, <1>0, <3>1
        <5> QED
          BY <5>1, <1>0, <1>6, <2>3
      <4> QED
        BY <4>1, <4>2, <1>0, <3>1
    <3>3. Find(z, ":") = k
      BY <3>1, <3>2, <1>0, FoundAt
    <3>4. /\ From(w, g + 1) \in Seq(Tokens) /\ Len(From(w, g + 1)) = Len(w) - g
          /\ \A i \in 1 .. Len(w) - g : From(w, g + 1)[i] = w[g + i]
          /\ From(z, k + 1) \in Seq(Tokens) /\ Len(From(z, k + 1)) = Len(z) - k
          /\ \A i \in 1 .. Len(z) - k : From(z, k + 1)[i] = z[k + i]
      BY <3>1, <1>5, Cuts
    <3>5. From(w, g + 1) = From(z, k + 1)
      <4>1. ASSUME NEW i \in 1 .. Len(w) - g PROVE From(w, g + 1)[i] = From(z, k + 1)[i]
        <5>1. i \in 1 .. Len(z) - k /\ g + i \in 1 .. Len(w) /\ Len(y) + (g + i) = k + i
          BY <1>0, <1>1, <3>1
        <5>2. From(w, g + 1)[i] = w[g + i] /\ From(z, k + 1)[i] = z[k + i] /\ z[k + i] = w[g + i]
          BY <5>1, <3>4, <1>0
        <5> QED
          BY <5>2
      <4>2. Len(w) - g = Len(z) - k
        BY <1>0, <1>1, <3>1
      <4> QED
        BY <3>4, <4>1, <4>2, SeqEqual
    <3>6. /\ Upto(w, g - 1) \in Seq(Tokens) /\ Len(Upto(w, g - 1)) = g - 1
          /\ \A i \in 1 .. g - 1 : Upto(w, g - 1)[i] = w[i]
          /\ Upto(z, k - 1) \in Seq(Tokens) /\ Len(Upto(z, k - 1)) = k - 1
          /\ \A i \in 1 .. k - 1 : Upto(z, k - 1)[i] = z[i]
      <4>1. g - 1 \in 0 .. Len(w) /\ k - 1 \in 0 .. Len(z)
        BY <3>1
      <4> QED
        BY <4>1, <1>5, Cuts
    <3> DEFINE c == Upto(w, g - 1)
               d == Upto(z, k - 1)
    <3>7. /\ y \o c \in Seq(Tokens) /\ Len(y \o c) = Len(y) + Len(c)
          /\ \A i \in 1 .. Len(y) : (y \o c)[i] = y[i]
          /\ \A i \in 1 .. Len(c) : (y \o c)[Len(y) + i] = c[i]
      <4>1. c \in Seq(Tokens)
        BY <3>6
      <4> HIDE DEF c
      <4> QED
        BY <4>1, <1>5, PlacesOfTwo
    <3> HIDE DEF c, d
    <3>8. y \o c = d
      <4>1. Len(y \o c) = Len(d) /\ d \in Seq(Tokens) /\ Len(d) = k - 1 /\ Len(c) = g - 1
        BY <3>1, <3>6, <3>7 DEF c, d
      <4>2. ASSUME NEW i \in 1 .. Len(d) PROVE (y \o c)[i] = d[i]
        <5>1. d[i] = z[i]
          BY <3>6, <4>1 DEF d
        <5>2. CASE i <= Len(y)
          BY <5>1, <5>2, <3>7, <1>0, <4>1
        <5>3. CASE i > Len(y)
          <6>1. i - Len(y) \in 1 .. Len(c) /\ i - Len(y) \in 1 .. Len(w) /\ Len(y) + (i - Len(y)) = i
            BY <4>1, <5>3, <1>0, <1>1, <3>1
          <6>2. (y \o c)[i] = c[i - Len(y)] /\ c[i - Len(y)] = w[i - Len(y)] /\ z[i] = w[i - Len(y)]
            BY <6>1, <3>7, <3>6, <1>0, <4>1 DEF c
          <6> QED
            BY <6>2, <5>1
        <5> QED
          BY <5>2, <5>3, <4>1, <1>0, <3>1
      <4> QED
        BY <4>1, <4>2, <3>7, SeqEqual
    <3>9. HeaderLine(line, w) = <<y \o c, Started(<<>>, From(w, g + 1))>>
      BY <1>3, <2>1, <2>3 DEF c
    <3>10. k # 0
      BY <3>1
    <3> QED
      BY <3>3, <3>5, <3>8, <3>9, <3>10 DEF d
  <2> QED
    BY <2>2, <2>3
<1> QED
  BY <1>8, <1>9

(* Up to three strings with spaces between them, as StartLine has read     *)
(* them of y: only the third may have spaces of its own.                   *)
OneWord(s) == \A i \in 1 .. Len(s) : s[i] # "SP"
Ahead(strings) ==
    IF Len(strings) = 1 THEN <<>>
    ELSE IF Len(strings) = 2 THEN strings[1] \o <<"SP">>
    ELSE strings[1] \o <<"SP">> \o strings[2] \o <<"SP">>
SpacedAs(strings, y) ==
    /\ strings \in Seq(Strings) /\ Len(strings) \in 1 .. 3
    /\ \A i \in 1 .. Len(strings) : i < 3 => OneWord(strings[i])
    /\ y = Ahead(strings) \o strings[Len(strings)]

LEMMA OneWords ==
    ASSUME NEW a \in Strings, NEW b \in Strings, OneWord(a), OneWord(b)
    PROVE  a \o b \in Strings /\ OneWord(a \o b)
<1>0. /\ a \o b \in Strings /\ Len(a) \in Nat /\ Len(b) \in Nat /\ Len(a \o b) = Len(a) + Len(b)
      /\ \A i \in 1 .. Len(a) : (a \o b)[i] = a[i]
      /\ \A i \in 1 .. Len(b) : (a \o b)[Len(a) + i] = b[i]
  BY PlacesOfTwo DEF Strings
<1>1. ASSUME NEW i \in 1 .. Len(a \o b) PROVE (a \o b)[i] # "SP"
  <2>1. CASE i <= Len(a)
    BY <2>1, <1>0 DEF OneWord
  <2>2. CASE i > Len(a)
    <3>1. i - Len(a) \in 1 .. Len(b) /\ Len(a) + (i - Len(a)) = i
      BY <2>2, <1>0
    <3> QED
      BY <3>1, <1>0 DEF OneWord
  <2> QED
    BY <2>1, <2>2, <1>0
<1> QED
  BY <1>0, <1>1 DEF OneWord

LEMMA AheadIsString ==
    ASSUME NEW strings \in Seq(Strings), Len(strings) \in 1 .. 3
    PROVE  /\ Ahead(strings) \in Strings
           /\ \A i \in 1 .. Len(strings) : strings[i] \in Strings
<1>1. \A i \in 1 .. Len(strings) : strings[i] \in Strings
  BY ElementOfSeq
<1>2. <<>> \in Strings /\ <<"SP">> \in Strings
  BY StringAlgebra, TokenStrings
<1>3. \A a, b \in Strings : a \o b \in Strings
  BY StringAlgebra
<1> QED
  BY <1>1, <1>2, <1>3 DEF Ahead

LEMMA SpacedOnce ==
    ASSUME NEW strings, NEW y \in Strings, SpacedAs(strings, y), NEW rest \in Strings
    PROVE  LET next == Spaced([strings |-> strings, rest |-> rest]) IN
           /\ next = [strings |-> next.strings, rest |-> next.rest]
           /\ next.rest \in Strings
           /\ next.rest = <<>> \/ Len(next.strings) = Len(strings) + 1
           /\ \E z \in Strings : SpacedAs(next.strings, z) /\ z \o next.rest = y \o rest
<1> DEFINE n == Len(strings)
           k == Find(rest, "SP")
           next == Spaced([strings |-> strings, rest |-> rest])
           last == strings[n]
<1>0. /\ strings \in Seq(Strings) /\ n \in 1 .. 3
      /\ \A i \in 1 .. n : strings[i] \in Strings
      /\ \A i \in 1 .. n : i < 3 => OneWord(strings[i])
      /\ y = Ahead(strings) \o last /\ last \in Strings /\ Ahead(strings) \in Strings
  <2>1. strings \in Seq(Strings) /\ n \in 1 .. 3
        /\ (\A i \in 1 .. n : i < 3 => OneWord(strings[i])) /\ y = Ahead(strings) \o last
    BY DEF SpacedAs
  <2>2. Ahead(strings) \in Strings /\ \A i \in 1 .. n : strings[i] \in Strings
    BY <2>1, AheadIsString
  <2>3. n \in 1 .. n
    <3>1. n \in 1 .. 3
      BY <2>1
    <3> HIDE DEF n
    <3> QED
      BY <3>1
  <2> QED
    BY <2>1, <2>2, <2>3
<1>1. next = IF n = 3 \/ k = 0
             THEN [strings |-> [strings EXCEPT ![n] = last \o rest], rest |-> <<>>]
             ELSE [strings |-> Append([strings EXCEPT ![n] = last \o Upto(rest, k - 1)], <<>>),
                   rest |-> From(rest, k + 1)]
  BY DEF Spaced
<1> HIDE DEF n, k, last, next
<1>2. /\ k \in 0 .. Len(rest) /\ Len(rest) \in Nat
      /\ k = 0 => \A i \in 1 .. Len(rest) : rest[i] # "SP"
      /\ k # 0 => rest[k] = "SP" /\ \A i \in 1 .. k - 1 : rest[i] # "SP"
  <2>1. Len(rest) \in Nat
    BY DEF Strings
  <2> QED
    BY <2>1, Found DEF k
<1>3. <<>> \in Strings /\ <<"SP">> \in Strings
  BY StringAlgebra, TokenStrings
<1>4. \A a, b \in Strings : a \o b \in Strings
  BY StringAlgebra
<1>5. \A a, b, c \in Strings : (a \o b) \o c = a \o (b \o c)
  BY StringAlgebra
<1>6. \A a \in Strings : a \o <<>> = a /\ <<>> \o a = a
  BY StringAlgebra
<1>7. CASE n = 3 \/ k = 0
  <2> DEFINE w == last \o rest
             ss == [strings EXCEPT ![n] = w]
  <2>1. next = [strings |-> ss, rest |-> <<>>]
    BY <1>1, <1>7 DEF last
  <2> HIDE DEF w
  <2>2. w \in Strings
    BY <1>0, <1>4 DEF w
  <2>3. ss \in Seq(Strings) /\ Len(ss) = n /\ ss[n] = w
        /\ \A i \in 1 .. n : i # n => ss[i] = strings[i]
    <3>0. n = Len(strings)
      BY DEF n
    <3>1. n \in 1 .. Len(strings) /\ n = Len(strings)
      BY <1>0, <3>0
    <3>2. /\ [strings EXCEPT ![n] = w] \in Seq(Strings)
          /\ Len([strings EXCEPT ![n] = w]) = Len(strings)
          /\ \A j \in 1 .. Len(strings) : [strings EXCEPT ![n] = w][j] = IF j = n THEN w ELSE strings[j]
      BY <1>0, <2>2, <3>1, ExceptSeq
    <3> QED
      BY <3>1, <3>2 DEF ss
  <2>4. n < 3 => OneWord(w)
    <3> SUFFICES ASSUME n < 3 PROVE OneWord(w)
      OBVIOUS
    <3>1. OneWord(last)
      BY <1>0 DEF last
    <3>2. OneWord(rest)
      BY <1>0, <1>2, <1>7 DEF OneWord
    <3> QED
      BY <3>1, <3>2, <1>0, OneWords DEF w
  <2>5. Ahead(ss) = Ahead(strings)
    BY <1>0, <2>3 DEF Ahead, n
  <2> HIDE DEF ss
  <2>6. SpacedAs(ss, Ahead(strings) \o w)
    <3>1. \A i \in 1 .. Len(ss) : i < 3 => OneWord(ss[i])
      BY <1>0, <2>3, <2>4
    <3> QED
      BY <1>0, <2>3, <2>5, <3>1 DEF SpacedAs
  <2>7. Ahead(strings) \o w \in Strings
    BY <1>0, <1>4, <2>2
  <2>8. (Ahead(strings) \o w) \o <<>> = y \o rest
    <3>1. (Ahead(strings) \o w) \o <<>> = Ahead(strings) \o w
      BY <2>7, <1>6
    <3>2. Ahead(strings) \o (last \o rest) = (Ahead(strings) \o last) \o rest
      BY <1>0, <1>5
    <3> QED
      BY <1>0, <3>1, <3>2 DEF w
  <2>9. next.strings = ss /\ next.rest = <<>>
    BY <2>1
  <2> QED
    BY <2>1, <2>6, <2>7, <2>8, <2>9, <1>3 DEF next
<1>8. CASE n # 3 /\ k # 0
  <2> DEFINE u == Upto(rest, k - 1)
             v == From(rest, k + 1)
             w == last \o u
             ss == [strings EXCEPT ![n] = w]
  <2>1. next = [strings |-> Append(ss, <<>>), rest |-> v]
    BY <1>1, <1>8 DEF last
  <2>2. k - 1 \in 0 .. Len(rest) /\ k \in 0 .. Len(rest) /\ k - 1 \in Nat
    BY <1>2, <1>8
  <2>3. /\ u \in Strings /\ v \in Strings /\ Len(u) = k - 1 /\ Len(v) = Len(rest) - k
        /\ \A i \in 1 .. k - 1 : u[i] = rest[i]
        /\ \A i \in 1 .. Len(rest) - k : v[i] = rest[k + i]
    BY <2>2, Cuts DEF Strings
  <2> HIDE DEF u, v, w, ss
  <2>4. rest = (u \o <<"SP">>) \o v
    <3>1. /\ u \o <<"SP">> \in Seq(Tokens) /\ Len(u \o <<"SP">>) = k
          /\ \A i \in 1 .. k - 1 : (u \o <<"SP">>)[i] = rest[i]
          /\ (u \o <<"SP">>)[k] = "SP"
      <4>1. u \in Seq(Tokens) /\ <<"SP">> \in Seq(Tokens) /\ Len(<<"SP">>) = 1 /\ <<"SP">>[1] = "SP"
        BY <2>3, TokenStrings DEF Strings
      <4>2. Len(u) + 1 = k /\ 1 \in 1 .. 1 /\ Len(u) = k - 1
        BY <2>2, <2>3
      <4>3. /\ u \o <<"SP">> \in Seq(Tokens) /\ Len(u \o <<"SP">>) = Len(u) + 1
            /\ \A i \in 1 .. Len(u) : (u \o <<"SP">>)[i] = u[i]
            /\ \A i \in 1 .. 1 : (u \o <<"SP">>)[Len(u) + i] = <<"SP">>[i]
        BY <4>1, PlacesOfTwo
      <4> QED
        BY <4>1, <4>2, <4>3, <2>3
    <3> DEFINE p == u \o <<"SP">>
    <3>2. p \in Seq(Tokens) /\ v \in Seq(Tokens)
      BY <3>1, <2>3 DEF Strings
    <3> HIDE DEF p
    <3>3. /\ p \o v \in Seq(Tokens) /\ Len(p \o v) = Len(p) + Len(v)
          /\ \A i \in 1 .. Len(p) : (p \o v)[i] = p[i]
          /\ \A i \in 1 .. Len(v) : (p \o v)[Len(p) + i] = v[i]
      BY <3>2, PlacesOfTwo
    <3>4. Len(p) = k
      BY <3>1 DEF p
    <3>5. Len(p \o v) = Len(rest)
      BY <3>3, <3>4, <2>2, <2>3, <1>2
    <3>6. ASSUME NEW i \in 1 .. Len(rest) PROVE rest[i] = (p \o v)[i]
      <4>1. CASE i < k
        BY <4>1, <3>1, <3>3, <3>4, <2>2 DEF p
      <4>2. CASE i = k
        BY <4>2, <3>1, <3>3, <3>4, <2>2, <1>2, <1>8 DEF p
      <4>3. CASE i > k
        <5>1. i - k \in 1 .. Len(v) /\ i - k \in 1 .. Len(rest) - k /\ k + (i - k) = i
          BY <4>3, <1>2, <2>2, <2>3
        <5> QED
          BY <5>1, <2>3, <3>3, <3>4
      <4>4. i \in Nat /\ k \in Nat
        BY <1>2, <2>2
      <4>5. i < k \/ i = k \/ i > k
        BY <4>4
      <4> QED
        BY <4>1, <4>2, <4>3, <4>5
    <3>7. rest \in Seq(Tokens)
      BY DEF Strings
    <3> QED
      BY <3>3, <3>5, <3>6, <3>7, SeqEqual DEF p
  <2>5. OneWord(u)
    BY <1>2, <1>8, <2>3 DEF OneWord
  <2>6. w \in Strings /\ OneWord(w)
    <3>1. OneWord(last)
      BY <1>0, <1>8 DEF last
    <3> QED
      BY <3>1, <1>0, <2>3, <2>5, OneWords DEF w
  <2>7. ss \in Seq(Strings) /\ Len(ss) = n /\ ss[n] = w
        /\ \A i \in 1 .. n : i # n => ss[i] = strings[i]
    <3>0. n = Len(strings)
      BY DEF n
    <3>1. n \in 1 .. Len(strings) /\ n = Len(strings)
      BY <1>0, <3>0
    <3>2. /\ [strings EXCEPT ![n] = w] \in Seq(Strings)
          /\ Len([strings EXCEPT ![n] = w]) = Len(strings)
          /\ \A j \in 1 .. Len(strings) : [strings EXCEPT ![n] = w][j] = IF j = n THEN w ELSE strings[j]
      BY <1>0, <2>6, <3>1, ExceptSeq
    <3> QED
      BY <3>1, <3>2 DEF ss
  <2> DEFINE s3 == Append(ss, <<>>)
  <2>8. s3 \in Seq(Strings) /\ Len(s3) = n + 1 /\ s3[n + 1] = <<>>
        /\ \A i \in 1 .. n : s3[i] = ss[i]
    BY <2>7, <1>3, AppendProperties
  <2> HIDE DEF s3
  <2>9. Ahead(s3) = (Ahead(strings) \o w) \o <<"SP">>
    <3>1. CASE n = 1
      <4>1. Len(s3) = 2 /\ s3[1] = w
        BY <3>1, <2>7, <2>8
      <4>2. Ahead(s3) = w \o <<"SP">> /\ Ahead(strings) = <<>>
        BY <3>1, <4>1 DEF Ahead, n
      <4> QED
        BY <4>2, <1>6, <2>6
    <3>2. CASE n = 2
      <4>1. Len(s3) = 3 /\ s3[1] = strings[1] /\ s3[2] = w
        BY <3>2, <2>7, <2>8
      <4>2. Ahead(s3) = ((strings[1] \o <<"SP">>) \o w) \o <<"SP">>
            /\ Ahead(strings) = strings[1] \o <<"SP">>
        BY <3>2, <4>1 DEF Ahead, n
      <4> QED
        BY <4>2
    <3> QED
      BY <3>1, <3>2, <1>0, <1>8
  <2>10. \A i \in 1 .. Len(s3) : i < 3 => OneWord(s3[i])
    <3>1. OneWord(<<>>)
      BY DEF OneWord
    <3> QED
      BY <3>1, <1>0, <2>6, <2>7, <2>8
  <2> DEFINE z == Ahead(s3) \o <<>>
  <2>11. SpacedAs(s3, z)
    BY <2>8, <2>10, <1>0, <1>8 DEF SpacedAs
  <2>12. Ahead(s3) \in Strings /\ z = Ahead(s3) /\ z \in Strings
    BY <2>9, <1>0, <1>3, <1>4, <1>6, <2>6
  <2>13. z \o v = y \o rest
    <3> DEFINE A == Ahead(strings)
    <3>1. A \in Strings /\ last \in Strings /\ u \in Strings /\ v \in Strings /\ <<"SP">> \in Strings
      BY <1>0, <1>3, <2>3
    <3>2. z = (A \o (last \o u)) \o <<"SP">>
      BY <2>9, <2>12 DEF w
    <3>3. y \o rest = (A \o last) \o ((u \o <<"SP">>) \o v)
      BY <1>0, <2>4
    <3> HIDE DEF A, z
    <3>4. ((A \o (last \o u)) \o <<"SP">>) \o v = (A \o last) \o ((u \o <<"SP">>) \o v)
      <4> DEFINE sp == <<"SP">>
      <4>1. sp \in Strings
        BY <3>1
      <4> HIDE DEF sp
      <4>2. Cat(Cat(Cat(A, Cat(last, u)), sp), v) = Cat(Cat(A, last), Cat(Cat(u, sp), v))
        BY <3>1, <4>1, StringBrackets
      <4> QED
        BY <4>2 DEF sp, Cat
    <3> QED
      BY <3>2, <3>3, <3>4
  <2>14. next = [strings |-> s3, rest |-> v]
    BY <2>1 DEF s3
  <2> HIDE DEF z
  <2>15. next.strings = s3 /\ next.rest = v
    BY <2>14
  <2> QED
    BY <2>14, <2>15, <2>3, <2>8, <2>11, <2>12, <2>13 DEF next, n
<1> QED
  BY <1>7, <1>8

LEMMA StartLineOn ==
    ASSUME NEW strings, NEW y \in Strings, SpacedAs(strings, y), NEW w \in Strings
    PROVE  SpacedAs(StartLine(strings, w), y \o w)
<1> DEFINE a0 == [strings |-> strings, rest |-> w]
           a1 == Spaced(a0)
           a2 == Spaced(a1)
           a3 == Spaced(a2)
<1>1. StartLine(strings, w) = a3.strings
  BY DEF StartLine
<1>2. Len(strings) \in 1 .. 3
  BY DEF SpacedAs
<1>3. /\ a1 = [strings |-> a1.strings, rest |-> a1.rest] /\ a1.rest \in Strings
      /\ a1.rest = <<>> \/ Len(a1.strings) = Len(strings) + 1
      /\ \E z \in Strings : SpacedAs(a1.strings, z) /\ z \o a1.rest = y \o w
  BY SpacedOnce
<1> HIDE DEF a1
<1>4. PICK y1 \in Strings : SpacedAs(a1.strings, y1) /\ y1 \o a1.rest = y \o w
  BY <1>3
<1>5. /\ a2 = [strings |-> a2.strings, rest |-> a2.rest] /\ a2.rest \in Strings
      /\ a2.rest = <<>> \/ Len(a2.strings) = Len(a1.strings) + 1
      /\ \E z \in Strings : SpacedAs(a2.strings, z) /\ z \o a2.rest = y1 \o a1.rest
  <2> DEFINE b == Spaced([strings |-> a1.strings, rest |-> a1.rest])
  <2>1. /\ b = [strings |-> b.strings, rest |-> b.rest] /\ b.rest \in Strings
        /\ b.rest = <<>> \/ Len(b.strings) = Len(a1.strings) + 1
        /\ \E z \in Strings : SpacedAs(b.strings, z) /\ z \o b.rest = y1 \o a1.rest
    BY <1>3, <1>4, SpacedOnce
  <2>2. a2 = b
    BY <1>3
  <2> QED
    BY <2>1, <2>2
<1> HIDE DEF a2
<1>6. PICK y2 \in Strings : SpacedAs(a2.strings, y2) /\ y2 \o a2.rest = y1 \o a1.rest
  BY <1>5
<1>7. /\ a3.rest \in Strings
      /\ a3.rest = <<>> \/ Len(a3.strings) = Len(a2.strings) + 1
      /\ \E z \in Strings : SpacedAs(a3.strings, z) /\ z \o a3.rest = y2 \o a2.rest
  <2> DEFINE b == Spaced([strings |-> a2.strings, rest |-> a2.rest])
  <2>1. /\ b.rest \in Strings
        /\ b.rest = <<>> \/ Len(b.strings) = Len(a2.strings) + 1
        /\ \E z \in Strings : SpacedAs(b.strings, z) /\ z \o b.rest = y2 \o a2.rest
    BY <1>5, <1>6, SpacedOnce
  <2>2. a3 = b
    BY <1>5
  <2> QED
    BY <2>1, <2>2
<1> HIDE DEF a3
<1>8. PICK y3 \in Strings : SpacedAs(a3.strings, y3) /\ y3 \o a3.rest = y2 \o a2.rest
  BY <1>7
(* Had none of the turns been the last, there would be four strings.       *)
<1>9. a3.rest = <<>>
  <2>1. Len(a1.strings) \in 1 .. 3 /\ Len(a2.strings) \in 1 .. 3 /\ Len(a3.strings) \in 1 .. 3
    BY <1>4, <1>6, <1>8 DEF SpacedAs
  <2>2. \A s, r : r = <<>> => Spaced([strings |-> s, rest |-> r]).rest = <<>>
    <3> SUFFICES ASSUME NEW s, NEW r, r = <<>> PROVE Spaced([strings |-> s, rest |-> r]).rest = <<>>
      OBVIOUS
    <3>1. Find(r, "SP") = 0
      <4>1. r \in Strings /\ \A i \in 1 .. Len(r) : r[i] # "SP"
        BY DEF Strings
      <4> QED
        BY <4>1, FoundNowhere
    <3> QED
      BY <3>1 DEF Spaced
  <2>3. a1.rest = <<>> => a2.rest = <<>>
    BY <1>3, <2>2 DEF a2
  <2>4. a2.rest = <<>> => a3.rest = <<>>
    BY <1>5, <2>2 DEF a3
  <2> QED
    BY <1>2, <1>3, <1>5, <1>7, <2>1, <2>3, <2>4
<1>10. y3 \o <<>> = y3
  BY ConcatEmptySeq DEF Strings
<1> QED
  BY <1>1, <1>4, <1>6, <1>8, <1>9, <1>10

(* A token between two strings.                                            *)
IsCat(c, a, b) ==
    /\ Len(a) \in Nat /\ Len(b) \in Nat /\ Len(c) = Len(a) + Len(b)
    /\ \A i \in 1 .. Len(a) : c[i] = a[i]
    /\ \A i \in 1 .. Len(b) : c[Len(a) + i] = b[i]

LEMMA CatPlaces ==
    ASSUME NEW S, NEW a \in Seq(S), NEW b \in Seq(S)
    PROVE  Cat(a, b) \in Seq(S) /\ IsCat(Cat(a, b), a, b)
  BY PlacesOfTwo DEF Cat, IsCat

Apart(a, t, x) == (a \o <<t>>) \o x

IsApart(s, a, t, x) ==
    /\ Len(a) \in Nat /\ Len(x) \in Nat /\ Len(s) = Len(a) + 1 + Len(x)
    /\ \A i \in 1 .. Len(a) : s[i] = a[i]
    /\ s[Len(a) + 1] = t
    /\ \A i \in 1 .. Len(x) : s[Len(a) + 1 + i] = x[i]

LEMMA Between ==
    ASSUME NEW a \in Strings, NEW t \in Tokens, NEW x \in Strings
    PROVE  Apart(a, t, x) \in Strings /\ IsApart(Apart(a, t, x), a, t, x)
<1> DEFINE u == <<t>>
           p == Cat(a, u)
           s == Cat(p, x)
<1>0. Apart(a, t, x) = s
  BY DEF Apart, Cat
<1>1. u \in Seq(Tokens) /\ Len(u) = 1 /\ u[1] = t /\ a \in Seq(Tokens) /\ x \in Seq(Tokens)
  BY DEF Strings
<1> HIDE DEF u, s
<1>2. /\ p \in Seq(Tokens) /\ Len(a) \in Nat /\ Len(p) = Len(a) + 1
      /\ \A i \in 1 .. Len(a) : p[i] = a[i]
      /\ \A i \in 1 .. 1 : p[Len(a) + i] = u[i]
  <2>1. p \in Seq(Tokens) /\ IsCat(p, a, u)
    BY <1>1, CatPlaces
  <2> HIDE DEF p
  <2> QED
    BY <2>1, <1>1 DEF IsCat
<1>3. p[Len(a) + 1] = t
  BY <1>1, <1>2
<1> HIDE DEF p
<1>4. /\ s \in Seq(Tokens) /\ Len(x) \in Nat /\ Len(s) = Len(p) + Len(x)
      /\ \A i \in 1 .. Len(p) : s[i] = p[i]
      /\ \A i \in 1 .. Len(x) : s[Len(p) + i] = x[i]
  <2>1. s \in Seq(Tokens) /\ IsCat(s, p, x)
    BY <1>1, <1>2, CatPlaces DEF s
  <2> QED
    BY <2>1 DEF IsCat
<1>5. s \in Strings /\ Len(s) = Len(a) + 1 + Len(x)
  BY <1>2, <1>4 DEF Strings
<1>6. \A i \in 1 .. Len(a) : s[i] = a[i]
  BY <1>2, <1>4
<1>7. s[Len(a) + 1] = t
  BY <1>2, <1>3, <1>4
<1>8. \A i \in 1 .. Len(x) : s[Len(a) + 1 + i] = x[i]
  BY <1>2, <1>4
<1>9. IsApart(s, a, t, x)
  BY <1>2, <1>4, <1>5, <1>6, <1>7, <1>8 DEF IsApart
<1> QED
  BY <1>0, <1>5, <1>9

(* Where a separator comes first in a text, it is cut.                     *)
LEMMA SameCut ==
    ASSUME NEW a \in Strings, NEW d \in Strings, NEW x \in Strings, NEW z \in Strings,
           OneWord(a), OneWord(d), Apart(a, "SP", x) = Apart(d, "SP", z)
    PROVE  a = d /\ x = z
<1> DEFINE s == Apart(a, "SP", x)
<1>0. "SP" \in Tokens
  BY DEF Tokens
<1>1. /\ s \in Strings /\ Len(a) \in Nat /\ Len(x) \in Nat /\ Len(s) = Len(a) + 1 + Len(x)
      /\ \A i \in 1 .. Len(a) : s[i] = a[i]
      /\ s[Len(a) + 1] = "SP"
      /\ \A i \in 1 .. Len(x) : s[Len(a) + 1 + i] = x[i]
  <2>1. s \in Strings /\ IsApart(s, a, "SP", x)
    BY <1>0, Between
  <2> HIDE DEF s
  <2> QED
    BY <2>1 DEF IsApart
<1>2. /\ Len(d) \in Nat /\ Len(z) \in Nat /\ Len(s) = Len(d) + 1 + Len(z)
      /\ \A i \in 1 .. Len(d) : s[i] = d[i]
      /\ s[Len(d) + 1] = "SP"
      /\ \A i \in 1 .. Len(z) : s[Len(d) + 1 + i] = z[i]
  <2>1. IsApart(s, d, "SP", z)
    BY <1>0, Between
  <2> HIDE DEF s
  <2> QED
    BY <2>1 DEF IsApart
<1> HIDE DEF s
<1>4. Find(s, "SP") = Len(a) + 1
  <2> DEFINE k == Len(a) + 1
  <2>1. k \in 1 .. Len(s) /\ s[k] = "SP" /\ k - 1 = Len(a)
    BY <1>1, <1>2
  <2>2. \A i \in 1 .. Len(a) : s[i] # "SP"
    BY <1>1, <1>2 DEF OneWord
  <2> HIDE DEF k
  <2>3. \A i \in 1 .. k - 1 : s[i] # "SP"
    BY <2>1, <2>2
  <2>4. Find(s, "SP") = k
    BY <2>1, <2>3, <1>1, FoundAt
  <2> QED
    BY <2>4 DEF k
<1>5. Find(s, "SP") = Len(d) + 1
  <2> DEFINE k == Len(d) + 1
  <2>1. k \in 1 .. Len(s) /\ s[k] = "SP" /\ k - 1 = Len(d)
    BY <1>1, <1>2
  <2>2. \A i \in 1 .. Len(d) : s[i] # "SP"
    BY <1>1, <1>2 DEF OneWord
  <2> HIDE DEF k
  <2>3. \A i \in 1 .. k - 1 : s[i] # "SP"
    BY <2>1, <2>2
  <2>4. Find(s, "SP") = k
    BY <2>1, <2>3, <1>1, FoundAt
  <2> QED
    BY <2>4 DEF k
<1>6. Len(a) = Len(d) /\ Len(x) = Len(z)
  BY <1>1, <1>2, <1>4, <1>5
<1>7. a \in Seq(Tokens) /\ d \in Seq(Tokens) /\ x \in Seq(Tokens) /\ z \in Seq(Tokens)
  BY DEF Strings
<1>8. a = d
  <2>1. \A i \in 1 .. Len(a) : a[i] = d[i]
    BY <1>1, <1>2, <1>6
  <2> QED
    BY <2>1, <1>6, <1>7, SeqEqual
<1>9. x = z
  <2>1. \A i \in 1 .. Len(x) : x[i] = z[i]
    BY <1>1, <1>2, <1>6
  <2> QED
    BY <2>1, <1>6, <1>7, SeqEqual
<1> QED
  BY <1>8, <1>9

(* The line of three strings.                                              *)
Spacing(a, b, c) == a \o <<"SP">> \o b \o <<"SP">> \o c

LEMMA SpacingIs ==
    ASSUME NEW a \in Strings, NEW b \in Strings, NEW c \in Strings
    PROVE  /\ Apart(b, "SP", c) \in Strings
           /\ Spacing(a, b, c) = Apart(a, "SP", Apart(b, "SP", c))
<1> DEFINE sp == <<"SP">>
<1>1. sp \in Strings
  BY TokenStrings
<1> HIDE DEF sp
<1>2. Cat(Cat(Cat(Cat(a, sp), b), sp), c) = Cat(Cat(a, sp), Cat(Cat(b, sp), c))
      /\ Cat(Cat(b, sp), c) \in Strings
  BY <1>1, StringBrackets
<1>3. (((a \o sp) \o b) \o sp) \o c = (a \o sp) \o ((b \o sp) \o c)
      /\ (b \o sp) \o c \in Strings
  BY <1>2 DEF Cat
<1> QED
  BY <1>3 DEF sp, Spacing, Apart

LEMMA SpacedIs ==
    ASSUME NEW a \in Strings, NEW b \in Strings, NEW c \in Strings, OneWord(a), OneWord(b),
           NEW strings, SpacedAs(strings, Spacing(a, b, c))
    PROVE  strings = <<a, b, c>>
<1> DEFINE y == Spacing(a, b, c)
           x == Apart(b, "SP", c)
           n == Len(strings)
<1>0. "SP" \in Tokens
  BY DEF Tokens
<1>1. /\ strings \in Seq(Strings) /\ n \in 1 .. 3 /\ y = Ahead(strings) \o strings[n]
      /\ \A i \in 1 .. n : i < 3 => OneWord(strings[i])
  BY DEF SpacedAs
<1>2. \A i \in 1 .. n : strings[i] \in Strings
  BY <1>1, AheadIsString
<1>3. y = Apart(a, "SP", x) /\ x \in Strings
  BY SpacingIs
<1> HIDE DEF y
<1>4. n # 1
  <2> SUFFICES ASSUME n = 1 PROVE FALSE
    OBVIOUS
  <2>1. 1 \in 1 .. n /\ strings[1] \in Strings /\ OneWord(strings[1])
    BY <1>1, <1>2
  <2>2. y = strings[1]
    <3>1. y = <<>> \o strings[1]
      BY <1>1 DEF Ahead
    <3> QED
      BY <3>1, <2>1, StringAlgebra
  <2> HIDE DEF x
  <2>4. Len(a) \in Nat /\ Len(x) \in Nat /\ Len(y) = Len(a) + 1 + Len(x) /\ y[Len(a) + 1] = "SP"
    <3>1. IsApart(y, a, "SP", x)
      BY <1>0, <1>3, Between
    <3> QED
      BY <3>1 DEF IsApart
  <2>5. Len(a) + 1 \in 1 .. Len(y)
    BY <2>4
  <2> QED
    BY <2>1, <2>2, <2>4, <2>5 DEF OneWord
<1>5. n # 2
  <2> SUFFICES ASSUME n = 2 PROVE FALSE
    OBVIOUS
  <2>1. strings[1] \in Strings /\ strings[2] \in Strings /\ OneWord(strings[1]) /\ OneWord(strings[2])
    BY <1>1, <1>2
  <2>2. y = Apart(strings[1], "SP", strings[2])
    BY <1>1 DEF Ahead, Apart
  <2>4. x = strings[2]
    BY <2>1, <2>2, <1>3, SameCut
  <2>5. Len(b) \in Nat /\ Len(c) \in Nat /\ Len(x) = Len(b) + 1 + Len(c) /\ x[Len(b) + 1] = "SP"
    <3>1. IsApart(x, b, "SP", c)
      BY <1>0, Between
    <3> HIDE DEF x
    <3> QED
      BY <3>1 DEF IsApart
  <2>6. Len(b) + 1 \in 1 .. Len(x)
    BY <2>5
  <2> QED
    BY <2>1, <2>4, <2>5, <2>6 DEF OneWord
<1>6. n = 3
  BY <1>1, <1>4, <1>5
<1>7. strings[1] \in Strings /\ strings[2] \in Strings /\ strings[3] \in Strings
      /\ OneWord(strings[1]) /\ OneWord(strings[2])
  BY <1>1, <1>2, <1>6
<1> DEFINE z == Apart(strings[2], "SP", strings[3])
<1>8. y = Apart(strings[1], "SP", z) /\ z \in Strings
  <2> DEFINE s1 == strings[1]
             s2 == strings[2]
             s3 == strings[3]
  <2>1. y = Spacing(s1, s2, s3) /\ z = Apart(s2, "SP", s3)
    BY <1>1, <1>6 DEF Ahead, Spacing
  <2>2. s1 \in Strings /\ s2 \in Strings /\ s3 \in Strings
    BY <1>7
  <2> HIDE DEF s1, s2, s3, z
  <2>3. \A p, q, r \in Strings :
            Apart(q, "SP", r) \in Strings /\ Spacing(p, q, r) = Apart(p, "SP", Apart(q, "SP", r))
    BY SpacingIs
  <2>4. y = Apart(s1, "SP", z) /\ z \in Strings
    BY <2>1, <2>2, <2>3
  <2> QED
    BY <2>4 DEF s1
<1> HIDE DEF x, z
<1>9. strings[1] = a /\ x = z
  BY <1>3, <1>7, <1>8, SameCut
<1>10. strings[2] = b /\ strings[3] = c
  BY <1>7, <1>9, SameCut DEF x, z
<1> QED
  BY <1>1, <1>6, <1>9, <1>10

(* A header as it is printed is read as its name and its value.            *)
Headed(name, value) == <<name, ":", "SP">> \o value

IsHeaded(s, name, value) ==
    /\ Len(value) \in Nat /\ Len(s) = 3 + Len(value)
    /\ s[1] = name /\ s[2] = ":" /\ s[3] = "SP"
    /\ \A i \in 1 .. Len(value) : s[3 + i] = value[i]

LEMMA HeadedPlaces ==
    ASSUME NEW name \in Tokens, NEW value \in Strings
    PROVE  Headed(name, value) \in Strings /\ IsHeaded(Headed(name, value), name, value)
<1> DEFINE p == <<name, ":", "SP">>
<1>1. p \in Seq(Tokens) /\ Len(p) = 3 /\ p[1] = name /\ p[2] = ":" /\ p[3] = "SP"
  <2>1. ":" \in Tokens /\ "SP" \in Tokens
    BY DEF Tokens
  <2> QED
    BY <2>1
<1>2. Headed(name, value) = Cat(p, value)
  BY DEF Headed, Cat
<1> HIDE DEF p
<1>3. value \in Seq(Tokens)
  BY DEF Strings
<1>4. /\ Cat(p, value) \in Seq(Tokens) /\ Len(value) \in Nat /\ Len(Cat(p, value)) = 3 + Len(value)
      /\ \A i \in 1 .. 3 : Cat(p, value)[i] = p[i]
      /\ \A i \in 1 .. Len(value) : Cat(p, value)[3 + i] = value[i]
  <2>1. Cat(p, value) \in Seq(Tokens) /\ IsCat(Cat(p, value), p, value)
    BY <1>1, <1>3, CatPlaces
  <2> QED
    BY <2>1, <1>1 DEF IsCat
<1> QED
  BY <1>1, <1>2, <1>4 DEF Strings, IsHeaded

LEMMA HeaderIs ==
    ASSUME NEW name \in Tokens, name # ":", NEW value \in Strings, value # <<>>,
           value[1] \notin Blank, value[Len(value)] \notin Blank,
           NEW line, NamedAs(line, Headed(name, value))
    PROVE  line = <<<<name>>, value>> /\ Trimmed(value) = value
<1> DEFINE y == Headed(name, value)
           v == From(y, 3)
<1>0. value \in Seq(Tokens) /\ Len(value) \in Nat \ {0}
  BY EmptySeq DEF Strings
<1>1. /\ y \in Strings /\ Len(y) = 3 + Len(value)
      /\ y[1] = name /\ y[2] = ":" /\ y[3] = "SP"
      /\ \A i \in 1 .. Len(value) : y[3 + i] = value[i]
  <2>1. y \in Strings /\ IsHeaded(y, name, value)
    BY HeadedPlaces
  <2> HIDE DEF y
  <2> QED
    BY <2>1 DEF IsHeaded
<1> HIDE DEF y
<1>2. Find(y, ":") = 2
  <2>1. 2 \in 1 .. Len(y) /\ y[2] = ":" /\ \A i \in 1 .. 2 - 1 : y[i] # ":"
    BY <1>0, <1>1
  <2> QED
    BY ONLY <2>1, <1>1, FoundAt
<1>3. Upto(y, 1) = <<name>>
  <2>1. /\ Upto(y, 1) \in Seq(Tokens) /\ Len(Upto(y, 1)) = 1 /\ Upto(y, 1)[1] = y[1]
    <3>1. 1 \in 0 .. Len(y) /\ 1 \in 1 .. 1 /\ y \in Seq(Tokens)
      BY <1>0, <1>1 DEF Strings
    <3> QED
      BY <3>1, Cuts
  <2>2. y[1] = name
    BY <1>0, <1>1
  <2>3. <<name>> \in Seq(Tokens) /\ Len(<<name>>) = 1 /\ <<name>>[1] = name
    OBVIOUS
  <2> QED
    BY <2>1, <2>2, <2>3, SeqEqual
<1>4. /\ v \in Seq(Tokens) /\ Len(v) = 1 + Len(value)
      /\ v[1] = "SP" /\ \A i \in 1 .. Len(value) : v[1 + i] = value[i]
  <2>1. 3 \in 1 .. Len(y) + 1 /\ y \in Seq(Tokens)
    BY <1>0, <1>1 DEF Strings
  <2>2. /\ v \in Seq(Tokens) /\ Len(v) = Len(y) + 1 - 3
        /\ \A i \in 1 .. Len(y) + 1 - 3 : v[i] = y[3 - 1 + i]
    BY <2>1, Ends
  <2> HIDE DEF v
  <2>3. Len(v) = 1 + Len(value)
    BY <1>0, <1>1, <2>2
  <2>4. v[1] = y[3] /\ y[3] = "SP"
    <3>1. 1 \in 1 .. Len(y) + 1 - 3 /\ 3 - 1 + 1 = 3
      BY <1>0, <1>1
    <3> QED
      BY <3>1, <2>2, <1>0, <1>1
  <2>5. ASSUME NEW i \in 1 .. Len(value) PROVE v[1 + i] = value[i]
    <3>1. 1 + i \in 1 .. Len(y) + 1 - 3 /\ 3 - 1 + (1 + i) = 3 + i
      BY <1>0, <1>1
    <3> QED
      BY <3>1, <2>2, <1>1
  <2> QED
    BY <2>2, <2>3, <2>4, <2>5
<1>5. Started(<<>>, v) = value
  <2> HIDE DEF v
  <2>1. FindFirstNot(v, Blank) = 2
    <3>1. v \in Strings /\ 2 \in 1 .. Len(v) /\ 1 + 1 = 2 /\ 1 \in 1 .. Len(value)
      BY <1>0, <1>4 DEF Strings
    <3>2. v[2] = value[1]
      BY <3>1, <1>4
    <3>3. v[2] \notin Blank /\ \A i \in 1 .. 2 - 1 : v[i] \in Blank
      BY <3>2, <1>4 DEF Blank
    <3> QED
      BY <3>1, <3>3, FoundNotAt
  <2>2. Started(<<>>, v) = From(v, 2)
    BY <2>1 DEF Started
  <2> DEFINE w == From(v, 2)
  <2>3. /\ w \in Seq(Tokens) /\ Len(w) = Len(v) + 1 - 2
        /\ \A i \in 1 .. Len(v) + 1 - 2 : w[i] = v[2 - 1 + i]
    <3>1. 2 \in 1 .. Len(v) + 1 /\ v \in Seq(Tokens)
      BY <1>0, <1>4
    <3> QED
      BY <3>1, Ends
  <2> HIDE DEF w
  <2>4. Len(w) = Len(value) /\ \A i \in 1 .. Len(value) : w[i] = value[i]
    BY <2>3, <1>0, <1>4
  <2> QED
    BY <2>2, <2>3, <2>4, <1>0, SeqEqual DEF w
<1>6. line = <<<<name>>, value>>
  <2>1. line = <<Upto(y, 2 - 1), Started(<<>>, From(y, 2 + 1))>>
    BY <1>2 DEF NamedAs, y
  <2> QED
    BY <2>1, <1>3, <1>5
<1>7. Trimmed(value) = value
  <2>1. FindLastNot(value, Blank) = Len(value)
    BY FoundLast
  <2>2. Upto(value, Len(value)) = value
    BY <1>0, SubSeqFull DEF Upto
  <2> QED
    BY <2>1, <2>2 DEF Trimmed
<1> QED
  BY <1>6, <1>7

(* The line that ends the headers.                                         *)
LEMMA NothingIs ==
    ASSUME NEW line PROVE NamedAs(line, <<>>) <=> line = <<<<>>>>
<1>1. Find(<<>>, ":") = 0
  <2>1. <<>> \in Strings /\ \A i \in 1 .. Len(<<>>) : <<>>[i] # ":"
    BY DEF Strings
  <2> QED
    BY <2>1, FoundNowhere
<1> QED
  BY <1>1 DEF NamedAs

LEMMA NothingSpaced == SpacedAs(<<<<>>>>, <<>>)
<1>1. <<>> \in Strings /\ <<>> \o <<>> = <<>>
  BY StringAlgebra
<1>2. <<<<>>>> \in Seq(Strings) /\ Len(<<<<>>>>) = 1 /\ <<<<>>>>[1] = <<>>
  BY <1>1
<1>3. OneWord(<<>>)
  BY DEF OneWord
<1> QED
  BY <1>1, <1>2, <1>3 DEF SpacedAs, Ahead

(* What the reader of a line has made of the part y of it.                 *)
Stands(separator, line, y) ==
    IF separator = "SP" THEN SpacedAs(line, y) ELSE NamedAs(line, y)

LEMMA ReadAllOn ==
    ASSUME NEW separator, NEW line, NEW y \in Strings, Stands(separator, line, y),
           NEW w \in Strings
    PROVE  Stands(separator, ReadAll(separator, line, w), y \o w)
<1>1. CASE separator = "SP"
  <2>1. SpacedAs(StartLine(line, w), y \o w)
    BY <1>1, StartLineOn DEF Stands
  <2> QED
    BY <1>1, <2>1 DEF Stands, ReadAll
<1>2. CASE separator # "SP"
  <2>1. NamedAs(HeaderLine(line, w), y \o w)
    BY <1>2, HeaderLineOn DEF Stands
  <2> QED
    BY <1>2, <2>1 DEF Stands, ReadAll
<1> QED
  BY <1>1, <1>2

LEMMA StandsType ==
    ASSUME NEW separator, NEW line, NEW y \in Strings, Stands(separator, line, y)
    PROVE  line \in Seq(Strings)
<1>1. CASE separator = "SP"
  BY <1>1 DEF Stands, SpacedAs
<1>2. CASE separator # "SP"
  <2> DEFINE k == Find(y, ":")
  <2>1. k \in 0 .. Len(y) /\ Len(y) \in Nat
    BY Found DEF Strings
  <2>2. NamedAs(line, y)
    BY <1>2 DEF Stands
  <2>3. CASE k = 0
    BY <2>2, <2>3 DEF NamedAs
  <2>4. CASE k # 0
    <3>1. k - 1 \in 0 .. Len(y) /\ k \in 0 .. Len(y) /\ y \in Seq(Tokens)
      BY <2>1, <2>4 DEF Strings
    <3>2. line = <<Upto(y, k - 1), Started(<<>>, From(y, k + 1))>>
      BY <2>2, <2>4 DEF NamedAs
    <3> HIDE DEF k
    <3>3. Upto(y, k - 1) \in Strings /\ From(y, k + 1) \in Strings
      BY <3>1, Cuts DEF Strings
    <3>4. Started(<<>>, From(y, k + 1)) \in Strings
      BY <3>3, StringAlgebra, StartedOn
    <3> QED
      BY <3>2, <3>3, <3>4
  <2> QED
    BY <2>3, <2>4
<1> QED
  BY <1>1, <1>2

(* What comes in text t after its first q tokens.                          *)
Piece(t, q, s) ==
    /\ q \in Nat /\ q + Len(s) <= Len(t)
    /\ \A i \in 1 .. Len(s) : s[i] = t[q + i]

LEMMA PiecesOf ==
    ASSUME NEW t \in Strings, NEW q, NEW s \in Strings, Piece(t, q, s), NEW k \in 0 .. Len(s)
    PROVE  /\ Upto(s, k) \in Strings /\ From(s, k + 1) \in Strings
           /\ Len(Upto(s, k)) = k /\ Len(From(s, k + 1)) = Len(s) - k
           /\ Piece(t, q, Upto(s, k)) /\ Piece(t, q + k, From(s, k + 1))
<1>0. s \in Seq(Tokens) /\ Len(s) \in Nat /\ Len(t) \in Nat
  BY DEF Strings
<1> DEFINE u == Upto(s, k)
           v == From(s, k + 1)
<1>1. /\ u \in Seq(Tokens) /\ v \in Seq(Tokens)
      /\ Len(u) = k /\ Len(v) = Len(s) - k
      /\ \A i \in 1 .. k : u[i] = s[i]
      /\ \A i \in 1 .. Len(s) - k : v[i] = s[k + i]
  BY <1>0, Cuts
<1> HIDE DEF u, v
<1>2. Piece(t, q, u)
  BY <1>0, <1>1 DEF Piece
<1>3. Piece(t, q + k, v)
  <2>1. ASSUME NEW i \in 1 .. Len(v) PROVE v[i] = t[q + k + i]
    <3>1. k + i \in 1 .. Len(s) /\ q + (k + i) = q + k + i /\ i \in 1 .. Len(s) - k
      BY <1>0, <1>1 DEF Piece
    <3>2. s[k + i] = t[q + (k + i)]
      BY <3>1 DEF Piece
    <3> QED
      BY <3>1, <3>2, <1>1
  <2> QED
    BY <2>1, <1>0, <1>1 DEF Piece
<1> QED
  BY <1>1, <1>2, <1>3 DEF u, v, Strings

LEMMA UptoOn ==
    ASSUME NEW t \in Strings, NEW q, NEW s \in Strings, Piece(t, q, s)
    PROVE  /\ Upto(t, q) \in Strings /\ q \in 0 .. Len(t)
           /\ Upto(t, q) \o s = Upto(t, q + Len(s))
<1>0. t \in Seq(Tokens) /\ s \in Seq(Tokens) /\ Len(s) \in Nat /\ Len(t) \in Nat
  BY DEF Strings
<1>1. q \in 0 .. Len(t) /\ q + Len(s) \in 0 .. Len(t)
  BY <1>0 DEF Piece
<1> DEFINE e == q + Len(s)
           a == Upto(t, q)
           b == Upto(t, e)
<1>2. /\ a \in Seq(Tokens) /\ Len(a) = q /\ \A i \in 1 .. q : a[i] = t[i]
      /\ b \in Seq(Tokens) /\ Len(b) = e /\ \A i \in 1 .. e : b[i] = t[i]
  <2>1. e \in 0 .. Len(t)
    BY <1>1
  <2> HIDE DEF e
  <2> QED
    BY <1>0, <1>1, <2>1, Cuts
<1>3. q \in Nat /\ e = q + Len(s) /\ e \in Nat
  BY <1>1
<1> HIDE DEF a, b, e
<1>4. /\ a \o s \in Seq(Tokens) /\ Len(a \o s) = q + Len(s)
      /\ \A i \in 1 .. q : (a \o s)[i] = a[i]
      /\ \A i \in 1 .. Len(s) : (a \o s)[q + i] = s[i]
  <2>1. /\ a \o s \in Seq(Tokens) /\ Len(a \o s) = Len(a) + Len(s)
        /\ \A i \in 1 .. Len(a) : (a \o s)[i] = a[i]
        /\ \A i \in 1 .. Len(s) : (a \o s)[Len(a) + i] = s[i]
    <3>1. a \in Seq(Tokens) /\ s \in Seq(Tokens)
      BY <1>0, <1>2
    <3> QED
      BY ONLY <3>1, PlacesOfTwo
  <2> QED
    BY <2>1, <1>2
<1>5. ASSUME NEW i \in 1 .. e PROVE (a \o s)[i] = b[i]
  <2>1. CASE i <= q
    BY <2>1, <1>2, <1>3, <1>4
  <2>2. CASE i > q
    <3>1. i - q \in 1 .. Len(s) /\ q + (i - q) = i
      BY <2>2, <1>3, <1>0
    <3>2. s[i - q] = t[i]
      BY <3>1 DEF Piece
    <3>3. (a \o s)[q + (i - q)] = s[i - q]
      BY <3>1, <1>4
    <3>4. b[i] = t[i]
      BY <1>2
    <3> QED
      BY <3>1, <3>2, <3>3, <3>4
  <2>3. i <= q \/ i > q
    BY <1>3
  <2> QED
    BY <2>1, <2>2, <2>3
<1>6. a \o s = b
  BY <1>2, <1>3, <1>4, <1>5, SeqEqual
<1> QED
  BY <1>1, <1>2, <1>6 DEF a, b, e, Strings

(* The first line of text t: n tokens, then CR and LF.                     *)
IsLine(t, n) ==
    /\ n \in Nat /\ n + 2 <= Len(t) /\ t[n + 1] = "CR" /\ t[n + 2] = "LF"
    /\ \A j \in 1 .. n : ~(t[j] = "CR" /\ t[j + 1] = "LF")

(* Of which q tokens have been scanned.                                    *)
InLine(separator, t, n, q, matched, line) ==
    \/ /\ matched = 0 /\ q \in 0 .. n
       /\ Stands(separator, line, Upto(t, q))
    \/ /\ matched = 1 /\ q \in 1 .. n + 1 /\ t[q] = "CR"
       /\ Stands(separator, line, Upto(t, q - 1))
    \/ /\ matched = 2 /\ q = n + 2
       /\ Stands(separator, line, Upto(t, n))

Scanned(separator, t, n, end) ==
    {at \in [matched : 0 .. 2, line : Seq(Strings), rest : Strings] :
        \E q \in 0 .. Len(t) : /\ InLine(separator, t, n, q, at.matched, at.line)
                               /\ Piece(t, q, at.rest) /\ q + Len(at.rest) = end}

ToScan(at) ==
    IF at.matched = 2 \/ at.rest = <<>> THEN 0 ELSE 2 * Len(at.rest) + at.matched

LEMMA IsScanned ==
    ASSUME NEW separator, NEW t \in Strings, NEW n, IsLine(t, n), NEW q,
           NEW matched, NEW line, InLine(separator, t, n, q, matched, line),
           NEW rest \in Strings, Piece(t, q, rest)
    PROVE  [matched |-> matched, line |-> line, rest |-> rest]
               \in Scanned(separator, t, n, q + Len(rest))
<1>0. Len(t) \in Nat /\ Len(rest) \in Nat /\ t \in Seq(Tokens)
  BY DEF Strings
<1>1. n \in Nat /\ n + 2 <= Len(t) /\ q \in 0 .. Len(t) /\ matched \in 0 .. 2
  BY <1>0 DEF IsLine, InLine, Piece
<1>2. \A k \in 0 .. Len(t) : Upto(t, k) \in Strings
  BY <1>0, Cuts DEF Strings
<1>3. line \in Seq(Strings)
  <2>1. \E k \in 0 .. Len(t) : Stands(separator, line, Upto(t, k))
    <3>1. CASE matched = 0
      BY <3>1, <1>1 DEF InLine
    <3>2. CASE matched = 1
      <4>1. q - 1 \in 0 .. Len(t)
        BY <3>2, <1>0, <1>1 DEF InLine
      <4> QED
        BY <4>1, <3>2 DEF InLine
    <3>3. CASE matched = 2
      <4>1. n \in 0 .. Len(t)
        BY <1>0, <1>1
      <4> QED
        BY <4>1, <3>3 DEF InLine
    <3> QED
      BY <3>1, <3>2, <3>3, <1>1
  <2> QED
    BY <1>2, <2>1, StandsType
<1> QED
  BY <1>1, <1>3 DEF Scanned

LEMMA TurnScans ==
    ASSUME NEW separator, NEW t \in Strings, NEW n, IsLine(t, n), NEW end,
           NEW at \in Scanned(separator, t, n, end)
    PROVE  /\ ScanTurn(separator, at) \in Scanned(separator, t, n, end)
           /\ ToScan(at) \in Nat
           /\ ToScan(at) = 0 => ScanTurn(separator, at) = at
           /\ ToScan(at) # 0 => ToScan(ScanTurn(separator, at)) < ToScan(at)
<1> DEFINE rest == at.rest
           next == ScanTurn(separator, at)
           k == Find(rest, "CR")
<1>1. PICK q \in 0 .. Len(t) : /\ InLine(separator, t, n, q, at.matched, at.line)
                               /\ Piece(t, q, rest) /\ q + Len(rest) = end
  BY DEF Scanned
<1>2. /\ at \in [matched : 0 .. 2, line : Seq(Strings), rest : Strings]
      /\ rest \in Strings /\ Len(rest) \in Nat /\ Len(t) \in Nat /\ t \in Seq(Tokens)
      /\ at.matched \in 0 .. 2
  BY DEF Scanned, Strings
<1>3. n \in Nat /\ n + 2 <= Len(t) /\ t[n + 1] = "CR" /\ t[n + 2] = "LF"
  BY DEF IsLine
<1>4. k \in 0 .. Len(rest)
  BY <1>2, Found
<1>5. next = IF at.matched = 2 \/ rest = <<>> THEN at
             ELSE IF at.matched = 0 /\ k = 0
             THEN [matched |-> 0, line |-> ReadAll(separator, at.line, rest), rest |-> <<>>]
             ELSE IF at.matched = 0
             THEN [matched |-> 1, line |-> ReadAll(separator, at.line, Upto(rest, k - 1)),
                   rest |-> From(rest, k + 1)]
             ELSE IF rest[1] = "LF"
             THEN [matched |-> 2, line |-> at.line, rest |-> From(rest, 2)]
             ELSE [matched |-> 0, line |-> ReadAll(separator, at.line, Upto(CRLF, 1)),
                   rest |-> rest]
  BY DEF ScanTurn, CRLF
<1>6. at = [matched |-> at.matched, line |-> at.line, rest |-> rest]
  BY <1>2
<1> HIDE DEF next, k, rest
<1>7. ToScan(at) \in Nat
  BY <1>2 DEF ToScan, rest
<1>8. rest # <<>> => Len(rest) >= 1
  BY <1>2, EmptySeq DEF Strings
<1>9. Piece(t, q, rest) /\ q \in Nat /\ q + Len(rest) <= Len(t)
      /\ \A i \in 1 .. Len(rest) : rest[i] = t[q + i]
  BY <1>1 DEF Piece
<1>10. CASE at.matched = 2 \/ rest = <<>>
  <2>1. ToScan(at) = 0 /\ next = at
    BY <1>10, <1>5 DEF ToScan, rest
  <2> QED
    BY <2>1, <1>7 DEF next
<1>11. CASE at.matched = 0 /\ k = 0 /\ rest # <<>>
  <2> DEFINE line == ReadAll(separator, at.line, rest)
  <2>1. q \in 0 .. n /\ Stands(separator, at.line, Upto(t, q))
    BY <1>1, <1>11 DEF InLine
  <2>2. next = [matched |-> 0, line |-> line, rest |-> <<>>]
    BY <1>5, <1>11
  <2>3. Upto(t, q) \in Strings /\ Upto(t, q) \o rest = Upto(t, q + Len(rest))
    BY <1>2, <1>9, UptoOn
  <2>4. Stands(separator, line, Upto(t, end))
    BY <1>1, <1>2, <2>1, <2>3, ReadAllOn
  <2>5. \A i \in 1 .. Len(rest) : rest[i] # "CR"
    BY <1>2, <1>11, Found DEF k
  <2>6. end \in 0 .. n
    <3>1. CASE end >= n + 1
      <4>1. n + 1 - q \in 1 .. Len(rest) /\ q + (n + 1 - q) = n + 1
        BY <3>1, <2>1, <1>1, <1>2, <1>3
      <4> QED
        BY <4>1, <1>3, <1>9, <2>5
    <3>2. end \in Nat
      BY <1>1, <1>2
    <3> QED
      BY <3>1, <3>2, <1>3
  <2> HIDE DEF line
  <2>7. InLine(separator, t, n, end, 0, line)
    BY <2>4, <2>6 DEF InLine
  <2>8. <<>> \in Strings /\ Piece(t, end, <<>>) /\ end + Len(<<>>) = end
    BY <2>6, <1>2, <1>3 DEF Piece, Strings
  <2>9. next \in Scanned(separator, t, n, end)
    BY <2>2, <2>7, <2>8, IsScanned
  <2>10. ToScan(next) = 0
    BY <2>2 DEF ToScan
  <2>11. ToScan(at) # 0 /\ ToScan(at) > 0
    BY <1>11, <1>2, <1>8 DEF ToScan, rest
  <2> QED
    BY <2>9, <2>10, <2>11, <1>7 DEF next
<1>12. CASE at.matched = 0 /\ k # 0 /\ rest # <<>>
  <2> DEFINE u == Upto(rest, k - 1)
             v == From(rest, k + 1)
             line == ReadAll(separator, at.line, u)
  <2>1. q \in 0 .. n /\ Stands(separator, at.line, Upto(t, q))
    BY <1>1, <1>12 DEF InLine
  <2>2. next = [matched |-> 1, line |-> line, rest |-> v]
    BY <1>5, <1>12
  <2>3. rest[k] = "CR" /\ \A i \in 1 .. k - 1 : rest[i] # "CR"
    BY <1>2, <1>12, Found DEF k
  <2>4. k - 1 \in 0 .. Len(rest) /\ k \in 0 .. Len(rest) /\ k \in 1 .. Len(rest)
    BY <1>2, <1>4, <1>12
  <2>5. u \in Strings /\ Len(u) = k - 1 /\ Piece(t, q, u)
    BY <2>4, <1>2, <1>9, PiecesOf
  <2>6. v \in Strings /\ Len(v) = Len(rest) - k /\ Piece(t, q + k, v)
    BY <2>4, <1>2, <1>9, PiecesOf
  <2> HIDE DEF u, v
  <2>7. Upto(t, q) \in Strings /\ Upto(t, q) \o u = Upto(t, q + (k - 1))
    BY <2>5, <1>2, UptoOn
  <2>8. Stands(separator, line, Upto(t, q + (k - 1)))
    BY <2>1, <2>5, <2>7, ReadAllOn
  <2> HIDE DEF line
  <2>9. q + k \in 1 .. n + 1
    <3>1. CASE q + k > n + 1
      <4>1. n + 1 - q \in 1 .. k - 1 /\ q + (n + 1 - q) = n + 1 /\ n + 1 - q \in 1 .. Len(rest)
        BY <3>1, <2>1, <2>4, <1>2, <1>3
      <4> QED
        BY <4>1, <2>3, <1>3, <1>9
    <3> QED
      BY <3>1, <2>1, <2>4, <1>3
  <2>10. t[q + k] = "CR" /\ q + k - 1 = q + (k - 1)
    BY <2>1, <2>3, <2>4, <1>9
  <2>11. InLine(separator, t, n, q + k, 1, line)
    <3> DEFINE p == q + k
    <3>1. p \in 1 .. n + 1 /\ t[p] = "CR" /\ p - 1 = q + (k - 1)
      BY <2>1, <2>4, <2>9, <2>10
    <3> HIDE DEF p
    <3>2. Stands(separator, line, Upto(t, p - 1))
      BY <2>8, <3>1
    <3>3. InLine(separator, t, n, p, 1, line)
      BY <3>1, <3>2 DEF InLine
    <3> QED
      BY <3>3 DEF p
  <2>12. (q + k) + Len(v) = end
    BY <2>1, <2>4, <2>6, <1>1, <1>2
  <2>13. next \in Scanned(separator, t, n, end)
    BY <2>2, <2>6, <2>11, <2>12, IsScanned
  <2>14. ToScan(next) < ToScan(at) /\ ToScan(at) # 0
    <3>1. ToScan(at) = 2 * Len(rest)
      BY <1>12, <1>2 DEF ToScan, rest
    <3>2. ToScan(next) <= 2 * Len(v) + 1
      <4>1. Len(v) \in Nat
        BY <2>6 DEF Strings
      <4> QED
        BY <2>2, <4>1 DEF ToScan
    <3>3. ToScan(next) \in Int
      <4>1. Len(v) \in Nat
        BY <2>6 DEF Strings
      <4> QED
        BY <2>2, <4>1 DEF ToScan
    <3> QED
      BY <3>1, <3>2, <3>3, <2>4, <2>6, <1>2
  <2> QED
    BY <2>13, <2>14, <1>7 DEF next
<1>13. CASE at.matched = 1 /\ rest # <<>>
  <2>1. q \in 1 .. n + 1 /\ t[q] = "CR" /\ Stands(separator, at.line, Upto(t, q - 1))
    BY <1>1, <1>13 DEF InLine
  <2>2. 1 \in 1 .. Len(rest) /\ rest[1] = t[q + 1]
    BY <1>2, <1>8, <1>9, <1>13
  <2>3. ToScan(at) = 2 * Len(rest) + 1
    BY <1>13, <1>2 DEF ToScan, rest
  <2>4. CASE rest[1] = "LF"
    <3> DEFINE v == From(rest, 2)
    <3>1. next = [matched |-> 2, line |-> at.line, rest |-> v]
      BY <1>5, <1>13, <2>4
    <3>2. q = n + 1
      <4>1. CASE q \in 1 .. n
        BY <4>1, <2>1, <2>2, <2>4 DEF IsLine
      <4> QED
        BY <4>1, <2>1, <1>3
    <3>3. 1 \in 0 .. Len(rest) /\ 1 + 1 = 2
      BY <1>2, <2>2
    <3>4. v \in Strings /\ Len(v) = Len(rest) - 1 /\ Piece(t, q + 1, v)
      BY <3>3, <1>2, <1>9, PiecesOf
    <3> HIDE DEF v
    <3>5. q + 1 = n + 2 /\ q - 1 = n
      BY <3>2, <1>3
    <3>6. InLine(separator, t, n, q + 1, 2, at.line)
      BY <2>1, <3>5 DEF InLine
    <3>7. (q + 1) + Len(v) = end
      BY <3>4, <1>1, <1>2
    <3>8. next \in Scanned(separator, t, n, end)
      BY <3>1, <3>4, <3>6, <3>7, IsScanned
    <3>9. ToScan(next) = 0
      BY <3>1 DEF ToScan
    <3>10. ToScan(at) # 0 /\ 0 < ToScan(at)
      BY <2>3, <1>2, <2>2
    <3> QED
      BY <3>8, <3>9, <3>10, <1>7 DEF next
  <2>5. CASE rest[1] # "LF"
    <3> DEFINE c == Upto(CRLF, 1)
               line == ReadAll(separator, at.line, c)
    <3>1. next = [matched |-> 0, line |-> line, rest |-> rest]
      BY <1>5, <1>13, <2>5
    <3>2. q \in 1 .. n
      <4>1. CASE q = n + 1
        <5>1. q + 1 = n + 2
          BY <4>1, <1>3
        <5> QED
          BY <5>1, <2>2, <2>5, <1>3
      <4> QED
        BY <4>1, <2>1, <1>3
    <3>3. c \in Strings /\ Len(c) = 1 /\ c[1] = "CR"
      <4>1. CRLF \in Seq(Tokens) /\ Len(CRLF) = 2 /\ CRLF[1] = "CR"
        BY TokenStrings DEF CRLF, Strings
      <4>2. 1 \in 0 .. Len(CRLF) /\ 1 \in 1 .. 1
        BY <4>1
      <4> QED
        BY <4>1, <4>2, Cuts DEF Strings
    <3> HIDE DEF c
    <3>4. Piece(t, q - 1, c)
      BY <2>1, <3>2, <3>3, <1>2, <1>3 DEF Piece
    <3>5. Upto(t, q - 1) \in Strings /\ Upto(t, q - 1) \o c = Upto(t, (q - 1) + 1)
      BY <3>3, <3>4, UptoOn
    <3>6. (q - 1) + 1 = q
      BY <3>2
    <3>7. Stands(separator, line, Upto(t, q))
      BY <2>1, <3>3, <3>5, <3>6, ReadAllOn
    <3> HIDE DEF line
    <3>8. InLine(separator, t, n, q, 0, line)
      BY <3>2, <3>7, <1>3 DEF InLine
    <3>9. next \in Scanned(separator, t, n, end)
      BY <3>1, <3>8, <1>1, <1>2, IsScanned
    <3>10. ToScan(next) = 2 * Len(rest)
      BY <3>1, <1>13, <1>2 DEF ToScan
    <3> QED
      BY <3>9, <3>10, <2>3, <1>2, <1>7 DEF next
  <2> QED
    BY <2>4, <2>5
<1> QED
  BY <1>2, <1>10, <1>11, <1>12, <1>13

(* A loop of n turns that each come nearer to the end of it, until they    *)
(* are there, ends.                                                        *)
IsLoop(f, n, S, first, turn) ==
    f[0] = first /\ \A i \in 1 .. n : f[i - 1] \in S => f[i] = turn[f[i - 1]]

Nears(S, turn, left) ==
    \A x \in S : /\ left[x] = 0 => left[turn[x]] = 0
                 /\ left[x] # 0 => left[turn[x]] < left[x]

IsLoopFrom(f, n, S, first, turn) ==
    f \in [0 .. n -> S] /\ f[0] = first /\ \A i \in 1 .. n : f[i] = turn[f[i - 1]]

LEMMA LoopEnds ==
    ASSUME NEW n \in Nat, NEW S, NEW first \in S, NEW turn \in [S -> S],
           NEW left \in [S -> Nat], left[first] <= n, Nears(S, turn, left)
    PROVE  /\ \E f : IsLoopFrom(f, n, S, first, turn)
           /\ \A f : IsLoop(f, n, S, first, turn) => f[n] \in S /\ left[f[n]] = 0
<1> DEFINE step == [i \in 1 .. n |-> turn]
<1>1. step \in [1 .. n -> [S -> S]] /\ \A i \in 1 .. n : step[i] = turn
  OBVIOUS
<1> HIDE DEF step
<1>2. \E f : IsLoopFrom(f, n, S, first, turn)
  <2>1. PICK f : Recursion(f, n, S, first, step)
    BY <1>1, RecursionOnNat
  <2>2. f \in [0 .. n -> S] /\ f[0] = first /\ \A i \in 1 .. n : f[i] = turn[f[i - 1]]
    BY <2>1, <1>1 DEF Recursion
  <2> QED
    BY <2>2 DEF IsLoopFrom
<1>3. ASSUME NEW f, IsLoop(f, n, S, first, turn) PROVE f[n] \in S /\ left[f[n]] = 0
  <2> DEFINE T == {m \in Nat : m <= n => f[m] \in S /\ (left[f[m]] = 0 \/ left[f[m]] <= n - m)}
  <2>1. 0 \in T
    BY <1>3 DEF IsLoop
  <2>2. ASSUME NEW m \in T PROVE m + 1 \in T
    <3>1. m \in Nat
      OBVIOUS
    <3>2. CASE m + 1 > n
      BY <3>1, <3>2
    <3>3. CASE m + 1 <= n
      <4>1. f[m] \in S /\ (left[f[m]] = 0 \/ left[f[m]] <= n - m)
        BY <3>1, <3>3
      <4>2. m + 1 \in 1 .. n /\ (m + 1) - 1 = m
        BY <3>1, <3>3
      <4>3. f[m + 1] = turn[f[m]]
        BY <4>1, <4>2, <1>3 DEF IsLoop
      <4>4. f[m + 1] \in S /\ left[f[m + 1]] \in Nat /\ left[f[m]] \in Nat
        BY <4>1, <4>3
      <4>5. left[f[m + 1]] = 0 \/ left[f[m + 1]] < left[f[m]]
        BY <4>1, <4>3 DEF Nears
      <4>6. left[f[m + 1]] = 0 \/ left[f[m + 1]] <= n - (m + 1)
        BY <3>1, <4>1, <4>4, <4>5
      <4>7. m + 1 \in Nat
        BY <3>1
      <4> QED
        BY <4>4, <4>6, <4>7
    <3> QED
      BY <3>1, <3>2, <3>3
  <2>3. T \subseteq Nat
    OBVIOUS
  <2> HIDE DEF T
  <2>4. T = Nat
    BY <2>1, <2>2, <2>3, NatSetInduction
  <2>5. f[n] \in S /\ (left[f[n]] = 0 \/ left[f[n]] <= n - n)
    BY <2>4 DEF T
  <2> QED
    BY <2>5
<1> QED
  BY <1>2, <1>3

LEMMA ScanEnds ==
    ASSUME NEW separator, NEW t \in Strings, NEW n, IsLine(t, n), NEW end,
           NEW start \in Scanned(separator, t, n, end)
    PROVE  Scan(separator, start) \in Scanned(separator, t, n, end)
           /\ ToScan(Scan(separator, start)) = 0
<1> DEFINE S == Scanned(separator, t, n, end)
           turns == 2 * Len(start.rest) + 1
           turn == [at \in S |-> ScanTurn(separator, at)]
           left == [at \in S |-> ToScan(at)]
           IsAfter(f) == f = [i \in 0 .. turns |-> IF i = 0 THEN start
                                                   ELSE ScanTurn(separator, f[i - 1])]
           after == CHOOSE f : IsAfter(f)
<1>1. start.rest \in Strings /\ start.matched \in 0 .. 2 /\ Len(start.rest) \in Nat
  BY DEF Scanned, Strings
<1>2. turns \in Nat /\ ToScan(start) <= turns
  BY <1>1 DEF ToScan
<1>3. \A at \in S : /\ ScanTurn(separator, at) \in S /\ ToScan(at) \in Nat
                    /\ ToScan(at) = 0 => ToScan(ScanTurn(separator, at)) = 0
                    /\ ToScan(at) # 0 => ToScan(ScanTurn(separator, at)) < ToScan(at)
  BY TurnScans
<1> HIDE DEF S
<1>4. /\ turn \in [S -> S] /\ left \in [S -> Nat]
      /\ \A at \in S : turn[at] = ScanTurn(separator, at) /\ left[at] = ToScan(at)
  BY <1>3
<1>5. start \in S
  BY DEF S
<1>6. Scan(separator, start) = after[turns]
  BY DEF Scan
<1> HIDE DEF turns, turn, left, after
<1>7. left[start] <= turns /\ Nears(S, turn, left)
  BY <1>2, <1>3, <1>4, <1>5 DEF Nears
<1>8. /\ \E f : IsLoopFrom(f, turns, S, start, turn)
      /\ \A f : IsLoop(f, turns, S, start, turn) => f[turns] \in S /\ left[f[turns]] = 0
  <2>1. turn \in [S -> S] /\ left \in [S -> Nat]
    BY <1>4
  <2> QED
    BY ONLY <1>2, <1>5, <1>7, <2>1, LoopEnds
<1>9. PICK f : f \in [0 .. turns -> S] /\ f[0] = start /\ \A i \in 1 .. turns : f[i] = turn[f[i - 1]]
  BY <1>8 DEF IsLoopFrom
<1>10. IsAfter(f)
  <2>1. ASSUME NEW i \in 1 .. turns PROVE f[i] = ScanTurn(separator, f[i - 1])
    <3>1. i - 1 \in 0 .. turns
      BY <1>2
    <3> QED
      BY <3>1, <1>4, <1>9
  <2>2. \A i \in 0 .. turns : i = 0 \/ i \in 1 .. turns
    BY <1>2
  <2>3. \A i \in 0 .. turns : f[i] = IF i = 0 THEN start ELSE ScanTurn(separator, f[i - 1])
    BY <2>1, <2>2, <1>9
  <2> QED
    BY <2>3, <1>9
<1>11. IsAfter(after)
  BY <1>10 DEF after
<1>12. IsLoop(after, turns, S, start, turn)
  <2>1. 0 \in 0 .. turns /\ \A i \in 1 .. turns : i \in 0 .. turns /\ i # 0
    BY <1>2
  <2>2. after[0] = start /\ \A i \in 1 .. turns : after[i] = ScanTurn(separator, after[i - 1])
    BY <2>1, <1>11
  <2> QED
    BY <2>2, <1>4 DEF IsLoop
<1>13. after[turns] \in S /\ left[after[turns]] = 0
  BY <1>8, <1>12
<1> QED
  BY <1>4, <1>6, <1>13 DEF S

(* How scanning ends, after `end` tokens of text and with a remainder.     *)
EndsScan(separator, text, n, end, got) ==
    /\ got.rest \in Strings
    /\ \/ /\ got.matched \in 0 .. 1 /\ got.rest = <<>>
          /\ InLine(separator, text, n, end, got.matched, got.line)
       \/ /\ got.matched = 2 /\ Stands(separator, got.line, Upto(text, n))
          /\ n + 2 + Len(got.rest) = end

(* A call of LineReader::read, wherever the input is cut, ends with the    *)
(* line or with the input.                                                 *)
LEMMA LineScanned ==
    ASSUME NEW separator, NEW t \in Strings, NEW n, IsLine(t, n), NEW q,
           NEW matched \in 0 .. 1, NEW line, InLine(separator, t, n, q, matched, line),
           NEW input \in Strings, Piece(t, q, input), input # <<>>
    PROVE  LET s == Scan(separator, [matched |-> matched, line |-> line, rest |-> input]) IN
           /\ EndsScan(separator, t, n, q + Len(input), s)
           /\ Len(s.rest) < Len(input)
           /\ s.matched = 2 => Piece(t, n + 2, s.rest)
<1> DEFINE start == [matched |-> matched, line |-> line, rest |-> input]
           s == Scan(separator, start)
           end == q + Len(input)
<1>1. start \in Scanned(separator, t, n, end)
  BY IsScanned
<1> HIDE DEF start
<1>2. s \in Scanned(separator, t, n, end) /\ ToScan(s) = 0
  BY <1>1, ScanEnds
<1> HIDE DEF s
<1>3. PICK p \in 0 .. Len(t) : /\ InLine(separator, t, n, p, s.matched, s.line)
                               /\ Piece(t, p, s.rest) /\ p + Len(s.rest) = end
  BY <1>2 DEF Scanned
<1>4. /\ s.matched \in 0 .. 2 /\ s.rest \in Strings /\ Len(s.rest) \in Nat
      /\ Len(input) \in Nat /\ Len(input) >= 1 /\ Len(t) \in Nat
  BY <1>2, EmptySeq DEF Scanned, Strings
<1>5. n \in Nat
  BY DEF IsLine
<1>6. s.matched = 2 \/ s.rest = <<>>
  <2> SUFFICES ASSUME s.matched # 2, s.rest # <<>> PROVE FALSE
    OBVIOUS
  <2>1. ToScan(s) = 2 * Len(s.rest) + s.matched
    BY DEF ToScan
  <2>2. Len(s.rest) >= 1
    BY <1>4, EmptySeq DEF Strings
  <2> QED
    BY <1>2, <1>4, <2>1, <2>2
<1>7. CASE s.matched = 2
  <2>1. p = n + 2 /\ Stands(separator, s.line, Upto(t, n))
    BY <1>3, <1>7 DEF InLine
  <2>2. q \in 0 .. n + 1
    BY <1>5 DEF InLine
  <2>3. Len(s.rest) < Len(input)
    <3> DEFINE a == Len(s.rest)
               b == Len(input)
    <3>1. a \in Nat /\ b \in Nat /\ n + 2 + a = q + b
      BY <1>3, <1>4, <2>1
    <3> HIDE DEF a, b
    <3>2. a < b
      BY ONLY <3>1, <1>5, <2>2
    <3> QED
      BY <3>2 DEF a, b
  <2> QED
    BY <1>3, <1>4, <1>7, <2>1, <2>3 DEF s, start, EndsScan
<1>8. CASE s.matched # 2
  <2>1. s.rest = <<>> /\ s.matched \in 0 .. 1 /\ Len(s.rest) = 0
    BY <1>4, <1>6, <1>8
  <2>2. p = end
    BY <1>3, <2>1
  <2> QED
    BY <1>3, <1>4, <2>1, <2>2 DEF s, start, EndsScan
<1> QED
  BY <1>7, <1>8

(* A line whose text is `text`, and what has been scanned of it, wherever  *)
(* it stands in a stream.                                                  *)
SameLine(separator, t, text, n) ==
    /\ \A k \in 0 .. n + 2 : Upto(t, k) = Upto(text, k)
    /\ \A q, matched, line : InLine(separator, t, n, q, matched, line) <=>
                                 InLine(separator, text, n, q, matched, line)
SamePieces(t, s, base) ==
    \A q \in Nat : \A w \in Strings : Piece(t, q, w) <=> Piece(s, base + q, w)

LEMMA LineInStream ==
    ASSUME NEW separator, NEW text \in Strings, NEW n, IsLine(text, n), Len(text) = n + 2,
           NEW s \in Strings, NEW base, Piece(s, base, text)
    PROVE  LET t == From(s, base + 1) IN
           /\ t \in Strings /\ IsLine(t, n) /\ Len(t) = Len(s) - base
           /\ SameLine(separator, t, text, n) /\ SamePieces(t, s, base)
<1> DEFINE t == From(s, base + 1)
<1>0. /\ Len(s) \in Nat /\ s \in Seq(Tokens) /\ text \in Seq(Tokens) /\ n \in Nat
      /\ base \in Nat /\ base + (n + 2) <= Len(s) /\ base \in 0 .. Len(s)
      /\ \A i \in 1 .. n + 2 : text[i] = s[base + i]
  BY DEF Strings, IsLine, Piece
<1>1. /\ t \in Seq(Tokens) /\ Len(t) = Len(s) - base
      /\ \A i \in 1 .. Len(s) - base : t[i] = s[base + i]
  BY <1>0, Cuts
<1> HIDE DEF t
<1>2. Len(t) \in Nat /\ n + 2 <= Len(t) /\ \A i \in 1 .. n + 2 : t[i] = text[i]
  <2>1. /\ Len(s) \in Nat /\ n \in Nat /\ base \in Nat /\ base + (n + 2) <= Len(s)
        /\ Len(t) = Len(s) - base
    BY <1>0, <1>1
  <2>2. Len(t) \in Nat /\ n + 2 <= Len(t) /\ \A i \in 1 .. n + 2 : i \in 1 .. Len(s) - base
    BY ONLY <2>1
  <2>3. ASSUME NEW i \in 1 .. n + 2 PROVE t[i] = text[i]
    <3>1. t[i] = s[base + i]
      BY <2>2, <1>1
    <3>2. text[i] = s[base + i]
      BY <1>0
    <3> QED
      BY <3>1, <3>2
  <2> QED
    BY <2>2, <2>3
<1>3. ASSUME NEW k \in 0 .. n + 2 PROVE Upto(t, k) = Upto(text, k)
  <2>1. k \in 0 .. Len(t) /\ k \in 0 .. Len(text)
    BY <1>0, <1>2
  <2>2. /\ Upto(t, k) \in Seq(Tokens) /\ Len(Upto(t, k)) = k
        /\ \A i \in 1 .. k : Upto(t, k)[i] = t[i]
    BY <2>1, <1>1, Cuts
  <2>3. /\ Upto(text, k) \in Seq(Tokens) /\ Len(Upto(text, k)) = k
        /\ \A i \in 1 .. k : Upto(text, k)[i] = text[i]
    BY <2>1, <1>0, Cuts
  <2>4. \A i \in 1 .. k : t[i] = text[i]
    BY <1>0, <1>2
  <2>5. \A i \in 1 .. k : Upto(t, k)[i] = Upto(text, k)[i]
    BY <2>2, <2>3, <2>4
  <2> QED
    BY <2>2, <2>3, <2>5, SeqEqual
<1>4. IsLine(t, n)
  <2>1. text[n + 1] = "CR" /\ text[n + 2] = "LF" /\ \A j \in 1 .. n : ~(text[j] = "CR" /\ text[j + 1] = "LF")
    BY DEF IsLine
  <2>2. n + 1 \in 1 .. n + 2 /\ n + 2 \in 1 .. n + 2
        /\ \A j \in 1 .. n : j \in 1 .. n + 2 /\ j + 1 \in 1 .. n + 2
    BY <1>0
  <2>3. \A j \in 1 .. n : ~(t[j] = "CR" /\ t[j + 1] = "LF")
    BY <1>2, <2>1, <2>2
  <2> QED
    BY <1>0, <1>2, <2>1, <2>2, <2>3 DEF IsLine
<1>5. ASSUME NEW q, NEW matched, NEW line
      PROVE  InLine(separator, t, n, q, matched, line) <=>
                 InLine(separator, text, n, q, matched, line)
  <2>1. q \in 0 .. n => Upto(t, q) = Upto(text, q)
    BY <1>0, <1>3
  <2>2. q \in 1 .. n + 1 => Upto(t, q - 1) = Upto(text, q - 1) /\ t[q] = text[q]
    BY <1>0, <1>2, <1>3
  <2>3. Upto(t, n) = Upto(text, n)
    BY <1>0, <1>3
  <2> QED
    BY <2>1, <2>2, <2>3 DEF InLine
<1>6. ASSUME NEW q \in Nat, NEW w \in Strings PROVE Piece(t, q, w) <=> Piece(s, base + q, w)
  <2> DEFINE l == Len(w)
  <2>1. l \in Nat
    BY DEF Strings
  <2>2. ASSUME q + l <= Len(t), NEW i \in 1 .. l PROVE t[q + i] = s[base + q + i]
    <3>1. q + i \in 1 .. Len(s) - base /\ base + (q + i) = base + q + i
      BY <2>1, <2>2, <1>0, <1>1
    <3> QED
      BY <3>1, <1>1
  <2> QED
    BY <2>1, <2>2, <1>0, <1>1 DEF Piece
<1> QED
  BY <1>0, <1>1, <1>3, <1>4, <1>5, <1>6 DEF t, Strings, SameLine, SamePieces

LEMMA LineScannedAt ==
    ASSUME NEW separator, NEW text \in Strings, NEW n, IsLine(text, n), Len(text) = n + 2,
           NEW s \in Strings, NEW base, Piece(s, base, text), NEW q,
           NEW matched \in 0 .. 1, NEW line, InLine(separator, text, n, q, matched, line),
           NEW input \in Strings, Piece(s, base + q, input), input # <<>>
    PROVE  LET got == Scan(separator, [matched |-> matched, line |-> line, rest |-> input]) IN
           /\ EndsScan(separator, text, n, q + Len(input), got)
           /\ Len(got.rest) < Len(input)
           /\ got.matched = 2 => Piece(s, base + (n + 2), got.rest)
<1> DEFINE t == From(s, base + 1)
           got == Scan(separator, [matched |-> matched, line |-> line, rest |-> input])
<1>1. t \in Strings /\ IsLine(t, n) /\ SameLine(separator, t, text, n) /\ SamePieces(t, s, base)
  BY LineInStream
<1> HIDE DEF t
<1>2. n \in Nat
  BY DEF IsLine
<1>3. q \in Nat
  BY <1>2 DEF InLine
<1>4. InLine(separator, t, n, q, matched, line) /\ Piece(t, q, input)
  BY <1>1, <1>3 DEF SameLine, SamePieces
<1>5. /\ EndsScan(separator, t, n, q + Len(input), got)
      /\ Len(got.rest) < Len(input)
      /\ got.matched = 2 => Piece(t, n + 2, got.rest)
  BY <1>1, <1>4, LineScanned
<1> HIDE DEF got
<1>6. n \in 0 .. n + 2 /\ n + 2 \in Nat
  BY <1>2
<1>7. EndsScan(separator, text, n, q + Len(input), got)
  BY <1>1, <1>5, <1>6 DEF EndsScan, SameLine
<1>8. got.matched = 2 => Piece(s, base + (n + 2), got.rest)
  BY <1>1, <1>5, <1>6 DEF EndsScan, SamePieces
<1> QED
  BY <1>5, <1>7, <1>8 DEF got

(* A reader that has its line reads no more of it.                         *)
LEMMA ScanStays ==
    ASSUME NEW separator, NEW line, NEW rest \in Strings
    PROVE  LET start == [matched |-> 2, line |-> line, rest |-> rest] IN
           Scan(separator, start) = start
<1> DEFINE start == [matched |-> 2, line |-> line, rest |-> rest]
           S == {start}
           turns == 2 * Len(start.rest) + 1
           turn == [at \in S |-> at]
           left == [at \in S |-> 0]
           IsAfter(f) == f = [i \in 0 .. turns |-> IF i = 0 THEN start
                                                   ELSE ScanTurn(separator, f[i - 1])]
           after == CHOOSE f : IsAfter(f)
           f0 == [i \in 0 .. turns |-> start]
<1>1. turns \in Nat
  BY DEF Strings
<1>2. ScanTurn(separator, start) = start
  BY DEF ScanTurn, CRLF
<1>3. Scan(separator, start) = after[turns]
  BY DEF Scan
<1> HIDE DEF start, turns
<1>4. IsAfter(f0)
  <2>1. \A i \in 0 .. turns : i - 1 \in 0 .. turns \/ i = 0
    BY <1>1
  <2>2. \A i \in 0 .. turns : f0[i] = IF i = 0 THEN start ELSE ScanTurn(separator, f0[i - 1])
    BY <2>1, <1>2
  <2> QED
    BY <2>2
<1>5. IsAfter(after)
  BY <1>4
<1> HIDE DEF after, f0
<1>6. turn \in [S -> S] /\ left \in [S -> Nat] /\ start \in S /\ left[start] <= turns
  BY <1>1
<1>7. Nears(S, turn, left)
  BY DEF Nears
<1>8. IsLoop(after, turns, S, start, turn)
  <2>1. 0 \in 0 .. turns /\ \A i \in 1 .. turns : i \in 0 .. turns /\ i # 0
    BY <1>1
  <2>2. after[0] = start /\ \A i \in 1 .. turns : after[i] = ScanTurn(separator, after[i - 1])
    BY <2>1, <1>5
  <2> QED
    BY <2>2, <1>2 DEF IsLoop
<1> HIDE DEF turn, left
<1>9. after[turns] \in S
  BY <1>1, <1>6, <1>7, <1>8, LoopEnds
<1> QED
  BY <1>3, <1>9 DEF start

(* The headers read, and the readers of them.                              *)
HeadsSet == [length : SUBSET (0 .. 2), kept : [1 .. 6 -> Strings]]
HeaderReaders ==
    [matched : 0 .. 2, line : Seq(Strings), headers : HeadsSet, finished : BOOLEAN,
     failed : BOOLEAN]

LEMMA HeaderReplaced ==
    ASSUME NEW h \in HeaderReaders
    PROVE  /\ \A x \in 0 .. 2 : \A y \in Seq(Strings) :
                  LET g == [h EXCEPT !.matched = x, !.line = y] IN
                  /\ g \in HeaderReaders /\ g.matched = x /\ g.line = y
                  /\ g.headers = h.headers /\ g.finished = h.finished /\ g.failed = h.failed
           /\ LET g == [h EXCEPT !.finished = TRUE] IN
              /\ g \in HeaderReaders /\ g.matched = h.matched /\ g.line = h.line
              /\ g.headers = h.headers /\ g.finished /\ g.failed = h.failed
           /\ \A x \in SUBSET (0 .. 2) :
                  LET g == [h EXCEPT !.headers.length = x] IN
                  /\ g \in HeaderReaders /\ g.matched = h.matched /\ g.line = h.line
                  /\ g.headers.length = x /\ g.headers.kept = h.headers.kept
                  /\ g.finished = h.finished /\ g.failed = h.failed
           /\ \A x \in [1 .. 6 -> Strings] :
                  LET g == [h EXCEPT !.headers.kept = x] IN
                  /\ g \in HeaderReaders /\ g.matched = h.matched /\ g.line = h.line
                  /\ g.headers.kept = x /\ g.headers.length = h.headers.length
                  /\ g.finished = h.finished /\ g.failed = h.failed
<1> USE DEF HeaderReaders, HeadsSet
<1>1. ASSUME NEW x \in 0 .. 2, NEW y \in Seq(Strings)
      PROVE  LET g == [h EXCEPT !.matched = x, !.line = y] IN
             /\ g \in HeaderReaders /\ g.matched = x /\ g.line = y
             /\ g.headers = h.headers /\ g.finished = h.finished /\ g.failed = h.failed
  OBVIOUS
<1>2. LET g == [h EXCEPT !.finished = TRUE] IN
      /\ g \in HeaderReaders /\ g.matched = h.matched /\ g.line = h.line
      /\ g.headers = h.headers /\ g.finished /\ g.failed = h.failed
  OBVIOUS
<1>3. ASSUME NEW x \in SUBSET (0 .. 2)
      PROVE  LET g == [h EXCEPT !.headers.length = x] IN
             /\ g \in HeaderReaders /\ g.matched = h.matched /\ g.line = h.line
             /\ g.headers.length = x /\ g.headers.kept = h.headers.kept
             /\ g.finished = h.finished /\ g.failed = h.failed
  OBVIOUS
<1>4. ASSUME NEW x \in [1 .. 6 -> Strings]
      PROVE  LET g == [h EXCEPT !.headers.kept = x] IN
             /\ g \in HeaderReaders /\ g.matched = h.matched /\ g.line = h.line
             /\ g.headers.kept = x /\ g.headers.length = h.headers.length
             /\ g.finished = h.finished /\ g.failed = h.failed
  OBVIOUS
<1> QED
  BY <1>1, <1>2, <1>3, <1>4

LEMMA KeptNames ==
    /\ DOMAIN Kept = 1 .. 6
    /\ \A i \in 1 .. 6 : /\ Kept[i] \in Tokens /\ Kept[i] \notin {"Content-Length", ":", "CR"}
                         /\ \A j \in 1 .. 6 : Kept[i] = Kept[j] => i = j
<1>1. DOMAIN Kept = 1 .. 6
  BY DEF Kept
<1>2. /\ Kept[1] = "Host" /\ Kept[2] = "Connection" /\ Kept[3] = "Upgrade" /\ Kept[4] = "Origin"
      /\ Kept[5] = "Sec-WebSocket-Key" /\ Kept[6] = "Sec-WebSocket-Accept"
  BY DEF Kept
<1>3. \A i \in 1 .. 6 : i = 1 \/ i = 2 \/ i = 3 \/ i = 4 \/ i = 5 \/ i = 6
  OBVIOUS
<1>4. ASSUME NEW i \in 1 .. 6
      PROVE  Kept[i] \in Tokens /\ Kept[i] \notin {"Content-Length", ":", "CR"}
  BY <1>2, <1>3 DEF Tokens
<1>5. ASSUME NEW i \in 1 .. 6, NEW j \in 1 .. 6, Kept[i] = Kept[j] PROVE i = j
  BY <1>2, <1>3, <1>5
<1> QED
  BY <1>1, <1>4, <1>5

LEMMA DigitTexts ==
    ASSUME NEW n \in 0 .. 2
    PROVE  \E d \in {"0", "1", "2"} : Digit(n) = <<d>> /\ Number[d] = n /\ d \in DOMAIN Number
<1>1. DOMAIN Number = {"0", "1", "2"} /\ Number["0"] = 0 /\ Number["1"] = 1 /\ Number["2"] = 2
  BY DEF Number
<1>2. \E d \in DOMAIN Number : Number[d] = n
  BY <1>1
<1> DEFINE e == CHOOSE d \in DOMAIN Number : Number[d] = n
<1>3. e \in DOMAIN Number /\ Number[e] = n
  BY <1>2
<1>4. Digit(n) = <<e>>
  BY DEF Digit
<1> QED
  BY <1>1, <1>3, <1>4

(* A value is clean when neither blanks at its ends nor an end of line     *)
(* inside it would be taken for something else.                            *)
Clean(v) ==
    /\ v \in Strings
    /\ v # <<>> => v[1] \notin Blank /\ v[Len(v)] \notin Blank
    /\ \A j \in 1 .. Len(v) : j < Len(v) => ~(v[j] = "CR" /\ v[j + 1] = "LF")

StartOf(m) == Spacing(m.start[1], m.start[2], m.start[3])

(* Messages that the grammar of http_writer.cc has a text for.             *)
WellFormed(m) ==
    /\ m \in [start : Seq(Strings), headers : HeadsSet, body : Strings]
    /\ Len(m.start) = 3 /\ OneWord(m.start[1]) /\ OneWord(m.start[2])
    /\ IsLine(StartOf(m) \o CRLF, Len(StartOf(m)))
    /\ m.headers.length = {} \/ \E n \in 0 .. 2 : m.headers.length = {n}
    /\ \A i \in 1 .. 6 : Clean(m.headers.kept[i])

(* The lines of the headers: Content-Length, those of Kept, and the empty  *)
(* one at the end.                                                         *)
NameOf(i) == IF i = 0 THEN "Content-Length" ELSE Kept[i]
KeptValue(m, i) == IF i = 0 THEN ContentLength(m) ELSE m.headers.kept[i]
Present(m, i) == i = 7 \/ KeptValue(m, i) # <<>>
LineOf(m, i) == IF i = 7 THEN <<>> ELSE Headed(NameOf(i), KeptValue(m, i))

LEMMA ValuesAreClean ==
    ASSUME NEW m, WellFormed(m), NEW i \in 0 .. 6
    PROVE  /\ Clean(KeptValue(m, i)) /\ KeptValue(m, i) \in Strings
           /\ NameOf(i) \in Tokens /\ NameOf(i) \notin {":", "CR"}
<1>1. CASE i = 0
  <2>1. NameOf(i) = "Content-Length" /\ KeptValue(m, i) = ContentLength(m)
    BY <1>1 DEF NameOf, KeptValue
  <2>2. "Content-Length" \in Tokens
    BY DEF Tokens
  <2>3. CASE m.headers.length = {}
    <3>1. ContentLength(m) = <<>>
      BY <2>3 DEF ContentLength
    <3>2. Clean(<<>>) /\ <<>> \in Strings
      BY StringAlgebra DEF Clean
    <3> QED
      BY <2>1, <2>2, <3>1, <3>2
  <2>4. CASE m.headers.length # {}
    <3>1. PICK n \in 0 .. 2 : m.headers.length = {n}
      BY <2>4 DEF WellFormed
    <3>2. ContentLength(m) = Digit(n)
      BY <3>1 DEF ContentLength
    <3>3. PICK d \in {"0", "1", "2"} : Digit(n) = <<d>>
      BY DigitTexts
    <3>4. d \in Tokens /\ d \notin Blank
      BY DEF Tokens, Blank
    <3>5. <<d>> \in Strings /\ Len(<<d>>) = 1 /\ <<d>>[1] = d
      BY <3>4, StringAlgebra
    <3>6. Clean(<<d>>)
      BY <3>4, <3>5 DEF Clean
    <3> QED
      BY <2>1, <2>2, <3>2, <3>3, <3>5, <3>6
  <2> QED
    BY <2>3, <2>4
<1>2. CASE i # 0
  <2>1. i \in 1 .. 6 /\ NameOf(i) = Kept[i] /\ KeptValue(m, i) = m.headers.kept[i]
    BY <1>2 DEF NameOf, KeptValue
  <2>2. Clean(m.headers.kept[i])
    BY <2>1 DEF WellFormed
  <2>3. Kept[i] \in Tokens /\ Kept[i] \notin {"Content-Length", ":", "CR"}
    BY <2>1, KeptNames
  <2> QED
    BY <2>1, <2>2, <2>3 DEF Clean
<1> QED
  BY <1>1, <1>2

(* A line's end, after it.                                                 *)
LEMMA LineEnds ==
    ASSUME NEW line \in Strings
    PROVE  /\ line \o CRLF \in Strings /\ Len(line) \in Nat /\ Len(line \o CRLF) = Len(line) + 2
           /\ \A i \in 1 .. Len(line) : (line \o CRLF)[i] = line[i]
           /\ (line \o CRLF)[Len(line) + 1] = "CR" /\ (line \o CRLF)[Len(line) + 2] = "LF"
           /\ Upto(line \o CRLF, Len(line)) = line
<1> DEFINE t == Cat(line, CRLF)
<1>1. CRLF \in Seq(Tokens) /\ Len(CRLF) = 2 /\ CRLF[1] = "CR" /\ CRLF[2] = "LF"
  BY TokenStrings DEF CRLF, Strings
<1>2. line \in Seq(Tokens) /\ Len(line) \in Nat
  BY DEF Strings
<1>3. /\ t \in Seq(Tokens) /\ Len(t) = Len(line) + 2
      /\ \A i \in 1 .. Len(line) : t[i] = line[i]
      /\ \A i \in 1 .. 2 : t[Len(line) + i] = CRLF[i]
  <2>1. t \in Seq(Tokens) /\ IsCat(t, line, CRLF)
    BY <1>1, <1>2, CatPlaces
  <2> HIDE DEF t
  <2> QED
    BY <2>1, <1>1 DEF IsCat
<1> HIDE DEF t
<1>4. t[Len(line) + 1] = "CR" /\ t[Len(line) + 2] = "LF"
  BY <1>1, <1>3
<1>5. Upto(t, Len(line)) = line
  <2>1. Len(line) \in 0 .. Len(t)
    BY <1>2, <1>3
  <2>2. /\ Upto(t, Len(line)) \in Seq(Tokens) /\ Len(Upto(t, Len(line))) = Len(line)
        /\ \A i \in 1 .. Len(line) : Upto(t, Len(line))[i] = t[i]
    <3>1. t \in Seq(Tokens)
      BY <1>3
    <3> QED
      BY ONLY <2>1, <3>1, Cuts
  <2>3. \A i \in 1 .. Len(line) : Upto(t, Len(line))[i] = line[i]
    BY <2>2, <1>3
  <2> QED
    BY <2>2, <2>3, <1>2, SeqEqual
<1> QED
  BY <1>2, <1>3, <1>4, <1>5 DEF t, Cat, Strings

LEMMA HeaderLines ==
    ASSUME NEW m, WellFormed(m), NEW i \in 0 .. 7
    PROVE  /\ LineOf(m, i) \in Strings
           /\ IsLine(LineOf(m, i) \o CRLF, Len(LineOf(m, i)))
<1>1. CASE i = 7
  <2>1. LineOf(m, i) = <<>> /\ <<>> \in Strings /\ Len(<<>>) = 0
    BY <1>1, StringAlgebra DEF LineOf
  <2> DEFINE t == <<>> \o CRLF
  <2>2. Len(t) = 0 + 2 /\ t[0 + 1] = "CR" /\ t[0 + 2] = "LF"
    BY <2>1, LineEnds
  <2> HIDE DEF t
  <2>3. IsLine(t, 0)
    BY <2>2 DEF IsLine
  <2> QED
    BY <2>1, <2>3 DEF t
<1>2. CASE i # 7
  <2> DEFINE name == NameOf(i)
             value == KeptValue(m, i)
             line == Headed(name, value)
             n == Len(line)
             t == line \o CRLF
  <2>1. LineOf(m, i) = line
    BY <1>2 DEF LineOf
  <2>2. i \in 0 .. 6
    BY <1>2
  <2>3. Clean(value) /\ value \in Strings /\ name \in Tokens /\ name # ":" /\ name # "CR"
    BY <2>2, ValuesAreClean
  <2> HIDE DEF name, value
  <2>4. line \in Strings /\ Len(value) \in Nat /\ n = 3 + Len(value)
        /\ line[1] = name /\ line[2] = ":" /\ line[3] = "SP"
        /\ \A j \in 1 .. Len(value) : line[3 + j] = value[j]
    <3>1. line \in Strings /\ IsHeaded(line, name, value)
      BY <2>3, HeadedPlaces
    <3> HIDE DEF line
    <3> QED
      BY <3>1 DEF IsHeaded
  <2> HIDE DEF line
  <2>5. /\ t \in Strings /\ n \in Nat /\ Len(t) = n + 2
        /\ \A j \in 1 .. n : t[j] = line[j]
        /\ t[n + 1] = "CR" /\ t[n + 2] = "LF"
    BY <2>4, LineEnds
  <2> HIDE DEF t, n
  <2>6. ASSUME NEW j \in 1 .. n, t[j] = "CR", t[j + 1] = "LF" PROVE FALSE
    <3>1. j # n
      BY <2>5, <2>6
    <3>2. j + 1 \in 1 .. n /\ line[j] = "CR" /\ line[j + 1] = "LF"
      BY <2>5, <2>6, <3>1
    <3>3. j > 3
      BY <2>3, <2>4, <3>2
    <3>4. j - 3 \in 1 .. Len(value) /\ j - 3 < Len(value) /\ 3 + (j - 3) = j
          /\ (j - 3) + 1 \in 1 .. Len(value) /\ 3 + ((j - 3) + 1) = j + 1
      BY <2>4, <2>5, <3>2, <3>3
    <3>5. value[j - 3] = "CR" /\ value[(j - 3) + 1] = "LF"
      BY <2>4, <3>2, <3>4
    <3> QED
      BY <2>3, <3>4, <3>5 DEF Clean
  <2>7. IsLine(t, n)
    BY <2>5, <2>6 DEF IsLine
  <2> QED
    BY <2>1, <2>4, <2>7 DEF t, n
<1> QED
  BY <1>1, <1>2

(* What is read of such a line.                                            *)
LEMMA HeaderLineSays ==
    ASSUME NEW m, WellFormed(m), NEW i \in 0 .. 7, Present(m, i), NEW line,
           Stands(":", line, LineOf(m, i))
    PROVE  \/ i = 7 /\ line = <<<<>>>>
           \/ /\ i \in 0 .. 6 /\ line = <<<<NameOf(i)>>, KeptValue(m, i)>>
              /\ KeptValue(m, i) # <<>> /\ Trimmed(KeptValue(m, i)) = KeptValue(m, i)
<1>1. NamedAs(line, LineOf(m, i))
  BY DEF Stands
<1>2. CASE i = 7
  <2>1. LineOf(m, i) = <<>>
    BY <1>2 DEF LineOf
  <2> QED
    BY <1>1, <1>2, <2>1, NothingIs
<1>3. CASE i # 7
  <2> DEFINE name == NameOf(i)
             value == KeptValue(m, i)
  <2>1. i \in 0 .. 6 /\ value # <<>> /\ LineOf(m, i) = Headed(name, value)
    BY <1>3 DEF Present, LineOf
  <2>2. Clean(value) /\ value \in Strings /\ name \in Tokens /\ name # ":"
    BY <2>1, ValuesAreClean
  <2> HIDE DEF name, value
  <2>3. value[1] \notin Blank /\ value[Len(value)] \notin Blank
    BY <2>1, <2>2 DEF Clean
  <2>4. line = <<<<name>>, value>> /\ Trimmed(value) = value
    BY <1>1, <2>1, <2>2, <2>3, HeaderIs
  <2> QED
    BY <2>1, <2>4 DEF name, value
<1> QED
  BY <1>2, <1>3

(* The headers before the i-th.                                            *)
HeadsUpto(heads, m, i) ==
    /\ heads \in HeadsSet
    /\ heads.length = IF i = 0 THEN {} ELSE m.headers.length
    /\ \A j \in 1 .. 6 : heads.kept[j] = IF j < i THEN m.headers.kept[j] ELSE <<>>

LEMMA AllHeads ==
    ASSUME NEW m, WellFormed(m), NEW heads, HeadsUpto(heads, m, 7)
    PROVE  heads = m.headers
<1>1. heads \in HeadsSet /\ m.headers \in HeadsSet
  BY DEF HeadsUpto, WellFormed
<1>2. heads.length = m.headers.length /\ \A j \in 1 .. 6 : heads.kept[j] = m.headers.kept[j]
  BY DEF HeadsUpto
<1>3. heads.kept = m.headers.kept
  <2>1. heads.kept \in [1 .. 6 -> Strings] /\ m.headers.kept \in [1 .. 6 -> Strings]
    BY <1>1 DEF HeadsSet
  <2> QED
    BY <1>2, <2>1
<1> QED
  BY <1>1, <1>2, <1>3 DEF HeadsSet

LEMMA AbsentHead ==
    ASSUME NEW m, WellFormed(m), NEW i \in 0 .. 6, ~Present(m, i), NEW heads,
           HeadsUpto(heads, m, i)
    PROVE  HeadsUpto(heads, m, i + 1)
<1>1. KeptValue(m, i) = <<>>
  BY DEF Present
<1>2. CASE i = 0
  <2>1. m.headers.length = {}
    <3> SUFFICES ASSUME m.headers.length # {} PROVE FALSE
      OBVIOUS
    <3>1. PICK n \in 0 .. 2 : m.headers.length = {n}
      BY DEF WellFormed
    <3>2. ContentLength(m) = Digit(n)
      BY <3>1 DEF ContentLength
    <3>3. \E d \in {"0", "1", "2"} : Digit(n) = <<d>>
      BY DigitTexts
    <3> QED
      BY <1>1, <1>2, <3>2, <3>3 DEF KeptValue
  <2> QED
    BY <1>2, <2>1 DEF HeadsUpto
<1>3. CASE i # 0
  <2>1. i \in 1 .. 6 /\ m.headers.kept[i] = <<>>
    BY <1>1, <1>3 DEF KeptValue
  <2>2. \A j \in 1 .. 6 : j < i + 1 <=> j < i \/ j = i
    BY <2>1
  <2> QED
    BY <2>1, <2>2, <1>3 DEF HeadsUpto
<1> QED
  BY <1>2, <1>3

LEMMA LineReadIs ==
    ASSUME NEW m, WellFormed(m), NEW i \in 0 .. 7, Present(m, i),
           NEW h \in HeaderReaders, ~h.failed, ~h.finished, HeadsUpto(h.headers, m, i),
           NEW line, Stands(":", line, LineOf(m, i))
    PROVE  LET g == LineRead(h, 2, line) IN
           /\ g \in HeaderReaders /\ g.matched = 0 /\ g.line = <<<<>>>> /\ ~g.failed
           /\ g.finished <=> i = 7
           /\ HeadsUpto(g.headers, m, IF i = 7 THEN 7 ELSE i + 1)
<1> DEFINE g == LineRead(h, 2, line)
           f == [h EXCEPT !.matched = 0, !.line = <<<<>>>>]
           name == line[1]
           value == IF Len(line) = 2 THEN Trimmed(line[2]) ELSE <<>>
<1>1. g = LineTaken(f, name, value)
  BY DEF LineRead
<1>2. /\ f \in HeaderReaders /\ f.matched = 0 /\ f.line = <<<<>>>> /\ ~f.failed /\ ~f.finished
      /\ f.headers = h.headers
  <2>1. <<<<>>>> \in Seq(Strings) /\ 0 \in 0 .. 2
    BY NothingSpaced DEF SpacedAs
  <2> QED
    BY <2>1 DEF HeaderReaders
<1>3. \/ i = 7 /\ line = <<<<>>>>
      \/ /\ i \in 0 .. 6 /\ line = <<<<NameOf(i)>>, KeptValue(m, i)>>
         /\ KeptValue(m, i) # <<>> /\ Trimmed(KeptValue(m, i)) = KeptValue(m, i)
  BY HeaderLineSays
<1> HIDE DEF g, f
<1>4. CASE i = 7
  <2>1. name = <<>>
    BY <1>3, <1>4
  <2>2. g = [f EXCEPT !.finished = TRUE]
    BY <1>1, <2>1 DEF LineTaken
  <2>3. /\ g \in HeaderReaders /\ g.matched = f.matched /\ g.line = f.line
        /\ g.headers = f.headers /\ g.finished /\ g.failed = f.failed
    BY <2>2, <1>2 DEF HeaderReaders
  <2> QED
    BY <2>3, <1>2, <1>4 DEF g
<1>5. CASE i = 0
  <2>1. name = <<"Content-Length">> /\ value = ContentLength(m) /\ value # <<>>
    BY <1>3, <1>5 DEF NameOf, KeptValue
  <2>2. m.headers.length # {}
    BY <2>1 DEF ContentLength
  <2>3. PICK n \in 0 .. 2 : m.headers.length = {n}
    BY <2>2 DEF WellFormed
  <2>4. PICK d \in {"0", "1", "2"} : Digit(n) = <<d>> /\ Number[d] = n /\ d \in DOMAIN Number
    BY DigitTexts
  <2>5. value = <<d>>
    BY <2>1, <2>3, <2>4 DEF ContentLength
  <2>6. f.headers.length = {}
    BY <1>2, <1>5 DEF HeadsUpto
  <2> HIDE DEF name, value
  <2>7. g = [f EXCEPT !.headers.length = {n}]
    BY <1>1, <2>1, <2>4, <2>5, <2>6 DEF LineTaken
  <2>8. {n} \in SUBSET (0 .. 2)
    OBVIOUS
  <2>9. /\ g \in HeaderReaders /\ g.matched = f.matched /\ g.line = f.line
        /\ g.headers.length = {n} /\ g.headers.kept = f.headers.kept
        /\ g.finished = f.finished /\ g.failed = f.failed
    BY <2>7, <2>8, <1>2 DEF HeaderReaders, HeadsSet
  <2>10. HeadsUpto(g.headers, m, i + 1)
    <3>1. g.headers \in HeadsSet
      BY <2>9 DEF HeaderReaders
    <3>2. \A j \in 1 .. 6 : ~(j < 0) /\ ~(j < 0 + 1)
      OBVIOUS
    <3> QED
      BY <3>1, <3>2, <2>9, <2>3, <1>2, <1>5 DEF HeadsUpto
  <2> QED
    BY <2>9, <2>10, <1>2, <1>5 DEF g
<1>6. CASE i \in 1 .. 6
  <2>1. name = <<Kept[i]>> /\ value = m.headers.kept[i]
    BY <1>3, <1>6 DEF NameOf, KeptValue
  <2> HIDE DEF name, value
  <2>2. name # <<>> /\ name # <<"Content-Length">>
    BY <2>1, <1>6, KeptNames
  <2> DEFINE kept == [j \in DOMAIN Kept |-> IF name = <<Kept[j]>> THEN value ELSE f.headers.kept[j]]
  <2>3. g = [f EXCEPT !.headers.kept = kept]
    BY <1>1, <2>2 DEF LineTaken
  <2>4. value \in Strings
    BY <2>1, <1>6 DEF WellFormed, Clean
  <2>5. /\ kept \in [1 .. 6 -> Strings]
        /\ \A j \in 1 .. 6 : kept[j] = IF j = i THEN value ELSE f.headers.kept[j]
    <3>1. DOMAIN Kept = 1 .. 6 /\ \A j \in 1 .. 6 : name = <<Kept[j]>> <=> j = i
      BY <2>1, <1>6, KeptNames
    <3>2. f.headers.kept \in [1 .. 6 -> Strings]
      BY <1>2 DEF HeaderReaders, HeadsSet
    <3> QED
      BY <3>1, <3>2, <2>4
  <2> HIDE DEF kept
  <2>6. /\ g \in HeaderReaders /\ g.matched = f.matched /\ g.line = f.line
        /\ g.headers.kept = kept /\ g.headers.length = f.headers.length
        /\ g.finished = f.finished /\ g.failed = f.failed
    BY <2>3, <2>5, <1>2 DEF HeaderReaders, HeadsSet
  <2>7. HeadsUpto(g.headers, m, i + 1)
    <3>1. g.headers \in HeadsSet
      BY <2>6 DEF HeaderReaders
    <3>2. i # 0 /\ i + 1 # 0 /\ \A j \in 1 .. 6 : j < i + 1 <=> j < i \/ j = i
      BY <1>6
    <3>3. f.headers.length = m.headers.length
          /\ \A j \in 1 .. 6 : f.headers.kept[j] = IF j < i THEN m.headers.kept[j] ELSE <<>>
      BY <3>2, <1>2 DEF HeadsUpto
    <3>4. \A j \in 1 .. 6 : g.headers.kept[j] = IF j < i + 1 THEN m.headers.kept[j] ELSE <<>>
      BY <3>2, <3>3, <2>1, <2>5, <2>6
    <3> QED
      BY <3>1, <3>2, <3>3, <3>4, <2>6 DEF HeadsUpto
  <2> QED
    BY <2>6, <2>7, <1>2, <1>6 DEF g
<1> QED
  BY <1>4, <1>5, <1>6

(* What a text says after its first line: the headers from the i-th on,    *)
(* and the body.                                                           *)
Layout(m, rests) ==
    /\ rests \in [0 .. 7 -> Strings] /\ rests[7] = CRLF \o m.body
    /\ \A i \in 0 .. 6 : rests[i] = IF Present(m, i) THEN (LineOf(m, i) \o CRLF) \o rests[i + 1]
                                    ELSE rests[i + 1]
    /\ Text(m) = (StartOf(m) \o CRLF) \o rests[0]
Rests(m) == CHOOSE rests : Layout(m, rests)

LEMMA StringCat ==
    \A a, b \in Strings : Cat(a, b) \in Strings
BY StringAlgebra DEF Cat

(* Parts put together from the left are put together from the right.       *)
LEMMA PartAfterPart ==
    \A s, p, r \in Strings :
        Cat(s, p) \in Strings /\ Cat(p, r) \in Strings /\ Cat(s, Cat(p, r)) = Cat(Cat(s, p), r)
BY StringBrackets

LEMMA LayoutExists ==
    ASSUME NEW m, WellFormed(m)
    PROVE  /\ Layout(m, Rests(m)) /\ StartOf(m) \in Strings
           /\ Text(m) \in Strings
<1>1. /\ m.start \in Seq(Strings) /\ Len(m.start) = 3 /\ m.body \in Strings
  BY DEF WellFormed
<1>2. m.start[1] \in Strings /\ m.start[2] \in Strings /\ m.start[3] \in Strings
  <2>1. 1 \in 1 .. Len(m.start) /\ 2 \in 1 .. Len(m.start) /\ 3 \in 1 .. Len(m.start)
    BY <1>1
  <2> QED
    BY <1>1, <2>1, ElementOfSeq
<1>3. StartOf(m) \in Strings
  <2>1. <<"SP">> \in Strings /\ \A a, b \in Strings : a \o b \in Strings
    BY TokenStrings, StringAlgebra
  <2> QED
    BY <1>2, <2>1 DEF StartOf, Spacing
<1> DEFINE p == [i \in 0 .. 7 |-> IF i = 7 THEN CRLF ELSE Printed(NameOf(i), KeptValue(m, i))]
           s == Cat(StartOf(m), CRLF)
<1>4. ASSUME NEW i \in 0 .. 6
      PROVE  p[i] = (IF Present(m, i) THEN LineOf(m, i) \o CRLF ELSE <<>>) /\ p[i] \in Strings
  <2>1. i # 7 /\ i \in 0 .. 7
    OBVIOUS
  <2>2. p[i] = Printed(NameOf(i), KeptValue(m, i))
    BY <2>1
  <2>3. CASE KeptValue(m, i) = <<>>
    <3>1. Printed(NameOf(i), KeptValue(m, i)) = <<>> /\ ~Present(m, i) /\ <<>> \in Strings
      BY <2>1, <2>3, StringAlgebra DEF Printed, Present
    <3> QED
      BY <2>2, <3>1
  <2>4. CASE KeptValue(m, i) # <<>>
    <3>1. Printed(NameOf(i), KeptValue(m, i)) = LineOf(m, i) \o CRLF /\ Present(m, i)
      BY <2>1, <2>4 DEF Printed, Present, LineOf, Headed
    <3>2. LineOf(m, i) \in Strings
      BY <2>1, HeaderLines
    <3>3. LineOf(m, i) \o CRLF \in Strings
      BY <3>2, LineEnds
    <3> QED
      BY <2>2, <3>1, <3>3
  <2> QED
    BY <2>3, <2>4
<1>5. p \in [0 .. 7 -> Strings] /\ p[7] = CRLF
  <2>1. p[7] = CRLF /\ CRLF \in Strings
    BY TokenStrings
  <2>2. \A i \in 0 .. 7 : i = 7 \/ i \in 0 .. 6
    OBVIOUS
  <2>3. \A i \in 0 .. 7 : p[i] \in Strings
    BY <2>1, <2>2, <1>4
  <2> QED
    BY <2>1, <2>3
<1>6. /\ p[0] = Printed("Content-Length", ContentLength(m))
      /\ \A i \in 1 .. 6 : p[i] = Printed(Kept[i], m.headers.kept[i])
  BY DEF NameOf, KeptValue
<1> HIDE DEF p
<1>7. s \in Strings
  BY <1>3, TokenStrings, StringCat
<1> DEFINE p0 == p[0]
           p1 == p[1]
           p2 == p[2]
           p3 == p[3]
           p4 == p[4]
           p5 == p[5]
           p6 == p[6]
           p7 == p[7]
           r8 == m.body
           r7 == Cat(p7, r8)
           r6 == Cat(p6, r7)
           r5 == Cat(p5, r6)
           r4 == Cat(p4, r5)
           r3 == Cat(p3, r4)
           r2 == Cat(p2, r3)
           r1 == Cat(p1, r2)
           r0 == Cat(p0, r1)
<1>8. /\ r7 = Cat(p7, r8) /\ r6 = Cat(p6, r7) /\ r5 = Cat(p5, r6) /\ r4 = Cat(p4, r5)
      /\ r3 = Cat(p3, r4) /\ r2 = Cat(p2, r3) /\ r1 = Cat(p1, r2) /\ r0 = Cat(p0, r1)
  OBVIOUS
<1>9. /\ p0 \in Strings /\ p1 \in Strings /\ p2 \in Strings /\ p3 \in Strings
      /\ p4 \in Strings /\ p5 \in Strings /\ p6 \in Strings /\ p7 \in Strings /\ r8 \in Strings
  BY <1>1, <1>5
<1> HIDE DEF r0, r1, r2, r3, r4, r5, r6, r7
<1>10. Text(m) = Cat(Cat(Cat(Cat(Cat(Cat(Cat(Cat(Cat(s, p0), p1), p2), p3), p4), p5), p6), p7), r8)
  <2>1. p[1] = Printed(Kept[1], m.headers.kept[1]) /\ p[2] = Printed(Kept[2], m.headers.kept[2])
        /\ p[3] = Printed(Kept[3], m.headers.kept[3]) /\ p[4] = Printed(Kept[4], m.headers.kept[4])
        /\ p[5] = Printed(Kept[5], m.headers.kept[5]) /\ p[6] = Printed(Kept[6], m.headers.kept[6])
    BY <1>6
  <2> QED
    BY <1>5, <1>6, <2>1 DEF Text, Cat, StartOf, Spacing
<1> HIDE DEF p0, p1, p2, p3, p4, p5, p6, p7, r8, s
<1>11. /\ r7 \in Strings /\ r6 \in Strings /\ r5 \in Strings /\ r4 \in Strings
       /\ r3 \in Strings /\ r2 \in Strings /\ r1 \in Strings /\ r0 \in Strings
       /\ Text(m) = Cat(s, r0)
  <2>1. r7 \in Strings
    BY <1>8, <1>9, PartAfterPart
  <2>2. r6 \in Strings
    BY <2>1, <1>8, <1>9, PartAfterPart
  <2>3. r5 \in Strings
    BY <2>2, <1>8, <1>9, PartAfterPart
  <2>4. r4 \in Strings
    BY <2>3, <1>8, <1>9, PartAfterPart
  <2>5. r3 \in Strings
    BY <2>4, <1>8, <1>9, PartAfterPart
  <2>6. r2 \in Strings
    BY <2>5, <1>8, <1>9, PartAfterPart
  <2>7. r1 \in Strings
    BY <2>6, <1>8, <1>9, PartAfterPart
  <2>8. r0 \in Strings
    BY <2>7, <1>8, <1>9, PartAfterPart
  <2> DEFINE s0 == Cat(s, p0)
             s1 == Cat(s0, p1)
             s2 == Cat(s1, p2)
             s3 == Cat(s2, p3)
             s4 == Cat(s3, p4)
             s5 == Cat(s4, p5)
             s6 == Cat(s5, p6)
             s7 == Cat(s6, p7)
  <2>9. s0 \in Strings /\ Cat(s, r0) = Cat(s0, r1)
    BY <1>7, <2>7, <1>8, <1>9, PartAfterPart
  <2> HIDE DEF s0
  <2>10. s1 \in Strings /\ Cat(s0, r1) = Cat(s1, r2)
    BY <2>6, <2>9, <1>8, <1>9, PartAfterPart
  <2> HIDE DEF s1
  <2>11. s2 \in Strings /\ Cat(s1, r2) = Cat(s2, r3)
    BY <2>5, <2>10, <1>8, <1>9, PartAfterPart
  <2> HIDE DEF s2
  <2>12. s3 \in Strings /\ Cat(s2, r3) = Cat(s3, r4)
    BY <2>4, <2>11, <1>8, <1>9, PartAfterPart
  <2> HIDE DEF s3
  <2>13. s4 \in Strings /\ Cat(s3, r4) = Cat(s4, r5)
    BY <2>3, <2>12, <1>8, <1>9, PartAfterPart
  <2> HIDE DEF s4
  <2>14. s5 \in Strings /\ Cat(s4, r5) = Cat(s5, r6)
    BY <2>2, <2>13, <1>8, <1>9, PartAfterPart
  <2> HIDE DEF s5
  <2>15. s6 \in Strings /\ Cat(s5, r6) = Cat(s6, r7)
    BY <2>1, <2>14, <1>8, <1>9, PartAfterPart
  <2> HIDE DEF s6
  <2>16. s7 \in Strings /\ Cat(s6, r7) = Cat(s7, r8)
    BY <2>15, <1>8, <1>9, PartAfterPart
  <2> HIDE DEF s7
  <2>17. Cat(s, r0) = Cat(s7, r8)
    BY <2>9, <2>10, <2>11, <2>12, <2>13, <2>14, <2>15, <2>16
  <2> QED
    BY <2>17, <2>1, <2>8, <2>7, <2>6, <2>5, <2>4, <2>3, <2>2, <1>10
       DEF s0, s1, s2, s3, s4, s5, s6, s7
<1> DEFINE rests == [i \in 0 .. 7 |-> IF i = 0 THEN r0 ELSE IF i = 1 THEN r1 ELSE IF i = 2 THEN r2
                         ELSE IF i = 3 THEN r3 ELSE IF i = 4 THEN r4 ELSE IF i = 5 THEN r5
                         ELSE IF i = 6 THEN r6 ELSE r7]
<1>12. /\ rests \in [0 .. 7 -> Strings]
       /\ rests[0] = r0 /\ rests[1] = r1 /\ rests[2] = r2 /\ rests[3] = r3
       /\ rests[4] = r4 /\ rests[5] = r5 /\ rests[6] = r6 /\ rests[7] = r7
  BY <1>11
<1> HIDE DEF rests
<1>13. ASSUME NEW i \in 0 .. 6 PROVE rests[i] = Cat(p[i], rests[i + 1])
  <2>1. /\ rests[0] = Cat(p[0], rests[1]) /\ rests[1] = Cat(p[1], rests[2])
        /\ rests[2] = Cat(p[2], rests[3]) /\ rests[3] = Cat(p[3], rests[4])
        /\ rests[4] = Cat(p[4], rests[5]) /\ rests[5] = Cat(p[5], rests[6])
        /\ rests[6] = Cat(p[6], rests[7])
    BY <1>8, <1>12 DEF p0, p1, p2, p3, p4, p5, p6
  <2>2. \/ i = 0 /\ i + 1 = 1
        \/ i = 1 /\ i + 1 = 2
        \/ i = 2 /\ i + 1 = 3
        \/ i = 3 /\ i + 1 = 4
        \/ i = 4 /\ i + 1 = 5
        \/ i = 5 /\ i + 1 = 6
        \/ i = 6 /\ i + 1 = 7
    OBVIOUS
  <2> QED
    BY <2>1, <2>2
<1>14. Layout(m, rests)
  <2>1. rests[7] = CRLF \o m.body
    BY <1>5, <1>8, <1>12 DEF Cat, p7, r8
  <2>2. ASSUME NEW i \in 0 .. 6
        PROVE  rests[i] = IF Present(m, i) THEN (LineOf(m, i) \o CRLF) \o rests[i + 1]
                          ELSE rests[i + 1]
    <3>1. rests[i] = p[i] \o rests[i + 1] /\ rests[i + 1] \in Strings
      <4>1. i + 1 \in 0 .. 7 /\ rests[i] = Cat(p[i], rests[i + 1])
        BY <1>13
      <4> QED
        BY <4>1, <1>12 DEF Cat
    <3>2. <<>> \o rests[i + 1] = rests[i + 1]
      BY <3>1, StringAlgebra
    <3> QED
      BY <3>1, <3>2, <1>4
  <2>3. Text(m) = (StartOf(m) \o CRLF) \o rests[0]
    BY <1>11, <1>12 DEF Cat, s
  <2> QED
    BY <1>12, <2>1, <2>2, <2>3 DEF Layout
<1>15. Layout(m, Rests(m))
  BY <1>14 DEF Rests
<1>16. Text(m) \in Strings
  BY <1>7, <1>11, StringCat
<1> QED
  BY <1>3, <1>15, <1>16

(* Text w of stream s is over after e tokens.                              *)
ClosesAt(s, e, w) == e \in Int /\ Piece(s, e - Len(w), w)

LEMMA ClosesParts ==
    ASSUME NEW s \in Strings, NEW e, NEW a \in Strings, NEW b \in Strings, ClosesAt(s, e, a \o b)
    PROVE  /\ ClosesAt(s, e, b) /\ Len(a \o b) = Len(a) + Len(b)
           /\ Piece(s, e - Len(a \o b), a)
<1> DEFINE w == Cat(a, b)
<1>1. Len(a) \in Nat /\ Len(b) \in Nat /\ a \in Seq(Tokens) /\ b \in Seq(Tokens) /\ Len(s) \in Nat
  BY DEF Strings
<1>2. /\ Len(w) = Len(a) + Len(b)
      /\ \A i \in 1 .. Len(a) : w[i] = a[i]
      /\ \A i \in 1 .. Len(b) : w[Len(a) + i] = b[i]
  <2>1. IsCat(w, a, b)
    BY <1>1, CatPlaces
  <2> HIDE DEF w
  <2> QED
    BY <2>1 DEF IsCat
<1>3. ClosesAt(s, e, w)
  BY DEF Cat
<1> HIDE DEF w
<1>4. /\ e \in Int /\ e - Len(w) \in Nat /\ e <= Len(s)
      /\ \A i \in 1 .. Len(w) : w[i] = s[e - Len(w) + i]
  BY <1>1, <1>2, <1>3 DEF ClosesAt, Piece
<1>5. Piece(s, e - Len(w), a)
  <2>1. ASSUME NEW i \in 1 .. Len(a) PROVE a[i] = s[e - Len(w) + i]
    <3>1. i \in 1 .. Len(w)
      BY <1>1, <1>2
    <3> QED
      BY <3>1, <1>2, <1>4
  <2> QED
    BY <2>1, <1>1, <1>2, <1>4 DEF Piece
<1>6. Piece(s, e - Len(b), b)
  <2>1. ASSUME NEW i \in 1 .. Len(b) PROVE b[i] = s[e - Len(b) + i]
    <3>1. Len(a) + i \in 1 .. Len(w) /\ e - Len(w) + (Len(a) + i) = e - Len(b) + i
      BY <1>1, <1>2, <1>4
    <3>2. w[Len(a) + i] = b[i] /\ w[Len(a) + i] = s[e - Len(w) + (Len(a) + i)]
      BY <3>1, <1>2, <1>4
    <3> QED
      BY <3>1, <3>2
  <2> QED
    BY <2>1, <1>1, <1>2, <1>4 DEF Piece
<1> QED
  BY <1>2, <1>4, <1>5, <1>6 DEF w, Cat, ClosesAt

(* The parts of a text in a stream.                                        *)
PartsIn(m, r, s, e) ==
    /\ \A i \in 0 .. 7 : ClosesAt(s, e, r[i]) /\ r[i] \in Strings
    /\ Piece(s, e - Len(Text(m)), StartOf(m) \o CRLF)
    /\ Len(Text(m)) = Len(StartOf(m)) + 2 + Len(r[0])
    /\ \A i \in 0 .. 6 : Present(m, i) =>
           /\ Piece(s, e - Len(r[i]), LineOf(m, i) \o CRLF)
           /\ Len(r[i]) = Len(LineOf(m, i)) + 2 + Len(r[i + 1])
    /\ Piece(s, e - Len(r[7]), CRLF) /\ Len(r[7]) = 2 + Len(m.body)
    /\ ClosesAt(s, e, m.body) /\ m.body \in Strings

LEMMA TextParts ==
    ASSUME NEW m, WellFormed(m), NEW s \in Strings, NEW e, ClosesAt(s, e, Text(m))
    PROVE  PartsIn(m, Rests(m), s, e)
<1> DEFINE r == Rests(m)
<1>1. Layout(m, r) /\ StartOf(m) \in Strings /\ Text(m) \in Strings
  BY LayoutExists
<1> HIDE DEF r
<1>2. /\ r \in [0 .. 7 -> Strings] /\ r[7] = CRLF \o m.body
      /\ \A i \in 0 .. 6 : r[i] = IF Present(m, i) THEN (LineOf(m, i) \o CRLF) \o r[i + 1]
                                  ELSE r[i + 1]
      /\ Text(m) = (StartOf(m) \o CRLF) \o r[0]
  BY <1>1 DEF Layout
<1>3. \A i \in 0 .. 7 : r[i] \in Strings
  BY <1>2
<1>4. m.body \in Strings /\ CRLF \in Strings
  BY TokenStrings DEF WellFormed
<1>5. /\ ClosesAt(s, e, r[0]) /\ Piece(s, e - Len(Text(m)), StartOf(m) \o CRLF)
      /\ Len(Text(m)) = Len(StartOf(m)) + 2 + Len(r[0])
  <2> DEFINE a == StartOf(m) \o CRLF
             b == r[0]
  <2>1. a \in Strings /\ Len(a) = Len(StartOf(m)) + 2
    BY <1>1, LineEnds
  <2>2. b \in Strings /\ Text(m) = a \o b /\ ClosesAt(s, e, a \o b)
    BY <1>2, <1>3
  <2> HIDE DEF a, b
  <2>3. ClosesAt(s, e, b) /\ Len(a \o b) = Len(a) + Len(b) /\ Piece(s, e - Len(a \o b), a)
    BY <2>1, <2>2, ClosesParts
  <2> QED
    BY <2>1, <2>2, <2>3 DEF a, b
<1>6. ASSUME NEW i \in 0 .. 6, ClosesAt(s, e, r[i])
      PROVE  /\ ClosesAt(s, e, r[i + 1])
             /\ Present(m, i) => /\ Piece(s, e - Len(r[i]), LineOf(m, i) \o CRLF)
                                 /\ Len(r[i]) = Len(LineOf(m, i)) + 2 + Len(r[i + 1])
  <2> DEFINE a == LineOf(m, i) \o CRLF
             b == r[i + 1]
  <2>1. CASE ~Present(m, i)
    BY <2>1, <1>2, <1>6
  <2>2. CASE Present(m, i)
    <3>1. i \in 0 .. 7 /\ i + 1 \in 0 .. 7
      OBVIOUS
    <3>2. a \in Strings /\ Len(a) = Len(LineOf(m, i)) + 2
      BY <3>1, HeaderLines, LineEnds
    <3>3. b \in Strings /\ r[i] = a \o b /\ ClosesAt(s, e, a \o b)
      BY <2>2, <3>1, <1>2, <1>3, <1>6
    <3> HIDE DEF a, b
    <3>4. ClosesAt(s, e, b) /\ Len(a \o b) = Len(a) + Len(b) /\ Piece(s, e - Len(a \o b), a)
      BY <3>2, <3>3, ClosesParts
    <3> QED
      BY <3>2, <3>3, <3>4 DEF a, b
  <2> QED
    BY <2>1, <2>2
<1>7. \A i \in 0 .. 7 : ClosesAt(s, e, r[i])
  <2>1. ClosesAt(s, e, r[1])
    BY <1>5, <1>6
  <2>2. ClosesAt(s, e, r[2])
    BY <2>1, <1>6
  <2>3. ClosesAt(s, e, r[3])
    BY <2>2, <1>6
  <2>4. ClosesAt(s, e, r[4])
    BY <2>3, <1>6
  <2>5. ClosesAt(s, e, r[5])
    BY <2>4, <1>6
  <2>6. ClosesAt(s, e, r[6])
    BY <2>5, <1>6
  <2>7. ClosesAt(s, e, r[7])
    BY <2>6, <1>6
  <2>8. \A i \in 0 .. 7 : i = 0 \/ i = 1 \/ i = 2 \/ i = 3 \/ i = 4 \/ i = 5 \/ i = 6 \/ i = 7
    OBVIOUS
  <2> QED
    BY <2>1, <2>2, <2>3, <2>4, <2>5, <2>6, <2>7, <2>8, <1>5
<1>8. /\ Piece(s, e - Len(r[7]), CRLF) /\ Len(r[7]) = 2 + Len(m.body)
      /\ ClosesAt(s, e, m.body)
  <2> DEFINE a == CRLF
             b == m.body
  <2>1. a \in Strings /\ Len(a) = 2 /\ b \in Strings
    BY <1>4 DEF CRLF
  <2>2. r[7] = a \o b /\ ClosesAt(s, e, a \o b)
    <3>1. 7 \in 0 .. 7 /\ r[7] = a \o b
      BY <1>2
    <3>2. ClosesAt(s, e, r[7])
      BY <3>1, <1>7
    <3> QED
      BY <3>1, <3>2
  <2> HIDE DEF a, b
  <2>3. ClosesAt(s, e, b) /\ Len(a \o b) = Len(a) + Len(b) /\ Piece(s, e - Len(a \o b), a)
    BY <2>1, <2>2, ClosesParts
  <2> QED
    BY <2>1, <2>2, <2>3 DEF a, b
<1>9. \A i \in 0 .. 6 : Present(m, i) =>
          /\ Piece(s, e - Len(r[i]), LineOf(m, i) \o CRLF)
          /\ Len(r[i]) = Len(LineOf(m, i)) + 2 + Len(r[i + 1])
  <2>1. \A i \in 0 .. 6 : i \in 0 .. 7
    OBVIOUS
  <2> QED
    BY <2>1, <1>6, <1>7
<1>10. PartsIn(m, r, s, e)
  BY ONLY <1>3, <1>4, <1>5, <1>7, <1>8, <1>9 DEF PartsIn
<1> QED
  BY <1>10 DEF r

(* A header reader that is to read the headers of m and has come to the    *)
(* o-th token of a stream, in which the text of m is over after e tokens.  *)
AtLine(m, e, o, h, i) ==
    /\ ~h.finished /\ i \in 0 .. 7 /\ Present(m, i) /\ HeadsUpto(h.headers, m, i)
    /\ h.matched \in 0 .. 1
    /\ \E q \in Nat : /\ o = e - Len(Rests(m)[i]) + q
                      /\ InLine(":", LineOf(m, i) \o CRLF, Len(LineOf(m, i)), q, h.matched, h.line)
HeadersAt(m, e, o, h) ==
    /\ h \in HeaderReaders /\ ~h.failed
    /\ \/ \E i \in 0 .. 7 : AtLine(m, e, o, h, i)
       \/ h.finished /\ h.headers = m.headers /\ o = e - Len(m.body)

LEMMA LineBegins ==
    ASSUME NEW m, WellFormed(m), NEW e \in Int, NEW i \in 0 .. 7,
           NEW h \in HeaderReaders, ~h.failed, ~h.finished, h.matched = 0, h.line = <<<<>>>>,
           HeadsUpto(h.headers, m, i)
    PROVE  HeadersAt(m, e, e - Len(Rests(m)[i]), h)
<1> DEFINE A(j) == HeadsUpto(h.headers, m, j) /\ Rests(m)[j] = Rests(m)[i]
<1>0. Layout(m, Rests(m))
  BY LayoutExists
<1>1. A(i)
  OBVIOUS
<1>2. ASSUME NEW j \in 0 .. 6, A(j), ~Present(m, j) PROVE A(j + 1)
  <2>1. HeadsUpto(h.headers, m, j + 1)
    BY <1>2, AbsentHead
  <2>2. Rests(m)[j] = Rests(m)[j + 1]
    BY <1>0, <1>2 DEF Layout
  <2> QED
    BY <1>2, <2>1, <2>2
<1>3. Present(m, 7)
  BY DEF Present
<1> HIDE DEF A
<1>4. \E j \in 0 .. 7 : A(j) /\ Present(m, j)
  <2>1. \/ i = 0 \/ i = 1 \/ i = 2 \/ i = 3 \/ i = 4 \/ i = 5 \/ i = 6 \/ i = 7
    OBVIOUS
  <2>2. A(0) /\ ~Present(m, 0) => A(1)
    BY <1>2
  <2>3. A(1) /\ ~Present(m, 1) => A(2)
    BY <1>2
  <2>4. A(2) /\ ~Present(m, 2) => A(3)
    BY <1>2
  <2>5. A(3) /\ ~Present(m, 3) => A(4)
    BY <1>2
  <2>6. A(4) /\ ~Present(m, 4) => A(5)
    BY <1>2
  <2>7. A(5) /\ ~Present(m, 5) => A(6)
    BY <1>2
  <2>8. A(6) /\ ~Present(m, 6) => A(7)
    BY <1>2
  <2>9. A(0) \/ A(1) \/ A(2) \/ A(3) \/ A(4) \/ A(5) \/ A(6) \/ A(7)
    BY <2>1, <1>1
  <2>10. 0 \in 0 .. 7 /\ 1 \in 0 .. 7 /\ 2 \in 0 .. 7 /\ 3 \in 0 .. 7 /\ 4 \in 0 .. 7 /\ 5 \in 0 .. 7
         /\ 6 \in 0 .. 7 /\ 7 \in 0 .. 7
    OBVIOUS
  <2> QED
    BY <2>2, <2>3, <2>4, <2>5, <2>6, <2>7, <2>8, <2>9, <2>10, <1>3
<1>5. PICK j \in 0 .. 7 : A(j) /\ Present(m, j)
  BY <1>4
<1>6. HeadsUpto(h.headers, m, j) /\ Rests(m)[j] = Rests(m)[i]
  BY <1>5 DEF A
<1> DEFINE line == LineOf(m, j)
           t == line \o CRLF
<1>7. line \in Strings /\ t \in Strings /\ Len(line) \in Nat
  BY HeaderLines, LineEnds
<1>8. Upto(t, 0) = <<>>
  <2>1. 0 \in 0 .. Len(t) /\ t \in Seq(Tokens)
    BY <1>7 DEF Strings
  <2> HIDE DEF t
  <2>2. Upto(t, 0) \in Seq(Tokens) /\ Len(Upto(t, 0)) = 0
    BY <2>1, Cuts
  <2> QED
    BY <2>2, EmptySeq
<1>9. Stands(":", <<<<>>>>, <<>>)
  BY NothingIs DEF Stands
<1>10. InLine(":", t, Len(line), 0, 0, <<<<>>>>)
  <2> HIDE DEF t, line
  <2> QED
    BY <1>7, <1>8, <1>9 DEF InLine
<1>11. e - Len(Rests(m)[i]) = e - Len(Rests(m)[j]) + 0
  <2>1. Rests(m)[i] \in Strings
    BY <1>0 DEF Layout
  <2>2. Len(Rests(m)[i]) \in Nat
    BY <2>1 DEF Strings
  <2> QED
    BY <2>2, <1>6
<1>12. AtLine(m, e, e - Len(Rests(m)[i]), h, j)
  <2> HIDE DEF t, line
  <2>1. InLine(":", t, Len(line), 0, h.matched, h.line) /\ 0 \in Nat /\ h.matched \in 0 .. 1
    BY <1>10
  <2>2. \E q \in Nat : /\ e - Len(Rests(m)[i]) = e - Len(Rests(m)[j]) + q
                       /\ InLine(":", t, Len(line), q, h.matched, h.line)
    BY <2>1, <1>11
  <2> QED
    BY <2>1, <2>2, <1>5, <1>6 DEF AtLine, t, line
<1> QED
  BY <1>12 DEF HeadersAt

LEMMA InLineType ==
    ASSUME NEW separator, NEW t \in Strings, NEW n, IsLine(t, n), NEW q,
           NEW matched, NEW line, InLine(separator, t, n, q, matched, line)
    PROVE  line \in Seq(Strings) /\ matched \in 0 .. 2 /\ q \in Nat
<1>1. q \in Nat /\ q <= Len(t) /\ Len(t) \in Nat
  BY DEF InLine, IsLine, Strings
<1>2. Piece(t, q, <<>>) /\ <<>> \in Strings
  BY <1>1 DEF Piece, Strings
<1>3. [matched |-> matched, line |-> line, rest |-> <<>>] \in Scanned(separator, t, n, q + Len(<<>>))
  BY <1>2, IsScanned
<1> QED
  BY <1>1, <1>3 DEF Scanned

(* The states of HTTPHeaderReader::read while it reads the headers of m.   *)
HeaderStage(m, s, e, end) ==
    {at \in [reader : HeaderReaders, rest : Strings] :
        \E o \in Nat : /\ HeadersAt(m, e, o, at.reader)
                       /\ Piece(s, o, at.rest) /\ o + Len(at.rest) = end}

LEMMA AtStage ==
    ASSUME NEW m, NEW s, NEW e, NEW end, NEW h \in HeaderReaders, NEW t \in Strings,
           NEW o \in Nat, HeadersAt(m, e, o, h), Piece(s, o, t), o + Len(t) = end
    PROVE  [reader |-> h, rest |-> t] \in HeaderStage(m, s, e, end)
<1> DEFINE at == [reader |-> h, rest |-> t]
<1>1. at \in [reader : HeaderReaders, rest : Strings] /\ at.reader = h /\ at.rest = t
  OBVIOUS
<1> HIDE DEF at
<1>2. HeadersAt(m, e, o, at.reader) /\ Piece(s, o, at.rest) /\ o + Len(at.rest) = end
  BY <1>1
<1>3. at \in HeaderStage(m, s, e, end)
  <2>1. \E x \in Nat : /\ HeadersAt(m, e, x, at.reader)
                        /\ Piece(s, x, at.rest) /\ x + Len(at.rest) = end
    BY ONLY <1>2, o \in Nat
  <2>2. at \in [reader : HeaderReaders, rest : Strings]
    BY <1>1
  <2> QED
    BY ONLY <2>1, <2>2, Zenon DEF HeaderStage
<1> QED
  BY <1>3 DEF at

ToRead(at) == IF at.reader.finished \/ at.rest = <<>> THEN 0 ELSE Len(at.rest)

LEMMA LineInText ==
    ASSUME NEW m, WellFormed(m), NEW s \in Strings, NEW e, ClosesAt(s, e, Text(m)),
           NEW i \in 0 .. 7, Present(m, i)
    PROVE  LET text == LineOf(m, i) \o CRLF
               base == e - Len(Rests(m)[i]) IN
           /\ text \in Strings /\ Len(LineOf(m, i)) \in Nat
           /\ Len(text) = Len(LineOf(m, i)) + 2 /\ IsLine(text, Len(LineOf(m, i)))
           /\ Upto(text, Len(LineOf(m, i))) = LineOf(m, i) /\ LineOf(m, i) \in Strings
           /\ Piece(s, base, text) /\ base \in Nat
           /\ base + (Len(LineOf(m, i)) + 2) = e - (IF i = 7 THEN Len(m.body)
                                                    ELSE Len(Rests(m)[i + 1]))
<1> DEFINE line == LineOf(m, i)
           text == line \o CRLF
           r == Rests(m)
           base == e - Len(r[i])
<1>1. line \in Strings /\ IsLine(text, Len(line))
  BY HeaderLines
<1>2. text \in Strings /\ Len(line) \in Nat /\ Len(text) = Len(line) + 2 /\ Upto(text, Len(line)) = line
  BY <1>1, LineEnds
<1>3. PartsIn(m, r, s, e)
  BY TextParts
<1>4. e \in Int
  BY DEF ClosesAt
<1>5. Piece(s, base, text) /\ base + (Len(line) + 2) = e - (IF i = 7 THEN Len(m.body) ELSE Len(r[i + 1]))
  <2>1. CASE i = 7
    <3>1. line = <<>>
      BY <2>1 DEF LineOf
    <3>2. text = CRLF /\ Len(line) = 0
      BY <3>1, TokenStrings, StringAlgebra
    <3>3. Piece(s, e - Len(r[7]), CRLF) /\ Len(r[7]) = 2 + Len(m.body) /\ m.body \in Strings
      BY <1>3 DEF PartsIn
    <3>4. Len(m.body) \in Nat
      BY <3>3 DEF Strings
    <3>5. base = e - Len(r[7])
      BY <2>1
    <3> HIDE DEF text, line, base, r
    <3>6. base + (Len(line) + 2) = e - Len(m.body)
      BY <3>2, <3>3, <3>4, <3>5, <1>4
    <3> QED
      BY <2>1, <3>2, <3>3, <3>5, <3>6
  <2>2. CASE i # 7
    <3>1. i \in 0 .. 6 /\ i + 1 \in 0 .. 7
      BY <2>2
    <3>2. Piece(s, e - Len(r[i]), text) /\ Len(r[i]) = Len(line) + 2 + Len(r[i + 1]) /\ r[i + 1] \in Strings
      BY <3>1, <1>3 DEF PartsIn
    <3>3. Len(r[i + 1]) \in Nat
      BY <3>2 DEF Strings
    <3> HIDE DEF text, line, r
    <3>4. base + (Len(line) + 2) = e - Len(r[i + 1])
      BY <3>2, <3>3, <1>2, <1>4
    <3> HIDE DEF base
    <3>5. Piece(s, base, text)
      BY <3>2 DEF base
    <3> QED
      BY <2>2, <3>4, <3>5
  <2> QED
    BY <2>1, <2>2
<1>6. base \in Nat
  BY <1>5 DEF Piece
<1> QED
  BY <1>1, <1>2, <1>5, <1>6

LEMMA TurnReads ==
    ASSUME NEW m, WellFormed(m), NEW s \in Strings, NEW e, ClosesAt(s, e, Text(m)), NEW end,
           NEW at \in HeaderStage(m, s, e, end)
    PROVE  /\ HeaderTurn(at) \in HeaderStage(m, s, e, end)
           /\ ToRead(at) \in Nat
           /\ ToRead(at) = 0 => HeaderTurn(at) = at
           /\ ToRead(at) # 0 => ToRead(HeaderTurn(at)) < ToRead(at)
<1> DEFINE h == at.reader
           rest == at.rest
           next == HeaderTurn(at)
           got == Scan(":", [matched |-> h.matched, line |-> h.line, rest |-> rest])
           g == LineRead(h, got.matched, got.line)
<1>1. PICK o \in Nat : HeadersAt(m, e, o, h) /\ Piece(s, o, rest) /\ o + Len(rest) = end
  BY DEF HeaderStage
<1>2. /\ h \in HeaderReaders /\ rest \in Strings /\ Len(rest) \in Nat /\ Len(s) \in Nat
      /\ h.finished \in BOOLEAN /\ ~h.failed
  BY <1>1 DEF HeaderStage, HeaderReaders, HeadersAt, Strings
<1>3. next = IF h.finished \/ h.failed \/ rest = <<>> THEN at
             ELSE [reader |-> g, rest |-> got.rest]
  BY DEF HeaderTurn
<1>4. ToRead(at) \in Nat
  BY <1>2 DEF ToRead
<1>e. e \in Int
  BY DEF ClosesAt
<1> HIDE DEF next, g, got
<1>5. CASE h.finished \/ rest = <<>>
  <2>1. next = at /\ ToRead(at) = 0
    BY <1>3, <1>5 DEF ToRead
  <2> QED
    BY <2>1, <1>4 DEF next
<1>6. CASE ~h.finished /\ rest # <<>>
  <2>1. next = [reader |-> g, rest |-> got.rest]
    BY <1>2, <1>3, <1>6
  <2>2. PICK i \in 0 .. 7 : AtLine(m, e, o, h, i)
    BY <1>1, <1>6 DEF HeadersAt
  <2> DEFINE line == LineOf(m, i)
             n == Len(line)
             text == line \o CRLF
             base == e - Len(Rests(m)[i])
  <2>3. Present(m, i) /\ HeadsUpto(h.headers, m, i) /\ h.matched \in 0 .. 1
    BY <2>2 DEF AtLine
  <2>4. PICK q \in Nat : o = base + q /\ InLine(":", text, n, q, h.matched, h.line)
    BY <2>2 DEF AtLine
  <2>5. /\ text \in Strings /\ n \in Nat /\ Len(text) = n + 2 /\ IsLine(text, n)
        /\ Upto(text, n) = line /\ line \in Strings
        /\ Piece(s, base, text) /\ base \in Nat
        /\ base + (n + 2) = e - (IF i = 7 THEN Len(m.body) ELSE Len(Rests(m)[i + 1]))
    BY <2>3, LineInText
  <2> HIDE DEF text, n, line, base
  <2>6. /\ EndsScan(":", text, n, q + Len(rest), got)
        /\ Len(got.rest) < Len(rest)
        /\ got.matched = 2 => Piece(s, base + (n + 2), got.rest)
    <3>1. Piece(s, base + q, rest)
      BY <1>1, <2>4
    <3> QED
      BY <3>1, <1>2, <1>6, <2>3, <2>4, <2>5, LineScannedAt DEF got
  <2>7. got.rest \in Strings /\ Len(got.rest) \in Nat
    BY <2>6 DEF EndsScan, Strings
  <2>q. q \in Nat
    BY <2>4, <2>5, InLineType
  <2>8. ToRead(next) \in Nat /\ ToRead(next) <= Len(got.rest)
    BY <2>1, <2>7 DEF ToRead
  <2>9. ToRead(at) = Len(rest) /\ Len(rest) > 0
    BY <1>2, <1>6, <2>6, <2>7 DEF ToRead
  <2>10. ToRead(next) < ToRead(at) /\ ToRead(at) # 0
    BY <2>6, <2>7, <2>8, <2>9, <1>2
  <2>11. CASE got.matched # 2
    <3> DEFINE p == q + Len(rest)
               o2 == o + Len(rest)
    <3>1. got.matched \in 0 .. 1 /\ got.rest = <<>> /\ InLine(":", text, n, p, got.matched, got.line)
      BY <2>6, <2>11 DEF EndsScan
    <3>2. got.line \in Seq(Strings) /\ p \in Nat
      BY <3>1, <2>5, InLineType
    <3>3. g = [h EXCEPT !.matched = got.matched, !.line = got.line]
      BY <3>1 DEF g, LineRead
    <3>4. /\ g \in HeaderReaders /\ g.matched = got.matched /\ g.line = got.line
          /\ g.headers = h.headers /\ g.finished = h.finished /\ g.failed = h.failed
      <4> DEFINE x == got.matched
                 y == got.line
      <4>1. x \in 0 .. 2 /\ y \in Seq(Strings) /\ g = [h EXCEPT !.matched = x, !.line = y]
        BY <3>1, <3>2, <3>3
      <4> HIDE DEF x, y, g, h
      <4>2. /\ g \in HeaderReaders /\ g.matched = x /\ g.line = y
            /\ g.headers = h.headers /\ g.finished = h.finished /\ g.failed = h.failed
        <5>1. h \in HeaderReaders
          BY <1>2
        <5> QED
          BY ONLY <4>1, <5>1 DEF HeaderReaders
      <4> QED
        BY <4>2 DEF x, y
    <3>5. o2 = base + p /\ o2 \in Nat
      <4> DEFINE l == Len(rest)
      <4>1. o = base + q /\ l \in Nat /\ base \in Nat /\ q \in Nat /\ o \in Nat
        BY <1>2, <2>4, <2>5, <2>q
      <4>2. o2 = o + l /\ p = q + l
        OBVIOUS
      <4> HIDE DEF l, o2, p
      <4> QED
        BY ONLY <4>1, <4>2
    <3> HIDE DEF p, g
    <3>6. AtLine(m, e, o2, g, i)
      <4>1. \E x \in Nat : o2 = base + x /\ InLine(":", text, n, x, g.matched, g.line)
        BY <3>1, <3>2, <3>4, <3>5
      <4> QED
        BY <4>1, <3>1, <3>4, <1>6, <2>3 DEF AtLine, base, text, n, line
    <3>7. HeadersAt(m, e, o2, g)
      BY <3>4, <3>6, <1>2 DEF HeadersAt
    <3>8. Piece(s, o2, <<>>) /\ o2 + Len(<<>>) = end /\ <<>> \in Strings
      BY <3>5, <1>1 DEF Piece, Strings
    <3>9. next \in HeaderStage(m, s, e, end)
      <4>1. got.rest = <<>> /\ g \in HeaderReaders
        BY <3>1, <3>4
      <4>2. [reader |-> g, rest |-> <<>>] \in HeaderStage(m, s, e, end)
        BY ONLY <4>1, <3>5, <3>7, <3>8, AtStage
      <4> QED
        BY <2>1, <4>1, <4>2
    <3> QED
      BY <3>9, <1>4, <2>10 DEF next
  <2>12. CASE got.matched = 2
    <3> DEFINE o2 == base + (n + 2)
    <3>1. Stands(":", got.line, line) /\ n + 2 + Len(got.rest) = q + Len(rest) /\ Piece(s, o2, got.rest)
      <4> DEFINE b == q + Len(rest)
      <4>1. EndsScan(":", text, n, b, got) /\ got.matched = 2 /\ Upto(text, n) = line
        BY <2>5, <2>6, <2>12
      <4> HIDE DEF b
      <4>2. Stands(":", got.line, line) /\ n + 2 + Len(got.rest) = b
        BY ONLY <4>1 DEF EndsScan
      <4> QED
        BY <4>2, <2>6, <2>12 DEF b
    <3>2. o2 \in Nat /\ o2 + Len(got.rest) = end
      <4> DEFINE l == Len(rest)
                 k == Len(got.rest)
      <4>1. o = base + q /\ l \in Nat /\ base \in Nat /\ q \in Nat /\ o \in Nat /\ k \in Nat /\ n \in Nat
        BY <1>2, <2>4, <2>5, <2>7, <2>q
      <4>2. o2 = base + (n + 2) /\ n + 2 + k = q + l /\ o + l = end
        BY <3>1, <1>1
      <4> HIDE DEF l, o2, k
      <4>3. o2 \in Nat /\ o2 + k = end
        BY ONLY <4>1, <4>2
      <4> QED
        BY <4>3 DEF k, o2
    <3>3. /\ g \in HeaderReaders /\ g.matched = 0 /\ g.line = <<<<>>>> /\ ~g.failed
          /\ g.finished <=> i = 7
          /\ HeadsUpto(g.headers, m, IF i = 7 THEN 7 ELSE i + 1)
      BY <3>1, <1>2, <1>6, <2>3, <2>12, LineReadIs DEF g, line
    <3> HIDE DEF g
    <3>4. HeadersAt(m, e, o2, g)
      <4>1. CASE i = 7
        <5>1. g.headers = m.headers
          BY <3>3, <4>1, AllHeads
        <5> QED
          BY <5>1, <3>3, <4>1, <2>5 DEF HeadersAt
      <4>2. CASE i # 7
        <5> DEFINE j == i + 1
        <5>1. j \in 0 .. 7 /\ o2 = e - Len(Rests(m)[j]) /\ HeadsUpto(g.headers, m, j) /\ ~g.finished
          BY <3>3, <4>2, <2>5
        <5> HIDE DEF j
        <5>2. HeadersAt(m, e, e - Len(Rests(m)[j]), g)
          BY <3>3, <5>1, <1>e, LineBegins
        <5> QED
          BY <5>1, <5>2
      <4> QED
        BY <4>1, <4>2
    <3> HIDE DEF o2
    <3>5. next \in HeaderStage(m, s, e, end)
      <4>1. g \in HeaderReaders /\ got.rest \in Strings /\ Piece(s, o2, got.rest)
        BY <2>7, <3>1, <3>3
      <4>2. [reader |-> g, rest |-> got.rest] \in HeaderStage(m, s, e, end)
        BY ONLY <4>1, <3>2, <3>4, AtStage
      <4> QED
        BY <2>1, <4>2
    <3> QED
      BY <3>5, <1>4, <2>10 DEF next
  <2> QED
    BY <2>11, <2>12
<1> QED
  BY <1>2, <1>5, <1>6

(* A call of HTTPHeaderReader::read ends with the headers or the input.    *)
LEMMA HeadersReadOn ==
    ASSUME NEW m, WellFormed(m), NEW s \in Strings, NEW e, ClosesAt(s, e, Text(m)), NEW end,
           NEW start \in HeaderStage(m, s, e, end)
    PROVE  ReadHeaders(start) \in HeaderStage(m, s, e, end) /\ ToRead(ReadHeaders(start)) = 0
<1> DEFINE S == HeaderStage(m, s, e, end)
           turns == Len(start.rest)
           turn == [at \in S |-> HeaderTurn(at)]
           left == [at \in S |-> ToRead(at)]
           IsAfter(f) == f = [i \in 0 .. turns |-> IF i = 0 THEN start ELSE HeaderTurn(f[i - 1])]
           after == CHOOSE f : IsAfter(f)
<1>1. start.rest \in Strings /\ Len(start.rest) \in Nat
  BY DEF HeaderStage, Strings
<1>2. turns \in Nat /\ ToRead(start) <= turns
  BY <1>1 DEF ToRead
<1>3. \A at \in S : /\ HeaderTurn(at) \in S /\ ToRead(at) \in Nat
                    /\ ToRead(at) = 0 => ToRead(HeaderTurn(at)) = 0
                    /\ ToRead(at) # 0 => ToRead(HeaderTurn(at)) < ToRead(at)
  BY TurnReads
<1> HIDE DEF S
<1>4. /\ turn \in [S -> S] /\ left \in [S -> Nat]
      /\ \A at \in S : turn[at] = HeaderTurn(at) /\ left[at] = ToRead(at)
  BY <1>3
<1>5. start \in S
  BY DEF S
<1>6. ReadHeaders(start) = after[turns]
  BY DEF ReadHeaders
<1> HIDE DEF turns, turn, left, after
<1>7. left[start] <= turns /\ Nears(S, turn, left)
  BY <1>2, <1>3, <1>4, <1>5 DEF Nears
<1>8. /\ \E f : IsLoopFrom(f, turns, S, start, turn)
      /\ \A f : IsLoop(f, turns, S, start, turn) => f[turns] \in S /\ left[f[turns]] = 0
  <2>1. turn \in [S -> S] /\ left \in [S -> Nat]
    BY <1>4
  <2> QED
    BY ONLY <1>2, <1>5, <1>7, <2>1, LoopEnds
<1>9. PICK f : f \in [0 .. turns -> S] /\ f[0] = start /\ \A i \in 1 .. turns : f[i] = turn[f[i - 1]]
  BY <1>8 DEF IsLoopFrom
<1>10. IsAfter(f)
  <2>1. ASSUME NEW i \in 1 .. turns PROVE f[i] = HeaderTurn(f[i - 1])
    <3>1. i - 1 \in 0 .. turns
      BY <1>2
    <3> QED
      BY <3>1, <1>4, <1>9
  <2>2. \A i \in 0 .. turns : i = 0 \/ i \in 1 .. turns
    BY <1>2
  <2>3. \A i \in 0 .. turns : f[i] = IF i = 0 THEN start ELSE HeaderTurn(f[i - 1])
    BY <2>1, <2>2, <1>9
  <2> QED
    BY <2>3, <1>9
<1>11. IsAfter(after)
  BY <1>10 DEF after
<1>12. IsLoop(after, turns, S, start, turn)
  <2>1. 0 \in 0 .. turns /\ \A i \in 1 .. turns : i \in 0 .. turns /\ i # 0
    BY <1>2
  <2>2. after[0] = start /\ \A i \in 1 .. turns : after[i] = HeaderTurn(after[i - 1])
    BY <2>1, <1>11
  <2> QED
    BY <2>2, <1>4 DEF IsLoop
<1>13. after[turns] \in S /\ left[after[turns]] = 0
  BY <1>8, <1>12
<1> QED
  BY <1>4, <1>6, <1>13 DEF S

(* A reader of headers that is finished reads no more.                     *)
LEMMA HeadersStay ==
    ASSUME NEW h, h.finished, NEW rest \in Strings
    PROVE  LET start == [reader |-> h, rest |-> rest] IN ReadHeaders(start) = start
<1> DEFINE start == [reader |-> h, rest |-> rest]
           S == {start}
           turns == Len(start.rest)
           turn == [at \in S |-> at]
           left == [at \in S |-> 0]
           IsAfter(f) == f = [i \in 0 .. turns |-> IF i = 0 THEN start ELSE HeaderTurn(f[i - 1])]
           after == CHOOSE f : IsAfter(f)
           f0 == [i \in 0 .. turns |-> start]
<1>1. turns \in Nat
  BY DEF Strings
<1>2. HeaderTurn(start) = start
  BY DEF HeaderTurn
<1>3. ReadHeaders(start) = after[turns]
  BY DEF ReadHeaders
<1> HIDE DEF start, turns
<1>4. IsAfter(f0)
  <2>1. \A i \in 0 .. turns : i - 1 \in 0 .. turns \/ i = 0
    BY <1>1
  <2>2. \A i \in 0 .. turns : f0[i] = IF i = 0 THEN start ELSE HeaderTurn(f0[i - 1])
    BY <2>1, <1>2
  <2> QED
    BY <2>2
<1>5. IsAfter(after)
  BY <1>4
<1> HIDE DEF after, f0
<1>6. turn \in [S -> S] /\ left \in [S -> Nat] /\ start \in S /\ left[start] <= turns
  BY <1>1
<1>7. Nears(S, turn, left)
  BY DEF Nears
<1>8. IsLoop(after, turns, S, start, turn)
  <2>1. 0 \in 0 .. turns /\ \A i \in 1 .. turns : i \in 0 .. turns /\ i # 0
    BY <1>1
  <2>2. after[0] = start /\ \A i \in 1 .. turns : after[i] = HeaderTurn(after[i - 1])
    BY <2>1, <1>5
  <2> QED
    BY <2>2, <1>2 DEF IsLoop
<1> HIDE DEF turn, left
<1>9. after[turns] \in S
  BY <1>1, <1>6, <1>7, <1>8, LoopEnds
<1> QED
  BY <1>3, <1>9 DEF start

Readers ==
    [kind : {"request", "response"}, wasHead : BOOLEAN, matched : 0 .. 2, start : Seq(Strings),
     header : HeaderReaders, body : Strings, finished : BOOLEAN]

(* The reader of a message of this kind.                                   *)
Reads(r, kind, wasHead) ==
    r \in Readers /\ r.kind = kind /\ r.wasHead = wasHead /\ ~r.finished /\ ~r.header.failed

(* A message tells its readers the length of its body.                     *)
Sized(kind, wasHead, m) ==
    \A r : r.kind = kind /\ r.wasHead = wasHead /\ r.start = m.start /\ r.header.headers = m.headers
           => BodyLength(r) = {Len(m.body)} /\ ~BadStatus(r)

(* A reader at the o-th token of a stream in which message m, which it has *)
(* begun to read, is over after e tokens: in the start line, the headers   *)
(* or the body.                                                            *)
InStart(r, m, e, o) ==
    /\ r.matched \in 0 .. 1 /\ r.header = HeaderReader /\ r.body = <<>>
    /\ \E q \in Nat : /\ o = e - Len(Text(m)) + q
                      /\ InLine("SP", StartOf(m) \o CRLF, Len(StartOf(m)), q, r.matched, r.start)
InHeaders(r, m, e, o) ==
    /\ r.matched = 2 /\ r.start = m.start /\ ~r.header.finished /\ r.body = <<>>
    /\ HeadersAt(m, e, o, r.header)
InBody(r, m, e, o) ==
    /\ r.matched = 2 /\ r.start = m.start /\ r.header.finished /\ r.header.headers = m.headers
    /\ \E k \in 0 .. Len(m.body) : o = e - Len(m.body) + k /\ r.body = Upto(m.body, k)
Expecting(r, m, e, o) == InStart(r, m, e, o) \/ InHeaders(r, m, e, o) \/ InBody(r, m, e, o)

(* How a call of read ends that was given input up to the end-th token:    *)
(* with all of the message, or with all of the input.                      *)
ReadEnds(got, kind, wasHead, m, s, e, end) ==
    /\ got.reader \in Readers /\ ~got.reader.header.failed /\ got.rest \in Strings
    /\ Piece(s, end - Len(got.rest), got.rest)
    /\ \/ /\ Reads(got.reader, kind, wasHead) /\ got.rest = <<>>
          /\ Expecting(got.reader, m, e, end)
       \/ /\ got.reader.finished /\ Message(got.reader) = m /\ end - Len(got.rest) = e

LEMMA BodyReadOn ==
    ASSUME NEW kind, NEW wasHead, NEW m, WellFormed(m), Sized(kind, wasHead, m),
           NEW s \in Strings, NEW e, ClosesAt(s, e, Text(m)),
           NEW r, Reads(r, kind, wasHead), NEW o, InBody(r, m, e, o),
           NEW input \in Strings, Piece(s, o, input)
    PROVE  ReadEnds(AfterHeaders(r, input), kind, wasHead, m, s, e, o + Len(input))
<1> DEFINE b == m.body
           L == Len(b)
           l == Len(input)
           end == o + l
           got == AfterHeaders(r, input)
<1>1. PartsIn(m, Rests(m), s, e)
  BY TextParts
<1>2. b \in Strings /\ e \in Int /\ Piece(s, e - L, b)
  BY <1>1 DEF PartsIn, ClosesAt
<1>3. /\ L \in Nat /\ l \in Nat /\ Len(s) \in Nat /\ b \in Seq(Tokens) /\ input \in Seq(Tokens)
      /\ o \in Nat /\ e - L \in Nat
  BY <1>2 DEF Strings, Piece
<1>4. PICK k \in 0 .. L : o = e - L + k /\ r.body = Upto(b, k)
  BY DEF InBody
<1> DEFINE n == Smaller(l, L - k)
           u == Upto(input, n)
           v == From(input, n + 1)
           g == [r EXCEPT !.body = @ \o u, !.finished = (k + n = L)]
<1>5. r \in Readers /\ r.kind = kind /\ r.wasHead = wasHead /\ ~r.finished /\ ~r.header.failed
  BY DEF Reads
<1>6. r.matched = 2 /\ r.start = m.start /\ r.header.finished /\ r.header.headers = m.headers
  BY DEF InBody
<1>7. Len(r.body) = k /\ r.body \in Strings
  BY <1>3, <1>4, Cuts DEF Strings
<1>8. got = [reader |-> g, rest |-> v]
  <2>1. BodyLength(r) = {L} /\ ~BadStatus(r)
    BY <1>5, <1>6 DEF Sized
  <2>2. (CHOOSE x \in BodyLength(r) : TRUE) = L
    BY <2>1
  <2>3. got = ReadBody(r, input, L)
    BY <2>1, <2>2, <1>6 DEF AfterHeaders
  <2> QED
    BY <2>3, <1>7 DEF ReadBody
<1>9. n \in 0 .. l /\ n \in 0 .. L - k /\ (n = l \/ k + n = L) /\ k + n \in 0 .. L
  BY <1>3, <1>4 DEF Smaller
<1> HIDE DEF n, got
<1>10. /\ u \in Strings /\ v \in Strings /\ Len(u) = n /\ Len(v) = l - n
       /\ Piece(s, o, u) /\ Piece(s, o + n, v)
  BY <1>9, PiecesOf
<1> HIDE DEF u, v
<1>11. Piece(b, k, u)
  <2>1. ASSUME NEW i \in 1 .. n PROVE u[i] = b[k + i]
    <3>1. k + i \in 1 .. L /\ e - L + (k + i) = o + i
      BY <1>2, <1>3, <1>4, <1>9
    <3>2. b[k + i] = s[e - L + (k + i)]
      BY <1>2, <3>1 DEF Piece
    <3>3. u[i] = s[o + i]
      BY <1>10 DEF Piece
    <3> QED
      BY <3>1, <3>2, <3>3
  <2> QED
    <3>1. k \in Nat /\ k + Len(u) <= L /\ Len(u) = n
      BY <1>3, <1>4, <1>9, <1>10
    <3>2. \A i \in 1 .. Len(u) : u[i] = b[k + i]
      BY <2>1, <3>1
    <3> HIDE DEF b
    <3> QED
      BY ONLY <3>1, <3>2 DEF Piece
<1>12. r.body \o u = Upto(b, k + n)
  <2>1. b \in Strings /\ u \in Strings /\ Piece(b, k, u) /\ Len(u) = n /\ r.body = Upto(b, k)
    BY <1>2, <1>4, <1>10, <1>11
  <2> HIDE DEF b
  <2>2. Upto(b, k) \o u = Upto(b, k + Len(u))
    BY ONLY <2>1, UptoOn
  <2> QED
    BY ONLY <2>1, <2>2
<1>13. Upto(b, k + n) \in Strings
  BY <1>3, <1>9, Cuts DEF Strings
<1>14. /\ g \in Readers /\ g.kind = kind /\ g.wasHead = wasHead /\ g.matched = 2 /\ g.start = m.start
       /\ g.header = r.header /\ g.body = Upto(b, k + n) /\ (g.finished <=> k + n = L)
  <2> DEFINE x == Upto(b, k + n)
             y == (k + n = L)
  <2>1. g = [r EXCEPT !.body = x, !.finished = y] /\ x \in Strings /\ y \in BOOLEAN
    BY <1>12, <1>13
  <2> HIDE DEF x, y, g
  <2>2. /\ g \in Readers /\ g.kind = r.kind /\ g.wasHead = r.wasHead /\ g.matched = r.matched
        /\ g.start = r.start /\ g.header = r.header /\ g.body = x /\ g.finished = y
    BY ONLY <2>1, <1>5 DEF Readers
  <2> QED
    BY <2>2, <1>5, <1>6 DEF x, y
<1> HIDE DEF g
<1>15. end - Len(v) = o + n /\ Piece(s, end - Len(v), v)
  <2>1. end - Len(v) = o + n
    BY <1>3, <1>9, <1>10
  <2> QED
    BY <2>1, <1>10
<1>15a. /\ got.reader = g /\ got.rest = v /\ got.reader \in Readers
        /\ ~got.reader.header.failed /\ got.rest \in Strings
        /\ Piece(s, end - Len(got.rest), got.rest)
  <2>1. got.reader = g /\ got.rest = v
    BY <1>8
  <2>2. Piece(s, end - Len(got.rest), got.rest)
    BY <2>1, <1>15
  <2>3. got.reader.header = r.header
    BY <2>1, <1>14
  <2> QED
    BY <2>1, <2>2, <2>3, <1>5, <1>10, <1>14
<1>16. CASE k + n = L
  <2>1. g.body = b
    <3>1. L \in 0 .. L
      BY <1>3
    <3>2. Upto(b, L) \in Seq(Tokens) /\ Len(Upto(b, L)) = L /\ \A i \in 1 .. L : Upto(b, L)[i] = b[i]
      BY <3>1, <1>3, Cuts
    <3>3. Upto(b, L) = b
      BY <3>2, <1>3, SeqEqual
    <3> QED
      BY <3>3, <1>14, <1>16
  <2>2. m \in [start : Seq(Strings), headers : HeadsSet, body : Strings]
    BY DEF WellFormed
  <2>3. Message(g) = m
    BY <2>1, <2>2, <1>6, <1>14 DEF Message
  <2>4. o + n = e
    BY <1>2, <1>3, <1>4, <1>9, <1>16
  <2> QED
    <3>1. got.reader.finished /\ Message(got.reader) = m /\ end - Len(got.rest) = e
      BY <2>3, <2>4, <1>14, <1>15, <1>15a, <1>16
    <3> HIDE DEF end
    <3> QED
      BY <3>1, <1>15a DEF ReadEnds, got, end
<1>17. CASE k + n # L
  <2>1. n = l /\ Len(v) = 0
    BY <1>3, <1>9, <1>10, <1>17
  <2>2. v = <<>>
    BY <2>1, <1>10, EmptySeq DEF Strings
  <2>3. end = e - L + (k + n)
    BY <2>1, <1>2, <1>3, <1>4
  <2>4. InBody(g, m, e, end)
    BY <2>3, <1>6, <1>9, <1>14 DEF InBody
  <2>5. Reads(g, kind, wasHead)
    BY <1>5, <1>14, <1>17 DEF Reads
  <2> QED
    <3>1. /\ Reads(got.reader, kind, wasHead) /\ got.rest = <<>>
          /\ Expecting(got.reader, m, e, end)
      BY <2>2, <2>4, <2>5, <1>15a DEF Expecting
    <3> HIDE DEF end
    <3> QED
      BY <3>1, <1>15a DEF ReadEnds, got, end
<1> QED
  BY <1>16, <1>17

LEMMA HeadsAndBodyReadOn ==
    ASSUME NEW kind, NEW wasHead, NEW m, WellFormed(m), Sized(kind, wasHead, m),
           NEW s \in Strings, NEW e, ClosesAt(s, e, Text(m)),
           NEW r, Reads(r, kind, wasHead), NEW o \in Nat, InHeaders(r, m, e, o),
           NEW input \in Strings, Piece(s, o, input)
    PROVE  ReadEnds(AfterStart(r, input), kind, wasHead, m, s, e, o + Len(input))
<1> DEFINE end == o + Len(input)
           start == [reader |-> r.header, rest |-> input]
           at == ReadHeaders(start)
           g == [r EXCEPT !.header = at.reader]
<1>1. r \in Readers /\ r.kind = kind /\ r.wasHead = wasHead /\ ~r.finished /\ ~r.header.failed
  BY DEF Reads
<1>2. r.matched = 2 /\ r.start = m.start /\ r.body = <<>> /\ HeadersAt(m, e, o, r.header)
  BY DEF InHeaders
<1>3. start \in HeaderStage(m, s, e, end)
  <2>1. r.header \in HeaderReaders
    BY <1>1 DEF Readers
  <2>2. o \in Nat /\ o + Len(input) = end
    BY DEF Piece
  <2> HIDE DEF end
  <2> QED
    BY <2>1, <2>2, <1>2, AtStage
<1> HIDE DEF start
<1>4. at \in HeaderStage(m, s, e, end) /\ ToRead(at) = 0
  BY <1>3, HeadersReadOn
<1>5. AfterStart(r, input) = AfterHeaders(g, at.rest)
  BY <1>2 DEF AfterStart, HeadersRead, start
<1> HIDE DEF at
<1>6. PICK p \in Nat : HeadersAt(m, e, p, at.reader) /\ Piece(s, p, at.rest) /\ p + Len(at.rest) = end
  BY <1>4 DEF HeaderStage
<1>7. at.reader \in HeaderReaders /\ at.rest \in Strings /\ ~at.reader.failed /\ Len(at.rest) \in Nat
  BY <1>4, <1>6 DEF HeaderStage, HeadersAt, Strings
<1>8. /\ g \in Readers /\ g.kind = kind /\ g.wasHead = wasHead /\ g.matched = 2 /\ g.start = m.start
      /\ g.header = at.reader /\ g.body = <<>> /\ ~g.finished
  <2> DEFINE x == at.reader
  <2>1. g = [r EXCEPT !.header = x] /\ x \in HeaderReaders
    BY <1>7
  <2> HIDE DEF x, g
  <2>2. /\ g \in Readers /\ g.kind = r.kind /\ g.wasHead = r.wasHead /\ g.matched = r.matched
        /\ g.start = r.start /\ g.header = x /\ g.body = r.body /\ g.finished = r.finished
    BY ONLY <2>1, <1>1 DEF Readers
  <2> QED
    BY <2>2, <1>1, <1>2 DEF x
<1> HIDE DEF g
<1>9. Reads(g, kind, wasHead)
  BY <1>7, <1>8 DEF Reads
<1>10. CASE at.reader.finished
  <2>1. at.reader.headers = m.headers /\ p = e - Len(m.body)
    BY <1>6, <1>10 DEF HeadersAt, AtLine
  <2>2. m.body \in Strings
    BY DEF WellFormed
  <2>3. Len(m.body) \in Nat /\ e \in Int
    BY <2>2 DEF Strings, ClosesAt
  <2>4. Upto(m.body, 0) = <<>>
    <3>1. 0 \in 0 .. Len(m.body) /\ m.body \in Seq(Tokens)
      BY <2>2, <2>3 DEF Strings
    <3>2. Upto(m.body, 0) \in Seq(Tokens) /\ Len(Upto(m.body, 0)) = 0
      BY <3>1, Cuts
    <3> QED
      BY <3>2, EmptySeq
  <2>5. InBody(g, m, e, p)
    <3>1. 0 \in 0 .. Len(m.body) /\ p = e - Len(m.body) + 0
      BY <2>1, <2>3
    <3> QED
      BY <3>1, <2>1, <2>4, <1>8, <1>10 DEF InBody
  <2>6. ReadEnds(AfterHeaders(g, at.rest), kind, wasHead, m, s, e, p + Len(at.rest))
    BY <2>5, <1>6, <1>7, <1>9, BodyReadOn
  <2> QED
    BY <2>6, <1>5, <1>6
<1>11. CASE ~at.reader.finished
  <2>1. at.rest = <<>>
    <3> SUFFICES ASSUME at.rest # <<>> PROVE FALSE
      OBVIOUS
    <3>1. Len(at.rest) = 0
      BY <1>4, <1>11 DEF ToRead
    <3> QED
      BY <3>1, <1>7, EmptySeq DEF Strings
  <2>2. Len(at.rest) = 0 /\ p = end
    BY <2>1, <1>6
  <2>3. AfterHeaders(g, at.rest) = [reader |-> g, rest |-> at.rest]
    BY <1>8, <1>11 DEF AfterHeaders
  <2>4. InHeaders(g, m, e, end)
    BY <2>2, <1>6, <1>8, <1>11 DEF InHeaders
  <2>5. Piece(s, end - Len(at.rest), at.rest)
    BY <2>2, <1>6
  <2> QED
    BY <2>1, <2>3, <2>4, <2>5, <1>5, <1>7, <1>8, <1>9 DEF ReadEnds, Expecting
<1> QED
  BY <1>10, <1>11

LEMMA StartIs ==
    ASSUME NEW m, WellFormed(m), NEW line, Stands("SP", line, StartOf(m))
    PROVE  line = m.start
<1>1. m.start \in Seq(Strings) /\ Len(m.start) = 3 /\ OneWord(m.start[1]) /\ OneWord(m.start[2])
  BY DEF WellFormed
<1>2. m.start[1] \in Strings /\ m.start[2] \in Strings /\ m.start[3] \in Strings
  <2>1. 1 \in 1 .. Len(m.start) /\ 2 \in 1 .. Len(m.start) /\ 3 \in 1 .. Len(m.start)
    BY <1>1
  <2> QED
    BY <1>1, <2>1, ElementOfSeq
<1>3. line = <<m.start[1], m.start[2], m.start[3]>>
  BY <1>1, <1>2, SpacedIs DEF Stands, StartOf
<1> DEFINE x == m.start
<1>4. x = <<x[1], x[2], x[3]>>
  BY <1>1
<1> QED
  BY <1>3, <1>4

(* A call of read, wherever the stream is cut.                             *)
LEMMA ReadGoesOn ==
    ASSUME NEW kind, NEW wasHead, NEW m, WellFormed(m), Sized(kind, wasHead, m),
           NEW s \in Strings, NEW e, ClosesAt(s, e, Text(m)),
           NEW r, Reads(r, kind, wasHead), NEW o \in Nat, Expecting(r, m, e, o),
           NEW input \in Strings, Piece(s, o, input), input # <<>>
    PROVE  ReadEnds(Read(r, input), kind, wasHead, m, s, e, o + Len(input))
<1> DEFINE end == o + Len(input)
           got == Scan("SP", [matched |-> r.matched, line |-> r.start, rest |-> input])
           g == [r EXCEPT !.matched = got.matched, !.start = got.line]
<1>1. /\ r \in Readers /\ r.kind = kind /\ r.wasHead = wasHead /\ ~r.finished /\ ~r.header.failed
      /\ Len(input) \in Nat /\ e \in Int
  BY DEF Reads, Strings, ClosesAt
<1>2. Read(r, input) = AfterStart(g, got.rest)
  BY <1>1 DEF Read, StartScanned
<1> HIDE DEF got
<1>3. ASSUME got.matched \in 0 .. 2, got.line \in Seq(Strings)
      PROVE  /\ g \in Readers /\ g.matched = got.matched /\ g.start = got.line
             /\ g.header = r.header /\ g.body = r.body /\ Reads(g, kind, wasHead)
  <2> DEFINE x == got.matched
             y == got.line
  <2>1. g = [r EXCEPT !.matched = x, !.start = y] /\ x \in 0 .. 2 /\ y \in Seq(Strings)
    BY <1>3
  <2> HIDE DEF x, y, g
  <2>2. /\ g \in Readers /\ g.kind = r.kind /\ g.wasHead = r.wasHead /\ g.matched = x
        /\ g.start = y /\ g.header = r.header /\ g.body = r.body /\ g.finished = r.finished
    BY ONLY <2>1, <1>1 DEF Readers
  <2> QED
    BY <2>2, <1>1 DEF x, y, Reads
<1> HIDE DEF g
<1>4. CASE InStart(r, m, e, o)
  <2> DEFINE line == StartOf(m)
             n == Len(line)
             text == line \o CRLF
             base == e - Len(Text(m))
  <2>1. r.matched \in 0 .. 1 /\ r.header = HeaderReader /\ r.body = <<>>
    BY <1>4 DEF InStart
  <2>2. PICK q \in Nat : o = base + q /\ InLine("SP", text, n, q, r.matched, r.start)
    BY <1>4 DEF InStart
  <2>3. line \in Strings /\ Layout(m, Rests(m))
    BY LayoutExists
  <2>4. text \in Strings /\ n \in Nat /\ Len(text) = n + 2 /\ Upto(text, n) = line
    BY <2>3, LineEnds
  <2>5. IsLine(text, n)
    BY DEF WellFormed
  <2>6. Piece(s, base, text) /\ Len(Text(m)) = n + 2 + Len(Rests(m)[0]) /\ Rests(m)[0] \in Strings
    <3>1. PartsIn(m, Rests(m), s, e)
      BY TextParts
    <3>2. 0 \in 0 .. 7
      OBVIOUS
    <3>3. Rests(m)[0] \in Strings
      BY ONLY <3>1, <3>2 DEF PartsIn
    <3>4. Piece(s, base, text) /\ Len(Text(m)) = n + 2 + Len(Rests(m)[0])
      BY <3>1 DEF PartsIn
    <3> QED
      BY <3>3, <3>4
  <2>7. base \in Nat /\ base + (n + 2) = e - Len(Rests(m)[0])
    <3> DEFINE a == Len(Rests(m)[0])
               b == Len(Text(m))
    <3>1. a \in Nat /\ b = n + 2 + a /\ base = e - b
      BY <2>6 DEF Strings
    <3>2. base \in Nat
      BY <2>6 DEF Piece
    <3> HIDE DEF a, b, base, n
    <3>3. base + (n + 2) = e - a
      BY <3>1, <1>1, <2>4
    <3> QED
      BY <3>2, <3>3 DEF a
  <2> HIDE DEF text, n, line, base
  <2>8. /\ EndsScan("SP", text, n, q + Len(input), got)
        /\ got.matched = 2 => Piece(s, base + (n + 2), got.rest)
    <3>1. Piece(s, base + q, input)
      BY <2>2
    <3> QED
      BY <3>1, <2>1, <2>2, <2>4, <2>5, <2>6, LineScannedAt DEF got
  <2>9. CASE got.matched # 2
    <3> DEFINE p == q + Len(input)
    <3>1. got.matched \in 0 .. 1 /\ got.rest = <<>> /\ InLine("SP", text, n, p, got.matched, got.line)
      BY <2>8, <2>9 DEF EndsScan
    <3>2. got.line \in Seq(Strings) /\ p \in Nat
      BY <3>1, <2>4, <2>5, InLineType
    <3>3. got.matched \in 0 .. 2
      BY <3>1
    <3>4. /\ g \in Readers /\ g.matched = got.matched /\ g.start = got.line
          /\ g.header = HeaderReader /\ g.body = <<>> /\ Reads(g, kind, wasHead)
      BY <3>2, <3>3, <1>3, <2>1
    <3>5. Read(r, input) = [reader |-> g, rest |-> <<>>]
      BY <1>2, <3>1, <3>4 DEF AfterStart
    <3>6. end = base + p /\ end \in Nat
      <4> DEFINE l == Len(input)
      <4>1. l \in Nat /\ end = o + l /\ p = q + l
        BY <1>1
      <4> HIDE DEF l, end, p
      <4> QED
        BY ONLY <4>1, <2>2, <2>7
    <3>7. InStart(g, m, e, end)
      <4> HIDE DEF p, end
      <4> QED
        BY <3>1, <3>2, <3>4, <3>6 DEF InStart, base, text, n, line
    <3>8. Piece(s, end - Len(<<>>), <<>>) /\ <<>> \in Strings
      <4>1. o + Len(input) <= Len(s) /\ Len(s) \in Nat
        BY DEF Piece, Strings
      <4> QED
        BY <3>6, <4>1 DEF Piece, Strings
    <3> DEFINE end2 == [reader |-> g, rest |-> <<>>]
    <3>9. end2.reader = g /\ end2.rest = <<>>
      OBVIOUS
    <3>10. ~g.header.failed
      BY <3>4 DEF Reads
    <3> HIDE DEF end2, end
    <3>11. ReadEnds(end2, kind, wasHead, m, s, e, end)
      BY <3>4, <3>7, <3>8, <3>9, <3>10 DEF ReadEnds, Expecting
    <3> QED
      BY <3>5, <3>11 DEF end, end2
  <2>10. CASE got.matched = 2
    <3> DEFINE p == base + (n + 2)
    <3>1. /\ got.rest \in Strings /\ Stands("SP", got.line, line) /\ n + 2 + Len(got.rest) = q + Len(input)
          /\ Piece(s, p, got.rest)
      <4>1. EndsScan("SP", text, n, q + Len(input), got) /\ Piece(s, p, got.rest)
        BY <2>8, <2>10
      <4>2. got.rest \in Strings /\ Stands("SP", got.line, Upto(text, n)) /\ n + 2 + Len(got.rest) = q + Len(input)
        BY ONLY <4>1, <2>10 DEF EndsScan
      <4> QED
        BY <4>1, <4>2, <2>4
    <3>2. got.line = m.start /\ m.start \in Seq(Strings)
      BY <3>1, StartIs DEF line, WellFormed
    <3>3. /\ g \in Readers /\ g.matched = 2 /\ g.start = m.start
          /\ g.header = HeaderReader /\ g.body = <<>> /\ Reads(g, kind, wasHead)
      BY <3>2, <1>3, <2>1, <2>10
    <3>4. HeadersAt(m, e, p, HeaderReader)
      <4>1. /\ HeaderReader \in HeaderReaders /\ ~HeaderReader.failed /\ ~HeaderReader.finished
            /\ HeaderReader.matched = 0 /\ HeaderReader.line = <<<<>>>>
            /\ HeaderReader.headers = NoHeaders
        <5>1. g.header \in HeaderReaders
          BY <3>3 DEF Readers
        <5> QED
          BY <5>1, <3>3 DEF HeaderReader
      <4>2. HeadsUpto(NoHeaders, m, 0)
        <5>1. NoHeaders \in HeadsSet
          BY <4>1 DEF HeaderReaders
        <5>2. NoHeaders.length = {} /\ \A j \in 1 .. 6 : NoHeaders.kept[j] = <<>> /\ ~(j < 0)
          BY KeptNames DEF NoHeaders
        <5> QED
          BY <5>1, <5>2 DEF HeadsUpto
      <4>3. HeadersAt(m, e, e - Len(Rests(m)[0]), HeaderReader)
        BY <4>1, <4>2, <1>1, LineBegins
      <4> QED
        BY <4>3, <2>7
    <3>5. InHeaders(g, m, e, p)
      <4>1. ~HeaderReader.finished
        BY DEF HeaderReader
      <4> QED
        BY <3>3, <3>4, <4>1 DEF InHeaders
    <3>6. p \in Nat /\ p + Len(got.rest) = end
      <4> DEFINE l == Len(input)
                 k == Len(got.rest)
      <4>1. l \in Nat /\ end = o + l /\ p = base + (n + 2) /\ k \in Nat /\ n + 2 + k = q + l
        BY <1>1, <3>1 DEF Strings
      <4> HIDE DEF l, k, end, p
      <4>2. p \in Nat /\ p + k = end
        BY ONLY <4>1, <2>2, <2>4, <2>7
      <4> QED
        BY <4>2 DEF k
    <3> HIDE DEF p
    <3>7. ReadEnds(AfterStart(g, got.rest), kind, wasHead, m, s, e, p + Len(got.rest))
      BY <3>1, <3>3, <3>5, <3>6, HeadsAndBodyReadOn
    <3> QED
      BY <3>6, <3>7, <1>2
  <2> QED
    BY <2>9, <2>10
<1>5. CASE InHeaders(r, m, e, o) \/ InBody(r, m, e, o)
  <2>1. r.matched = 2 /\ r.start = m.start
    BY <1>5 DEF InHeaders, InBody
  <2>2. got = [matched |-> 2, line |-> r.start, rest |-> input]
    BY <2>1, ScanStays DEF got
  <2>3. got.matched = 2 /\ got.line = r.start /\ got.rest = input /\ r.start \in Seq(Strings)
    BY <2>2, <1>1 DEF Readers
  <2>4. /\ g \in Readers /\ g.matched = 2 /\ g.start = m.start
        /\ g.header = r.header /\ g.body = r.body /\ Reads(g, kind, wasHead)
    BY <2>1, <2>3, <1>3
  <2>5. Read(r, input) = AfterStart(g, input)
    BY <1>2, <2>3
  <2>6. CASE InHeaders(r, m, e, o)
    <3>1. InHeaders(g, m, e, o)
      BY <2>4, <2>6 DEF InHeaders
    <3> QED
      BY <3>1, <2>4, <2>5, HeadsAndBodyReadOn
  <2>7. CASE InBody(r, m, e, o)
    <3> DEFINE at == ReadHeaders([reader |-> g.header, rest |-> input])
               f == [g EXCEPT !.header = at.reader]
    <3>1. at = [reader |-> g.header, rest |-> input]
      BY <2>4, <2>7, HeadersStay DEF InBody
    <3>2. AfterStart(g, input) = AfterHeaders(f, at.rest)
      BY <2>4 DEF AfterStart, HeadersRead
    <3> HIDE DEF at
    <3>3. at.reader = g.header /\ at.rest = input
      BY <3>1
    <3>4. f = g
      <4>1. f = [g EXCEPT !.header = g.header]
        BY <3>3
      <4> QED
        BY <4>1, <2>4 DEF Readers
    <3>5. InBody(g, m, e, o)
      BY <2>4, <2>7 DEF InBody
    <3>6. ReadEnds(AfterHeaders(g, input), kind, wasHead, m, s, e, o + Len(input))
      BY <3>5, <2>4, BodyReadOn
    <3> QED
      BY <3>2, <3>3, <3>4, <3>6, <2>5
  <2> QED
    BY <1>5, <2>6, <2>7
<1> QED
  BY <1>4, <1>5 DEF Expecting

(* A new reader, at the beginning of a message.                            *)
LEMMA ReaderBegins ==
    ASSUME NEW kind \in {"request", "response"}, NEW wasHead \in BOOLEAN,
           NEW m, WellFormed(m), NEW s \in Strings, NEW e, ClosesAt(s, e, Text(m))
    PROVE  /\ Reads(Reader(kind, wasHead), kind, wasHead)
           /\ Expecting(Reader(kind, wasHead), m, e, e - Len(Text(m)))
<1> DEFINE r == Reader(kind, wasHead)
           line == StartOf(m)
           n == Len(line)
           text == line \o CRLF
<1>1. /\ r.kind = kind /\ r.wasHead = wasHead /\ r.matched = 0 /\ r.start = <<<<>>>>
      /\ r.header = HeaderReader /\ r.body = <<>> /\ r.finished = FALSE
      /\ r = [kind |-> kind, wasHead |-> wasHead, matched |-> 0, start |-> <<<<>>>>,
              header |-> HeaderReader, body |-> <<>>, finished |-> FALSE]
  BY DEF Reader
<1>2. HeaderReader \in HeaderReaders /\ ~HeaderReader.failed
  <2>1. <<>> \in Strings /\ <<<<>>>> \in Seq(Strings)
    BY NothingSpaced, StringAlgebra DEF SpacedAs
  <2>2. [i \in DOMAIN Kept |-> <<>>] \in [1 .. 6 -> Strings] /\ {} \in SUBSET (0 .. 2)
    BY <2>1, KeptNames
  <2>3. NoHeaders \in HeadsSet
    BY <2>2 DEF NoHeaders, HeadsSet
  <2> QED
    BY <2>1, <2>3 DEF HeaderReader, HeaderReaders
<1>3. Reads(r, kind, wasHead)
  <2>1. <<>> \in Strings /\ <<<<>>>> \in Seq(Strings)
    BY NothingSpaced, StringAlgebra DEF SpacedAs
  <2>2. r \in Readers
    BY <2>1, <1>1, <1>2 DEF Readers
  <2> HIDE DEF r
  <2> QED
    BY <2>2, <1>1, <1>2 DEF Reads
<1>4. line \in Strings /\ Text(m) \in Strings
  BY LayoutExists
<1>5. text \in Strings /\ n \in Nat
  BY <1>4, LineEnds
<1>6. InLine("SP", text, n, 0, 0, <<<<>>>>)
  <2> HIDE DEF text
  <2>1. 0 \in 0 .. Len(text) /\ text \in Seq(Tokens)
    BY <1>5 DEF Strings
  <2>2. Upto(text, 0) \in Seq(Tokens) /\ Len(Upto(text, 0)) = 0
    BY <2>1, Cuts
  <2>3. Upto(text, 0) = <<>>
    BY <2>2, EmptySeq
  <2> HIDE DEF n
  <2> QED
    BY <2>3, <1>5, NothingSpaced DEF InLine, Stands
<1>7. e - Len(Text(m)) = e - Len(Text(m)) + 0
  BY <1>4 DEF ClosesAt, Strings
<1> HIDE DEF r
<1>8. InStart(r, m, e, e - Len(Text(m)))
  BY <1>1, <1>6, <1>7 DEF InStart
<1> QED
  BY <1>3, <1>8 DEF Expecting, r

(* A reader in the start line is not at the end of the message.            *)
LEMMA StartIsBefore ==
    ASSUME NEW m, WellFormed(m), NEW s \in Strings, NEW e, ClosesAt(s, e, Text(m)),
           NEW r, NEW o, InStart(r, m, e, o)
    PROVE  o \in Int /\ o < e
<1> DEFINE n == Len(StartOf(m))
           a == Len(Text(m))
           b == Len(Rests(m)[0])
<1>1. PICK q \in Nat : /\ o = e - a + q
                       /\ InLine("SP", StartOf(m) \o CRLF, n, q, r.matched, r.start)
  BY DEF InStart
<1>2. r.matched \in 0 .. 1 /\ e \in Int
  BY DEF InStart, ClosesAt
<1>3. StartOf(m) \in Strings /\ n \in Nat
  BY LayoutExists, LineEnds
<1>4. q <= n + 1
  BY <1>1, <1>2, <1>3 DEF InLine
<1>5. PartsIn(m, Rests(m), s, e) /\ 0 \in 0 .. 7
  BY TextParts
<1>6. a = n + 2 + b /\ Rests(m)[0] \in Strings
  BY <1>5 DEF PartsIn
<1>7. b \in Nat
  BY <1>6 DEF Strings
<1>8. o = e - a + q
  BY <1>1
<1> HIDE DEF n, a, b
<1> QED
  BY ONLY <1>2, <1>3, <1>4, <1>6, <1>7, <1>8

(* A reader has not gone past the message that it reads.                   *)
LEMMA ExpectingBefore ==
    ASSUME NEW m, WellFormed(m), NEW s \in Strings, NEW e, ClosesAt(s, e, Text(m)),
           NEW r, NEW o, Expecting(r, m, e, o)
    PROVE  o <= e
<1>1. e \in Int
  BY DEF ClosesAt
<1>2. CASE InStart(r, m, e, o)
  BY <1>1, <1>2, StartIsBefore
<1>3. CASE InHeaders(r, m, e, o)
  <2>1. PICK i \in 0 .. 7 : AtLine(m, e, o, r.header, i)
    BY <1>3 DEF InHeaders, HeadersAt
  <2> DEFINE n == Len(LineOf(m, i))
             base == e - Len(Rests(m)[i])
             x == IF i = 7 THEN Len(m.body) ELSE Len(Rests(m)[i + 1])
  <2>2. r.header.matched \in 0 .. 1 /\ Present(m, i)
    BY <2>1 DEF AtLine
  <2>3. PICK q \in Nat : /\ o = base + q
                         /\ InLine(":", LineOf(m, i) \o CRLF, n, q, r.header.matched, r.header.line)
    BY <2>1 DEF AtLine
  <2>4. n \in Nat /\ base \in Nat /\ base + (n + 2) = e - x
    BY <2>2, LineInText
  <2>5. q <= n + 1
    BY <2>2, <2>3, <2>4 DEF InLine
  <2>6. x \in Nat
    <3>1. m.body \in Strings /\ Layout(m, Rests(m))
      BY LayoutExists DEF WellFormed
    <3>2. i # 7 => i + 1 \in 0 .. 7
      OBVIOUS
    <3>3. i # 7 => Rests(m)[i + 1] \in Strings
      BY <3>1, <3>2 DEF Layout
    <3> QED
      BY <3>1, <3>3 DEF Strings
  <2>7. o = base + q
    BY <2>3
  <2> HIDE DEF n, base, x
  <2> QED
    BY ONLY <2>4, <2>5, <2>6, <2>7, <1>1
<1>4. CASE InBody(r, m, e, o)
  <2>1. Len(m.body) \in Nat
    BY DEF WellFormed, Strings
  <2> QED
    BY <2>1, <1>1, <1>4 DEF InBody
<1> QED
  BY <1>2, <1>3, <1>4 DEF Expecting

(* A stream that goes on.                                                  *)
Continues(s, t) == Len(s) <= Len(t) /\ \A i \in 1 .. Len(s) : t[i] = s[i]

LEMMA PieceGrows ==
    ASSUME NEW s \in Strings, NEW t \in Strings, Continues(s, t), NEW q, NEW w \in Strings,
           Piece(s, q, w)
    PROVE  Piece(t, q, w)
<1>1. Len(s) \in Nat /\ Len(t) \in Nat /\ Len(w) \in Nat
  BY DEF Strings
<1>2. q \in Nat /\ q + Len(w) <= Len(t)
  BY <1>1 DEF Piece, Continues
<1>3. ASSUME NEW i \in 1 .. Len(w) PROVE w[i] = t[q + i]
  <2>1. q + i \in 1 .. Len(s)
    BY <1>1, <1>2 DEF Piece
  <2> QED
    BY <2>1 DEF Piece, Continues
<1> QED
  BY <1>2, <1>3 DEF Piece

LEMMA PieceAfterPiece ==
    ASSUME NEW s \in Strings, NEW q, NEW a \in Strings, NEW b \in Strings,
           Piece(s, q, a), Piece(s, q + Len(a), b)
    PROVE  Cat(a, b) \in Strings /\ Len(Cat(a, b)) = Len(a) + Len(b) /\ Piece(s, q, Cat(a, b))
<1> DEFINE w == Cat(a, b)
<1>1. /\ Len(a) \in Nat /\ Len(b) \in Nat /\ a \in Seq(Tokens) /\ b \in Seq(Tokens)
      /\ Len(s) \in Nat
  BY DEF Strings
<1>2. /\ w \in Strings /\ Len(w) = Len(a) + Len(b)
      /\ \A i \in 1 .. Len(a) : w[i] = a[i]
      /\ \A i \in 1 .. Len(b) : w[Len(a) + i] = b[i]
  <2>1. w \in Strings /\ IsCat(w, a, b)
    BY <1>1, CatPlaces, StringCat
  <2> HIDE DEF w
  <2> QED
    BY <2>1 DEF IsCat
<1> HIDE DEF w
<1>3. q \in Nat /\ q + Len(w) <= Len(s)
  BY <1>1, <1>2 DEF Piece
<1>4. ASSUME NEW i \in 1 .. Len(w) PROVE w[i] = s[q + i]
  <2>1. CASE i <= Len(a)
    BY <2>1, <1>1, <1>2 DEF Piece
  <2>2. CASE i > Len(a)
    <3> DEFINE j == i - Len(a)
    <3>1. j \in 1 .. Len(b) /\ i = Len(a) + j /\ q + Len(a) + j = q + i
      BY <2>2, <1>1, <1>2, <1>3
    <3> HIDE DEF j
    <3>2. b[j] = s[q + Len(a) + j] /\ w[Len(a) + j] = b[j]
      BY <3>1, <1>2 DEF Piece
    <3> QED
      BY <3>1, <3>2
  <2> QED
    BY <2>1, <2>2, <1>1
<1> QED
  BY <1>2, <1>3, <1>4 DEF Piece, w

LEMMA MiddlePiece ==
    ASSUME NEW s \in Strings, NEW q, NEW t \in Strings, Piece(s, q, t),
           NEW j \in Nat, NEW n \in Nat, j + n <= Len(t)
    PROVE  LET w == SubSeq(t, j + 1, j + n) IN
           w \in Strings /\ Len(w) = n /\ Piece(s, q + j, w)
<1> DEFINE w == SubSeq(t, j + 1, j + n)
<1>1. t \in Seq(Tokens) /\ Len(t) \in Nat
  BY DEF Strings
<1>2. w \in Seq(Tokens) /\ Len(w) = n /\ \A i \in 1 .. n : w[i] = t[j + i]
  <2>1. CASE n = 0
    <3>1. w = <<>>
      BY <2>1, <1>1
    <3> QED
      BY <2>1, <3>1
  <2>2. CASE n # 0
    <3> DEFINE a == j + 1
               b == j + n
    <3>1. a \in Int /\ b \in Int /\ a <= b /\ b - a + 1 = n
      BY <2>2
    <3>2. \A i \in a .. b : t[i] \in Tokens
      BY <1>1
    <3>3. \A i \in 1 .. n : a + i - 1 = j + i
      OBVIOUS
    <3>4. w = SubSeq(t, a, b)
      OBVIOUS
    <3> HIDE DEF a, b, w
    <3>5. /\ SubSeq(t, a, b) \in Seq(Tokens) /\ Len(SubSeq(t, a, b)) = b - a + 1
          /\ \A i \in 1 .. b - a + 1 : SubSeq(t, a, b)[i] = t[a + i - 1]
      BY <3>1, <3>2, SubSeqProperties
    <3> QED
      BY <3>1, <3>3, <3>4, <3>5
  <2> QED
    BY <2>1, <2>2
<1> HIDE DEF w
<1>3. ASSUME NEW i \in 1 .. n PROVE w[i] = s[q + j + i]
  <2>1. j + i \in 1 .. Len(t) /\ q + (j + i) = q + j + i
    BY <1>1 DEF Piece
  <2> QED
    BY <2>1, <1>2 DEF Piece
<1>4. q + j \in Nat /\ q + j + n <= Len(s) /\ Len(s) \in Nat
  BY <1>1 DEF Piece, Strings
<1> QED
  BY <1>2, <1>3, <1>4 DEF Piece, Strings, w

------------------------------------------------------------------------------
(* One direction of a connection: the messages of list are written one     *)
(* after the other, `pending` of them not yet begun, and read one after    *)
(* the other, `done` of them to the end.  ends[i] is where in the stream s *)
(* of all of their texts the i-th is over; the ring holds the tokens after *)
(* the a-th, up to the b-th.                                               *)
Messages == [start : Seq(Strings), headers : HeadsSet, body : Strings]

Stream(list, s, ends) ==
    /\ ends \in [0 .. Len(list) -> Nat] /\ ends[0] = 0 /\ ends[Len(list)] = Len(s)
    /\ \A i \in 1 .. Len(list) : /\ ClosesAt(s, ends[i], Text(list[i]))
                                 /\ ends[i - 1] = ends[i] - Len(Text(list[i]))

Sending(list, pending, writer, ends, b) ==
    LET k == Len(list) - Len(pending) IN
    /\ pending \in Seq(Messages) /\ k \in 0 .. Len(list)
    /\ \A i \in 1 .. Len(pending) : pending[i] = list[k + i]
    /\ \/ writer = {} /\ b = ends[k]
       \/ k # 0 /\ \E j \in Nat : /\ j < Len(Text(list[k])) /\ b = ends[k - 1] + j
                                  /\ writer = {[text |-> Text(list[k]), written |-> j]}

Receiving(list, kind, wasHead, reading, done, ends, a) ==
    /\ done \in Seq(Messages) /\ Len(done) <= Len(list)
    /\ \A i \in 1 .. Len(done) : done[i] = list[i]
    /\ \/ reading = {} /\ a = ends[Len(done)]
       \/ /\ Len(done) < Len(list)
          /\ \E r : /\ reading = {r} /\ Reads(r, kind, wasHead)
                    /\ Expecting(r, list[Len(done) + 1], ends[Len(done) + 1], a)

Carried(s, buffered, a, b) ==
    /\ buffered \in Strings /\ Len(buffered) <= HttpCapacity /\ Piece(s, a, buffered) /\ b = a + Len(buffered)

Readable(list, kind, wasHead) ==
    /\ list \in Seq(Messages)
    /\ \A i \in 1 .. Len(list) : WellFormed(list[i]) /\ Sized(kind, wasHead, list[i])

Pipe(list, kind, wasHead, pending, writer, buffered, reading, done) ==
    /\ Readable(list, kind, wasHead)
    /\ \E s \in Strings : \E ends : \E a \in Nat, b \in Nat :
          /\ Stream(list, s, ends) /\ Sending(list, pending, writer, ends, b)
          /\ Receiving(list, kind, wasHead, reading, done, ends, a) /\ Carried(s, buffered, a, b)

LEMMA StreamPlaces ==
    ASSUME NEW list, NEW kind, NEW wasHead, Readable(list, kind, wasHead),
           NEW s \in Strings, NEW ends, Stream(list, s, ends), NEW i \in 1 .. Len(list)
    PROVE  /\ Text(list[i]) \in Strings /\ Len(Text(list[i])) \in Nat
           /\ ends[i] \in Nat /\ ends[i - 1] \in Nat
           /\ ends[i] = ends[i - 1] + Len(Text(list[i]))
           /\ ClosesAt(s, ends[i], Text(list[i])) /\ Piece(s, ends[i - 1], Text(list[i]))
           /\ WellFormed(list[i]) /\ Sized(kind, wasHead, list[i])
<1>1. WellFormed(list[i]) /\ Sized(kind, wasHead, list[i]) /\ Len(list) \in Nat
  BY DEF Readable
<1>2. Text(list[i]) \in Strings
  BY <1>1, LayoutExists
<1> DEFINE l == Len(Text(list[i]))
<1>3. l \in Nat
  BY <1>2 DEF Strings
<1>4. i \in 0 .. Len(list) /\ i - 1 \in 0 .. Len(list)
  BY <1>1
<1>5. ends[i] \in Nat /\ ends[i - 1] \in Nat /\ ends[i - 1] = ends[i] - l
      /\ ClosesAt(s, ends[i], Text(list[i]))
  BY <1>4 DEF Stream
<1>6. Piece(s, ends[i] - l, Text(list[i]))
  BY <1>5 DEF ClosesAt
<1>7. Piece(s, ends[i - 1], Text(list[i]))
  BY <1>5, <1>6
<1> HIDE DEF l
<1>8. ends[i] = ends[i - 1] + l
  BY <1>3, <1>5
<1> QED
  BY <1>1, <1>2, <1>3, <1>5, <1>7, <1>8 DEF l

LEMMA PipeIsLaid ==
    ASSUME NEW kind, NEW wasHead
    PROVE  Pipe(<<>>, kind, wasHead, <<>>, {}, <<>>, {}, <<>>)
<1> DEFINE ends == [i \in 0 .. 0 |-> 0]
<1>1. <<>> \in Strings /\ Len(<<>>) = 0 /\ <<>> \in Seq(Messages)
  BY DEF Strings
<1>2. ends \in [0 .. 0 -> Nat] /\ ends[0] = 0
  OBVIOUS
<1> HIDE DEF ends
<1>3. Readable(<<>>, kind, wasHead)
  BY <1>1 DEF Readable
<1>4. Stream(<<>>, <<>>, ends)
  BY <1>1, <1>2 DEF Stream
<1>5. Sending(<<>>, <<>>, {}, ends, 0)
  BY <1>1, <1>2 DEF Sending
<1>6. Receiving(<<>>, kind, wasHead, {}, <<>>, ends, 0)
  BY <1>1, <1>2 DEF Receiving
<1>7. Carried(<<>>, <<>>, 0, 0)
  BY <1>1, HttpConstants DEF Carried, Piece
<1> QED
  BY <1>1, <1>3, <1>4, <1>5, <1>6, <1>7 DEF Pipe

(* A message more to write.                                                *)
LEMMA Pushed ==
    ASSUME NEW list, NEW kind, NEW wasHead, NEW pending, NEW writer, NEW buffered, NEW reading,
           NEW done, Pipe(list, kind, wasHead, pending, writer, buffered, reading, done),
           NEW m \in Messages, WellFormed(m), Sized(kind, wasHead, m)
    PROVE  Pipe(Append(list, m), kind, wasHead, Append(pending, m), writer, buffered, reading, done)
<1> DEFINE n == Len(list)
           list2 == Append(list, m)
           pending2 == Append(pending, m)
           t == Text(m)
<1>1. Readable(list, kind, wasHead)
  BY DEF Pipe
<1>2. PICK s \in Strings : \E ends : \E a \in Nat, b \in Nat :
          /\ Stream(list, s, ends) /\ Sending(list, pending, writer, ends, b)
          /\ Receiving(list, kind, wasHead, reading, done, ends, a) /\ Carried(s, buffered, a, b)
  BY DEF Pipe
<1>3. PICK ends : \E a \in Nat, b \in Nat :
          /\ Stream(list, s, ends) /\ Sending(list, pending, writer, ends, b)
          /\ Receiving(list, kind, wasHead, reading, done, ends, a) /\ Carried(s, buffered, a, b)
  BY <1>2
<1>4. PICK a \in Nat, b \in Nat :
          /\ Stream(list, s, ends) /\ Sending(list, pending, writer, ends, b)
          /\ Receiving(list, kind, wasHead, reading, done, ends, a) /\ Carried(s, buffered, a, b)
  BY <1>3
<1> DEFINE s2 == Cat(s, t)
           ends2 == [i \in 0 .. n + 1 |-> IF i = n + 1 THEN Len(s2) ELSE ends[i]]
<1>5. list \in Seq(Messages) /\ n \in Nat /\ pending \in Seq(Messages) /\ Len(pending) \in Nat
      /\ n - Len(pending) \in 0 .. n
  BY <1>1, <1>4 DEF Readable, Sending
<1>6. /\ list2 \in Seq(Messages) /\ Len(list2) = n + 1 /\ list2[n + 1] = m
      /\ \A i \in 1 .. n : list2[i] = list[i]
  BY <1>5
<1>7. /\ pending2 \in Seq(Messages) /\ Len(pending2) = Len(pending) + 1
      /\ pending2[Len(pending) + 1] = m /\ \A i \in 1 .. Len(pending) : pending2[i] = pending[i]
  BY <1>5
<1>8. t \in Strings /\ Len(t) \in Nat /\ Len(s) \in Nat /\ s \in Seq(Tokens) /\ t \in Seq(Tokens)
  BY LayoutExists DEF Strings
<1>9. /\ s2 \in Strings /\ Len(s2) = Len(s) + Len(t) /\ Continues(s, s2)
      /\ Piece(s2, Len(s), t)
  <2>1. s2 \in Strings /\ IsCat(s2, s, t)
    BY <1>8, CatPlaces, StringCat
  <2> HIDE DEF s2, t
  <2> QED
    BY <2>1, <1>8 DEF IsCat, Continues, Piece
<1> HIDE DEF list2, pending2, t, s2
<1>10. ends \in [0 .. n -> Nat] /\ ends[0] = 0 /\ ends[n] = Len(s)
  BY <1>4 DEF Stream
<1>11. /\ ends2 \in [0 .. n + 1 -> Nat] /\ ends2[n + 1] = Len(s2)
       /\ \A i \in 0 .. n : ends2[i] = ends[i]
  <2>1. Len(s2) \in Nat
    BY <1>8, <1>9
  <2>2. \A i \in 0 .. n + 1 : i = n + 1 \/ i \in 0 .. n
    BY <1>5
  <2>3. n + 1 \in 0 .. n + 1 /\ \A i \in 0 .. n : i \in 0 .. n + 1 /\ i # n + 1
    BY <1>5
  <2> HIDE DEF n
  <2> QED
    BY <2>1, <2>2, <2>3, <1>10
<1> HIDE DEF ends2, n
<1>12. Readable(list2, kind, wasHead)
  <2>1. \A i \in 1 .. n + 1 : i = n + 1 \/ i \in 1 .. n
    BY <1>5
  <2>2. \A i \in 1 .. n : WellFormed(list[i]) /\ Sized(kind, wasHead, list[i])
    BY <1>1 DEF Readable, n
  <2> QED
    BY <2>1, <2>2, <1>6 DEF Readable
<1>13. Stream(list2, s2, ends2)
  <2>1. ASSUME NEW i \in 1 .. n + 1
        PROVE  /\ ClosesAt(s2, ends2[i], Text(list2[i]))
               /\ ends2[i - 1] = ends2[i] - Len(Text(list2[i]))
    <3>1. CASE i = n + 1
      <4>1. ends2[i - 1] = Len(s) /\ ends2[i] = Len(s2) /\ list2[i] = m
        <5>1. i - 1 = n /\ n \in 0 .. n
          BY <3>1, <1>5
        <5> QED
          BY <5>1, <3>1, <1>6, <1>10, <1>11
      <4>2. Len(s2) - Len(t) = Len(s) /\ Len(s2) \in Int
        BY <1>8, <1>9
      <4>3. ClosesAt(s2, Len(s2), t)
        BY <4>2, <1>9 DEF ClosesAt
      <4> QED
        BY <4>1, <4>2, <4>3 DEF t
    <3>2. CASE i # n + 1
      <4>1. i \in 1 .. n /\ i \in 0 .. n /\ i - 1 \in 0 .. n
        BY <3>2, <1>5
      <4>2. ClosesAt(s, ends[i], Text(list[i])) /\ ends[i - 1] = ends[i] - Len(Text(list[i]))
        BY <4>1, <1>4 DEF Stream, n
      <4>3. Text(list[i]) \in Strings
        BY <4>1, <1>1, <1>4, StreamPlaces DEF n
      <4>4. ClosesAt(s2, ends[i], Text(list[i]))
        BY <4>2, <4>3, <1>9, PieceGrows DEF ClosesAt
      <4> QED
        BY <4>1, <4>2, <4>4, <1>6, <1>11
    <3> QED
      BY <3>1, <3>2
  <2>2. ends2[0] = 0
    BY <1>5, <1>10, <1>11
  <2> QED
    BY <2>1, <2>2, <1>6, <1>11 DEF Stream
<1>14. Sending(list2, pending2, writer, ends2, b)
  <2> DEFINE k == n - Len(pending)
  <2>1. k \in 0 .. n /\ k \in 0 .. n + 1 /\ Len(list2) - Len(pending2) = k
    BY <1>5, <1>6, <1>7 DEF n
  <2>2. ASSUME NEW i \in 1 .. Len(pending) + 1 PROVE pending2[i] = list2[k + i]
    <3>1. CASE i = Len(pending) + 1
      <4>1. k + i = n + 1
        BY <3>1, <1>5
      <4> QED
        BY <4>1, <3>1, <1>6, <1>7
    <3>2. CASE i # Len(pending) + 1
      <4>1. i \in 1 .. Len(pending) /\ k + i \in 1 .. n
        BY <3>2, <2>1, <1>5
      <4>2. pending[i] = list[k + i]
        BY <4>1, <1>4 DEF Sending, n
      <4> QED
        BY <4>1, <4>2, <1>6, <1>7
    <3> QED
      BY <3>1, <3>2
  <2>3. \/ writer = {} /\ b = ends[k]
        \/ k # 0 /\ \E j \in Nat : /\ j < Len(Text(list[k])) /\ b = ends[k - 1] + j
                                   /\ writer = {[text |-> Text(list[k]), written |-> j]}
    BY <1>4 DEF Sending, n
  <2>4. ends2[k] = ends[k] /\ (k # 0 => ends2[k - 1] = ends[k - 1] /\ list2[k] = list[k])
    <3>1. k # 0 => k - 1 \in 0 .. n /\ k \in 1 .. n
      <4> HIDE DEF k
      <4> QED
        BY <2>1, <1>5
    <3> QED
      BY <3>1, <2>1, <1>6, <1>11
  <2> HIDE DEF k
  <2>5. \/ writer = {} /\ b = ends2[k]
        \/ k # 0 /\ \E j \in Nat : /\ j < Len(Text(list2[k])) /\ b = ends2[k - 1] + j
                                   /\ writer = {[text |-> Text(list2[k]), written |-> j]}
    BY <2>3, <2>4
  <2> QED
    BY <2>1, <2>2, <2>5, <1>6, <1>7 DEF Sending
<1>15. Receiving(list2, kind, wasHead, reading, done, ends2, a)
  <2> DEFINE d == Len(done)
  <2>1. /\ done \in Seq(Messages) /\ d <= n /\ d \in Nat
        /\ \A i \in 1 .. d : done[i] = list[i]
        /\ \/ reading = {} /\ a = ends[d]
           \/ d < n /\ \E r : /\ reading = {r} /\ Reads(r, kind, wasHead)
                              /\ Expecting(r, list[d + 1], ends[d + 1], a)
    BY <1>4 DEF Receiving, n
  <2>2. d \in 0 .. n /\ d <= n + 1 /\ \A i \in 1 .. d : i \in 1 .. n
    BY <2>1, <1>5
  <2>3. d < n => d + 1 \in 1 .. n /\ d + 1 \in 0 .. n /\ d < n + 1
    BY <2>1, <1>5
  <2> HIDE DEF d
  <2>4. \A i \in 1 .. d : done[i] = list2[i]
    BY <2>1, <2>2, <1>6
  <2>5. \/ reading = {} /\ a = ends2[d]
        \/ d < n + 1 /\ \E r : /\ reading = {r} /\ Reads(r, kind, wasHead)
                               /\ Expecting(r, list2[d + 1], ends2[d + 1], a)
    BY <2>1, <2>2, <2>3, <1>6, <1>11
  <2> QED
    BY <2>1, <2>2, <2>4, <2>5, <1>6 DEF Receiving, d
<1>16. Carried(s2, buffered, a, b)
  BY <1>4, <1>9, PieceGrows DEF Carried
<1> QED
  BY <1>9, <1>12, <1>13, <1>14, <1>15, <1>16 DEF Pipe, list2, pending2

(* The writer takes what it writes from the messages that are pending.     *)
Left(writer, pending) == IF writer = {} THEN Tail(pending) ELSE pending
Writes(list, left, ends, b, w) ==
    LET k == Len(list) - Len(left) IN
    /\ left \in Seq(Messages) /\ k \in 1 .. Len(list)
    /\ \A i \in 1 .. Len(left) : left[i] = list[k + i]
    /\ \E j \in Nat : /\ j <= Len(Text(list[k])) /\ b = ends[k - 1] + j
                      /\ w = [text |-> Text(list[k]), written |-> j]

LEMMA WriterIs ==
    ASSUME NEW list, NEW kind, NEW wasHead, Readable(list, kind, wasHead),
           NEW s \in Strings, NEW ends, Stream(list, s, ends),
           NEW pending, NEW writer, NEW b, Sending(list, pending, writer, ends, b),
           writer # {} \/ pending # <<>>,
           NEW w \in IF writer # {} THEN writer
                     ELSE {[text |-> Text(Head(pending)), written |-> 0]}
    PROVE  Writes(list, Left(writer, pending), ends, b, w)
<1> DEFINE left == Left(writer, pending)
           k == Len(list) - Len(pending)
<1>1. /\ pending \in Seq(Messages) /\ k \in 0 .. Len(list)
      /\ \A i \in 1 .. Len(pending) : pending[i] = list[k + i]
      /\ Len(pending) \in Nat /\ Len(list) \in Nat
  BY DEF Sending, Readable
<1>2. CASE writer # {}
  <2>1. k # 0 /\ \E j \in Nat : /\ j < Len(Text(list[k])) /\ b = ends[k - 1] + j
                                /\ writer = {[text |-> Text(list[k]), written |-> j]}
    BY <1>2 DEF Sending
  <2>2. PICK j \in Nat : /\ j < Len(Text(list[k])) /\ b = ends[k - 1] + j
                         /\ writer = {[text |-> Text(list[k]), written |-> j]}
    BY <2>1
  <2>3. k \in 1 .. Len(list)
    BY <1>1, <2>1
  <2>4. Len(Text(list[k])) \in Nat
    BY <2>3, StreamPlaces
  <2>5. j <= Len(Text(list[k])) /\ w = [text |-> Text(list[k]), written |-> j]
    BY <1>2, <2>2, <2>4
  <2>6. left = pending
    BY <1>2 DEF Left
  <2> QED
    BY <1>1, <2>2, <2>3, <2>5, <2>6 DEF Writes
<1>3. CASE writer = {}
  <2>1. b = ends[k] /\ pending # <<>> /\ left = Tail(pending)
        /\ w = [text |-> Text(Head(pending)), written |-> 0]
    BY <1>3 DEF Sending, Left
  <2>2. /\ left \in Seq(Messages) /\ Len(pending) >= 1 /\ Len(left) = Len(pending) - 1
        /\ \A i \in 1 .. Len(left) : left[i] = pending[i + 1]
        /\ Head(pending) = pending[1]
    BY <1>1, <2>1, EmptySeq, HeadTailProperties
  <2> DEFINE x == Len(list) - Len(left)
  <2>3. x = k + 1 /\ x \in 1 .. Len(list) /\ x - 1 = k
    <3> DEFINE p == Len(pending)
               l == Len(left)
               y == Len(list)
    <3>1. p \in Nat /\ y \in Nat /\ k = y - p /\ k \in 0 .. y /\ p >= 1 /\ l = p - 1 /\ x = y - l
      BY <1>1, <2>2
    <3> HIDE DEF p, l, y, k, x
    <3>2. x = k + 1 /\ x \in 1 .. y /\ x - 1 = k
      BY ONLY <3>1
    <3> QED
      BY <3>2 DEF y
  <2>4. Head(pending) = list[x]
    <3>1. 1 \in 1 .. Len(pending)
      BY <1>1, <2>2
    <3> QED
      BY <3>1, <1>1, <2>2, <2>3
  <2>5. ASSUME NEW i \in 1 .. Len(left) PROVE left[i] = list[x + i]
    <3>1. i + 1 \in 1 .. Len(pending) /\ k + (i + 1) = x + i
      <4>1. Len(left) = Len(pending) - 1 /\ Len(pending) \in Nat /\ x = k + 1 /\ k \in Int /\ i \in 1 .. Len(left)
        BY <1>1, <2>2, <2>3
      <4> HIDE DEF k, x, left
      <4> QED
        BY ONLY <4>1
    <3> QED
      BY <3>1, <1>1, <2>2
  <2>6. Len(Text(list[x])) \in Nat /\ ends[x - 1] \in Nat
    BY <2>3, StreamPlaces
  <2> HIDE DEF x, k, left
  <2>7. 0 \in Nat /\ 0 <= Len(Text(list[x])) /\ b = ends[x - 1] + 0
    BY <2>1, <2>3, <2>6
  <2>8. w = [text |-> Text(list[x]), written |-> 0]
    BY <2>1, <2>4
  <2>9. \E j \in Nat : /\ j <= Len(Text(list[x])) /\ b = ends[x - 1] + j
                       /\ w = [text |-> Text(list[x]), written |-> j]
    BY <2>7, <2>8
  <2> QED
    BY <2>2, <2>3, <2>5, <2>9 DEF x, left, Writes
<1> QED
  BY <1>2, <1>3

(* What there is room for is written.                                      *)
LEMMA WrittenWhole ==
    ASSUME NEW list, NEW kind, NEW wasHead, NEW pending, NEW writer, NEW buffered, NEW reading,
           NEW done, Pipe(list, kind, wasHead, pending, writer, buffered, reading, done),
           writer # {} \/ pending # <<>>,
           NEW w \in IF writer # {} THEN writer
                     ELSE {[text |-> Text(Head(pending)), written |-> 0]}
    PROVE  LET put == WriteTo(w, buffered, HttpCapacity) IN
           Pipe(list, kind, wasHead, Left(writer, pending), put.writer, put.ring, reading, done)
<1> DEFINE left == Left(writer, pending)
           k == Len(list) - Len(left)
           put == WriteTo(w, buffered, HttpCapacity)
           t == Text(list[k])
<1>1. Readable(list, kind, wasHead)
  BY DEF Pipe
<1>2. PICK s \in Strings : \E ends : \E a \in Nat, b \in Nat :
          /\ Stream(list, s, ends) /\ Sending(list, pending, writer, ends, b)
          /\ Receiving(list, kind, wasHead, reading, done, ends, a) /\ Carried(s, buffered, a, b)
  BY DEF Pipe
<1>3. PICK ends : \E a \in Nat, b \in Nat :
          /\ Stream(list, s, ends) /\ Sending(list, pending, writer, ends, b)
          /\ Receiving(list, kind, wasHead, reading, done, ends, a) /\ Carried(s, buffered, a, b)
  BY <1>2
<1>4. PICK a \in Nat, b \in Nat :
          /\ Stream(list, s, ends) /\ Sending(list, pending, writer, ends, b)
          /\ Receiving(list, kind, wasHead, reading, done, ends, a) /\ Carried(s, buffered, a, b)
  BY <1>3
<1>5. /\ left \in Seq(Messages) /\ k \in 1 .. Len(list)
      /\ \A i \in 1 .. Len(left) : left[i] = list[k + i]
      /\ \E j \in Nat : /\ j <= Len(t) /\ b = ends[k - 1] + j
                        /\ w = [text |-> t, written |-> j]
  <2>1. Writes(list, left, ends, b, w)
    BY <1>1, <1>4, WriterIs
  <2> HIDE DEF left
  <2> QED
    BY <2>1 DEF Writes
<1> HIDE DEF left
<1>6. PICK j \in Nat : j <= Len(t) /\ b = ends[k - 1] + j /\ w = [text |-> t, written |-> j]
  BY <1>5
<1>7. /\ t \in Strings /\ Len(t) \in Nat /\ ends[k] \in Nat /\ ends[k - 1] \in Nat
      /\ ends[k] = ends[k - 1] + Len(t) /\ Piece(s, ends[k - 1], t)
  BY <1>1, <1>4, <1>5, StreamPlaces
<1>8. /\ buffered \in Strings /\ Len(buffered) <= HttpCapacity /\ Piece(s, a, buffered) /\ b = a + Len(buffered)
      /\ Len(buffered) \in Nat /\ HttpCapacity \in Nat
  BY <1>4, HttpConstants DEF Carried, Strings
<1> DEFINE n == Smaller(Len(t) - j, HttpCapacity - Len(buffered))
           u == SubSeq(t, j + 1, j + n)
           x == [w EXCEPT !.written = @ + n]
<1>9. put = [writer |-> IF j + n = Len(t) THEN {} ELSE {x}, ring |-> buffered \o u]
  BY <1>6 DEF WriteTo
<1>10. x = [text |-> t, written |-> j + n]
  BY <1>6
<1>11. n \in Nat /\ j + n <= Len(t) /\ Len(buffered) + n <= HttpCapacity
  <2> DEFINE l == Len(t)
             r == Len(buffered)
  <2>1. /\ n = IF l - j < HttpCapacity - r THEN l - j ELSE HttpCapacity - r
        /\ l \in Nat /\ r \in Nat /\ j \in Nat /\ HttpCapacity \in Nat /\ j <= l /\ r <= HttpCapacity
    BY <1>6, <1>7, <1>8 DEF Smaller
  <2> HIDE DEF l, r, n
  <2>2. n \in Nat /\ j + n <= l /\ r + n <= HttpCapacity
    BY ONLY <2>1
  <2> QED
    BY <2>2 DEF l, r
<1>k. k # 0 /\ k \in 0 .. Len(list)
  <2> HIDE DEF k
  <2>1. Len(list) \in Nat
    BY <1>1 DEF Readable
  <2> QED
    BY <2>1, <1>5
<1> HIDE DEF n, put, t, x
<1>12. u \in Strings /\ Len(u) = n /\ Piece(s, ends[k - 1] + j, u)
  BY <1>6, <1>7, <1>11, MiddlePiece
<1> HIDE DEF u
<1>13. Cat(buffered, u) \in Strings /\ Len(Cat(buffered, u)) = Len(buffered) + Len(u) /\ Piece(s, a, Cat(buffered, u))
  BY <1>6, <1>8, <1>12, PieceAfterPiece
<1> DEFINE ring2 == Cat(buffered, u)
           c == b + n
<1>14. put.writer = (IF j + n = Len(t) THEN {} ELSE {x}) /\ put.ring = ring2
  BY <1>9 DEF Cat
<1> HIDE DEF ring2
<1>15. c \in Nat /\ Carried(s, ring2, a, c)
  BY <1>8, <1>11, <1>12, <1>13 DEF Carried, ring2
<1>16. Sending(list, left, put.writer, ends, c)
  <2>1. CASE j + n = Len(t)
    <3>1. c = ends[k]
      BY <2>1, <1>6, <1>7, <1>11
    <3>2. put.writer = {}
      BY <2>1, <1>14
    <3> HIDE DEF c
    <3> QED
      BY <3>1, <3>2, <1>5, <1>k DEF Sending
  <2>2. CASE j + n # Len(t)
    <3>1. c = ends[k - 1] + (j + n) /\ j + n < Len(t) /\ j + n \in Nat
      <4>1. j + n < Len(t) /\ j + n \in Nat
        BY <2>2, <1>6, <1>11
      <4>2. b = ends[k - 1] + j /\ ends[k - 1] \in Int /\ j \in Nat /\ n \in Nat
        BY <1>6, <1>7, <1>11
      <4> QED
        BY <4>1, <4>2
    <3>2. put.writer = {[text |-> t, written |-> j + n]}
      BY <2>2, <1>10, <1>14
    <3> HIDE DEF c
    <3>3. \E y \in Nat : /\ y < Len(Text(list[k])) /\ c = ends[k - 1] + y
                         /\ put.writer = {[text |-> Text(list[k]), written |-> y]}
      BY <3>1, <3>2 DEF t
    <3> QED
      BY <3>3, <1>5, <1>k DEF Sending
  <2> QED
    BY <2>1, <2>2
<1> HIDE DEF c
<1>17. Pipe(list, kind, wasHead, left, put.writer, put.ring, reading, done)
  BY <1>1, <1>4, <1>14, <1>15, <1>16 DEF Pipe
<1> QED
  BY <1>17 DEF left, put

(* What a call of read leaves of a ring, of which it is given the first n  *)
(* tokens.                                                                 *)
HasRead(list, kind, wasHead, pending, writer, ring2, got, done) ==
    /\ ~got.reader.header.failed
    /\ ~got.reader.finished =>
          Pipe(list, kind, wasHead, pending, writer, ring2, {got.reader}, done)
    /\ got.reader.finished =>
          /\ Len(done) < Len(list) /\ Message(got.reader) = list[Len(done) + 1]
          /\ Pipe(list, kind, wasHead, pending, writer, ring2, {},
                  Append(done, Message(got.reader)))

(* The reader that is used is at the next message.                         *)
LEMMA ReaderIs ==
    ASSUME NEW list, NEW kind \in {"request", "response"}, NEW wasHead \in BOOLEAN,
           Readable(list, kind, wasHead),
           NEW s \in Strings, NEW ends, Stream(list, s, ends), NEW reading, NEW done, NEW a \in Nat,
           Receiving(list, kind, wasHead, reading, done, ends, a), a < Len(s),
           NEW r \in IF reading = {} THEN {Reader(kind, wasHead)} ELSE reading
    PROVE  /\ Len(done) + 1 \in 1 .. Len(list) /\ Reads(r, kind, wasHead)
           /\ Expecting(r, list[Len(done) + 1], ends[Len(done) + 1], a)
<1> DEFINE d == Len(done)
           i == d + 1
<1>1. /\ done \in Seq(Messages) /\ d <= Len(list) /\ d \in Nat /\ Len(list) \in Nat
      /\ \/ reading = {} /\ a = ends[d]
         \/ /\ d < Len(list)
            /\ \E x : /\ reading = {x} /\ Reads(x, kind, wasHead)
                      /\ Expecting(x, list[i], ends[i], a)
  BY DEF Receiving, Readable
<1>2. CASE reading # {}
  <2>1. d < Len(list)
    BY <1>1, <1>2
  <2>2. i \in 1 .. Len(list)
    BY <1>1, <2>1
  <2> QED
    BY <1>1, <1>2, <2>2
<1>3. CASE reading = {}
  <2>1. a = ends[d] /\ r = Reader(kind, wasHead)
    BY <1>1, <1>3
  <2>2. d # Len(list)
    <3>1. ends[Len(list)] = Len(s) /\ Len(s) \in Nat
      BY DEF Stream, Strings
    <3> QED
      BY <3>1, <2>1
  <2>3. i \in 1 .. Len(list) /\ i - 1 = d
    BY <1>1, <2>2
  <2>4. /\ WellFormed(list[i]) /\ ClosesAt(s, ends[i], Text(list[i]))
        /\ ends[i - 1] = ends[i] - Len(Text(list[i]))
    BY <2>3, StreamPlaces DEF Stream
  <2> HIDE DEF i
  <2>5. Reads(r, kind, wasHead) /\ Expecting(r, list[i], ends[i], ends[i] - Len(Text(list[i])))
    BY <2>1, <2>4, ReaderBegins
  <2> QED
    BY <2>1, <2>3, <2>4, <2>5 DEF i
<1> QED
  BY <1>2, <1>3

LEMMA ReadFromRing ==
    ASSUME NEW list, NEW kind \in {"request", "response"}, NEW wasHead \in BOOLEAN,
           NEW pending, NEW writer, NEW buffered, NEW reading, NEW done,
           Pipe(list, kind, wasHead, pending, writer, buffered, reading, done),
           NEW n \in 1 .. Len(buffered),
           NEW r \in IF reading = {} THEN {Reader(kind, wasHead)} ELSE reading
    PROVE  LET got == Read(r, Upto(buffered, n)) IN
           HasRead(list, kind, wasHead, pending, writer, got.rest \o From(buffered, n + 1), got, done)
<1> DEFINE input == Upto(buffered, n)
           v == From(buffered, n + 1)
           got == Read(r, input)
           d == Len(done)
           i == d + 1
           m == list[i]
<1>1. Readable(list, kind, wasHead)
  BY DEF Pipe
<1>2. PICK s \in Strings : \E ends : \E a \in Nat, b \in Nat :
          /\ Stream(list, s, ends) /\ Sending(list, pending, writer, ends, b)
          /\ Receiving(list, kind, wasHead, reading, done, ends, a) /\ Carried(s, buffered, a, b)
  BY DEF Pipe
<1>3. PICK ends : \E a \in Nat, b \in Nat :
          /\ Stream(list, s, ends) /\ Sending(list, pending, writer, ends, b)
          /\ Receiving(list, kind, wasHead, reading, done, ends, a) /\ Carried(s, buffered, a, b)
  BY <1>2
<1>4. PICK a \in Nat, b \in Nat :
          /\ Stream(list, s, ends) /\ Sending(list, pending, writer, ends, b)
          /\ Receiving(list, kind, wasHead, reading, done, ends, a) /\ Carried(s, buffered, a, b)
  BY <1>3
<1>5. /\ buffered \in Strings /\ Len(buffered) <= HttpCapacity /\ Piece(s, a, buffered) /\ b = a + Len(buffered)
      /\ Len(buffered) \in Nat /\ Len(s) \in Nat /\ n \in 0 .. Len(buffered)
  BY <1>4 DEF Carried, Strings
<1>6. /\ input \in Strings /\ v \in Strings /\ Len(input) = n /\ Len(v) = Len(buffered) - n
      /\ Piece(s, a, input) /\ Piece(s, a + n, v)
  BY <1>5, PiecesOf
<1>7. a < Len(s)
  BY <1>5 DEF Piece
<1> HIDE DEF input, v
<1>8. /\ i \in 1 .. Len(list) /\ Reads(r, kind, wasHead)
      /\ Expecting(r, m, ends[i], a)
  BY <1>1, <1>4, <1>7, ReaderIs
<1>d. /\ done \in Seq(Messages) /\ d \in Nat /\ \A j \in 1 .. d : done[j] = list[j]
      /\ d < Len(list) /\ d <= Len(list) /\ Len(list) \in Nat
  <2>1. done \in Seq(Messages) /\ \A j \in 1 .. d : done[j] = list[j]
    BY <1>4 DEF Receiving
  <2>2. Len(list) \in Nat
    BY <1>1 DEF Readable
  <2> QED
    BY <1>8, <2>1, <2>2
<1> DEFINE e == ends[i]
<1>9. /\ WellFormed(m) /\ Sized(kind, wasHead, m) /\ ClosesAt(s, e, Text(m)) /\ e \in Nat
  BY <1>1, <1>4, <1>8, StreamPlaces
<1> HIDE DEF i, m, e
<1>10. a <= e
  <2>1. Expecting(r, m, e, a)
    BY <1>8 DEF m, e
  <2> QED
    BY <2>1, <1>9, ExpectingBefore
<1>11. ReadEnds(got, kind, wasHead, m, s, e, a + n)
  <2>1. Expecting(r, m, e, a) /\ input # <<>>
    <3>1. Len(input) # 0
      BY <1>6
    <3> QED
      BY <3>1, <1>8 DEF m, e
  <2>2. ReadEnds(got, kind, wasHead, m, s, e, a + Len(input))
    BY <2>1, <1>6, <1>8, <1>9, ReadGoesOn
  <2> QED
    BY <2>2, <1>6
<1> HIDE DEF got
<1> DEFINE rest == got.rest
           ring2 == Cat(rest, v)
           a2 == a + n - Len(rest)
<1>12. /\ got.reader \in Readers /\ ~got.reader.header.failed /\ rest \in Strings
       /\ Piece(s, a2, rest) /\ Len(rest) \in Nat
       /\ \/ /\ Reads(got.reader, kind, wasHead) /\ rest = <<>>
             /\ Expecting(got.reader, m, e, a + n)
          \/ /\ got.reader.finished /\ Message(got.reader) = m /\ a2 = e
  <2>1. /\ got.reader \in Readers /\ ~got.reader.header.failed /\ rest \in Strings
        /\ Piece(s, a2, rest)
        /\ \/ /\ Reads(got.reader, kind, wasHead) /\ rest = <<>>
              /\ Expecting(got.reader, m, e, a + n)
           \/ got.reader.finished /\ Message(got.reader) = m /\ a2 = e
    <3> DEFINE end == a + n
               g == got.reader
    <3>1. ReadEnds(got, kind, wasHead, m, s, e, end)
      BY <1>11
    <3> HIDE DEF end
    <3>2. g \in Readers /\ ~g.header.failed /\ rest \in Strings
      BY ONLY <3>1 DEF ReadEnds
    <3>3. Piece(s, end - Len(rest), rest)
      BY ONLY <3>1 DEF ReadEnds
    <3>4. \/ Reads(g, kind, wasHead) /\ rest = <<>> /\ Expecting(g, m, e, end)
          \/ g.finished /\ Message(g) = m /\ end - Len(rest) = e
      BY ONLY <3>1 DEF ReadEnds
    <3> HIDE DEF g, rest
    <3> QED
      BY ONLY <3>2, <3>3, <3>4 DEF end, g
  <2>2. Len(rest) \in Nat
    BY <2>1 DEF Strings
  <2> HIDE DEF a2, rest
  <2> QED
    BY <2>1, <2>2
<1>13. Len(rest) <= n /\ a2 \in Nat /\ a2 + Len(rest) = a + n
  <2>1. CASE rest = <<>>
    <3>1. Len(rest) = 0
      BY <2>1
    <3> QED
      BY <3>1
  <2>2. CASE rest # <<>>
    <3>1. a2 = e
      BY <1>12, <2>2
    <3> QED
      BY <3>1, <1>9, <1>10, <1>12
  <2> QED
    BY <2>1, <2>2
<1> HIDE DEF a2, rest
<1>14. /\ ring2 \in Strings /\ Len(ring2) = Len(rest) + Len(v) /\ Piece(s, a2, ring2)
  BY <1>6, <1>12, <1>13, PieceAfterPiece
<1>15. Carried(s, ring2, a2, b)
  <2> DEFINE x == Len(ring2)
             y == Len(buffered)
             z == Len(rest)
             c == Len(v)
  <2>1. /\ x = z + c /\ c = y - n /\ z <= n /\ z \in Nat /\ y \in Nat /\ y <= HttpCapacity
        /\ a2 + z = a + n /\ a2 \in Nat /\ b = a + y /\ HttpCapacity \in Nat /\ n \in Nat
    BY <1>5, <1>6, <1>12, <1>13, <1>14, HttpConstants
  <2> HIDE DEF x, y, z, c
  <2>2. x <= HttpCapacity /\ b = a2 + x
    BY ONLY <2>1
  <2> HIDE DEF ring2
  <2> QED
    BY <2>2, <1>14 DEF Carried, x
<1> HIDE DEF ring2
<1>16. CASE ~got.reader.finished
  <2>1. /\ Reads(got.reader, kind, wasHead) /\ rest = <<>> /\ Expecting(got.reader, m, e, a + n)
    BY <1>12, <1>16
  <2>2. a2 = a + n
    <3>1. Len(rest) = 0
      BY <2>1
    <3> QED
      BY <3>1, <1>13
  <2>3. \E x : /\ {got.reader} = {x} /\ Reads(x, kind, wasHead)
               /\ Expecting(x, list[d + 1], ends[d + 1], a2)
    BY <2>1, <2>2 DEF m, e, i
  <2>4. Receiving(list, kind, wasHead, {got.reader}, done, ends, a2)
    BY <2>3, <1>d DEF Receiving
  <2>5. Pipe(list, kind, wasHead, pending, writer, ring2, {got.reader}, done)
    BY <2>4, <1>1, <1>4, <1>13, <1>15 DEF Pipe
  <2> QED
    BY <2>5, <1>12, <1>16 DEF HasRead, ring2, Cat, rest, v, got, input
<1>17. CASE got.reader.finished
  <2>1. Message(got.reader) = m /\ a2 = e
    BY <1>12, <1>17 DEF Reads
  <2> DEFINE done2 == Append(done, m)
  <2>2. m \in Messages
    BY <1>9 DEF WellFormed, Messages
  <2>3. /\ done2 \in Seq(Messages) /\ Len(done2) = d + 1 /\ done2[d + 1] = m
        /\ \A j \in 1 .. d : done2[j] = done[j]
    BY <2>2, <1>d
  <2> HIDE DEF done2
  <2>4. \A j \in 1 .. d + 1 : done2[j] = list[j]
    <3>1. \A j \in 1 .. d + 1 : j \in 1 .. d \/ j = d + 1
      BY <1>d
    <3> QED
      BY <3>1, <2>3, <1>d DEF m, i
  <2>5. d + 1 <= Len(list) /\ a2 = ends[d + 1]
    BY <2>1, <1>d DEF e, i
  <2>6. Receiving(list, kind, wasHead, {}, done2, ends, a2)
    BY <2>3, <2>4, <2>5 DEF Receiving
  <2>7. Pipe(list, kind, wasHead, pending, writer, ring2, {}, done2)
    BY <2>6, <1>1, <1>4, <1>13, <1>15 DEF Pipe
  <2> QED
    BY <2>1, <2>7, <1>12, <1>17, <1>d DEF HasRead, ring2, Cat, rest, v, got, input, done2, m, i
<1> QED
  BY <1>16, <1>17

NoCR(w) == w \in Strings /\ \A i \in 1 .. Len(w) : w[i] # "CR"

LEMMA PlainParts ==
    ASSUME NEW a, NEW b, NoCR(a), NoCR(b)
    PROVE  NoCR(Cat(a, b))
<1> DEFINE w == Cat(a, b)
<1>1. a \in Seq(Tokens) /\ b \in Seq(Tokens) /\ Len(a) \in Nat /\ Len(b) \in Nat
      /\ a \in Strings /\ b \in Strings
  BY DEF NoCR, Strings
<1>2. w \in Strings /\ IsCat(w, a, b)
  BY <1>1, CatPlaces, StringCat
<1> HIDE DEF w
<1>3. ASSUME NEW i \in 1 .. Len(w) PROVE w[i] # "CR"
  <2>1. Len(w) = Len(a) + Len(b)
    BY <1>2 DEF IsCat
  <2>2. CASE i <= Len(a)
    <3>1. i \in 1 .. Len(a)
      BY <2>2, <1>1
    <3> QED
      BY <3>1, <1>2 DEF IsCat, NoCR
  <2>3. CASE i > Len(a)
    <3>1. i - Len(a) \in 1 .. Len(b) /\ Len(a) + (i - Len(a)) = i
      BY <2>1, <2>3, <1>1
    <3>2. w[Len(a) + (i - Len(a))] = b[i - Len(a)] /\ b[i - Len(a)] # "CR"
      BY <3>1, <1>2 DEF IsCat, NoCR
    <3> QED
      BY <3>1, <3>2
  <2> QED
    BY <2>2, <2>3, <1>1
<1> QED
  BY <1>2, <1>3 DEF NoCR, w

(* A start line without CR is one line.                                    *)
LEMMA PlainStart ==
    ASSUME NEW m, NoCR(m.start[1]), NoCR(m.start[2]), NoCR(m.start[3])
    PROVE  IsLine(StartOf(m) \o CRLF, Len(StartOf(m)))
<1> DEFINE line == StartOf(m)
           t == line \o CRLF
           n == Len(line)
<1>1. NoCR(<<"SP">>)
  BY TokenStrings DEF NoCR
<1>2. NoCR(line)
  <2>1. line = Cat(Cat(Cat(Cat(m.start[1], <<"SP">>), m.start[2]), <<"SP">>), m.start[3])
    BY DEF StartOf, Spacing, Cat
  <2>2. NoCR(Cat(m.start[1], <<"SP">>))
    BY <1>1, PlainParts
  <2>3. NoCR(Cat(Cat(m.start[1], <<"SP">>), m.start[2]))
    BY <2>2, PlainParts
  <2>4. NoCR(Cat(Cat(Cat(m.start[1], <<"SP">>), m.start[2]), <<"SP">>))
    BY <2>3, <1>1, PlainParts
  <2> QED
    BY <2>1, <2>4, PlainParts
<1>3. line \in Strings /\ \A i \in 1 .. n : line[i] # "CR"
  BY <1>2 DEF NoCR
<1>4. /\ n \in Nat /\ Len(t) = n + 2 /\ \A i \in 1 .. n : t[i] = line[i]
      /\ t[n + 1] = "CR" /\ t[n + 2] = "LF"
  BY <1>3, LineEnds
<1> HIDE DEF t, n, line
<1>5. IsLine(t, n)
  BY <1>3, <1>4 DEF IsLine
<1> QED
  BY <1>5 DEF t, n, line

LEMMA PlainTokens ==
    ASSUME NEW x \in Tokens, x # "CR"
    PROVE  NoCR(<<x>>) /\ (x # "SP" => OneWord(<<x>>))
<1>1. <<x>> \in Strings /\ Len(<<x>>) = 1 /\ <<x>>[1] = x
  BY StringAlgebra
<1>2. \A i \in 1 .. 1 : i = 1
  OBVIOUS
<1> DEFINE w == <<x>>
<1> HIDE DEF w
<1>3. w \in Strings /\ Len(w) = 1 /\ w[1] = x
  BY <1>1 DEF w
<1>4. NoCR(w) /\ (x # "SP" => OneWord(w))
  BY <1>2, <1>3 DEF NoCR, OneWord
<1> QED
  BY <1>4 DEF w

Heading == <<"a", ":", "b", "SP", "CR", "c">>

LEMMA HeadingIsClean == Clean(Heading) /\ Clean(<<>>) /\ Heading \in Strings
<1>1. /\ Heading[1] = "a" /\ Heading[2] = ":" /\ Heading[3] = "b" /\ Heading[4] = "SP"
      /\ Heading[5] = "CR" /\ Heading[6] = "c" /\ Len(Heading) = 6
  BY DEF Heading
<1>2. Heading \in Strings
  BY DEF Heading, Strings, Tokens
<1>3. \A j \in 1 .. 6 : j = 1 \/ j = 2 \/ j = 3 \/ j = 4 \/ j = 5 \/ j = 6
  OBVIOUS
<1>4. ASSUME NEW j \in 1 .. 6, j < 6 PROVE Heading[j + 1] # "LF"
  <2>1. j + 1 = 2 \/ j + 1 = 3 \/ j + 1 = 4 \/ j + 1 = 5 \/ j + 1 = 6
    BY <1>3, <1>4
  <2> QED
    BY <2>1, <1>1
<1>5. Clean(Heading)
  BY <1>1, <1>2, <1>4 DEF Clean, Blank
<1>6. Clean(<<>>)
  BY StringAlgebra DEF Clean
<1> QED
  BY <1>2, <1>5, <1>6

LEMMA NoHeadersAre ==
    /\ NoHeaders \in HeadsSet /\ NoHeaders.length = {}
    /\ \A i \in 1 .. 6 : NoHeaders.kept[i] = <<>>
<1>1. NoHeaders = [length |-> {}, kept |-> [i \in 1 .. 6 |-> <<>>]]
  BY KeptNames DEF NoHeaders
<1>2. <<>> \in Strings
  BY StringAlgebra
<1> QED
  BY <1>1, <1>2 DEF HeadsSet

(* Headers with a length and perhaps a first value.                        *)
LEMMA HeadersAre ==
    ASSUME NEW length \in SUBSET (0 .. 2)
    PROVE  /\ \A value \in Strings :
                  LET h == [NoHeaders EXCEPT !.length = length, !.kept[1] = value] IN
                  Clean(value) => /\ h \in HeadsSet /\ h.length = length
                                  /\ \A i \in 1 .. 6 : Clean(h.kept[i])
           /\ LET h == [NoHeaders EXCEPT !.length = length] IN
              /\ h \in HeadsSet /\ h.length = length /\ \A i \in 1 .. 6 : Clean(h.kept[i])
<1>1. ASSUME NEW value \in Strings, Clean(value)
      PROVE  LET h == [NoHeaders EXCEPT !.length = length, !.kept[1] = value] IN
             h \in HeadsSet /\ h.length = length /\ \A i \in 1 .. 6 : Clean(h.kept[i])
  <2> DEFINE h == [NoHeaders EXCEPT !.length = length, !.kept[1] = value]
             k == NoHeaders.kept
  <2>1. k \in [1 .. 6 -> Strings] /\ \A i \in 1 .. 6 : k[i] = <<>>
    BY NoHeadersAre DEF HeadsSet
  <2>2. h \in HeadsSet /\ h.length = length /\ h.kept = [k EXCEPT ![1] = value]
    BY NoHeadersAre DEF HeadsSet
  <2> HIDE DEF h, k
  <2>3. \A i \in 1 .. 6 : h.kept[i] = IF i = 1 THEN value ELSE <<>>
    BY <2>1, <2>2
  <2> QED
    BY <2>2, <2>3, <1>1, HeadingIsClean DEF h
<1>2. LET h == [NoHeaders EXCEPT !.length = length] IN
      h \in HeadsSet /\ h.length = length /\ \A i \in 1 .. 6 : Clean(h.kept[i])
  <2> DEFINE h == [NoHeaders EXCEPT !.length = length]
  <2>1. h \in HeadsSet /\ h.length = length /\ h.kept = NoHeaders.kept
    BY NoHeadersAre DEF HeadsSet
  <2> HIDE DEF h
  <2> QED
    BY <2>1, NoHeadersAre, HeadingIsClean DEF h
<1> QED
  BY <1>1, <1>2

AskSays(m, method, length, body) ==
    /\ WellFormed(m) /\ m \in Messages /\ m.start[1] = <<method>>
    /\ m.headers.length = length /\ m.body = body

LEMMA AskIs ==
    ASSUME NEW method \in {"GET", "HEAD", "POST"}, NEW length \in SUBSET (0 .. 2),
           length = {} \/ \E n \in 0 .. 2 : length = {n}, NEW body \in Strings
    PROVE  AskSays(Ask(method, length, body), method, length, body)
<1> DEFINE m == Ask(method, length, body)
           start == <<<<method>>, <<"/">>, <<"HTTP/1.1">>>>
           h == [NoHeaders EXCEPT !.length = length, !.kept[1] = Heading]
<1>1. m = [start |-> start, headers |-> h, body |-> body]
  BY DEF Ask, Heading
<1>2. /\ h \in HeadsSet /\ h.length = length /\ \A i \in 1 .. 6 : Clean(h.kept[i])
  BY HeadingIsClean, HeadersAre
<1>3. method \in Tokens /\ "/" \in Tokens /\ "HTTP/1.1" \in Tokens
      /\ method \notin {"CR", "SP"}
  BY DEF Tokens
<1>4. /\ NoCR(<<method>>) /\ NoCR(<<"/">>) /\ NoCR(<<"HTTP/1.1">>)
      /\ OneWord(<<method>>) /\ OneWord(<<"/">>)
  BY <1>3, PlainTokens
<1>5. /\ start \in Seq(Strings) /\ Len(start) = 3 /\ start[1] = <<method>>
      /\ start[2] = <<"/">> /\ start[3] = <<"HTTP/1.1">>
  BY <1>4 DEF NoCR
<1> HIDE DEF h, start
<1>6. /\ m.start = start /\ m.headers = h /\ m.body = body
      /\ m \in [start : Seq(Strings), headers : HeadsSet, body : Strings]
  BY <1>1, <1>2, <1>5
<1> HIDE DEF m
<1>7. IsLine(StartOf(m) \o CRLF, Len(StartOf(m)))
  BY <1>4, <1>5, <1>6, PlainStart
<1>8. WellFormed(m)
  BY <1>2, <1>4, <1>5, <1>6, <1>7 DEF WellFormed
<1> QED
  BY <1>2, <1>5, <1>6, <1>8 DEF Messages, AskSays, m

LEMMA AsksAreReadable ==
    ASSUME NEW m \in Asks
    PROVE  m \in Messages /\ WellFormed(m) /\ Sized("request", FALSE, m)
<1>1. CASE m = Ask("GET", {}, <<>>) \/ m = Ask("HEAD", {}, <<>>)
  <2>1. PICK method \in {"GET", "HEAD"} : m = Ask(method, {}, <<>>)
    BY <1>1
  <2>2. /\ WellFormed(m) /\ m \in Messages /\ m.start[1] = <<method>> /\ m.body = <<>>
    <3>1. {} \in SUBSET (0 .. 2) /\ <<>> \in Strings /\ method \in {"GET", "HEAD", "POST"}
      BY StringAlgebra
    <3>2. AskSays(Ask(method, {}, <<>>), method, {}, <<>>)
      BY <3>1, AskIs
    <3> QED
      BY <2>1, <3>2 DEF AskSays
  <2>3. Len(m.body) = 0
    BY <2>2
  <2>4. Sized("request", FALSE, m)
    BY <2>2, <2>3 DEF Sized, BodyLength, BadStatus
  <2> QED
    BY <2>2, <2>4
<1>2. CASE m = Ask("POST", {2}, <<"CR", "LF">>)
  <2>1. <<"CR", "LF">> \in Strings
    BY TokenStrings DEF CRLF
  <2>2. /\ WellFormed(m) /\ m \in Messages /\ m.start[1] = <<"POST">> /\ m.body = <<"CR", "LF">>
        /\ m.headers.length = {2}
    <3>1. {2} \in SUBSET (0 .. 2) /\ (\E n \in 0 .. 2 : {2} = {n}) /\ "POST" \in {"GET", "HEAD", "POST"}
      OBVIOUS
    <3>2. AskSays(Ask("POST", {2}, <<"CR", "LF">>), "POST", {2}, <<"CR", "LF">>)
      BY <2>1, <3>1, AskIs
    <3> QED
      BY <1>2, <3>2 DEF AskSays
  <2>3. Len(m.body) = 2
    BY <2>2
  <2>4. <<"POST">> \notin {<<"GET">>, <<"HEAD">>}
    BY DEF Tokens
  <2>5. Sized("request", FALSE, m)
    BY <2>2, <2>3, <2>4 DEF Sized, BodyLength, BadStatus
  <2> QED
    BY <2>2, <2>5
<1> QED
  BY <1>1, <1>2 DEF Asks

LEMMA RepliesAreReadable ==
    ASSUME NEW q, NEW wasHead \in BOOLEAN, wasHead <=> q.start[1] = <<"HEAD">>
    PROVE  Reply(q) \in Messages /\ WellFormed(Reply(q)) /\ Sized("response", wasHead, Reply(q))
<1> DEFINE m == Reply(q)
           c == <<"All", "SP", "right">>
           start == <<<<"HTTP/1.1">>, <<"200">>, c>>
           h == [NoHeaders EXCEPT !.length = {1}]
           body == IF wasHead THEN <<>> ELSE <<"CR">>
<1>1. m = [start |-> start, headers |-> h, body |-> body]
  BY DEF Reply
<1>2. /\ h \in HeadsSet /\ h.length = {1} /\ \A i \in 1 .. 6 : Clean(h.kept[i])
  <2>1. {1} \in SUBSET (0 .. 2)
    OBVIOUS
  <2> QED
    BY <2>1, HeadersAre
<1>3. "HTTP/1.1" \in Tokens /\ "200" \in Tokens
  BY DEF Tokens
<1>4. /\ NoCR(<<"HTTP/1.1">>) /\ NoCR(<<"200">>)
      /\ OneWord(<<"HTTP/1.1">>) /\ OneWord(<<"200">>)
  BY <1>3, PlainTokens
<1>5. NoCR(c)
  <2>1. c \in Strings /\ Len(c) = 3 /\ c[1] = "All" /\ c[2] = "SP" /\ c[3] = "right"
    BY DEF Strings, Tokens
  <2> HIDE DEF c
  <2>2. \A i \in 1 .. 3 : i = 1 \/ i = 2 \/ i = 3
    OBVIOUS
  <2> QED
    BY <2>1, <2>2 DEF NoCR
<1>6. /\ start \in Seq(Strings) /\ Len(start) = 3 /\ start[1] = <<"HTTP/1.1">>
      /\ start[2] = <<"200">> /\ start[3] = c
  BY <1>4, <1>5 DEF NoCR
<1>7. body \in Strings /\ Len(body) = IF wasHead THEN 0 ELSE 1
  BY TokenStrings, StringAlgebra
<1> HIDE DEF h, start, c, body
<1>8. /\ m.start = start /\ m.headers = h /\ m.body = body
      /\ m \in [start : Seq(Strings), headers : HeadsSet, body : Strings]
  BY <1>1, <1>2, <1>6, <1>7
<1> HIDE DEF m
<1>9. IsLine(StartOf(m) \o CRLF, Len(StartOf(m)))
  BY <1>4, <1>5, <1>6, <1>8, PlainStart
<1>10. WellFormed(m)
  BY <1>2, <1>4, <1>6, <1>8, <1>9 DEF WellFormed
<1>11. <<"200">> \notin {<<"101">>, <<"204">>}
  <2>1. <<"200">>[1] = "200" /\ <<"101">>[1] = "101" /\ <<"204">>[1] = "204"
    OBVIOUS
  <2> QED
    BY <2>1
<1>12. Sized("response", wasHead, m)
  <2> SUFFICES ASSUME NEW r, r.kind = "response", r.wasHead = wasHead, r.start = m.start,
                      r.header.headers = m.headers
               PROVE  BodyLength(r) = {Len(m.body)} /\ ~BadStatus(r)
    BY DEF Sized
  <2>1. r.start[2] = <<"200">> /\ Len(r.start) >= 2 /\ r.header.headers.length = {1}
    <3>1. r.start = start /\ r.header.headers = h
      BY <1>8
    <3>2. start[2] = <<"200">> /\ Len(start) >= 2
      BY <1>6
    <3> QED
      BY <3>1, <3>2, <1>2
  <2>2. BodyLength(r) = IF wasHead THEN {0} ELSE {1}
    BY <2>1, <1>11 DEF BodyLength
  <2>3. ~BadStatus(r)
    BY <2>1 DEF BadStatus
  <2> QED
    BY <2>2, <2>3, <1>7, <1>8
<1> QED
  BY <1>8, <1>10, <1>12 DEF Messages, m

Answers(requests) == [i \in 1 .. Len(requests) |-> Reply(requests[i])]
Alike(heads, wasHead) == \A i \in 1 .. Len(heads) : heads[i] = wasHead

Heads(requests, heads) ==
    /\ requests \in Seq(Asks) /\ heads \in Seq(BOOLEAN) /\ Len(heads) = Len(requests)
    /\ \A i \in 1 .. Len(requests) : heads[i] <=> requests[i].start[1] = <<"HEAD">>

Upward == Pipe(asked, "request", FALSE, pending_requests, request_writer, up, request_reader, served)
Downward(wasHead) ==
    Pipe(Answers(served), "response", wasHead, pending_responses, response_writer, down,
         response_reader, answered)

(* HTTP: both directions carry what was pushed and what answers it.        *)
HttpIInv ==
    /\ Heads(asked, requests_are_head) /\ Upward
    /\ \A wasHead \in BOOLEAN : Alike(requests_are_head, wasHead) => Downward(wasHead)

(* What a pipe says of what has been read.                                 *)
LEMMA PipeSays ==
    ASSUME NEW list, NEW kind, NEW wasHead, NEW pending, NEW writer, NEW buffered, NEW reading,
           NEW done, Pipe(list, kind, wasHead, pending, writer, buffered, reading, done)
    PROVE  /\ list \in Seq(Messages) /\ done \in Seq(Messages) /\ Len(done) <= Len(list)
           /\ \A i \in 1 .. Len(done) : done[i] = list[i]
           /\ \A r \in reading : ~r.header.failed
<1>1. list \in Seq(Messages)
  BY DEF Pipe, Readable
<1>2. PICK ends : \E a \in Nat : Receiving(list, kind, wasHead, reading, done, ends, a)
  BY DEF Pipe
<1>3. PICK a \in Nat : Receiving(list, kind, wasHead, reading, done, ends, a)
  BY <1>2
<1> QED
  BY <1>1, <1>3 DEF Receiving, Reads

LEMMA AnswersAre ==
    ASSUME NEW requests \in Seq(Messages)
    PROVE  /\ Len(Answers(requests)) = Len(requests)
           /\ \A i \in 1 .. Len(requests) : Answers(requests)[i] = Reply(requests[i])
           /\ \A m \in Messages :
                 Answers(Append(requests, m)) = Append(Answers(requests), Reply(m))
<1> DEFINE n == Len(requests)
           x == Answers(requests)
<1>1. n \in Nat
  OBVIOUS
<1>2. x = [i \in 1 .. n |-> Reply(requests[i])]
  BY DEF Answers
<1>3. Len(x) = n /\ \A i \in 1 .. n : x[i] = Reply(requests[i])
  BY <1>1, <1>2
<1>4. ASSUME NEW m \in Messages PROVE Answers(Append(requests, m)) = Append(x, Reply(m))
  <2> DEFINE more == Append(requests, m)
             y == Answers(more)
             U == {Reply(requests[i]) : i \in 1 .. n} \cup {Reply(m)}
             z == Append(x, Reply(m))
  <2>1. Len(more) = n + 1 /\ more[n + 1] = m /\ \A i \in 1 .. n : more[i] = requests[i]
    OBVIOUS
  <2> HIDE DEF more, n
  <2>2. y = [i \in 1 .. n + 1 |-> Reply(more[i])]
    BY <2>1 DEF Answers
  <2>3. \A i \in 1 .. n + 1 : i = n + 1 \/ i \in 1 .. n
    BY <1>1
  <2>4. \A i \in 1 .. n + 1 : Reply(more[i]) \in U
    BY <2>1, <2>3
  <2>5. x \in [1 .. n -> U] /\ Reply(m) \in U
    BY <1>2
  <2> HIDE DEF x, y, U
  <2>6. x \in Seq(U) /\ y \in [1 .. n + 1 -> U] /\ y \in Seq(U)
    BY <1>1, <2>2, <2>4, <2>5
  <2>7. z \in Seq(U) /\ Len(z) = n + 1 /\ z[n + 1] = Reply(m) /\ \A i \in 1 .. n : z[i] = x[i]
    BY <1>3, <2>5, <2>6
  <2> HIDE DEF z
  <2>8. Len(y) = n + 1
    BY <1>1, <2>6
  <2>9. \A i \in 1 .. n + 1 : y[i] = z[i]
    BY <2>1, <2>2, <2>3, <2>7, <1>3
  <2>10. y = z
    BY <2>6, <2>7, <2>8, <2>9, SeqEqual
  <2> QED
    BY <2>10 DEF y, z, more
<1> QED
  BY <1>3, <1>4

LEMMA HttpBegins == HttpInit => HttpIInv
<1> SUFFICES ASSUME HttpInit PROVE HttpIInv
  OBVIOUS
<1>1. Answers(<<>>) = <<>>
  BY DEF Answers
<1>2. Heads(asked, requests_are_head)
  BY DEF HttpInit, Heads
<1>3. Upward
  BY PipeIsLaid DEF HttpInit, Upward
<1>4. \A wasHead \in BOOLEAN : Downward(wasHead)
  BY <1>1, PipeIsLaid DEF HttpInit, Downward
<1> QED
  BY <1>2, <1>3, <1>4 DEF HttpIInv

(* A queue of answers is written for requests that are alike.              *)
LEMMA AlikeBefore ==
    ASSUME NEW heads \in Seq(BOOLEAN), NEW x \in BOOLEAN, NEW wasHead,
           Alike(Append(heads, x), wasHead)
    PROVE  Alike(heads, wasHead)
<1>1. \A i \in 1 .. Len(heads) : i \in 1 .. Len(heads) + 1 /\ Append(heads, x)[i] = heads[i]
  OBVIOUS
<1>2. Len(Append(heads, x)) = Len(heads) + 1
  OBVIOUS
<1> QED
  BY <1>1, <1>2 DEF Alike

LEMMA HttpGoesOn == HttpIInv /\ [HttpNext]_http_vars => HttpIInv'
<1> SUFFICES ASSUME HttpIInv, [HttpNext]_http_vars PROVE HttpIInv'
  OBVIOUS
<1>0. /\ Heads(asked, requests_are_head) /\ Upward
      /\ \A wasHead \in BOOLEAN : Alike(requests_are_head, wasHead) => Downward(wasHead)
  BY DEF HttpIInv
<1>1. ASSUME NEW request \in Asks, push_request(request) PROVE HttpIInv'
  <2> DEFINE x == request.start[1] = <<"HEAD">>
  <2>1. /\ asked' = Append(asked, request) /\ pending_requests' = Append(pending_requests, request)
        /\ requests_are_head' = Append(requests_are_head, x)
        /\ UNCHANGED <<request_writer, response_reader, answered, up, down, server_http_vars>>
    BY <1>1 DEF push_request
  <2>2. request_reader' = request_reader /\ served' = served /\ response_writer' = response_writer
        /\ pending_responses' = pending_responses /\ request_writer' = request_writer /\ up' = up
        /\ response_reader' = response_reader /\ answered' = answered /\ down' = down
    BY <2>1 DEF server_http_vars
  <2>3. Upward'
    <3>1. request \in Messages /\ WellFormed(request) /\ Sized("request", FALSE, request)
      BY AsksAreReadable
    <3> QED
      BY <3>1, <2>1, <2>2, <1>0, Pushed DEF Upward
  <2>4. Heads(asked', requests_are_head')
    <3>1. /\ asked \in Seq(Asks) /\ requests_are_head \in Seq(BOOLEAN)
          /\ Len(requests_are_head) = Len(asked) /\ Len(asked) \in Nat /\ x \in BOOLEAN
          /\ \A i \in 1 .. Len(asked) : requests_are_head[i] <=> asked[i].start[1] = <<"HEAD">>
      BY <1>0 DEF Heads
    <3> HIDE DEF x
    <3>2. /\ asked' \in Seq(Asks) /\ Len(asked') = Len(asked) + 1 /\ asked'[Len(asked) + 1] = request
          /\ \A i \in 1 .. Len(asked) : asked'[i] = asked[i]
      BY <2>1, <3>1
    <3>3. /\ requests_are_head' \in Seq(BOOLEAN) /\ Len(requests_are_head') = Len(asked) + 1
          /\ requests_are_head'[Len(asked) + 1] = x
          /\ \A i \in 1 .. Len(asked) : requests_are_head'[i] = requests_are_head[i]
      BY <2>1, <3>1
    <3>4. \A i \in 1 .. Len(asked) + 1 : i = Len(asked) + 1 \/ i \in 1 .. Len(asked)
      BY <3>1
    <3>5. ASSUME NEW i \in 1 .. Len(asked) + 1
          PROVE  requests_are_head'[i] <=> asked'[i].start[1] = <<"HEAD">>
      <4>1. CASE i = Len(asked) + 1
        BY <4>1, <3>2, <3>3 DEF x
      <4>2. CASE i \in 1 .. Len(asked)
        BY <4>2, <3>1, <3>2, <3>3
      <4> QED
        BY <4>1, <4>2, <3>4
    <3> QED
      BY <3>2, <3>3, <3>5 DEF Heads
  <2>5. ASSUME NEW wasHead \in BOOLEAN, Alike(requests_are_head', wasHead) PROVE Downward(wasHead)'
    <3>1. Alike(requests_are_head, wasHead)
      <4>1. requests_are_head \in Seq(BOOLEAN) /\ x \in BOOLEAN
        BY <1>0 DEF Heads
      <4> QED
        BY <4>1, <2>1, <2>5, AlikeBefore
    <3>2. Downward(wasHead)
      BY <3>1, <1>0
    <3> QED
      BY <3>2, <2>2 DEF Downward
  <2> QED
    BY <2>3, <2>4, <2>5 DEF HttpIInv
<1>2. CASE ClientWrites
  <2>1. PICK w \in IF request_writer # {} THEN request_writer
                   ELSE {[text |-> Text(Head(pending_requests)), written |-> 0]} :
           LET put == WriteTo(w, up, HttpCapacity) IN
           request_writer' = put.writer /\ up' = put.ring
    BY <1>2 DEF ClientWrites
  <2>2. /\ request_writer # {} \/ pending_requests # <<>>
        /\ pending_requests' = Left(request_writer, pending_requests)
        /\ UNCHANGED <<asked, requests_are_head, response_reader, answered, down, server_http_vars>>
    BY <1>2 DEF ClientWrites, Left
  <2>3. request_reader' = request_reader /\ served' = served /\ response_writer' = response_writer
        /\ pending_responses' = pending_responses /\ asked' = asked
        /\ requests_are_head' = requests_are_head
        /\ response_reader' = response_reader /\ answered' = answered /\ down' = down
    BY <2>2 DEF server_http_vars
  <2>4. Upward'
    <3> DEFINE put == WriteTo(w, up, HttpCapacity)
    <3>1. Pipe(asked, "request", FALSE, Left(request_writer, pending_requests), put.writer, put.ring,
               request_reader, served)
      BY <1>0, <2>1, <2>2, WrittenWhole DEF Upward
    <3> QED
      BY <3>1, <2>1, <2>2, <2>3 DEF Upward
  <2>5. \A wasHead \in BOOLEAN : Downward(wasHead)' <=> Downward(wasHead)
    BY <2>3 DEF Downward
  <2> QED
    BY <1>0, <2>3, <2>4, <2>5 DEF HttpIInv
<1>3. CASE ServerReads
  <2>1. PICK n \in 1 .. Len(up), r \in IF request_reader = {} THEN {Reader("request", FALSE)}
                                       ELSE request_reader :
           LET got == Read(r, Upto(up, n)) IN
           /\ up' = got.rest \o From(up, n + 1)
           /\ IF got.reader.finished
              THEN /\ request_reader' = {}
                   /\ served' = Append(served, Message(got.reader))
                   /\ pending_responses' = Append(pending_responses, Reply(Message(got.reader)))
              ELSE /\ request_reader' = {got.reader}
                   /\ UNCHANGED <<served, pending_responses>>
    BY <1>3 DEF ServerReads
  <2> DEFINE got == Read(r, Upto(up, n))
             m == Message(got.reader)
  <2>2. /\ asked' = asked /\ pending_requests' = pending_requests
        /\ requests_are_head' = requests_are_head /\ request_writer' = request_writer
        /\ response_reader' = response_reader /\ answered' = answered
        /\ response_writer' = response_writer /\ down' = down
    BY <1>3 DEF ServerReads, client_http_vars
  <2>3. HasRead(asked, "request", FALSE, pending_requests, request_writer, up', got, served)
    BY <1>0, <2>1, ReadFromRing DEF Upward
  <2>4. /\ up' = got.rest \o From(up, n + 1)
        /\ got.reader.finished => /\ request_reader' = {} /\ served' = Append(served, m)
                                  /\ pending_responses' = Append(pending_responses, Reply(m))
        /\ ~got.reader.finished => /\ request_reader' = {got.reader} /\ served' = served
                                   /\ pending_responses' = pending_responses
    BY <2>1
  <2> HIDE DEF got
  <2>5. CASE ~got.reader.finished
    <3>1. Upward'
      BY <2>2, <2>3, <2>4, <2>5 DEF HasRead, Upward
    <3>2. \A wasHead \in BOOLEAN : Downward(wasHead)' <=> Downward(wasHead)
      BY <2>2, <2>4, <2>5 DEF Downward
    <3> QED
      BY <1>0, <2>2, <3>1, <3>2 DEF HttpIInv
  <2>6. CASE got.reader.finished
    <3> DEFINE d == Len(served)
    <3>1. /\ d < Len(asked) /\ m = asked[d + 1]
          /\ Pipe(asked, "request", FALSE, pending_requests, request_writer, up', {},
                  Append(served, m))
      BY <2>3, <2>6 DEF HasRead
    <3>2. Upward'
      BY <3>1, <2>2, <2>4, <2>6 DEF Upward
    <3>3. served \in Seq(Messages) /\ asked \in Seq(Messages)
      BY <1>0, PipeSays DEF Upward
    <3>4. d + 1 \in 1 .. Len(asked) /\ m \in Messages
      <4>1. d \in Nat /\ Len(asked) \in Nat
        BY <3>3
      <4>2. d + 1 \in 1 .. Len(asked)
        BY <3>1, <4>1
      <4> QED
        BY <3>1, <3>3, <4>2
    <3> HIDE DEF m, d
    <3>5. ASSUME NEW wasHead \in BOOLEAN, Alike(requests_are_head, wasHead)
          PROVE  Downward(wasHead)'
      <4>1. wasHead <=> m.start[1] = <<"HEAD">>
        <5>1. Len(requests_are_head) = Len(asked)
              /\ (requests_are_head[d + 1] <=> asked[d + 1].start[1] = <<"HEAD">>)
          BY <3>4, <1>0 DEF Heads
        <5>2. requests_are_head[d + 1] = wasHead
          BY <3>4, <3>5, <5>1 DEF Alike
        <5> QED
          BY <3>1, <5>1, <5>2
      <4>2. Reply(m) \in Messages /\ WellFormed(Reply(m)) /\ Sized("response", wasHead, Reply(m))
        BY <4>1, RepliesAreReadable
      <4>3. Downward(wasHead)
        BY <3>5, <1>0
      <4>4. Pipe(Append(Answers(served), Reply(m)), "response", wasHead,
                 Append(pending_responses, Reply(m)), response_writer, down, response_reader, answered)
        BY <4>2, <4>3, Pushed DEF Downward
      <4>5. Answers(Append(served, m)) = Append(Answers(served), Reply(m))
        BY <3>3, <3>4, AnswersAre
      <4> QED
        BY <4>4, <4>5, <2>2, <2>4, <2>6 DEF Downward
    <3> QED
      BY <1>0, <2>2, <3>2, <3>5 DEF HttpIInv
  <2> QED
    BY <2>5, <2>6
<1>4. CASE ServerWrites
  <2>1. PICK w \in IF response_writer # {} THEN response_writer
                   ELSE {[text |-> Text(Head(pending_responses)), written |-> 0]} :
           LET put == WriteTo(w, down, HttpCapacity) IN
           response_writer' = put.writer /\ down' = put.ring
    BY <1>4 DEF ServerWrites
  <2>2. /\ response_writer # {} \/ pending_responses # <<>>
        /\ pending_responses' = Left(response_writer, pending_responses)
        /\ UNCHANGED <<client_http_vars, request_reader, served, up>>
    BY <1>4 DEF ServerWrites, Left
  <2>3. /\ asked' = asked /\ pending_requests' = pending_requests
        /\ requests_are_head' = requests_are_head /\ request_writer' = request_writer
        /\ response_reader' = response_reader /\ answered' = answered
        /\ request_reader' = request_reader /\ served' = served /\ up' = up
    BY <2>2 DEF client_http_vars
  <2>4. Upward'
    BY <1>0, <2>3 DEF Upward
  <2>5. ASSUME NEW wasHead \in BOOLEAN, Alike(requests_are_head, wasHead) PROVE Downward(wasHead)'
    <3> DEFINE put == WriteTo(w, down, HttpCapacity)
    <3>1. Downward(wasHead)
      BY <1>0, <2>5
    <3>2. Pipe(Answers(served), "response", wasHead, Left(response_writer, pending_responses),
               put.writer, put.ring, response_reader, answered)
      BY <3>1, <2>1, <2>2, WrittenWhole DEF Downward
    <3> QED
      BY <3>2, <2>1, <2>2, <2>3 DEF Downward
  <2> QED
    BY <1>0, <2>3, <2>4, <2>5 DEF HttpIInv
<1>5. CASE ClientReads
  <2>1. PICK n \in 1 .. Len(down),
             r \in IF response_reader = {} THEN {Reader("response", Head(requests_are_head))}
                   ELSE response_reader :
           LET got == Read(r, Upto(down, n)) IN
           /\ down' = got.rest \o From(down, n + 1)
           /\ IF got.reader.finished
              THEN response_reader' = {} /\ answered' = Append(answered, Message(got.reader))
              ELSE response_reader' = {got.reader} /\ UNCHANGED answered
    BY <1>5 DEF ClientReads
  <2> DEFINE got == Read(r, Upto(down, n))
             m == Message(got.reader)
  <2>2. /\ asked' = asked /\ pending_requests' = pending_requests
        /\ requests_are_head' = requests_are_head /\ request_writer' = request_writer
        /\ request_reader' = request_reader /\ served' = served /\ up' = up
        /\ response_writer' = response_writer /\ pending_responses' = pending_responses
        /\ requests_are_head # <<>>
    BY <1>5 DEF ClientReads, server_http_vars
  <2>3. Upward'
    BY <1>0, <2>2 DEF Upward
  <2>4. ASSUME NEW wasHead \in BOOLEAN, Alike(requests_are_head, wasHead) PROVE Downward(wasHead)'
    <3>1. Downward(wasHead)
      BY <1>0, <2>4
    <3>2. Head(requests_are_head) = wasHead
      <4>1. requests_are_head \in Seq(BOOLEAN)
        BY <1>0 DEF Heads
      <4>2. 1 \in 1 .. Len(requests_are_head) /\ Head(requests_are_head) = requests_are_head[1]
        BY <4>1, <2>2, EmptySeq
      <4> QED
        BY <4>2, <2>4 DEF Alike
    <3>3. r \in IF response_reader = {} THEN {Reader("response", wasHead)} ELSE response_reader
      BY <2>1, <3>2
    <3>4. HasRead(Answers(served), "response", wasHead, pending_responses, response_writer, down', got,
                  answered)
      BY <3>1, <3>3, <2>1, ReadFromRing DEF Downward
    <3>5. /\ got.reader.finished => response_reader' = {} /\ answered' = Append(answered, m)
          /\ ~got.reader.finished => response_reader' = {got.reader} /\ answered' = answered
      BY <2>1
    <3> HIDE DEF got
    <3> QED
      BY <3>4, <3>5, <2>2 DEF HasRead, Downward
  <2> QED
    BY <1>0, <2>2, <2>3, <2>4 DEF HttpIInv
<1>6. CASE UNCHANGED http_vars
  <2>1. /\ asked' = asked /\ pending_requests' = pending_requests
        /\ requests_are_head' = requests_are_head /\ request_writer' = request_writer
        /\ request_reader' = request_reader /\ served' = served /\ up' = up
        /\ response_writer' = response_writer /\ pending_responses' = pending_responses
        /\ response_reader' = response_reader /\ answered' = answered /\ down' = down
    BY <1>6 DEF http_vars, client_http_vars, server_http_vars
  <2>2. Upward' /\ \A wasHead \in BOOLEAN : Downward(wasHead)' <=> Downward(wasHead)
    BY <1>0, <2>1 DEF Upward, Downward
  <2> QED
    BY <1>0, <2>1, <2>2 DEF HttpIInv
<1> QED
  BY <1>1, <1>2, <1>3, <1>4, <1>5, <1>6 DEF HttpNext

LEMMA HttpInvariantSuffices == HttpIInv => MessagesAreReadWhole
<1> SUFFICES ASSUME HttpIInv PROVE MessagesAreReadWhole
  OBVIOUS
<1>0. /\ Heads(asked, requests_are_head) /\ Upward
      /\ \A wasHead \in BOOLEAN : Alike(requests_are_head, wasHead) => Downward(wasHead)
  BY DEF HttpIInv
<1>1. /\ asked \in Seq(Messages) /\ served \in Seq(Messages) /\ Len(served) <= Len(asked)
      /\ \A i \in 1 .. Len(served) : served[i] = asked[i]
      /\ \A r \in request_reader : ~r.header.failed
  BY <1>0, PipeSays DEF Upward
<1>2. IsPrefix(served, asked)
  <2> DEFINE n == Len(served)
             a == Upto(served, n)
             b == Upto(asked, n)
  <2>1. n \in 0 .. Len(served) /\ n \in 0 .. Len(asked)
    BY <1>1
  <2>2. /\ a \in Seq(Messages) /\ b \in Seq(Messages) /\ Len(a) = n /\ Len(b) = n
        /\ \A i \in 1 .. n : a[i] = served[i] /\ b[i] = asked[i]
    BY <2>1, <1>1, Cuts
  <2> HIDE DEF a, b
  <2>3. \A i \in 1 .. n : a[i] = b[i]
    BY <2>2, <1>1
  <2>4. a = b
    BY <2>2, <2>3, SeqEqual
  <2> QED
    BY <2>4, <1>1 DEF IsPrefix, a, b, Upto
<1>3. ASSUME \A i, j \in DOMAIN requests_are_head : requests_are_head[i] = requests_are_head[j]
      PROVE  /\ Len(answered) <= Len(served)
             /\ \A i \in DOMAIN answered : answered[i] = Reply(asked[i])
             /\ \A r \in response_reader : ~r.header.failed
  <2>1. requests_are_head \in Seq(BOOLEAN)
    BY <1>0 DEF Heads
  <2>2. PICK wasHead \in BOOLEAN : Alike(requests_are_head, wasHead)
    <3>1. CASE requests_are_head = <<>>
      <4>1. Alike(requests_are_head, TRUE)
        BY <3>1 DEF Alike
      <4> QED
        BY <4>1
    <3>2. CASE requests_are_head # <<>>
      <4>1. 1 \in 1 .. Len(requests_are_head) /\ DOMAIN requests_are_head = 1 .. Len(requests_are_head)
        BY <2>1, <3>2, EmptySeq
      <4>2. requests_are_head[1] \in BOOLEAN
        BY <2>1, <4>1, ElementOfSeq
      <4>3. Alike(requests_are_head, requests_are_head[1])
        BY <1>3, <4>1 DEF Alike
      <4> QED
        BY <4>2, <4>3
    <3> QED
      BY <3>1, <3>2
  <2>3. Downward(wasHead)
    BY <2>2, <1>0
  <2>4. /\ answered \in Seq(Messages) /\ Len(answered) <= Len(Answers(served))
        /\ \A i \in 1 .. Len(answered) : answered[i] = Answers(served)[i]
        /\ \A r \in response_reader : ~r.header.failed
    BY <2>3, PipeSays DEF Downward
  <2>5. /\ Len(Answers(served)) = Len(served)
        /\ \A i \in 1 .. Len(served) : Answers(served)[i] = Reply(served[i])
    BY <1>1, AnswersAre
  <2>6. ASSUME NEW i \in 1 .. Len(answered) PROVE answered[i] = Reply(asked[i])
    <3>1. i \in 1 .. Len(served)
      BY <1>1, <2>4, <2>5
    <3> QED
      BY <3>1, <1>1, <2>4, <2>5
  <2>7. DOMAIN answered = 1 .. Len(answered)
    BY <2>4
  <2> QED
    BY <2>4, <2>5, <2>6, <2>7
<1> QED
  BY <1>1, <1>2, <1>3 DEF MessagesAreReadWhole

(* However the rings cut them, the server reads every request as the       *)
(* client wrote it (http/http_reader.hh, http_server.hh); and while the    *)
(* requests are all HEAD or none is, the client reads every response as it *)
(* was written for its request, and neither reader fails (http_client.hh), *)
(* for rings of any size and any number of requests.                       *)
THEOREM MessagesReadWhole == HttpSpec => []MessagesAreReadWhole
<1>1. HttpInit => HttpIInv
  BY HttpBegins
<1>2. HttpIInv /\ [HttpNext]_http_vars => HttpIInv'
  BY HttpGoesOn
<1>3. HttpIInv => MessagesAreReadWhole
  BY HttpInvariantSuffices
<1> QED
  BY <1>1, <1>2, <1>3, PTL DEF HttpSpec

------------------------------------------------------------------------------
(* WebSocket.  The bytes of all frames that the viewer has sent are one    *)
(* sequence s, in which e[i] is where the i-th frame ends; c[i] is what    *)
(* the first i frames amount to.  The server stands k bytes into the frame *)
(* after the d-th.  The handshake before it is the reading of one request, *)
(* by the facts above about HTTP.                                          *)

(* Frames as the viewer makes them, and their bytes.                       *)
Payloads == Seq(Nat \X Nat)
SentFrames ==
    [opcode : {"Text", "Continuation", "Ping", "Pong", "Close"}, fin : BOOLEAN,
     masked : {FALSE}, payload : Payloads]
WsBytes ==
    [fin : BOOLEAN, opcode : Opcodes] \cup [mask : BOOLEAN, sigil : Nat] \cup [value : Nat]
    \cup [key : 1 .. 4] \cup [under : BOOLEAN, data : Nat \X Nat]

OnWire(f) == Bytes([f EXCEPT !.masked = TRUE])
LengthBytes(f) ==
    IF Len(f.payload) <= SmallMax THEN 0 ELSE IF Len(f.payload) <= Len16Max THEN 2 ELSE 8
FrameSize(f) == 6 + LengthBytes(f) + Len(f.payload)
Sigil(f) ==
    IF LengthBytes(f) = 0 THEN Len(f.payload)
    ELSE IF LengthBytes(f) = 2 THEN SmallMax + 1 ELSE SmallMax + 2

(* What the bytes of a frame are: those of the length after the first two, *)
(* four of the key, and the payload under the mask.                        *)
AreBytesOf(b, f) ==
    /\ b \in Seq(WsBytes) /\ Len(b) = FrameSize(f)
    /\ b[1] = [fin |-> f.fin, opcode |-> f.opcode]
    /\ b[2] = [mask |-> TRUE, sigil |-> Sigil(f)]
    /\ LengthBytes(f) # 0 => b[3] = [value |-> Len(f.payload)]
    /\ \A i \in 1 .. Len(f.payload) :
           b[6 + LengthBytes(f) + i] = [under |-> TRUE, data |-> f.payload[i]]

LEMMA FrameLengths ==
    ASSUME NEW f \in SentFrames
    PROVE  /\ Len(f.payload) \in Nat /\ LengthBytes(f) \in {0, 2, 8} /\ FrameSize(f) \in Nat
           /\ Sigil(f) \in Nat /\ 6 + LengthBytes(f) <= FrameSize(f)
           /\ SmallMax \in Nat /\ Len16Max \in Nat /\ SmallMax < Len16Max
<1>1. Len(f.payload) \in Nat
  BY DEF SentFrames, Payloads
<1>2. SmallMax \in Nat /\ Len16Max \in Nat /\ SmallMax < Len16Max
  BY WsConstants
<1>3. LengthBytes(f) \in {0, 2, 8}
  BY DEF LengthBytes
<1> QED
  BY <1>1, <1>2, <1>3 DEF FrameSize, Sigil

LEMMA BytesAre ==
    ASSUME NEW f \in SentFrames
    PROVE  AreBytesOf(OnWire(f), f)
<1> DEFINE n == Len(f.payload)
           l == LengthBytes(f)
           g == [f EXCEPT !.masked = TRUE]
           head == <<[fin |-> f.fin, opcode |-> f.opcode], [mask |-> TRUE, sigil |-> Sigil(f)]>>
           length == IF n <= SmallMax THEN <<>>
                     ELSE [i \in 1 .. IF n <= Len16Max THEN 2 ELSE 8 |-> [value |-> n]]
           key == [i \in 1 .. 4 |-> [key |-> i]]
           data == [i \in 1 .. n |-> [under |-> TRUE, data |-> f.payload[i]]]
           b == Cat(Cat(Cat(head, length), key), data)
<1>1. /\ n \in Nat /\ l \in {0, 2, 8} /\ Sigil(f) \in Nat
      /\ SmallMax \in Nat /\ Len16Max \in Nat /\ SmallMax < Len16Max
  BY FrameLengths
<1>2. g.masked = TRUE /\ g.fin = f.fin /\ g.opcode = f.opcode /\ g.payload = f.payload
  BY DEF SentFrames
<1>3. /\ l = 0 <=> n <= SmallMax
      /\ l = 2 <=> n > SmallMax /\ n <= Len16Max
  BY <1>1 DEF LengthBytes
<1>4. OnWire(f) = b
  <2>1. Sigil(f) = IF n <= SmallMax THEN n ELSE IF n <= Len16Max THEN SmallMax + 1
                   ELSE SmallMax + 2
    BY <1>1, <1>3 DEF Sigil
  <2> HIDE DEF g
  <2> QED
    BY <1>2, <2>1 DEF OnWire, Bytes, Cat, g
<1>5. head \in Seq(WsBytes) /\ Len(head) = 2
  <2>1. [fin |-> f.fin, opcode |-> f.opcode] \in WsBytes
    BY DEF SentFrames, WsBytes, Opcodes
  <2>2. [mask |-> TRUE, sigil |-> Sigil(f)] \in WsBytes
    BY <1>1 DEF WsBytes
  <2> QED
    BY <2>1, <2>2
<1>6. length \in Seq(WsBytes) /\ Len(length) = l /\ \A i \in 1 .. l : length[i] = [value |-> n]
  <2>1. [value |-> n] \in WsBytes
    BY <1>1 DEF WsBytes
  <2>2. CASE n <= SmallMax
    BY <2>2, <1>3
  <2>3. CASE ~(n <= SmallMax)
    <3>1. length = [i \in 1 .. l |-> [value |-> n]]
      BY <2>3, <1>1, <1>3
    <3> HIDE DEF length, l
    <3>2. l \in Nat
      BY <1>1
    <3> QED
      BY ONLY <3>1, <3>2, <2>1
  <2> QED
    BY <2>2, <2>3
<1>7. key \in Seq(WsBytes) /\ Len(key) = 4
  <2>1. \A i \in 1 .. 4 : [key |-> i] \in WsBytes
    BY DEF WsBytes
  <2> QED
    BY <2>1
<1>8. /\ data \in Seq(WsBytes) /\ Len(data) = n
      /\ \A i \in 1 .. n : data[i] = [under |-> TRUE, data |-> f.payload[i]]
  <2>1. \A i \in 1 .. n : f.payload[i] \in Nat \X Nat
    BY <1>1 DEF SentFrames, Payloads
  <2>2. \A i \in 1 .. n : [under |-> TRUE, data |-> f.payload[i]] \in WsBytes
    BY <2>1 DEF WsBytes
  <2>3. data = [i \in 1 .. n |-> [under |-> TRUE, data |-> f.payload[i]]] /\ n \in Nat
    BY <1>1
  <2> HIDE DEF data, n
  <2> QED
    BY ONLY <2>2, <2>3
<1>9. head[1] = [fin |-> f.fin, opcode |-> f.opcode] /\ head[2] = [mask |-> TRUE, sigil |-> Sigil(f)]
  OBVIOUS
<1> DEFINE u == Cat(head, length)
           v == Cat(u, key)
<1> HIDE DEF head, length, key, data
<1>10. u \in Seq(WsBytes) /\ IsCat(u, head, length)
  BY <1>5, <1>6, CatPlaces
<1> HIDE DEF u
<1>11. v \in Seq(WsBytes) /\ IsCat(v, u, key)
  BY <1>7, <1>10, CatPlaces
<1> HIDE DEF v
<1>12. b \in Seq(WsBytes) /\ IsCat(b, v, data)
  <2>1. b = Cat(v, data)
    BY DEF u, v
  <2> QED
    BY <2>1, <1>8, <1>11, CatPlaces
<1> HIDE DEF b
<1>13. Len(u) = 2 + l /\ Len(v) = 6 + l /\ Len(b) = FrameSize(f)
  <2>1. Len(u) = 2 + l
    BY <1>5, <1>6, <1>10 DEF IsCat
  <2>2. Len(v) = Len(u) + 4 /\ Len(b) = Len(v) + n
    BY <1>7, <1>8, <1>11, <1>12 DEF IsCat
  <2> HIDE DEF n, l
  <2> QED
    BY <2>1, <2>2, <1>1 DEF FrameSize, n, l
<1>14. \A i \in 1 .. 2 + l : b[i] = u[i]
  <2>1. ASSUME NEW i \in 1 .. 2 + l PROVE b[i] = u[i]
    <3>1. i \in 1 .. Len(u) /\ i \in 1 .. Len(v)
      <4> HIDE DEF l
      <4> QED
        BY <1>13, <1>1
    <3>2. v[i] = u[i] /\ b[i] = v[i]
      BY <3>1, <1>11, <1>12 DEF IsCat
    <3> QED
      BY <3>2
  <2> QED
    BY <2>1
<1> HIDE DEF l, n
<1>15. b[1] = head[1] /\ b[2] = head[2]
  <2>1. 1 \in 1 .. 2 + l /\ 2 \in 1 .. 2 + l /\ 1 \in 1 .. Len(head) /\ 2 \in 1 .. Len(head)
    BY <1>1, <1>5
  <2> QED
    BY <2>1, <1>10, <1>14 DEF IsCat
<1>16. l # 0 => b[3] = [value |-> n]
  <2> SUFFICES ASSUME l # 0 PROVE b[3] = [value |-> n]
    OBVIOUS
  <2>1. 3 \in 1 .. 2 + l /\ 1 \in 1 .. Len(length) /\ Len(head) + 1 = 3 /\ 1 \in 1 .. l
    BY <1>1, <1>5, <1>6
  <2>2. u[Len(head) + 1] = length[1]
    BY <2>1, <1>10 DEF IsCat
  <2>3. b[3] = length[1]
    BY <2>1, <2>2, <1>14
  <2> QED
    BY <2>1, <2>3, <1>6
<1>17. ASSUME NEW i \in 1 .. n PROVE b[6 + l + i] = [under |-> TRUE, data |-> f.payload[i]]
  <2>1. b[Len(v) + i] = data[i]
    BY <1>8, <1>12 DEF IsCat
  <2> QED
    BY <2>1, <1>8, <1>13
<1> QED
  BY <1>4, <1>9, <1>12, <1>13, <1>15, <1>16, <1>17 DEF AreBytesOf, l, n

(* The bytes of b from the lo-th to the hi-th, of which k bytes have been  *)
(* read.                                                                   *)
Part(b, lo, hi, k) == SubSeq(b, lo, IF k < hi THEN k ELSE hi)

PartLength(lo, hi, k) == IF k < lo THEN 0 ELSE IF k < hi THEN k - lo + 1 ELSE hi - lo + 1

IsPart(w, b, lo, hi, k) ==
    /\ w \in Seq(WsBytes) /\ Len(w) = PartLength(lo, hi, k)
    /\ \A i \in 1 .. Len(w) : w[i] = b[lo - 1 + i]

LEMMA PartIs ==
    ASSUME NEW b \in Seq(WsBytes), NEW lo \in Nat, NEW hi \in Nat, NEW k \in Nat,
           1 <= lo, lo - 1 <= hi, hi <= Len(b)
    PROVE  IsPart(Part(b, lo, hi, k), b, lo, hi, k)
<1> DEFINE n == IF k < hi THEN k ELSE hi
           w == SubSeq(b, lo, n)
<1>1. Len(b) \in Nat /\ n \in Int /\ \A i \in lo .. n : i \in 1 .. Len(b)
  OBVIOUS
<1>2. n - lo + 1 = IF k < hi THEN k - lo + 1 ELSE hi - lo + 1
  OBVIOUS
<1>3. (IF lo <= n THEN n - lo + 1 ELSE 0)
          = IF k < lo THEN 0 ELSE IF k < hi THEN k - lo + 1 ELSE hi - lo + 1
  OBVIOUS
<1> HIDE DEF n
<1>4. /\ w \in Seq(WsBytes) /\ Len(w) = (IF lo <= n THEN n - lo + 1 ELSE 0)
      /\ \A i \in 1 .. n - lo + 1 : w[i] = b[lo + i - 1]
  <2>1. \A i \in lo .. n : b[i] \in WsBytes
    BY <1>1
  <2> QED
    BY <2>1, <1>1, SubSeqProperties
<1> HIDE DEF w
<1>5. \A i \in 1 .. Len(w) : i \in 1 .. n - lo + 1 /\ lo + i - 1 = lo - 1 + i
  BY <1>1, <1>4
<1>6. \A i \in 1 .. Len(w) : w[i] = b[lo - 1 + i]
  BY <1>4, <1>5
<1>7. Part(b, lo, hi, k) = w
  BY DEF Part, w, n
<1> QED
  BY <1>3, <1>4, <1>6, <1>7 DEF IsPart, PartLength

(* A piece w of a stream that goes on, after k bytes, with those of b.     *)
Onto(w, b, k) == \A i \in 1 .. Len(w) : k + i <= Len(b) => w[i] = b[k + i]

LEMMA PartGrows ==
    ASSUME NEW b \in Seq(WsBytes), NEW lo \in Nat, NEW hi \in Nat, NEW k \in Nat,
           1 <= lo, lo - 1 <= k, hi <= Len(b),
           NEW w \in Seq(WsBytes), Onto(w, b, k), k + Len(w) <= hi
    PROVE  Part(b, lo, hi, k) \o w = Part(b, lo, hi, k + Len(w))
<1> DEFINE p == Part(b, lo, hi, k)
           q == Part(b, lo, hi, k + Len(w))
           c == Cat(p, w)
<1>1. Len(w) \in Nat /\ Len(b) \in Nat /\ k + Len(w) \in Nat /\ lo - 1 <= hi
  OBVIOUS
<1>2. IsPart(p, b, lo, hi, k) /\ IsPart(q, b, lo, hi, k + Len(w))
  BY <1>1, PartIs
<1> HIDE DEF p, q
<1>3. p \in Seq(WsBytes) /\ q \in Seq(WsBytes)
  BY <1>2 DEF IsPart
<1>4. c \in Seq(WsBytes) /\ IsCat(c, p, w)
  BY <1>3, CatPlaces
<1> HIDE DEF c
<1>5. Len(p) = k - lo + 1 /\ Len(q) = k + Len(w) - lo + 1
  <2> DEFINE m == k + Len(w)
  <2>1. Len(p) = PartLength(lo, hi, k) /\ Len(q) = PartLength(lo, hi, m)
    BY <1>2 DEF IsPart
  <2>2. m \in Nat /\ k <= m /\ m <= hi
    BY <1>1
  <2> HIDE DEF m
  <2>3. Len(p) = k - lo + 1 /\ Len(q) = m - lo + 1
    BY <2>1, <2>2 DEF PartLength
  <2> QED
    BY <2>3 DEF m
<1>6. Len(c) = Len(q)
  <2>1. Len(c) = Len(p) + Len(w)
    BY <1>4 DEF IsCat
  <2> QED
    BY <2>1, <1>1, <1>5
<1>7. ASSUME NEW i \in 1 .. Len(c) PROVE c[i] = q[i]
  <2>1. q[i] = b[lo - 1 + i]
    BY <1>2, <1>6 DEF IsPart
  <2>2. CASE i <= Len(p)
    <3>1. i \in 1 .. Len(p)
      BY <2>2, <1>5
    <3> QED
      BY <2>1, <3>1, <1>2, <1>4 DEF IsPart, IsCat
  <2>3. CASE i > Len(p)
    <3>1. i - Len(p) \in 1 .. Len(w) /\ Len(p) + (i - Len(p)) = i /\ k + (i - Len(p)) = lo - 1 + i
      BY <2>3, <1>1, <1>5, <1>6
    <3>2. c[i] = w[i - Len(p)]
      BY <3>1, <1>4 DEF IsCat
    <3>3. k + (i - Len(p)) <= Len(b)
      BY <3>1, <1>1
    <3>4. w[i - Len(p)] = b[k + (i - Len(p))]
      BY <3>1, <3>3 DEF Onto
    <3> QED
      BY <2>1, <3>1, <3>2, <3>4
  <2> QED
    BY <2>2, <2>3, <1>5
<1>8. c = q
  BY <1>3, <1>4, <1>6, <1>7, SeqEqual
<1> QED
  BY <1>8 DEF c, p, q, Cat

(* What is read does not change a part that has all its bytes, nor one     *)
(* that is still to come.                                                  *)
LEMMA PartStays ==
    ASSUME NEW b, NEW lo \in Nat, NEW hi \in Nat, NEW k \in Nat, NEW m \in Nat, k <= m,
           hi <= k \/ m < lo
    PROVE  Part(b, lo, hi, m) = Part(b, lo, hi, k)
<1>1. CASE hi <= k
  BY <1>1 DEF Part
<1>2. CASE m < lo
  <2> DEFINE x == IF k < hi THEN k ELSE hi
             y == IF m < hi THEN m ELSE hi
  <2>1. x \in Int /\ y \in Int /\ x < lo /\ y < lo
    BY <1>2
  <2> HIDE DEF x, y
  <2>2. SubSeq(b, lo, x) = <<>> /\ SubSeq(b, lo, y) = <<>>
    BY <2>1, SubSeqEmpty
  <2> QED
    BY <2>2 DEF Part, x, y
<1> QED
  BY <1>1, <1>2

(* What of the input is one turn's, and what is left.                      *)
LEMMA OntoParts ==
    ASSUME NEW w \in Seq(WsBytes), NEW b \in Seq(WsBytes), NEW k \in Nat, Onto(w, b, k),
           NEW n \in 0 .. Len(w)
    PROVE  /\ Upto(w, n) \in Seq(WsBytes) /\ Len(Upto(w, n)) = n /\ Onto(Upto(w, n), b, k)
           /\ From(w, n + 1) \in Seq(WsBytes) /\ Len(From(w, n + 1)) = Len(w) - n
           /\ Onto(From(w, n + 1), b, k + n)
<1> DEFINE u == Upto(w, n)
           v == From(w, n + 1)
<1>1. /\ u \in Seq(WsBytes) /\ Len(u) = n /\ \A i \in 1 .. n : u[i] = w[i]
      /\ v \in Seq(WsBytes) /\ Len(v) = Len(w) - n
      /\ \A i \in 1 .. Len(w) - n : v[i] = w[n + i]
  BY Cuts
<1> HIDE DEF u, v
<1>2. n \in Nat /\ Len(w) \in Nat /\ n <= Len(w) /\ Len(b) \in Nat
  OBVIOUS
<1>3. Onto(u, b, k)
  <2>1. ASSUME NEW i \in 1 .. Len(u), k + i <= Len(b) PROVE u[i] = b[k + i]
    <3>1. i \in 1 .. n /\ i \in 1 .. Len(w)
      BY <1>1, <1>2
    <3>2. w[i] = b[k + i]
      BY <2>1, <3>1 DEF Onto
    <3> QED
      BY <3>1, <3>2, <1>1
  <2> QED
    BY <2>1 DEF Onto
<1>4. ASSUME NEW i \in 1 .. Len(v), (k + n) + i <= Len(b) PROVE v[i] = b[(k + n) + i]
  <2>1. i \in 1 .. Len(w) - n /\ n + i \in 1 .. Len(w) /\ k + (n + i) = (k + n) + i
    BY <1>1, <1>2
  <2>2. w[n + i] = b[k + (n + i)]
    BY <2>1, <1>4 DEF Onto
  <2> QED
    BY <2>1, <2>2, <1>1
<1>5. Onto(v, b, k + n)
  BY <1>4 DEF Onto
<1> QED
  BY <1>1, <1>3, <1>5 DEF u, v

(* A reader that has read k bytes of the frame f.  No is FALSE under a     *)
(* name: the provers compare such records better without the word.         *)
No == FALSE
AsReader(bytes12, length, length_read, key, key_read, payload, payload_read, finished) ==
    [bytes12 |-> bytes12, length |-> length, length_read |-> length_read, key |-> key,
     key_read |-> key_read, payload |-> payload, payload_read |-> payload_read,
     finished |-> finished, error |-> No]

LengthKnown(f, k) == IF k >= 2 /\ LengthBytes(f) # 0 THEN {LengthBytes(f)} ELSE {}
KeyKnown(k) == IF k >= 2 THEN {4} ELSE {}
PayloadKnown(f, k) == IF k >= 2 + LengthBytes(f) THEN {Len(f.payload)} ELSE {}

(* What it has read, k bytes, and what it knows since it had read j.       *)
ReaderOf(f, j, k, finished) ==
    LET b == OnWire(f)
        l == LengthBytes(f) IN
    AsReader(Part(b, 1, 2, k), LengthKnown(f, j), Part(b, 3, 2 + l, k), KeyKnown(j),
             Part(b, 3 + l, 6 + l, k), PayloadKnown(f, j), Part(b, 7 + l, FrameSize(f), k), finished)

ReaderAt(f, k) == ReaderOf(f, k, k, No)
ReaderWith(f) == ReaderOf(f, FrameSize(f), FrameSize(f), TRUE)

(* Where the part ends that comes after k bytes.                           *)
Bound(f, k) ==
    IF k < 2 THEN 2 ELSE IF k < 2 + LengthBytes(f) THEN 2 + LengthBytes(f)
    ELSE IF k < 6 + LengthBytes(f) THEN 6 + LengthBytes(f) ELSE FrameSize(f)

(* How many bytes the parts have of the first k.                           *)
PartLengths(f, k) ==
    LET b == OnWire(f)
        l == LengthBytes(f) IN
    /\ Len(Part(b, 1, 2, k)) = IF k < 2 THEN k ELSE 2
    /\ Len(Part(b, 3, 2 + l, k)) = IF k < 3 THEN 0 ELSE IF k < 2 + l THEN k - 2 ELSE l
    /\ Len(Part(b, 3 + l, 6 + l, k)) = IF k < 3 + l THEN 0 ELSE IF k < 6 + l THEN k - (2 + l) ELSE 4
    /\ Len(Part(b, 7 + l, FrameSize(f), k)) =
           IF k < 7 + l THEN 0 ELSE IF k < FrameSize(f) THEN k - (6 + l) ELSE Len(f.payload)

LEMMA PartLengthsAre ==
    ASSUME NEW f \in SentFrames, NEW k \in Nat, k <= FrameSize(f)
    PROVE  PartLengths(f, k)
<1> DEFINE b == OnWire(f)
           l == LengthBytes(f)
           t == FrameSize(f)
           n == Len(f.payload)
<1>1. n \in Nat /\ l \in {0, 2, 8} /\ t \in Nat /\ t = 6 + l + n
  BY FrameLengths DEF FrameSize
<1>2. b \in Seq(WsBytes) /\ Len(b) = t
  BY BytesAre DEF AreBytesOf
<1> HIDE DEF b, l, t, n
<1>3. IsPart(Part(b, 1, 2, k), b, 1, 2, k) /\ IsPart(Part(b, 3, 2 + l, k), b, 3, 2 + l, k)
  <2>1. 2 \in Nat /\ 3 \in Nat /\ 1 \in Nat /\ 2 + l \in Nat /\ 2 <= Len(b) /\ 2 + l <= Len(b)
        /\ 3 - 1 <= 2 + l /\ 1 - 1 <= 2 /\ 1 <= 1 /\ 1 <= 3
    BY <1>1, <1>2
  <2> QED
    BY <2>1, <1>2, PartIs
<1>4. IsPart(Part(b, 3 + l, 6 + l, k), b, 3 + l, 6 + l, k) /\ IsPart(Part(b, 7 + l, t, k), b, 7 + l, t, k)
  <2>1. 3 + l \in Nat /\ 6 + l \in Nat /\ 7 + l \in Nat /\ 6 + l <= Len(b) /\ t <= Len(b)
        /\ 3 + l - 1 <= 6 + l /\ 7 + l - 1 <= t /\ 1 <= 3 + l /\ 1 <= 7 + l
    BY <1>1, <1>2
  <2> QED
    BY <2>1, <1>1, <1>2, PartIs
<1>5. /\ Len(Part(b, 1, 2, k)) = PartLength(1, 2, k)
      /\ Len(Part(b, 3, 2 + l, k)) = PartLength(3, 2 + l, k)
      /\ Len(Part(b, 3 + l, 6 + l, k)) = PartLength(3 + l, 6 + l, k)
      /\ Len(Part(b, 7 + l, t, k)) = PartLength(7 + l, t, k)
  BY <1>3, <1>4 DEF IsPart
<1>6. /\ Len(Part(b, 1, 2, k)) = IF k < 2 THEN k ELSE 2
      /\ Len(Part(b, 3, 2 + l, k)) = IF k < 3 THEN 0 ELSE IF k < 2 + l THEN k - 2 ELSE l
      /\ Len(Part(b, 3 + l, 6 + l, k)) = IF k < 3 + l THEN 0 ELSE IF k < 6 + l THEN k - (2 + l) ELSE 4
      /\ Len(Part(b, 7 + l, t, k)) = IF k < 7 + l THEN 0 ELSE IF k < t THEN k - (6 + l) ELSE n
  BY <1>1, <1>5 DEF PartLength
<1> QED
  BY <1>6 DEF PartLengths, b, l, t, n

LEMMA OneWanted ==
    ASSUME NEW n, NEW got
    PROVE  (Unfinished({n}, got) <=> Len(got) < n) /\ Wants({n}, got) = n - Len(got)
           /\ ~Unfinished({}, got)
  BY DEF Unfinished, Wants

(* Which part a reader is at, and what it wants.                           *)
IsAtPart(f, k, r) ==
    /\ Unfinished({2}, r.bytes12) <=> k < 2
    /\ k >= 2 => (Unfinished(r.length, r.length_read) <=> k < 2 + LengthBytes(f))
    /\ k >= 2 => (Unfinished(r.key, r.key_read) <=> k < 6 + LengthBytes(f))
    /\ k >= 6 + LengthBytes(f) => (Unfinished(r.payload, r.payload_read) <=> k < FrameSize(f))
    /\ Wanted(r) = Bound(f, k) - k

LEMMA AtParts ==
    ASSUME NEW f \in SentFrames, NEW k \in Nat, k <= FrameSize(f)
    PROVE  IsAtPart(f, k, ReaderAt(f, k))
<1> DEFINE r == ReaderAt(f, k)
           b == OnWire(f)
           l == LengthBytes(f)
           t == FrameSize(f)
           n == Len(f.payload)
           p1 == Part(b, 1, 2, k)
           p2 == Part(b, 3, 2 + l, k)
           p3 == Part(b, 3 + l, 6 + l, k)
           p4 == Part(b, 7 + l, t, k)
<1>1. n \in Nat /\ l \in {0, 2, 8} /\ t \in Nat /\ t = 6 + l + n /\ k \in Nat /\ k <= t
  BY FrameLengths DEF FrameSize
<1>2. /\ Len(p1) = IF k < 2 THEN k ELSE 2
      /\ Len(p2) = IF k < 3 THEN 0 ELSE IF k < 2 + l THEN k - 2 ELSE l
      /\ Len(p3) = IF k < 3 + l THEN 0 ELSE IF k < 6 + l THEN k - (2 + l) ELSE 4
      /\ Len(p4) = IF k < 7 + l THEN 0 ELSE IF k < t THEN k - (6 + l) ELSE n
  BY PartLengthsAre DEF PartLengths
<1>3. /\ r.bytes12 = p1 /\ r.length_read = p2 /\ r.key_read = p3 /\ r.payload_read = p4
      /\ r.length = IF k >= 2 /\ l # 0 THEN {l} ELSE {}
      /\ r.key = IF k >= 2 THEN {4} ELSE {}
      /\ r.payload = IF k >= 2 + l THEN {n} ELSE {}
  BY DEF ReaderAt, ReaderOf, AsReader, LengthKnown, KeyKnown, PayloadKnown
<1>4. Bound(f, k) = IF k < 2 THEN 2 ELSE IF k < 2 + l THEN 2 + l ELSE IF k < 6 + l THEN 6 + l ELSE t
  BY DEF Bound
<1> HIDE DEF p1, p2, p3, p4, l, n, t, b, r
<1>5. (Unfinished({2}, r.bytes12) <=> k < 2) /\ Wants({2}, r.bytes12) = 2 - Len(p1)
  <2>1. (Unfinished({2}, p1) <=> Len(p1) < 2) /\ Wants({2}, p1) = 2 - Len(p1)
    BY OneWanted
  <2> QED
    BY <2>1, <1>2, <1>3
<1>6. k >= 2 => /\ Unfinished(r.length, r.length_read) <=> k < 2 + l
                /\ l # 0 => Wants(r.length, r.length_read) = l - Len(p2)
  <2>1. ASSUME k >= 2, l = 0 PROVE ~Unfinished(r.length, r.length_read) /\ ~(k < 2 + l)
    <3>1. r.length = {}
      BY <2>1, <1>3
    <3>2. ~Unfinished(r.length, r.length_read)
      BY <3>1, OneWanted
    <3>3. ~(k < 2 + l)
      BY ONLY <2>1, <1>1
    <3> QED
      BY <3>2, <3>3
  <2>2. ASSUME k >= 2, l # 0
        PROVE  /\ Unfinished(r.length, r.length_read) <=> k < 2 + l
               /\ Wants(r.length, r.length_read) = l - Len(p2)
    <3>1. r.length = {l} /\ r.length_read = p2
      BY <2>2, <1>3
    <3>2. (Unfinished({l}, p2) <=> Len(p2) < l) /\ Wants({l}, p2) = l - Len(p2)
      BY OneWanted
    <3>3. Len(p2) < l <=> k < 2 + l
      BY ONLY <2>2, <1>1, <1>2
    <3> QED
      BY <3>1, <3>2, <3>3
  <2> QED
    BY <2>1, <2>2
<1>7. k >= 2 => /\ Unfinished(r.key, r.key_read) <=> k < 6 + l
                /\ Wants(r.key, r.key_read) = 4 - Len(p3)
  <2> SUFFICES ASSUME k >= 2
               PROVE  /\ Unfinished(r.key, r.key_read) <=> k < 6 + l
                      /\ Wants(r.key, r.key_read) = 4 - Len(p3)
    OBVIOUS
  <2>1. r.key = {4} /\ r.key_read = p3
    BY <1>3
  <2>2. (Unfinished({4}, p3) <=> Len(p3) < 4) /\ Wants({4}, p3) = 4 - Len(p3)
    BY OneWanted
  <2>3. Len(p3) < 4 <=> k < 6 + l
    BY ONLY <1>1, <1>2
  <2> QED
    BY <2>1, <2>2, <2>3
<1>8. k >= 6 + l => /\ Unfinished(r.payload, r.payload_read) <=> k < t
                    /\ Wants(r.payload, r.payload_read) = n - Len(p4)
  <2> SUFFICES ASSUME k >= 6 + l
               PROVE  /\ Unfinished(r.payload, r.payload_read) <=> k < t
                      /\ Wants(r.payload, r.payload_read) = n - Len(p4)
    OBVIOUS
  <2>1. r.payload = {n} /\ r.payload_read = p4
    <3>1. k >= 2 + l
      BY <1>1
    <3> QED
      BY <3>1, <1>3
  <2>2. (Unfinished({n}, p4) <=> Len(p4) < n) /\ Wants({n}, p4) = n - Len(p4)
    BY OneWanted
  <2>3. Len(p4) < n <=> k < t
    <3> DEFINE got == Len(p4)
    <3>1. got = IF k < 7 + l THEN 0 ELSE IF k < t THEN k - (6 + l) ELSE n
      BY <1>2
    <3> HIDE DEF got
    <3>2. got < n <=> k < t
      BY ONLY <3>1, <1>1, k >= 6 + l
    <3> QED
      BY <3>2 DEF got
  <2> QED
    BY <2>1, <2>2, <2>3
<1>9. Wanted(r) = Bound(f, k) - k
  <2>1. CASE k < 2
    <3>1. Wanted(r) = 2 - Len(p1)
      BY <2>1, <1>5 DEF Wanted
    <3> QED
      BY <3>1, <2>1, <1>2, <1>4
  <2>2. CASE k >= 2 /\ k < 2 + l
    <3>1. l # 0
      BY <2>2
    <3>2. Wanted(r) = l - Len(p2)
      BY <2>2, <3>1, <1>5, <1>6 DEF Wanted
    <3> QED
      BY <3>2, <2>2, <1>1, <1>2, <1>4
  <2>3. CASE k >= 2 + l /\ k < 6 + l
    <3>1. k >= 2 /\ ~(k < 2) /\ ~(k < 2 + l)
      BY <2>3, <1>1
    <3>2. Wanted(r) = 4 - Len(p3)
      BY <2>3, <3>1, <1>5, <1>6, <1>7 DEF Wanted
    <3> QED
      BY <3>2, <2>3, <1>1, <1>2, <1>4
  <2>4. CASE k >= 6 + l
    <3>1. k >= 2 /\ ~(k < 2) /\ ~(k < 2 + l) /\ ~(k < 6 + l) /\ k >= 2 + l
      BY <2>4, <1>1
    <3>2. Wanted(r) = n - Len(p4)
      <4>1. /\ ~Unfinished({2}, r.bytes12) /\ ~Unfinished(r.length, r.length_read)
            /\ ~Unfinished(r.key, r.key_read) /\ Wants(r.payload, r.payload_read) = n - Len(p4)
        BY <3>1, <2>4, <1>5, <1>6, <1>7, <1>8
      <4> QED
        BY <4>1 DEF Wanted
    <3>3. n - Len(p4) = t - k
      <4> DEFINE got == Len(p4)
      <4>1. got = IF k < 7 + l THEN 0 ELSE IF k < t THEN k - (6 + l) ELSE n
        BY <1>2
      <4> HIDE DEF got
      <4>2. n - got = t - k
        BY ONLY <4>1, <1>1, <2>4
      <4> QED
        BY <4>2 DEF got
    <3> QED
      BY <3>1, <3>2, <3>3, <1>4
  <2> QED
    BY <2>1, <2>2, <2>3, <2>4, <1>1
<1> QED
  BY <1>5, <1>6, <1>7, <1>8, <1>9 DEF IsAtPart, r, l, t

(* The reader with one part longer.                                        *)
With12(r, c) == [r EXCEPT !.bytes12 = c]
WithLength(r, c) == [r EXCEPT !.length_read = c]
WithKey(r, c) == [r EXCEPT !.key_read = c]
WithPayload(r, c, v) == [r EXCEPT !.payload_read = c, !.finished = v]

LEMMA PartTaken ==
    ASSUME NEW a1, NEW a2, NEW a3, NEW a4, NEW x, NEW y, NEW z, NEW u, NEW c, NEW r,
           r = AsReader(a1, x, a2, y, a3, z, a4, u)
    PROVE  /\ With12(r, c) = AsReader(c, x, a2, y, a3, z, a4, u)
           /\ WithLength(r, c) = AsReader(a1, x, c, y, a3, z, a4, u)
           /\ WithKey(r, c) = AsReader(a1, x, a2, y, c, z, a4, u)
<1>1. [r EXCEPT !.bytes12 = c] = AsReader(c, x, a2, y, a3, z, a4, u)
  BY DEF AsReader
<1>2. [r EXCEPT !.length_read = c] = AsReader(a1, x, c, y, a3, z, a4, u)
  BY DEF AsReader
<1>3. [r EXCEPT !.key_read = c] = AsReader(a1, x, a2, y, c, z, a4, u)
  BY DEF AsReader
<1> QED
  BY <1>1, <1>2, <1>3 DEF With12, WithLength, WithKey

LEMMA PayloadTaken ==
    ASSUME NEW a1, NEW a2, NEW a3, NEW a4, NEW x, NEW y, NEW z, NEW u, NEW c, NEW v, NEW r,
           r = AsReader(a1, x, a2, y, a3, z, a4, u)
    PROVE  WithPayload(r, c, v) = AsReader(a1, x, a2, y, a3, z, c, v)
<1> DEFINE q == [r EXCEPT !.payload_read = c]
<1>1. WithPayload(r, c, v) = [q EXCEPT !.finished = v]
  BY DEF WithPayload
<1>2. q = AsReader(a1, x, a2, y, a3, z, c, u)
  BY DEF AsReader
<1> HIDE DEF q
<1>3. [q EXCEPT !.finished = v] = AsReader(a1, x, a2, y, a3, z, c, v)
  BY <1>2 DEF AsReader
<1> QED
  BY <1>1, <1>3

LEMMA PartsOfReader ==
    ASSUME NEW a1, NEW a2, NEW a3, NEW a4, NEW x, NEW y, NEW z, NEW u, NEW r,
           r = AsReader(a1, x, a2, y, a3, z, a4, u)
    PROVE  /\ r.bytes12 = a1 /\ r.length_read = a2 /\ r.key_read = a3 /\ r.payload_read = a4
           /\ r.length = x /\ r.key = y /\ r.payload = z
  BY DEF AsReader

(* What is read in a turn.                                                 *)
LEMMA TakenIs ==
    ASSUME NEW f \in SentFrames, NEW k \in Nat, k <= FrameSize(f),
           NEW w \in Seq(WsBytes), Onto(w, OnWire(f), k), k + Len(w) <= Bound(f, k)
    PROVE  Taken(ReaderAt(f, k), w)
               = ReaderOf(f, k, k + Len(w), k >= 6 + LengthBytes(f) /\ k + Len(w) = FrameSize(f))
<1> DEFINE r == ReaderAt(f, k)
           b == OnWire(f)
           l == LengthBytes(f)
           t == FrameSize(f)
           m == k + Len(w)
           n == Len(f.payload)
<1>1. /\ n \in Nat /\ l \in {0, 2, 8} /\ t \in Nat /\ t = 6 + l + n
      /\ Len(w) \in Nat /\ m \in Nat /\ k <= m /\ k \in Nat /\ k <= t
  BY FrameLengths DEF FrameSize
<1>2. b \in Seq(WsBytes) /\ Len(b) = t
  BY BytesAre DEF AreBytesOf
<1>3. /\ Unfinished({2}, r.bytes12) <=> k < 2
      /\ k >= 2 => (Unfinished(r.length, r.length_read) <=> k < 2 + l)
      /\ k >= 2 => (Unfinished(r.key, r.key_read) <=> k < 6 + l)
  BY AtParts DEF IsAtPart
<1>4. Bound(f, k) = IF k < 2 THEN 2 ELSE IF k < 2 + l THEN 2 + l ELSE IF k < 6 + l THEN 6 + l ELSE t
  BY DEF Bound
<1> DEFINE a1 == Part(b, 1, 2, k)
           a2 == Part(b, 3, 2 + l, k)
           a3 == Part(b, 3 + l, 6 + l, k)
           a4 == Part(b, 7 + l, t, k)
           c1 == Part(b, 1, 2, m)
           c2 == Part(b, 3, 2 + l, m)
           c3 == Part(b, 3 + l, 6 + l, m)
           c4 == Part(b, 7 + l, t, m)
           v == k >= 6 + l /\ m = t
           x == LengthKnown(f, k)
           y == KeyKnown(k)
           z == PayloadKnown(f, k)
<1>5. r = AsReader(a1, x, a2, y, a3, z, a4, No)
  BY DEF ReaderAt, ReaderOf
<1>6. \A e : ReaderOf(f, k, m, e) = AsReader(c1, x, c2, y, c3, z, c4, e)
  BY DEF ReaderOf
<1>o. Onto(w, b, k)
  OBVIOUS
<1>g. ASSUME NEW lo \in Nat, NEW hi \in Nat, 1 <= lo, lo - 1 <= k, hi <= t, m <= hi
      PROVE  Part(b, lo, hi, k) \o w = Part(b, lo, hi, m)
  BY <1>1, <1>2, <1>o, <1>g, PartGrows
<1>s. ASSUME NEW lo \in Nat, NEW hi \in Nat, hi <= k \/ m < lo
      PROVE  Part(b, lo, hi, m) = Part(b, lo, hi, k)
  BY <1>1, <1>s, PartStays
<1>m. m <= Bound(f, k)
  OBVIOUS
<1> HIDE DEF b, l, t, m, n, r
<1>b. 2 + l \in Nat /\ 3 + l \in Nat /\ 6 + l \in Nat /\ 7 + l \in Nat /\ 2 <= t /\ 2 + l <= t /\ 6 + l <= t
  BY <1>1
<1>t1. (2 <= k \/ m < 1 => c1 = a1) /\ (2 + l <= k \/ m < 3 => c2 = a2)
       /\ (6 + l <= k \/ m < 3 + l => c3 = a3) /\ (m < 7 + l => c4 = a4)
  BY <1>s, <1>b, <1>1
<1>t2. k < 2 => a1 \o w = c1 /\ m <= 2
  <2>1. k < 2 => m <= 2
    BY <1>m, <1>4
  <2>2. 1 \in Nat /\ 2 \in Nat /\ 1 <= 1 /\ 1 - 1 <= k
    BY <1>1
  <2> QED
    BY <2>1, <2>2, <1>g, <1>b
<1>t3. k >= 2 /\ k < 2 + l => a2 \o w = c2 /\ m <= 2 + l
  <2>1. k >= 2 /\ k < 2 + l => m <= 2 + l
    BY <1>m, <1>4
  <2>2. k >= 2 => 3 \in Nat /\ 1 <= 3 /\ 3 - 1 <= k
    BY <1>1
  <2> QED
    BY <2>1, <2>2, <1>g, <1>b
<1>t4. k >= 2 + l /\ k < 6 + l => a3 \o w = c3 /\ m <= 6 + l
  <2>1. k >= 2 + l /\ k < 6 + l => m <= 6 + l
    BY <1>m, <1>4, <1>1
  <2>2. k >= 2 + l => 1 <= 3 + l /\ (3 + l) - 1 <= k
    BY <1>1
  <2> QED
    BY <2>1, <2>2, <1>g, <1>b
<1>t5. k >= 6 + l => a4 \o w = c4 /\ m <= t
  <2>1. k >= 6 + l => m <= t
    BY <1>m, <1>4, <1>1
  <2>2. k >= 6 + l => 1 <= 7 + l /\ (7 + l) - 1 <= k /\ t <= t
    BY <1>1
  <2> QED
    BY <2>1, <2>2, <1>g, <1>b, <1>1
<1>v. v <=> k >= 6 + l /\ m = t
  OBVIOUS
<1> HIDE DEF a1, a2, a3, a4, c1, c2, c3, c4, x, y, z, v
<1>r. /\ With12(r, c1) = AsReader(c1, x, a2, y, a3, z, a4, No)
      /\ WithLength(r, c2) = AsReader(a1, x, c2, y, a3, z, a4, No)
      /\ WithKey(r, c3) = AsReader(a1, x, a2, y, c3, z, a4, No)
      /\ \A e : WithPayload(r, c4, e) = AsReader(a1, x, a2, y, a3, z, c4, e)
  BY <1>5, PartTaken, PayloadTaken
<1>p. /\ r.bytes12 = a1 /\ r.length_read = a2 /\ r.key_read = a3 /\ r.payload_read = a4
      /\ r.length = x /\ r.key = y /\ r.payload = z
  BY <1>5, PartsOfReader
<1>7. ASSUME k < 2 PROVE Taken(r, w) = ReaderOf(f, k, m, v)
  <2>1. Taken(r, w) = With12(r, r.bytes12 \o w)
    BY <1>3, <1>7 DEF Taken, With12, WithLength, WithKey, WithPayload
  <2>2. ~(k >= 6 + l /\ m = t) /\ m < 3 /\ m < 3 + l /\ m < 7 + l
    BY <1>1, <1>7, <1>t2
  <2>3. Taken(r, w) = AsReader(c1, x, c2, y, c3, z, c4, No)
    BY <2>1, <2>2, <1>7, <1>t1, <1>t2, <1>r, <1>p
  <2>4. v = No
    BY <2>2, <1>v DEF No, v
  <2> QED
    BY <2>3, <2>4, <1>6
<1>8. ASSUME k >= 2 /\ k < 2 + l PROVE Taken(r, w) = ReaderOf(f, k, m, v)
  <2>1. Taken(r, w) = WithLength(r, r.length_read \o w)
    BY <1>1, <1>3, <1>8 DEF Taken, With12, WithLength, WithKey, WithPayload
  <2>2. ~(k >= 6 + l /\ m = t) /\ 2 <= k /\ m < 3 + l /\ m < 7 + l
    BY <1>1, <1>8, <1>t3
  <2>3. Taken(r, w) = AsReader(c1, x, c2, y, c3, z, c4, No)
    BY <2>1, <2>2, <1>8, <1>t1, <1>t3, <1>r, <1>p
  <2>4. v = No
    BY <2>2, <1>v DEF No, v
  <2> QED
    BY <2>3, <2>4, <1>6
<1>9. ASSUME k >= 2 + l /\ k < 6 + l PROVE Taken(r, w) = ReaderOf(f, k, m, v)
  <2>2. ~(k >= 6 + l /\ m = t) /\ 2 <= k /\ 2 + l <= k /\ m < 7 + l /\ ~(k < 2) /\ ~(k < 2 + l)
    BY <1>1, <1>9, <1>t4
  <2>1. Taken(r, w) = WithKey(r, r.key_read \o w)
    BY <2>2, <1>3, <1>9 DEF Taken, With12, WithLength, WithKey, WithPayload
  <2>3. Taken(r, w) = AsReader(c1, x, c2, y, c3, z, c4, No)
    BY <2>1, <2>2, <1>9, <1>t1, <1>t4, <1>r, <1>p
  <2>4. v = No
    BY <2>2, <1>v DEF No, v
  <2> QED
    BY <2>3, <2>4, <1>6
<1>10. ASSUME k >= 6 + l PROVE Taken(r, w) = ReaderOf(f, k, m, v)
  <2>2. /\ k >= 2 /\ ~(k < 2) /\ ~(k < 2 + l) /\ ~(k < 6 + l) /\ k >= 2 + l /\ m <= t
        /\ 2 <= k /\ 2 + l <= k /\ 6 + l <= k
    BY <1>1, <1>t5, <1>10
  <2> DEFINE e == ~Unfinished(r.payload, c4)
  <2>1. Taken(r, w) = WithPayload(r, c4, e)
    BY <2>2, <1>3, <1>p, <1>t5 DEF Taken, With12, WithLength, WithKey, WithPayload
  <2>3. r.payload = {n}
    BY <2>2, <1>r, <1>p DEF PayloadKnown, n, l, z
  <2>4. Len(c4) = IF m < 7 + l THEN 0 ELSE IF m < t THEN m - (6 + l) ELSE n
    BY <2>2, <1>1, PartLengthsAre DEF PartLengths, c4, b, l, t, n
  <2>5. Unfinished(r.payload, c4) <=> Len(c4) < n
    BY <2>3, OneWanted
  <2>6. Len(c4) < n <=> m < t
    <3> DEFINE got == Len(c4)
    <3> HIDE DEF got
    <3>1. got = IF m < 7 + l THEN 0 ELSE IF m < t THEN m - (6 + l) ELSE n
      BY <2>4 DEF got
    <3>2. got < n <=> m < t
      BY ONLY <3>1, <2>2, <1>1
    <3> QED
      BY <3>2 DEF got
  <2>7. e = v
    BY <2>2, <2>5, <2>6, <1>1 DEF v
  <2> HIDE DEF e
  <2>9. Taken(r, w) = AsReader(c1, x, c2, y, c3, z, c4, e)
    BY <2>1, <2>2, <1>t1, <1>r
  <2> QED
    BY <2>7, <2>9, <1>6
<1>11. Taken(r, w) = ReaderOf(f, k, m, v)
  BY <1>1, <1>7, <1>8, <1>9, <1>10
<1> QED
  BY <1>11 DEF r, l, t, m, v

(* The first two bytes say which parts follow, the next ones how long the  *)
(* payload is.                                                             *)
WithKnown(r, x, y, z) == [r EXCEPT !.key = y, !.payload = z, !.length = x]
WithPayloadKnown(r, z) == [r EXCEPT !.payload = z]

LEMMA PartsKnown ==
    ASSUME NEW a1, NEW a2, NEW a3, NEW a4, NEW x, NEW y, NEW z, NEW u, NEW r,
           r = AsReader(a1, x, a2, y, a3, z, a4, u), NEW xx, NEW yy, NEW zz
    PROVE  /\ WithKnown(r, xx, yy, zz) = AsReader(a1, xx, a2, yy, a3, zz, a4, u)
           /\ WithPayloadKnown(r, zz) = AsReader(a1, x, a2, y, a3, zz, a4, u)
<1> DEFINE q == [r EXCEPT !.key = yy]
           p == [q EXCEPT !.payload = zz]
<1>1. [r EXCEPT !.key = yy, !.payload = zz, !.length = xx] = [p EXCEPT !.length = xx]
  OBVIOUS
<1>2. q = AsReader(a1, x, a2, yy, a3, z, a4, u)
  BY DEF AsReader
<1> HIDE DEF q
<1>3. p = AsReader(a1, x, a2, yy, a3, zz, a4, u)
  BY <1>2 DEF AsReader
<1> HIDE DEF p
<1>4. [p EXCEPT !.length = xx] = AsReader(a1, xx, a2, yy, a3, zz, a4, u)
  BY <1>3 DEF AsReader
<1>5. [r EXCEPT !.payload = zz] = AsReader(a1, x, a2, y, a3, zz, a4, u)
  BY DEF AsReader
<1> QED
  BY <1>1, <1>4, <1>5 DEF WithKnown, WithPayloadKnown

LEMMA FirstBytes ==
    ASSUME NEW f \in SentFrames
    PROVE  LET p == Part(OnWire(f), 1, 2, 2) IN
           p[1] = [fin |-> f.fin, opcode |-> f.opcode] /\ p[2] = [mask |-> TRUE, sigil |-> Sigil(f)]
<1> DEFINE b == OnWire(f)
           p == Part(b, 1, 2, 2)
<1>1. b \in Seq(WsBytes) /\ Len(b) = FrameSize(f) /\ 6 <= FrameSize(f) /\ FrameSize(f) \in Nat
  <2>1. b \in Seq(WsBytes) /\ Len(b) = FrameSize(f)
    BY BytesAre DEF AreBytesOf
  <2> DEFINE l == LengthBytes(f)
             t == FrameSize(f)
  <2>2. l \in {0, 2, 8} /\ t \in Nat /\ 6 + l <= t
    BY FrameLengths
  <2> HIDE DEF l, t
  <2>3. 6 <= t
    BY <2>2
  <2> QED
    BY <2>1, <2>2, <2>3 DEF t
<1>2. b[1] = [fin |-> f.fin, opcode |-> f.opcode] /\ b[2] = [mask |-> TRUE, sigil |-> Sigil(f)]
  BY BytesAre DEF AreBytesOf
<1> HIDE DEF b
<1>3. IsPart(p, b, 1, 2, 2)
  <2>1. 1 \in Nat /\ 2 \in Nat /\ 1 <= 1 /\ 1 - 1 <= 2 /\ 2 <= Len(b)
    BY <1>1
  <2> QED
    BY <2>1, <1>1, PartIs
<1> HIDE DEF p
<1>4. Len(p) = 2
  <2>1. PartLength(1, 2, 2) = 2
    BY DEF PartLength
  <2> QED
    BY <2>1, <1>3 DEF IsPart
<1>5. p[1] = b[1] /\ p[2] = b[2]
  <2>1. 1 \in 1 .. Len(p) /\ 2 \in 1 .. Len(p) /\ 1 - 1 + 1 = 1 /\ 1 - 1 + 2 = 2
    BY <1>4
  <2> QED
    BY <2>1, <1>3 DEF IsPart
<1> QED
  BY <1>2, <1>5 DEF b, p

LEMMA LengthByte ==
    ASSUME NEW f \in SentFrames, LengthBytes(f) # 0
    PROVE  LET p == Part(OnWire(f), 3, 2 + LengthBytes(f), 2 + LengthBytes(f)) IN
           p[1] = [value |-> Len(f.payload)]
<1> DEFINE b == OnWire(f)
           h == 2 + LengthBytes(f)
           p == Part(b, 3, h, h)
<1>1. b \in Seq(WsBytes) /\ h \in Nat /\ 3 <= h /\ h <= Len(b)
  <2>1. b \in Seq(WsBytes) /\ Len(b) = FrameSize(f)
    BY BytesAre DEF AreBytesOf
  <2> DEFINE l == LengthBytes(f)
             t == FrameSize(f)
  <2>2. l \in {0, 2, 8} /\ l # 0 /\ t \in Nat /\ 6 + l <= t
    BY FrameLengths
  <2> HIDE DEF l, t
  <2>3. 2 + l \in Nat /\ 3 <= 2 + l /\ 2 + l <= t
    BY <2>2
  <2> QED
    BY <2>1, <2>3 DEF t, l
<1>2. b[3] = [value |-> Len(f.payload)]
  BY BytesAre DEF AreBytesOf
<1> HIDE DEF b, h
<1>3. IsPart(p, b, 3, h, h)
  <2>1. 3 \in Nat /\ 1 <= 3 /\ 3 - 1 <= h
    BY <1>1
  <2> QED
    BY <2>1, <1>1, PartIs
<1> HIDE DEF p
<1>4. 1 \in 1 .. Len(p)
  <2>1. PartLength(3, h, h) = h - 3 + 1
    BY <1>1 DEF PartLength
  <2> QED
    BY <2>1, <1>1, <1>3 DEF IsPart
<1>5. p[1] = b[3]
  <2>1. 3 - 1 + 1 = 3
    OBVIOUS
  <2> QED
    BY <2>1, <1>3, <1>4 DEF IsPart
<1> QED
  BY <1>2, <1>5 DEF b, p, h

LEMMA SigilSays ==
    ASSUME NEW f \in SentFrames
    PROVE  LET l == LengthBytes(f)
               n == Len(f.payload)
               s == Sigil(f) IN
           /\ (IF s <= SmallMax THEN {s} ELSE {}) = (IF l = 0 THEN {n} ELSE {})
           /\ (IF s = SmallMax + 1 THEN {2} ELSE IF s = SmallMax + 2 THEN {8} ELSE {})
                 = (IF l # 0 THEN {l} ELSE {})
           /\ l # 0 => n > (IF {l} = {2} THEN SmallMax ELSE Len16Max)
<1> DEFINE l == LengthBytes(f)
           n == Len(f.payload)
           s == Sigil(f)
<1>1. n \in Nat /\ l \in {0, 2, 8} /\ SmallMax \in Nat /\ Len16Max \in Nat /\ SmallMax < Len16Max
  BY FrameLengths
<1>2. s = IF l = 0 THEN n ELSE IF l = 2 THEN SmallMax + 1 ELSE SmallMax + 2
  BY DEF Sigil
<1>3. /\ l = 0 <=> n <= SmallMax
      /\ l = 2 <=> n > SmallMax /\ n <= Len16Max
  BY <1>1 DEF LengthBytes
<1> HIDE DEF l, n, s
<1>4. s <= SmallMax <=> l = 0
  BY <1>1, <1>2, <1>3
<1>5. s = SmallMax + 1 <=> l = 2
  BY <1>1, <1>2, <1>3
<1>6. s = SmallMax + 2 <=> l = 8
  BY <1>1, <1>2, <1>3
<1>7. (IF s <= SmallMax THEN {s} ELSE {}) = (IF l = 0 THEN {n} ELSE {})
  BY <1>2, <1>4
<1>8. (IF s = SmallMax + 1 THEN {2} ELSE IF s = SmallMax + 2 THEN {8} ELSE {})
          = (IF l # 0 THEN {l} ELSE {})
  <2>1. CASE l = 0
    BY <2>1, <1>5, <1>6
  <2>2. CASE l = 2
    BY <2>2, <1>5
  <2>3. CASE l = 8
    BY <2>3, <1>5, <1>6
  <2> QED
    BY <2>1, <2>2, <2>3, <1>1
<1>9. l # 0 => n > (IF {l} = {2} THEN SmallMax ELSE Len16Max)
  <2>1. {l} = {2} <=> l = 2
    OBVIOUS
  <2> QED
    BY <2>1, <1>1, <1>3
<1> QED
  BY <1>7, <1>8, <1>9 DEF l, n, s

(* What the reader makes of the end of a turn.                             *)
LEMMA ProcessedIs ==
    ASSUME NEW f \in SentFrames, NEW k \in Nat, NEW m \in Nat, k <= m, m <= Bound(f, k),
           m <= FrameSize(f), NEW v
    PROVE  Processed(ReaderAt(f, k), ReaderOf(f, k, m, v)) = ReaderOf(f, m, m, v)
<1> DEFINE old == ReaderAt(f, k)
           r == ReaderOf(f, k, m, v)
           b == OnWire(f)
           l == LengthBytes(f)
           t == FrameSize(f)
           n == Len(f.payload)
           p1 == Part(b, 1, 2, m)
           p2 == Part(b, 3, 2 + l, m)
           p3 == Part(b, 3 + l, 6 + l, m)
           p4 == Part(b, 7 + l, t, m)
           x == LengthKnown(f, k)
           y == KeyKnown(k)
           z == PayloadKnown(f, k)
           xx == LengthKnown(f, m)
           yy == KeyKnown(m)
           zz == PayloadKnown(f, m)
<1>1. n \in Nat /\ l \in {0, 2, 8} /\ t \in Nat /\ t = 6 + l + n /\ k <= t
  BY FrameLengths DEF FrameSize
<1>2. /\ Unfinished({2}, old.bytes12) <=> k < 2
      /\ k >= 2 => (Unfinished(old.length, old.length_read) <=> k < 2 + l)
  BY <1>1, AtParts DEF IsAtPart
<1>3. Bound(f, k) = IF k < 2 THEN 2 ELSE IF k < 2 + l THEN 2 + l ELSE IF k < 6 + l THEN 6 + l ELSE t
  BY DEF Bound
<1>4. r = AsReader(p1, x, p2, y, p3, z, p4, v) /\ ReaderOf(f, m, m, v) = AsReader(p1, xx, p2, yy, p3, zz, p4, v)
  BY DEF ReaderOf
<1>5. /\ Len(p1) = IF m < 2 THEN m ELSE 2
      /\ Len(p2) = IF m < 3 THEN 0 ELSE IF m < 2 + l THEN m - 2 ELSE l
  BY PartLengthsAre DEF PartLengths
<1>6. /\ x = IF k >= 2 /\ l # 0 THEN {l} ELSE {}
      /\ y = IF k >= 2 THEN {4} ELSE {}
      /\ z = IF k >= 2 + l THEN {n} ELSE {}
  BY DEF LengthKnown, KeyKnown, PayloadKnown
<1>7. /\ xx = IF m >= 2 /\ l # 0 THEN {l} ELSE {}
      /\ yy = IF m >= 2 THEN {4} ELSE {}
      /\ zz = IF m >= 2 + l THEN {n} ELSE {}
  BY DEF LengthKnown, KeyKnown, PayloadKnown
<1>8. m = 2 => p1[1].opcode \in Opcodes /\ p1[2].sigil = Sigil(f) /\ p1[2].mask
  <2> SUFFICES ASSUME m = 2
               PROVE  p1[1].opcode \in Opcodes /\ p1[2].sigil = Sigil(f) /\ p1[2].mask
    OBVIOUS
  <2>1. p1 = Part(OnWire(f), 1, 2, 2)
    OBVIOUS
  <2>2. f.opcode \in Opcodes
    BY DEF SentFrames, Opcodes
  <2> HIDE DEF p1
  <2> DEFINE q == Part(OnWire(f), 1, 2, 2)
  <2>3. q[1] = [fin |-> f.fin, opcode |-> f.opcode] /\ q[2] = [mask |-> TRUE, sigil |-> Sigil(f)]
    BY FirstBytes
  <2> HIDE DEF q
  <2>4. q[1].opcode = f.opcode /\ q[2].sigil = Sigil(f) /\ q[2].mask
    BY <2>3
  <2>5. p1 = q
    BY <2>1 DEF q
  <2> QED
    BY <2>2, <2>4, <2>5
<1>9. m = 2 + l /\ l # 0 => p2[1].value = n
  <2> SUFFICES ASSUME m = 2 + l, l # 0 PROVE p2[1].value = n
    OBVIOUS
  <2>1. p2 = Part(OnWire(f), 3, 2 + LengthBytes(f), 2 + LengthBytes(f))
    OBVIOUS
  <2> HIDE DEF p2
  <2> DEFINE q == Part(OnWire(f), 3, 2 + LengthBytes(f), 2 + LengthBytes(f))
  <2>2. q[1] = [value |-> n]
    BY LengthByte
  <2> HIDE DEF q
  <2>3. q[1].value = n
    BY <2>2
  <2>4. p2 = q
    BY <2>1 DEF q
  <2> QED
    BY <2>3, <2>4
<1>10. /\ (IF Sigil(f) <= SmallMax THEN {Sigil(f)} ELSE {}) = (IF l = 0 THEN {n} ELSE {})
       /\ (IF Sigil(f) = SmallMax + 1 THEN {2} ELSE IF Sigil(f) = SmallMax + 2 THEN {8} ELSE {})
             = (IF l # 0 THEN {l} ELSE {})
       /\ l # 0 => n > (IF {l} = {2} THEN SmallMax ELSE Len16Max)
  BY SigilSays
<1>11. old.length = x
  BY PartsOfReader DEF ReaderAt, ReaderOf
<1>m. m <= Bound(f, k) /\ k <= m /\ m <= t
  OBVIOUS
<1> HIDE DEF old, r, b, l, t, n, p1, p2, p3, p4, x, y, z, xx, yy, zz
<1>12. r.bytes12 = p1 /\ r.length = x /\ r.length_read = p2 /\ r.key = y /\ r.payload = z
  BY <1>4, PartsOfReader
<1>13. Unfinished({2}, r.bytes12) <=> m < 2
  <2>1. Unfinished({2}, p1) <=> Len(p1) < 2
    BY OneWanted
  <2>2. Len(p1) < 2 <=> m < 2
    BY <1>5
  <2> QED
    BY <2>1, <2>2, <1>12
<1>14. k >= 2 => (Unfinished(r.length, r.length_read) <=> m < 2 + l)
  <2>1. ASSUME k >= 2, l = 0 PROVE ~Unfinished(r.length, r.length_read) /\ ~(m < 2 + l)
    <3>1. ~(m < 2 + l)
      BY ONLY <1>1, <2>1, <1>m, k \in Nat, m \in Nat
    <3>2. r.length = {}
      BY <2>1, <1>6, <1>12
    <3> QED
      BY <3>1, <3>2, OneWanted
  <2>2. ASSUME k >= 2, l # 0 PROVE Unfinished(r.length, r.length_read) <=> m < 2 + l
    <3>1. r.length = {l} /\ r.length_read = p2
      BY <2>2, <1>6, <1>12
    <3>2. Unfinished({l}, p2) <=> Len(p2) < l
      BY OneWanted
    <3>3. Len(p2) < l <=> m < 2 + l
      <4> DEFINE got == Len(p2)
      <4> HIDE DEF got
      <4>1. got = IF m < 3 THEN 0 ELSE IF m < 2 + l THEN m - 2 ELSE l
        BY <1>5 DEF got
      <4>2. got < l <=> m < 2 + l
        BY ONLY <4>1, <2>2, <1>1, <1>m, k \in Nat, m \in Nat
      <4> QED
        BY <4>2 DEF got
    <3> QED
      BY <3>1, <3>2, <3>3
  <2> QED
    BY <2>1, <2>2
<1>15. ASSUME k < 2 PROVE Processed(old, r) = AsReader(p1, xx, p2, yy, p3, zz, p4, v)
  <2>1. m <= 2
    BY <1>15, <1>3, <1>m
  <2>2. CASE m < 2
    <3>1. ~Unfinished(old.length, old.length_read)
      <4>1. old.length = {}
        BY <1>6, <1>11, <1>15
      <4> QED
        BY <4>1, OneWanted
    <3>2. Processed(old, r) = r
      BY <3>1, <2>2, <1>13 DEF Processed
    <3>3. ~(k >= 2) /\ ~(m >= 2) /\ ~(k >= 2 + l) /\ ~(m >= 2 + l)
      BY <2>2, <1>1, <1>15
    <3>4. xx = x /\ yy = y /\ zz = z
      BY <3>3, <1>6, <1>7
    <3> QED
      BY <3>2, <3>4, <1>4
  <2>3. CASE m = 2
    <3>1. Processed(old, r) = process_bytes12(r)
      BY <2>3, <1>2, <1>13, <1>15 DEF Processed
    <3>2. xx = (IF l # 0 THEN {l} ELSE {}) /\ yy = {4} /\ zz = IF l = 0 THEN {n} ELSE {}
      BY <2>3, <1>1, <1>7
    <3>3. process_bytes12(r)
            = [r EXCEPT !.key = IF p1[2].mask THEN {4} ELSE {},
                        !.payload = IF p1[2].sigil <= SmallMax THEN {p1[2].sigil} ELSE {},
                        !.length = IF p1[2].sigil = SmallMax + 1 THEN {2}
                                   ELSE IF p1[2].sigil = SmallMax + 2 THEN {8} ELSE {}]
      BY <2>3, <1>8, <1>12 DEF process_bytes12
    <3>4. /\ (IF p1[2].mask THEN {4} ELSE {}) = yy
          /\ (IF p1[2].sigil <= SmallMax THEN {p1[2].sigil} ELSE {}) = zz
          /\ (IF p1[2].sigil = SmallMax + 1 THEN {2}
              ELSE IF p1[2].sigil = SmallMax + 2 THEN {8} ELSE {}) = xx
      BY <2>3, <3>2, <1>8, <1>10
    <3>5. process_bytes12(r) = WithKnown(r, xx, yy, zz)
      BY <3>3, <3>4 DEF WithKnown
    <3>6. WithKnown(r, xx, yy, zz) = AsReader(p1, xx, p2, yy, p3, zz, p4, v)
      BY <1>4, PartsKnown
    <3> QED
      BY <3>1, <3>5, <3>6
  <2> QED
    BY <2>1, <2>2, <2>3
<1>16. ASSUME k >= 2, k < 2 + l PROVE Processed(old, r) = AsReader(p1, xx, p2, yy, p3, zz, p4, v)
  <2>1. m <= 2 + l /\ l # 0 /\ ~(k < 2) /\ ~(k >= 2 + l) /\ m >= 2
    BY <1>1, <1>16, <1>3, <1>m
  <2>2. Unfinished(old.length, old.length_read) /\ ~Unfinished({2}, old.bytes12)
    BY <2>1, <1>2, <1>16
  <2>3. x = xx /\ y = yy /\ x = {l}
    BY <2>1, <1>6, <1>7, <1>16
  <2>4. CASE m < 2 + l
    <3>1. Processed(old, r) = r
      BY <2>2, <2>4, <1>14, <1>16 DEF Processed
    <3>2. zz = z
      <4>1. ~(m >= 2 + l)
        BY <2>4, <1>1
      <4> QED
        BY <4>1, <2>1, <1>6, <1>7
    <3> QED
      BY <3>1, <3>2, <2>3, <1>4
  <2>5. CASE m = 2 + l
    <3>1. Processed(old, r) = process_length(r)
      <4>1. ~Unfinished(r.length, r.length_read)
        BY <2>5, <1>1, <1>14, <1>16
      <4> QED
        BY <2>2, <4>1 DEF Processed
    <3>2. zz = {n}
      BY <2>5, <1>1, <1>7
    <3>3. r.length = {l} /\ r.length_read[1].value = n
      BY <2>1, <2>3, <2>5, <1>9, <1>12
    <3>4. n > (IF {l} = {2} THEN SmallMax ELSE Len16Max)
      BY <2>1, <1>10
    <3>5. process_length(r) = WithPayloadKnown(r, zz)
      BY <3>2, <3>3, <3>4 DEF process_length, WithPayloadKnown
    <3>6. WithPayloadKnown(r, zz) = AsReader(p1, x, p2, y, p3, zz, p4, v)
      BY <1>4, PartsKnown
    <3> QED
      BY <3>1, <3>5, <3>6, <2>3
  <2> QED
    BY <2>1, <2>4, <2>5, <1>1
<1>17. ASSUME k >= 2 + l PROVE Processed(old, r) = AsReader(p1, xx, p2, yy, p3, zz, p4, v)
  <2>1. ~(k < 2) /\ k >= 2 /\ ~(k < 2 + l) /\ m >= 2 /\ m >= 2 + l
    BY <1>1, <1>17, <1>m
  <2>2. Processed(old, r) = r
    BY <2>1, <1>2 DEF Processed
  <2>3. x = xx /\ y = yy /\ z = zz
    BY <2>1, <1>6, <1>7, <1>17
  <2> QED
    BY <2>2, <2>3, <1>4
<1>18. Processed(old, r) = AsReader(p1, xx, p2, yy, p3, zz, p4, v)
  BY <1>1, <1>15, <1>16, <1>17
<1> QED
  BY <1>4, <1>18 DEF old, r

(* A reader that has read k bytes of f and has not ended: all of them only *)
(* if no payload is to come, which it learns with the next input.          *)
CanWait(f, k) == k <= FrameSize(f) /\ (k = FrameSize(f) => Len(f.payload) = 0)

Waiting(f, k, rest) == [reader |-> ReaderAt(f, k), rest |-> rest]
Ended(f, rest) == [reader |-> ReaderWith(f), rest |-> rest]

(* In the loop, of which w is the input: at its end, or c bytes of the     *)
(* frame have been read, or the frame has ended.                           *)
InTurn(f, k, w, at, c) ==
    \/ \E j \in 0 .. Len(w) :
           at = Waiting(f, k + j, From(w, j + 1)) /\ CanWait(f, k + j) /\ (j = Len(w) \/ k + j >= c)
    \/ FrameSize(f) - k \in 0 .. Len(w) /\ at = Ended(f, From(w, FrameSize(f) - k + 1))

LEMMA CutAgain ==
    ASSUME NEW S, NEW w \in Seq(S), NEW j \in 0 .. Len(w), NEW n \in 0 .. Len(w) - j
    PROVE  From(From(w, j + 1), n + 1) = From(w, j + n + 1)
<1> DEFINE u == From(w, j + 1)
           v == From(u, n + 1)
           x == From(w, (j + n) + 1)
<1>1. Len(w) \in Nat /\ j \in Nat /\ n \in Nat /\ j + n \in 0 .. Len(w) /\ j + n + 1 = (j + n) + 1
  OBVIOUS
<1>2. u \in Seq(S) /\ Len(u) = Len(w) - j /\ \A i \in 1 .. Len(w) - j : u[i] = w[j + i]
  BY Cuts
<1> HIDE DEF u
<1>3. /\ v \in Seq(S) /\ Len(v) = Len(u) - n /\ \A i \in 1 .. Len(u) - n : v[i] = u[n + i]
  <2>1. n \in 0 .. Len(u)
    BY <1>2
  <2> QED
    BY <2>1, <1>2, Cuts
<1> HIDE DEF v
<1>4. /\ x \in Seq(S) /\ Len(x) = Len(w) - (j + n)
      /\ \A i \in 1 .. Len(w) - (j + n) : x[i] = w[(j + n) + i]
  BY <1>1, Cuts
<1> HIDE DEF x
<1>5. Len(v) = Len(x)
  BY <1>1, <1>2, <1>3, <1>4
<1>6. ASSUME NEW i \in 1 .. Len(v) PROVE v[i] = x[i]
  <2>1. /\ i \in 1 .. Len(u) - n /\ n + i \in 1 .. Len(w) - j /\ i \in 1 .. Len(w) - (j + n)
        /\ j + (n + i) = (j + n) + i
    BY <1>1, <1>2, <1>3
  <2> QED
    BY <2>1, <1>2, <1>3, <1>4
<1>7. v = x
  BY <1>3, <1>4, <1>5, <1>6, SeqEqual
<1> QED
  BY <1>1, <1>7 DEF u, v, x

LEMMA BoundIs ==
    ASSUME NEW f \in SentFrames, NEW k \in Nat, k <= FrameSize(f)
    PROVE  Bound(f, k) \in Nat /\ k <= Bound(f, k) /\ Bound(f, k) <= FrameSize(f)
           /\ (k >= 6 + LengthBytes(f) => Bound(f, k) = FrameSize(f))
           /\ (k < 6 + LengthBytes(f) => Bound(f, k) <= 6 + LengthBytes(f))
<1> DEFINE l == LengthBytes(f)
           t == FrameSize(f)
           c == Bound(f, k)
<1>1. l \in {0, 2, 8} /\ t \in Nat /\ 6 + l <= t /\ k \in Nat /\ k <= t
  BY FrameLengths
<1>2. c = IF k < 2 THEN 2 ELSE IF k < 2 + l THEN 2 + l ELSE IF k < 6 + l THEN 6 + l ELSE t
  BY DEF Bound
<1> HIDE DEF l, t, c
<1>3. c \in Nat /\ k <= c /\ c <= t
  BY ONLY <1>1, <1>2
<1>4. (k >= 6 + l => c = t) /\ (k < 6 + l => c <= 6 + l)
  BY ONLY <1>1, <1>2
<1> QED
  BY <1>3, <1>4 DEF l, t, c

(* One turn.                                                               *)
LEMMA TurnIs ==
    ASSUME NEW f \in SentFrames, NEW k \in Nat, CanWait(f, k), NEW w \in Seq(WsBytes),
           Onto(w, OnWire(f), k), w # <<>>
    PROVE  LET n == Smaller(Len(w), Bound(f, k) - k) IN
           /\ n \in 0 .. Len(w)
           /\ \/ /\ ReadTurn(Waiting(f, k, w)) = Waiting(f, k + n, From(w, n + 1))
                 /\ CanWait(f, k + n)
                 /\ k < 6 + LengthBytes(f) \/ k + n < FrameSize(f)
                 /\ n = Len(w) \/ k + n = Bound(f, k)
              \/ /\ ReadTurn(Waiting(f, k, w)) = Ended(f, From(w, n + 1))
                 /\ k + n = FrameSize(f)
<1> DEFINE b == OnWire(f)
           l == LengthBytes(f)
           t == FrameSize(f)
           c == Bound(f, k)
           n == Smaller(Len(w), c - k)
           m == k + n
           r == ReaderAt(f, k)
           at == Waiting(f, k, w)
           u == Upto(w, n)
           v == k >= 6 + l /\ m = t
<1>1. l \in {0, 2, 8} /\ t \in Nat /\ 6 + l <= t /\ k \in Nat /\ k <= t
  BY FrameLengths DEF CanWait
<1>2. c \in Nat /\ k <= c /\ c <= t /\ (k >= 6 + l => c = t) /\ (k < 6 + l => c <= 6 + l)
  BY <1>1, BoundIs
<1>3. Len(w) \in Nat
  OBVIOUS
<1> HIDE DEF l, t, c
<1>4. n \in 0 .. Len(w) /\ m \in Nat /\ k <= m /\ m <= c /\ m <= t /\ (n = Len(w) \/ m = c)
  BY <1>1, <1>2, <1>3 DEF Smaller
<1> HIDE DEF n
<1>5. b \in Seq(WsBytes)
  BY BytesAre DEF AreBytesOf
<1>6. u \in Seq(WsBytes) /\ Len(u) = n /\ Onto(u, b, k)
  BY <1>4, <1>5, OntoParts
<1> HIDE DEF u, b, r
<1>7. Taken(r, u) = ReaderOf(f, k, m, v)
  <2>1. k <= FrameSize(f) /\ k + Len(u) <= Bound(f, k)
    BY <1>1, <1>4, <1>6 DEF c, t
  <2>2. Onto(u, OnWire(f), k)
    BY <1>6 DEF b
  <2>3. Taken(ReaderAt(f, k), u)
          = ReaderOf(f, k, k + Len(u), k >= 6 + LengthBytes(f) /\ k + Len(u) = FrameSize(f))
    BY <2>1, <2>2, <1>6, TakenIs
  <2> QED
    BY <2>3, <1>6 DEF r, l, t
<1> DEFINE q == ReaderOf(f, k, m, v)
           p == ReaderOf(f, m, m, v)
<1>8. Processed(r, q) = p
  <2>1. m <= Bound(f, k) /\ m <= FrameSize(f)
    BY <1>4 DEF c, t
  <2> HIDE DEF v, m
  <2> QED
    BY <2>1, <1>4, ProcessedIs DEF r
<1>9. Wanted(r) = c - k
  BY <1>1, AtParts DEF IsAtPart, r, c, t
<1>10. at.reader = r /\ at.rest = w
  BY DEF Waiting, r
<1>11. ~at.reader.finished /\ ~at.reader.error
  BY <1>10 DEF r, ReaderAt, ReaderOf, AsReader, No
<1>12. ReadTurn(at) = ReadFrame(r, w, n)
  BY <1>9, <1>10, <1>11 DEF ReadTurn, n
<1> HIDE DEF at
<1>13. ReadTurn(at) = [reader |-> p, rest |-> From(w, n + 1)]
  BY <1>7, <1>8, <1>12 DEF ReadFrame, u
<1>14. CASE v
  <2>1. k + n = t
    BY <1>14
  <2>2. p = ReaderWith(f)
    <3>1. v = TRUE
      BY <1>14
    <3>2. m = FrameSize(f)
      BY <2>1 DEF t
    <3> HIDE DEF v, m
    <3> QED
      BY <3>1, <3>2 DEF ReaderWith
  <2>3. ReadTurn(at) = Ended(f, From(w, n + 1))
    BY <1>13, <2>2 DEF Ended
  <2> QED
    BY <1>4, <2>1, <2>3 DEF n, t, at, c
<1>15. CASE ~v
  <2>1. p = ReaderAt(f, m)
    <3>1. v = No
      BY <1>15 DEF No
    <3> HIDE DEF v, m
    <3> QED
      BY <3>1 DEF ReaderAt
  <2>2. ReadTurn(at) = Waiting(f, m, From(w, n + 1))
    BY <1>13, <2>1 DEF Waiting
  <2>3. k < 6 + l \/ m < t
    BY <1>1, <1>4, <1>15
  <2>4. CanWait(f, m)
    <3> SUFFICES ASSUME m = t PROVE Len(f.payload) = 0
      BY <1>4 DEF CanWait, t
    <3>1. t <= 6 + l
      BY <2>3, <1>1, <1>2, <1>4
    <3> DEFINE length == Len(f.payload)
    <3>2. length \in Nat /\ t = 6 + l + length
      BY FrameLengths DEF t, l, FrameSize
    <3> HIDE DEF length
    <3>3. length = 0
      BY ONLY <3>1, <3>2, <1>1
    <3> QED
      BY <3>3 DEF length
  <2> QED
    BY <1>4, <2>2, <2>3, <2>4 DEF n, t, at, c, l
<1> QED
  BY <1>14, <1>15

(* One turn of the loop.                                                   *)
LEMMA LoopTurnIs ==
    ASSUME NEW f \in SentFrames, NEW k \in Nat, NEW w \in Seq(WsBytes), Onto(w, OnWire(f), k),
           NEW at, NEW c \in Nat, NEW c2 \in Nat, InTurn(f, k, w, at, c),
           \A i \in Nat : CanWait(f, i) /\ i >= c => Bound(f, i) >= c2 \/ i >= 6 + LengthBytes(f)
    PROVE  InTurn(f, k, w, ReadTurn(at), c2)
<1> DEFINE b == OnWire(f)
           l == LengthBytes(f)
           t == FrameSize(f)
<1>1. t \in Nat /\ l \in {0, 2, 8}
  BY FrameLengths
<1>2. b \in Seq(WsBytes)
  BY BytesAre DEF AreBytesOf
<1>3. Onto(w, b, k)
  OBVIOUS
<1> HIDE DEF b
<1>4. CASE t - k \in 0 .. Len(w) /\ at = Ended(f, From(w, t - k + 1))
  <2>1. at.reader.finished
    BY <1>4 DEF Ended, ReaderWith, ReaderOf, AsReader
  <2>2. ReadTurn(at) = at
    BY <2>1 DEF ReadTurn
  <2> QED
    BY <1>4, <2>2 DEF InTurn
<1>5. ASSUME NEW j \in 0 .. Len(w), at = Waiting(f, k + j, From(w, j + 1)), CanWait(f, k + j),
             j = Len(w) \/ k + j >= c
      PROVE  InTurn(f, k, w, ReadTurn(at), c2)
  <2> DEFINE u == From(w, j + 1)
             i == k + j
  <2>1. j \in Nat /\ i \in Nat /\ Len(w) \in Nat /\ j <= Len(w)
    OBVIOUS
  <2>2. u \in Seq(WsBytes) /\ Len(u) = Len(w) - j /\ Onto(u, b, i)
    BY <1>2, <1>3, OntoParts
  <2>i. i = k + j /\ CanWait(f, i) /\ (j = Len(w) \/ i >= c)
    BY <1>5
  <2> HIDE DEF u, i
  <2>3. at = Waiting(f, i, u)
    BY <1>5 DEF u, i
  <2>4. CASE u = <<>>
    <3>1. ReadTurn(at) = at
      BY <2>3, <2>4 DEF ReadTurn, Waiting
    <3>2. j = Len(w)
      BY <2>1, <2>2, <2>4
    <3> QED
      BY <3>1, <3>2, <1>5 DEF InTurn
  <2>5. CASE u # <<>>
    <3> DEFINE n == Smaller(Len(u), Bound(f, i) - i)
    <3>1. /\ n \in 0 .. Len(u)
          /\ \/ /\ ReadTurn(Waiting(f, i, u)) = Waiting(f, i + n, From(u, n + 1))
                /\ CanWait(f, i + n)
                /\ i < 6 + LengthBytes(f) \/ i + n < FrameSize(f)
                /\ n = Len(u) \/ i + n = Bound(f, i)
             \/ /\ ReadTurn(Waiting(f, i, u)) = Ended(f, From(u, n + 1))
                /\ i + n = FrameSize(f)
      BY <2>1, <2>2, <2>5, <2>i, TurnIs DEF b
    <3> HIDE DEF n
    <3>2. n \in 0 .. Len(w) - j /\ j + n \in 0 .. Len(w) /\ i + n = k + (j + n)
      BY <3>1, <2>1, <2>2, <2>i
    <3>3. From(u, n + 1) = From(w, j + n + 1)
      BY <3>2, CutAgain DEF u
    <3>4. CASE /\ ReadTurn(at) = Ended(f, From(u, n + 1))
               /\ i + n = t
      <4>1. t - k = j + n
        BY <3>2, <3>4, <1>1
      <4> QED
        BY <4>1, <3>2, <3>3, <3>4 DEF InTurn
    <3>5. CASE /\ ReadTurn(at) = Waiting(f, i + n, From(u, n + 1))
               /\ CanWait(f, i + n)
               /\ i < 6 + l \/ i + n < t
               /\ n = Len(u) \/ i + n = Bound(f, i)
      <4>1. j + n = Len(w) \/ k + (j + n) >= c2
        <5>1. CASE n = Len(u)
          BY <5>1, <2>1, <2>2
        <5>2. CASE i + n = Bound(f, i) /\ n # Len(u)
          <6>1. i >= c
            <7>1. j # Len(w)
              BY <5>2, <2>1, <2>2, <3>1
            <7> QED
              BY <7>1, <2>i
          <6>2. Bound(f, i) >= c2 \/ i >= 6 + l
            BY <6>1, <2>1, <2>i
          <6>3. ~(i >= 6 + l)
            <7> SUFFICES ASSUME i >= 6 + l PROVE FALSE
              OBVIOUS
            <7>1. Bound(f, i) = t
              BY <2>1, <2>i, BoundIs DEF CanWait
            <7>2. i + n < t
              BY <3>5, <1>1, <2>1
            <7> QED
              BY <7>1, <7>2, <5>2, <1>1
          <6> QED
            BY <6>2, <6>3, <5>2, <3>2
        <5> QED
          BY <5>1, <5>2, <3>5
      <4> QED
        BY <4>1, <3>2, <3>3, <3>5 DEF InTurn
    <3> QED
      BY <3>1, <3>4, <3>5, <2>3
  <2> QED
    BY <2>4, <2>5
<1> QED
  BY <1>4, <1>5 DEF InTurn

(* Four turns read all of the input, or end the frame.                     *)
LEMMA ReadOnIs ==
    ASSUME NEW f \in SentFrames, NEW k \in Nat, CanWait(f, k), NEW w \in Seq(WsBytes),
           Onto(w, OnWire(f), k)
    PROVE  \/ ReadOn(Waiting(f, k, w)) = Waiting(f, k + Len(w), <<>>) /\ CanWait(f, k + Len(w))
           \/ /\ FrameSize(f) - k \in 0 .. Len(w)
              /\ ReadOn(Waiting(f, k, w)) = Ended(f, From(w, FrameSize(f) - k + 1))
<1> DEFINE l == LengthBytes(f)
           t == FrameSize(f)
           at == Waiting(f, k, w)
           at1 == ReadTurn(at)
           at2 == ReadTurn(at1)
           at3 == ReadTurn(at2)
           at4 == ReadTurn(at3)
<1>1. t \in Nat /\ l \in {0, 2, 8} /\ 6 + l <= t
  BY FrameLengths
<1>2. \A i \in Nat : CanWait(f, i) =>
          i <= t /\ Bound(f, i) = IF i < 2 THEN 2 ELSE IF i < 2 + l THEN 2 + l
                                 ELSE IF i < 6 + l THEN 6 + l ELSE t
  BY DEF CanWait, Bound
<1>3. Len(w) \in Nat
  OBVIOUS
<1>4. From(w, Len(w) + 1) = <<>> /\ From(w, 1) = w
  <2>1. Len(w) + 1 \in Nat /\ Len(w) < Len(w) + 1
    BY <1>3
  <2>2. SubSeq(w, Len(w) + 1, Len(w)) = <<>>
    BY <2>1, <1>3, SubSeqEmpty
  <2>3. SubSeq(w, 1, Len(w)) = w
    BY SubSeqFull
  <2> QED
    BY <2>2, <2>3 DEF From
<1> HIDE DEF l, t
<1>5. InTurn(f, k, w, at, 0)
  <2>1. at = Waiting(f, k + 0, From(w, 0 + 1)) /\ 0 \in 0 .. Len(w) /\ k + 0 >= 0 /\ CanWait(f, k + 0)
    BY <1>3, <1>4
  <2> QED
    BY <2>1 DEF InTurn
<1> HIDE DEF at
<1>6. InTurn(f, k, w, at1, 2)
  <2>1. \A i \in Nat : CanWait(f, i) /\ i >= 0 => Bound(f, i) >= 2 \/ i >= 6 + l
    BY <1>1, <1>2
  <2> QED
    BY <2>1, <1>5, LoopTurnIs DEF l
<1> HIDE DEF at1
<1>7. InTurn(f, k, w, at2, 2 + l)
  <2>1. \A i \in Nat : CanWait(f, i) /\ i >= 2 => Bound(f, i) >= 2 + l \/ i >= 6 + l
    BY <1>1, <1>2
  <2>2. 2 \in Nat /\ 2 + l \in Nat
    BY <1>1
  <2> QED
    BY <2>1, <2>2, <1>6, LoopTurnIs DEF l
<1> HIDE DEF at2
<1>8. InTurn(f, k, w, at3, 6 + l)
  <2>1. \A i \in Nat : CanWait(f, i) /\ i >= 2 + l => Bound(f, i) >= 6 + l \/ i >= 6 + l
    BY <1>1, <1>2
  <2>2. 6 + l \in Nat /\ 2 + l \in Nat
    BY <1>1
  <2> QED
    BY <2>1, <2>2, <1>7, LoopTurnIs DEF l
<1> HIDE DEF at3
<1>9. InTurn(f, k, w, at4, t + 1)
  <2>1. \A i \in Nat : CanWait(f, i) /\ i >= 6 + l => Bound(f, i) >= t + 1 \/ i >= 6 + l
    OBVIOUS
  <2>2. 6 + l \in Nat /\ t + 1 \in Nat
    BY <1>1
  <2> QED
    BY <2>1, <2>2, <1>8, LoopTurnIs DEF l
<1> HIDE DEF at4
<1>10. ReadOn(at) = at4
  BY DEF ReadOn, at4, at3, at2, at1
<1>11. CASE t - k \in 0 .. Len(w) /\ at4 = Ended(f, From(w, t - k + 1))
  BY <1>10, <1>11 DEF at, t
<1>12. ASSUME NEW j \in 0 .. Len(w), at4 = Waiting(f, k + j, From(w, j + 1)), CanWait(f, k + j),
              j = Len(w) \/ k + j >= t + 1
       PROVE  at4 = Waiting(f, k + Len(w), <<>>) /\ CanWait(f, k + Len(w))
  <2>1. k + j \in Nat /\ k + j <= t
    BY <1>2, <1>12
  <2>2. j = Len(w)
    BY <2>1, <1>1, <1>12
  <2> QED
    BY <2>2, <1>4, <1>12
<1> QED
  BY <1>9, <1>10, <1>11, <1>12 DEF InTurn, at, t

LEMMA FrameBegins ==
    ASSUME NEW f \in SentFrames
    PROVE  FrameReader = ReaderAt(f, 0) /\ CanWait(f, 0)
<1> DEFINE b == OnWire(f)
           l == LengthBytes(f)
           t == FrameSize(f)
<1>1. t \in Nat /\ l \in {0, 2, 8} /\ 6 + l <= t
  BY FrameLengths
<1> HIDE DEF b, l, t
<1>2. \A lo \in Nat, hi \in Nat : (0 < lo /\ 0 < hi) \/ hi < lo => Part(b, lo, hi, 0) = <<>>
  <2> SUFFICES ASSUME NEW lo \in Nat, NEW hi \in Nat, (0 < lo /\ 0 < hi) \/ hi < lo
               PROVE  Part(b, lo, hi, 0) = <<>>
    OBVIOUS
  <2> DEFINE x == IF 0 < hi THEN 0 ELSE hi
  <2>1. x \in Nat /\ x < lo
    OBVIOUS
  <2> HIDE DEF x
  <2>2. SubSeq(b, lo, x) = <<>>
    BY <2>1, SubSeqEmpty
  <2> QED
    BY <2>2 DEF Part, x
<1>3. /\ Part(b, 1, 2, 0) = <<>> /\ Part(b, 3, 2 + l, 0) = <<>>
      /\ Part(b, 3 + l, 6 + l, 0) = <<>> /\ Part(b, 7 + l, t, 0) = <<>>
  <2>1. /\ 1 \in Nat /\ 2 \in Nat /\ 3 \in Nat /\ 2 + l \in Nat /\ 3 + l \in Nat /\ 6 + l \in Nat
        /\ 7 + l \in Nat /\ 0 < 2 + l /\ 0 < 3 + l /\ 0 < 6 + l /\ 0 < 7 + l /\ 0 < t
        /\ 0 < 1 /\ 0 < 2 /\ 0 < 3
    BY <1>1
  <2> QED
    BY <2>1, <1>1, <1>2
<1>4. LengthKnown(f, 0) = {} /\ KeyKnown(0) = {} /\ PayloadKnown(f, 0) = {}
  <2>1. ~(0 >= 2) /\ ~(0 >= 2 + l)
    BY <1>1
  <2> QED
    BY <2>1 DEF LengthKnown, KeyKnown, PayloadKnown, l
<1>5. ReaderAt(f, 0) = AsReader(<<>>, {}, <<>>, {}, <<>>, {}, <<>>, No)
  BY <1>3, <1>4 DEF ReaderAt, ReaderOf, b, l, t
<1>6. FrameReader = AsReader(<<>>, {}, <<>>, {}, <<>>, {}, <<>>, No)
  BY Zenon DEF FrameReader, AsReader, No
<1>7. CanWait(f, 0)
  BY <1>1 DEF CanWait, t
<1> QED
  BY <1>5, <1>6, <1>7

(* The frame that has been read is the one that was sent.                  *)
LEMMA CompletedIs ==
    ASSUME NEW f \in SentFrames
    PROVE  Completed(ReaderWith(f)) = f
<1> DEFINE b == OnWire(f)
           l == LengthBytes(f)
           t == FrameSize(f)
           n == Len(f.payload)
           r == ReaderWith(f)
           p1 == Part(b, 1, 2, t)
           p4 == Part(b, 7 + l, t, t)
<1>1. t \in Nat /\ l \in {0, 2, 8} /\ 6 + l <= t /\ n \in Nat /\ t = 6 + l + n
  BY FrameLengths DEF FrameSize
<1>2. b \in Seq(WsBytes) /\ Len(b) = t /\ \A i \in 1 .. n : b[6 + l + i] = [under |-> TRUE, data |-> f.payload[i]]
  BY BytesAre DEF AreBytesOf
<1>3. r.bytes12 = p1 /\ r.payload_read = p4 /\ r.key = {4}
  <2>1. KeyKnown(t) = {4}
    <3> HIDE DEF t
    <3>1. t >= 2
      BY <1>1
    <3> QED
      BY <3>1 DEF KeyKnown
  <2> DEFINE yes == TRUE
  <2>2. r = AsReader(p1, LengthKnown(f, t), Part(b, 3, 2 + l, t), KeyKnown(t),
                     Part(b, 3 + l, 6 + l, t), PayloadKnown(f, t), p4, yes)
    BY DEF ReaderWith, ReaderOf
  <2> HIDE DEF r, p1, p4, t, b, l, yes
  <2>3. r.bytes12 = p1 /\ r.payload_read = p4 /\ r.key = KeyKnown(t)
    BY <2>2, PartsOfReader
  <2> QED
    BY <2>1, <2>3 DEF t
<1> HIDE DEF b, l, n, r
<1>4. p1[1] = [fin |-> f.fin, opcode |-> f.opcode]
  <2>1. Part(b, 1, 2, t) = Part(b, 1, 2, 2)
    <3> HIDE DEF t
    <3>1. 1 \in Nat /\ 2 \in Nat /\ 2 <= 2 /\ 2 <= t
      BY <1>1
    <3> QED
      BY <3>1, <1>1, PartStays
  <2>2. Part(b, 1, 2, 2)[1] = [fin |-> f.fin, opcode |-> f.opcode]
    BY FirstBytes DEF b
  <2> QED
    BY <2>1, <2>2
<1> HIDE DEF t, p1
<1>5. IsPart(p4, b, 7 + l, t, t)
  <2>1. 7 + l \in Nat /\ 1 <= 7 + l /\ (7 + l) - 1 <= t /\ t <= Len(b)
    BY <1>1, <1>2
  <2> QED
    BY <2>1, <1>1, <1>2, PartIs
<1> HIDE DEF p4
<1>6. p4 \in Seq(WsBytes) /\ Len(p4) = n
  <2>1. PartLength(7 + l, t, t) = n
    BY <1>1 DEF PartLength
  <2> QED
    BY <2>1, <1>5 DEF IsPart
<1>7. \A i \in 1 .. n : p4[i] = [under |-> TRUE, data |-> f.payload[i]]
  <2>1. ASSUME NEW i \in 1 .. n PROVE p4[i] = [under |-> TRUE, data |-> f.payload[i]]
    <3>1. (7 + l) - 1 + i = 6 + l + i
      BY <1>1
    <3>2. p4[i] = b[(7 + l) - 1 + i]
      BY <1>5, <1>6 DEF IsPart
    <3> QED
      BY <3>1, <3>2, <1>2
  <2> QED
    BY <2>1
<1> DEFINE data == [i \in DOMAIN r.payload_read |->
                        IF r.payload_read[i].under = (r.key # {}) THEN r.payload_read[i].data
                        ELSE "masked"]
<1>8. data = f.payload
  <2>1. DOMAIN r.payload_read = 1 .. n
    BY <1>3, <1>6
  <2>2. (r.key # {}) = TRUE
    BY <1>3
  <2>3. ASSUME NEW i \in 1 .. n
        PROVE  (IF r.payload_read[i].under = (r.key # {}) THEN r.payload_read[i].data ELSE "masked")
                 = f.payload[i]
    <3>1. p4[i] = [under |-> TRUE, data |-> f.payload[i]]
      BY <1>7
    <3>2. p4[i].data = f.payload[i] /\ p4[i].under = TRUE
      BY <3>1
    <3>3. r.payload_read[i].under = (r.key # {})
      BY <3>2, <2>2, <1>3
    <3> QED
      BY <3>2, <3>3, <1>3
  <2>4. data = [i \in 1 .. n |-> f.payload[i]]
    BY <2>1, <2>3
  <2>5. f.payload \in Seq(Nat \X Nat)
    BY DEF SentFrames, Payloads
  <2>6. f.payload = [i \in 1 .. n |-> f.payload[i]]
    BY <2>5 DEF n
  <2> QED
    BY <2>4, <2>6
<1> HIDE DEF data
<1>9. r.bytes12[1].opcode = f.opcode /\ r.bytes12[1].fin = f.fin
  BY <1>3, <1>4
<1>10. Completed(r) = Frame(f.opcode, f.fin, f.payload)
  BY <1>8, <1>9 DEF Completed, data
<1>11. Frame(f.opcode, f.fin, f.payload) = f
  <2>1. PICK o, fin, payload : f = [opcode |-> o, fin |-> fin, masked |-> FALSE, payload |-> payload]
    <3>1. f.masked = FALSE
      BY DEF SentFrames
    <3>2. f = [opcode |-> f.opcode, fin |-> f.fin, masked |-> f.masked, payload |-> f.payload]
      BY DEF SentFrames
    <3> QED
      BY <3>1, <3>2, Zenon
  <2>2. f.opcode = o /\ f.fin = fin /\ f.payload = payload
    BY <2>1
  <2> QED
    BY <2>1, <2>2, Zenon DEF Frame
<1> QED
  BY <1>10, <1>11 DEF r

(* What the viewer's frames say so far.                                    *)
Accounts ==
    {a \in [done : Seq(Payloads), open : Payloads, going : BOOLEAN] : ~a.going => a.open = <<>>}

(* A frame the viewer may send then.                                       *)
Lawful(a, f) ==
    /\ f.opcode = "Text" => ~a.going
    /\ f.opcode = "Continuation" => a.going
    /\ f.opcode \notin {"Text", "Continuation"} => f.fin

CountedAs(a, f, next) ==
    /\ next \in Accounts
    /\ f.opcode \notin {"Text", "Continuation"} => next = a
    /\ f.opcode \in {"Text", "Continuation"} /\ f.fin =>
          next.done = Append(a.done, a.open \o f.payload) /\ next.open = <<>> /\ ~next.going
    /\ f.opcode \in {"Text", "Continuation"} /\ ~f.fin =>
          next.done = a.done /\ next.open = a.open \o f.payload /\ next.going

LEMMA CountedIs ==
    ASSUME NEW a \in Accounts, NEW f \in SentFrames
    PROVE  CountedAs(a, f, Counted(a, f))
<1> DEFINE whole == a.open \o f.payload
           next == Counted(a, f)
<1>1. a.done \in Seq(Payloads) /\ a.open \in Payloads /\ f.payload \in Payloads /\ f.fin \in BOOLEAN
      /\ a = [done |-> a.done, open |-> a.open, going |-> a.going]
  BY DEF Accounts, SentFrames
<1>2. whole \in Payloads /\ <<>> \in Payloads
  BY <1>1 DEF Payloads
<1>3. next = IF f.opcode \notin {"Text", "Continuation"} THEN a
             ELSE IF f.fin THEN [Nothing EXCEPT !.done = Append(a.done, whole)]
             ELSE [a EXCEPT !.open = whole, !.going = TRUE]
  BY DEF Counted
<1> HIDE DEF whole, next
<1>4. CASE f.opcode \notin {"Text", "Continuation"}
  BY <1>3, <1>4 DEF CountedAs, next
<1>5. CASE f.opcode \in {"Text", "Continuation"} /\ f.fin
  <2> DEFINE done == Append(a.done, whole)
  <2>1. done \in Seq(Payloads)
    BY <1>1, <1>2
  <2>2. next = [Nothing EXCEPT !.done = done]
    BY <1>3, <1>5
  <2> HIDE DEF done
  <2>3. next.done = done /\ next.open = <<>> /\ next.going = FALSE
        /\ next \in [done : Seq(Payloads), open : Payloads, going : BOOLEAN]
    BY <2>1, <2>2, <1>2 DEF Nothing
  <2> QED
    BY <2>3, <1>5 DEF CountedAs, Accounts, done, whole, next
<1>6. CASE f.opcode \in {"Text", "Continuation"} /\ ~f.fin
  <2>1. next = [a EXCEPT !.open = whole, !.going = TRUE]
    BY <1>3, <1>6
  <2>2. a \in [done : Seq(Payloads), open : Payloads, going : BOOLEAN]
    BY DEF Accounts
  <2>3. next.done = a.done /\ next.open = whole /\ next.going = TRUE
        /\ next \in [done : Seq(Payloads), open : Payloads, going : BOOLEAN]
    BY <2>1, <2>2, <1>2
  <2> QED
    BY <2>3, <1>6 DEF CountedAs, Accounts, whole, next
<1> QED
  BY <1>1, <1>4, <1>5, <1>6

NothingYet == Nothing \in Accounts /\ Nothing.done = <<>> /\ ~Nothing.going

LEMMA NothingIsSaid == NothingYet
<1>1. <<>> \in Payloads /\ <<>> \in Seq(Payloads)
  BY DEF Payloads
<1> QED
  BY <1>1 DEF NothingYet, Nothing, Accounts

(* One account for each number of frames.                                  *)
Counts(c, frames) ==
    /\ c \in [0 .. Len(frames) -> Accounts] /\ c[0] = Nothing
    /\ \A i \in 1 .. Len(frames) : c[i] = Counted(c[i - 1], frames[i])

LEMMA CountsAre ==
    ASSUME NEW frames \in Seq(SentFrames), NEW c, Counts(c, frames)
    PROVE  Recount(frames) = c[Len(frames)]
<1> DEFINE n == Len(frames)
           IsCount(g) == g = [i \in 0 .. n |-> IF i = 0 THEN Nothing ELSE Counted(g[i - 1], frames[i])]
           after == CHOOSE g : IsCount(g)
<1>1. n \in Nat
  OBVIOUS
<1>2. IsCount(c)
  <2>1. \A i \in 0 .. n : i = 0 \/ i \in 1 .. n
    BY <1>1
  <2>2. \A i \in 0 .. n : c[i] = IF i = 0 THEN Nothing ELSE Counted(c[i - 1], frames[i])
    BY <2>1 DEF Counts
  <2> QED
    BY <2>2 DEF Counts
<1>3. IsCount(after)
  BY <1>2
<1> HIDE DEF after
<1>4. Recount(frames) = after[n]
  BY DEF Recount, after
<1> DEFINE T == {m \in Nat : m <= n => after[m] = c[m]}
<1>5. 0 \in T
  BY <1>1, <1>3 DEF Counts
<1>6. ASSUME NEW m \in T PROVE m + 1 \in T
  <2>1. CASE m + 1 > n
    BY <2>1, <1>1
  <2>2. CASE m + 1 <= n
    <3>1. m + 1 \in 1 .. n /\ m + 1 \in 0 .. n /\ m + 1 # 0 /\ (m + 1) - 1 = m /\ after[m] = c[m]
      BY <2>2, <1>1
    <3>2. after[m + 1] = Counted(after[m], frames[m + 1])
      BY <3>1, <1>3
    <3>3. c[m + 1] = Counted(c[m], frames[m + 1])
      BY <3>1 DEF Counts
    <3> QED
      BY <3>1, <3>2, <3>3
  <2> QED
    BY <2>1, <2>2, <1>1
<1>7. T \subseteq Nat
  OBVIOUS
<1> HIDE DEF T
<1>8. T = Nat
  BY <1>5, <1>6, <1>7, NatSetInduction
<1> QED
  BY <1>1, <1>4, <1>8 DEF T

(* Without the last frame.                                                 *)
LEMMA CountsOfFront ==
    ASSUME NEW frames \in Seq(SentFrames), NEW c, Counts(c, frames), frames # <<>>
    PROVE  Recount(Front(frames)) = c[Len(frames) - 1]
<1> DEFINE n == Len(frames) - 1
           front == Front(frames)
           b == [i \in 0 .. n |-> c[i]]
<1>1. n \in Nat /\ Len(frames) = n + 1
  OBVIOUS
<1>2. front \in Seq(SentFrames) /\ Len(front) = n /\ \A i \in 1 .. n : front[i] = frames[i]
  <2>1. front = Upto(frames, n)
    BY DEF Front, Upto
  <2>2. n \in 0 .. Len(frames)
    BY <1>1
  <2> HIDE DEF front, n
  <2> QED
    BY <2>1, <2>2, Cuts
<1> HIDE DEF front, n
<1>3. Counts(b, front)
  <2>1. \A i \in 0 .. n : i \in 0 .. Len(frames)
    BY <1>1
  <2>2. b \in [0 .. n -> Accounts] /\ b[0] = Nothing
    BY <1>1, <2>1 DEF Counts
  <2>3. ASSUME NEW i \in 1 .. n PROVE b[i] = Counted(b[i - 1], front[i])
    <3>1. i \in 0 .. n /\ i - 1 \in 0 .. n /\ i \in 1 .. Len(frames)
      BY <1>1
    <3> QED
      BY <3>1, <1>2 DEF Counts
  <2> QED
    BY <2>2, <2>3, <1>2 DEF Counts
<1>4. Recount(front) = b[n]
  BY <1>2, <1>3, CountsAre
<1> QED
  BY <1>1, <1>4 DEF front, n

Prefixed(x, y) == Len(x) \in Nat /\ Len(y) \in Nat /\ Len(x) <= Len(y) /\ \A i \in 1 .. Len(x) : x[i] = y[i]

(* The frames the viewer has sent, the accounts of them and their bytes,   *)
(* of which e[i] are those of the first i frames.                          *)
Sent(frames, c, e, s) ==
    LET n == Len(frames) IN
    /\ frames \in Seq(SentFrames) /\ Counts(c, frames)
    /\ \A i \in 1 .. n : Lawful(c[i - 1], frames[i])
    /\ \A i \in 0 .. n : Prefixed(c[i].done, c[n].done)
    /\ s \in Seq(WsBytes) /\ e \in [0 .. n -> Nat] /\ e[0] = 0 /\ e[n] = Len(s)
    /\ \A i \in 0 .. n : e[i] <= Len(s) /\ (i < n => e[i] < Len(s))
    /\ \A i \in 1 .. n : /\ e[i] = e[i - 1] + FrameSize(frames[i])
                         /\ \A j \in 1 .. FrameSize(frames[i]) : s[e[i - 1] + j] = OnWire(frames[i])[j]

LEMMA NoneSent ==
    Sent(<<>>, [i \in 0 .. 0 |-> Nothing], [i \in 0 .. 0 |-> 0], <<>>)
<1> DEFINE c == [i \in 0 .. 0 |-> Nothing]
           e == [i \in 0 .. 0 |-> 0]
<1>1. Nothing \in Accounts /\ Nothing.done = <<>>
  BY NothingIsSaid DEF NothingYet
<1>2. c \in [0 .. 0 -> Accounts] /\ c[0] = Nothing /\ e \in [0 .. 0 -> Nat] /\ e[0] = 0
  BY <1>1
<1> HIDE DEF c, e
<1>3. \A i \in 0 .. 0 : i = 0
  OBVIOUS
<1>4. \A i \in 1 .. 0 : FALSE
  OBVIOUS
<1> DEFINE none == <<>>
<1>5. none \in Seq(SentFrames) /\ Len(none) = 0 /\ none \in Seq(WsBytes)
  OBVIOUS
<1>6. Prefixed(Nothing.done, Nothing.done)
  BY <1>1 DEF Prefixed
<1> HIDE DEF none
<1>7. Counts(c, none)
  BY <1>2, <1>4, <1>5 DEF Counts
<1>8. \A i \in 0 .. 0 : e[i] <= Len(none) /\ (i < 0 => e[i] < Len(none))
  BY <1>2, <1>3, <1>5
<1>9. \A i \in 0 .. 0 : Prefixed(c[i].done, c[0].done)
  BY <1>2, <1>3, <1>6
<1>10. Sent(none, c, e, none)
  BY <1>2, <1>4, <1>5, <1>7, <1>8, <1>9 DEF Sent
<1> QED
  BY <1>10 DEF none, c, e

LEMMA PrefixGrows ==
    ASSUME NEW x, NEW a \in Accounts, NEW f \in SentFrames, Prefixed(x, a.done)
    PROVE  Prefixed(x, Counted(a, f).done) /\ Prefixed(Counted(a, f).done, Counted(a, f).done)
<1> DEFINE next == Counted(a, f)
           y == a.done
           whole == a.open \o f.payload
<1>1. CountedAs(a, f, next)
  BY CountedIs
<1>2. y \in Seq(Payloads) /\ whole \in Payloads
  BY DEF Accounts, SentFrames, Payloads
<1> HIDE DEF next, whole
<1>3. next.done = y \/ next.done = Append(y, whole)
  BY <1>1 DEF CountedAs, SentFrames, whole
<1> HIDE DEF y
<1>4. Prefixed(x, y)
  BY DEF y
<1>5. Prefixed(x, Append(y, whole)) /\ Prefixed(Append(y, whole), Append(y, whole)) /\ Prefixed(y, y)
  <2>1. /\ Len(Append(y, whole)) = Len(y) + 1 /\ Len(y) \in Nat
        /\ \A i \in 1 .. Len(y) : Append(y, whole)[i] = y[i]
    BY <1>2
  <2>2. \A i \in 1 .. Len(x) : i \in 1 .. Len(y)
    BY <1>4, <2>1 DEF Prefixed
  <2> QED
    BY <2>1, <2>2, <1>4 DEF Prefixed
<1> QED
  BY <1>3, <1>4, <1>5 DEF next

Longer(f1, f2, n) == \A i \in 0 .. n : f2[i] = f1[i]

LEMMA SentGrows ==
    ASSUME NEW frames, NEW c, NEW e, NEW s, Sent(frames, c, e, s),
           NEW f \in SentFrames, Lawful(c[Len(frames)], f)
    PROVE  \E c2, e2 : /\ Sent(Append(frames, f), c2, e2, s \o OnWire(f))
                       /\ Longer(c, c2, Len(frames)) /\ Longer(e, e2, Len(frames))
<1> DEFINE n == Len(frames)
           b == OnWire(f)
           t == FrameSize(f)
           next == Counted(c[n], f)
           all == Append(frames, f)
           w == Cat(s, b)
           c2 == [i \in 0 .. n + 1 |-> IF i = n + 1 THEN next ELSE c[i]]
           e2 == [i \in 0 .. n + 1 |-> IF i = n + 1 THEN Len(s) + t ELSE e[i]]
<1>1. /\ frames \in Seq(SentFrames) /\ n \in Nat
      /\ c \in [0 .. n -> Accounts] /\ c[0] = Nothing
      /\ \A i \in 1 .. n : c[i] = Counted(c[i - 1], frames[i]) /\ Lawful(c[i - 1], frames[i])
      /\ \A i \in 0 .. n : Prefixed(c[i].done, c[n].done)
  <2>1. /\ frames \in Seq(SentFrames) /\ Counts(c, frames)
        /\ \A i \in 1 .. n : Lawful(c[i - 1], frames[i])
        /\ \A i \in 0 .. n : Prefixed(c[i].done, c[n].done)
    BY DEF Sent
  <2>2. n \in Nat
    BY <2>1
  <2>3. /\ c \in [0 .. n -> Accounts] /\ c[0] = Nothing
        /\ \A i \in 1 .. n : c[i] = Counted(c[i - 1], frames[i])
    BY <2>1 DEF Counts
  <2> QED
    BY <2>1, <2>2, <2>3
<1>2. /\ s \in Seq(WsBytes) /\ Len(s) \in Nat /\ e \in [0 .. n -> Nat] /\ e[0] = 0 /\ e[n] = Len(s)
      /\ \A i \in 0 .. n : e[i] <= Len(s)
      /\ \A i \in 1 .. n : /\ e[i] = e[i - 1] + FrameSize(frames[i])
                           /\ \A j \in 1 .. FrameSize(frames[i]) : s[e[i - 1] + j] = OnWire(frames[i])[j]
  BY DEF Sent
<1>3. b \in Seq(WsBytes) /\ Len(b) = t /\ t \in Nat /\ t > 0
  <2> DEFINE l == LengthBytes(f)
  <2>1. l \in {0, 2, 8} /\ t \in Nat /\ 6 + l <= t
    BY FrameLengths
  <2> HIDE DEF l, t
  <2>2. t > 0
    BY <2>1
  <2> QED
    BY <2>1, <2>2, BytesAre DEF AreBytesOf, t
<1>4. Lawful(c[n], f)
  OBVIOUS
<1>5. /\ all \in Seq(SentFrames) /\ Len(all) = n + 1 /\ all[n + 1] = f
      /\ \A i \in 1 .. n : all[i] = frames[i]
  BY <1>1
<1> HIDE DEF n, b, t, all
<1>6. w \in Seq(WsBytes) /\ IsCat(w, s, b)
  BY <1>2, <1>3, CatPlaces
<1> HIDE DEF w
<1>7. next \in Accounts /\ \A i \in 0 .. n : Prefixed(c[i].done, next.done)
  <2>1. c[n] \in Accounts
    BY <1>1
  <2>2. next \in Accounts
    BY <2>1, CountedIs DEF CountedAs
  <2>3. \A i \in 0 .. n : Prefixed(c[i].done, next.done)
    BY <2>1, <1>1, PrefixGrows
  <2> QED
    BY <2>2, <2>3
<1>8. Prefixed(next.done, next.done)
  <2>1. c[n] \in Accounts /\ Prefixed(c[n].done, c[n].done)
    BY <1>1
  <2> QED
    BY <2>1, PrefixGrows
<1>20. next = Counted(c[n], f)
  OBVIOUS
<1> HIDE DEF next
<1>9. /\ \A i \in 0 .. n : i \in 0 .. n + 1 /\ i # n + 1
      /\ \A i \in 0 .. n + 1 : i = n + 1 \/ i \in 0 .. n
      /\ \A i \in 1 .. n + 1 : i = n + 1 \/ i \in 1 .. n
      /\ \A i \in 1 .. n : i \in 0 .. n /\ i - 1 \in 0 .. n
      /\ n + 1 \in 0 .. n + 1 /\ 0 \in 0 .. n /\ n \in 0 .. n /\ (n + 1) - 1 = n /\ n + 1 \in Nat
  BY <1>1
<1>10. /\ c2 \in [0 .. n + 1 -> Accounts] /\ c2[n + 1] = next /\ \A i \in 0 .. n : c2[i] = c[i]
  BY <1>1, <1>7, <1>9
<1>11. /\ e2 \in [0 .. n + 1 -> Nat] /\ e2[n + 1] = Len(s) + t /\ \A i \in 0 .. n : e2[i] = e[i]
  <2>1. Len(s) + t \in Nat
    BY <1>2, <1>3
  <2> QED
    BY <2>1, <1>2, <1>9
<1> HIDE DEF c2, e2
<1>12. Len(w) = Len(s) + t /\ (\A i \in 1 .. Len(s) : w[i] = s[i]) /\ \A i \in 1 .. t : w[Len(s) + i] = b[i]
  BY <1>3, <1>6 DEF IsCat
<1>13. Counts(c2, all)
  <2>1. c2[0] = Nothing
    BY <1>1, <1>9, <1>10
  <2>2. ASSUME NEW i \in 1 .. n + 1 PROVE c2[i] = Counted(c2[i - 1], all[i])
    <3>1. CASE i = n + 1
      BY <3>1, <1>5, <1>9, <1>10, <1>20
    <3>2. CASE i \in 1 .. n
      BY <3>2, <1>1, <1>5, <1>9, <1>10
    <3> QED
      BY <3>1, <3>2, <1>9
  <2> QED
    BY <2>1, <2>2, <1>5, <1>10 DEF Counts
<1>14. ASSUME NEW i \in 1 .. n + 1 PROVE Lawful(c2[i - 1], all[i])
  <2>1. CASE i = n + 1
    BY <2>1, <1>4, <1>5, <1>9, <1>10
  <2>2. CASE i \in 1 .. n
    BY <2>2, <1>1, <1>5, <1>9, <1>10
  <2> QED
    BY <2>1, <2>2, <1>9
<1>15. \A i \in 0 .. n + 1 : Prefixed(c2[i].done, c2[n + 1].done)
  BY <1>7, <1>8, <1>9, <1>10
<1>16. \A i \in 0 .. n + 1 : e2[i] <= Len(w) /\ (i < n + 1 => e2[i] < Len(w))
  <2>1. ASSUME NEW i \in 0 .. n PROVE e2[i] <= Len(w) /\ e2[i] < Len(w)
    <3>1. e2[i] = e[i] /\ e[i] \in Nat /\ e[i] <= Len(s)
      BY <1>2, <1>11
    <3> QED
      BY <3>1, <1>2, <1>3, <1>12
  <2>2. e2[n + 1] <= Len(w) /\ ~(n + 1 < n + 1)
    BY <1>2, <1>3, <1>9, <1>11, <1>12
  <2> QED
    BY <2>1, <2>2, <1>9
<1>17. ASSUME NEW i \in 1 .. n + 1
       PROVE  /\ e2[i] = e2[i - 1] + FrameSize(all[i])
              /\ \A j \in 1 .. FrameSize(all[i]) : w[e2[i - 1] + j] = OnWire(all[i])[j]
  <2>1. CASE i = n + 1
    <3>1. e2[i - 1] = Len(s) /\ all[i] = f
      BY <2>1, <1>2, <1>5, <1>9, <1>11
    <3> QED
      BY <3>1, <2>1, <1>11, <1>12 DEF t, b
  <2>2. CASE i \in 1 .. n
    <3>1. e2[i] = e[i] /\ e2[i - 1] = e[i - 1] /\ all[i] = frames[i] /\ frames[i] \in SentFrames
      BY <2>2, <1>1, <1>5, <1>9, <1>11
    <3>2. e[i] = e[i - 1] + FrameSize(frames[i]) /\ e[i] <= Len(s) /\ e[i - 1] \in Nat /\ e[i] \in Nat
      BY <2>2, <1>2, <1>9
    <3>3. FrameSize(frames[i]) \in Nat
      BY <3>1, FrameLengths
    <3>4. ASSUME NEW j \in 1 .. FrameSize(frames[i]) PROVE w[e[i - 1] + j] = OnWire(frames[i])[j]
      <4>1. e[i - 1] + j \in 1 .. Len(s)
        BY <3>2, <3>3, <1>2
      <4> QED
        BY <4>1, <2>2, <1>2, <1>12
    <3> QED
      BY <3>1, <3>2, <3>4
  <2> QED
    BY <2>1, <2>2, <1>9
<1>18. Sent(all, c2, e2, w)
  <2>1. e2[0] = 0 /\ e2[n + 1] = Len(w)
    BY <1>2, <1>9, <1>11, <1>12
  <2> QED
    BY <2>1, <1>5, <1>6, <1>11, <1>13, <1>14, <1>15, <1>16, <1>17 DEF Sent
<1>19. Longer(c, c2, n) /\ Longer(e, e2, n)
  BY <1>10, <1>11 DEF Longer
<1> QED
  BY <1>18, <1>19 DEF all, w, b, n, Cat

(* The reader has ended d frames and has k bytes of the next one; then     *)
(* come the bytes that are inbound and those on their way.                 *)
IsStretch(s, q, w) ==
    w \in Seq(WsBytes) /\ q + Len(w) <= Len(s) /\ \A i \in 1 .. Len(w) : w[i] = s[q + i]

Placed(frames, e, s, d, k, buffered, coming, readers) ==
    /\ d \in 0 .. Len(frames) /\ k \in Nat
    /\ IsStretch(s, e[d] + k, buffered) /\ IsStretch(s, e[d] + k + Len(buffered), coming)
    /\ e[d] + k + Len(buffered) + Len(coming) = Len(s)
    /\ \/ readers = {} /\ k = 0
       \/ /\ d < Len(frames) /\ readers = {ReaderAt(frames[d + 1], k)}
          /\ CanWait(frames[d + 1], k)

(* What the server has made of the frames it has read.                     *)
Said(a, told, told_part, going) ==
    /\ told = a.done /\ told_part \in SentFrames /\ going \in BOOLEAN
    /\ going <=> a.going
    /\ a.going => ~told_part.fin /\ told_part.payload = a.open

Conversing ==
    /\ handshake_complete /\ handshake_reader.finished /\ ~error
    /\ \E c, e, s, d, k : /\ Sent(ws_sent, c, e, s)
                          /\ Placed(ws_sent, e, s, d, k, inbound, wire, reader)
                          /\ Said(c[d], messages, message, message_in_progress)

(* Where the next frame is.                                                *)
LEMMA NextFrame ==
    ASSUME NEW frames, NEW c, NEW e, NEW s, Sent(frames, c, e, s), NEW d \in 0 .. Len(frames)
    PROVE  /\ Len(frames) \in Nat /\ c[d] \in Accounts /\ e[d] \in Nat /\ Len(s) \in Nat
           /\ s \in Seq(WsBytes) /\ e[d] <= Len(s) /\ e[0] = 0 /\ e[Len(frames)] = Len(s)
           /\ d < Len(frames) =>
                 /\ frames[d + 1] \in SentFrames /\ e[d + 1] = e[d] + FrameSize(frames[d + 1])
                 /\ c[d + 1] = Counted(c[d], frames[d + 1]) /\ Lawful(c[d], frames[d + 1])
                 /\ d + 1 \in 0 .. Len(frames) /\ FrameSize(frames[d + 1]) \in Nat
                 /\ e[d + 1] <= Len(s) /\ (d + 1 < Len(frames) => e[d + 1] < Len(s))
                 /\ \A j \in 1 .. FrameSize(frames[d + 1]) : s[e[d] + j] = OnWire(frames[d + 1])[j]
<1> DEFINE n == Len(frames)
<1>1. /\ frames \in Seq(SentFrames) /\ Counts(c, frames)
      /\ \A i \in 1 .. n : Lawful(c[i - 1], frames[i])
      /\ s \in Seq(WsBytes) /\ e \in [0 .. n -> Nat] /\ e[0] = 0 /\ e[n] = Len(s)
      /\ \A i \in 0 .. n : e[i] <= Len(s) /\ (i < n => e[i] < Len(s))
      /\ \A i \in 1 .. n : /\ e[i] = e[i - 1] + FrameSize(frames[i])
                           /\ \A j \in 1 .. FrameSize(frames[i]) : s[e[i - 1] + j] = OnWire(frames[i])[j]
  BY DEF Sent
<1>2. n \in Nat /\ Len(s) \in Nat
  BY <1>1
<1>3. /\ c \in [0 .. n -> Accounts]
      /\ \A i \in 1 .. n : c[i] = Counted(c[i - 1], frames[i])
  BY <1>1 DEF Counts
<1>4. ASSUME d < n
      PROVE  /\ frames[d + 1] \in SentFrames /\ e[d + 1] = e[d] + FrameSize(frames[d + 1])
             /\ c[d + 1] = Counted(c[d], frames[d + 1]) /\ Lawful(c[d], frames[d + 1])
             /\ d + 1 \in 0 .. n /\ FrameSize(frames[d + 1]) \in Nat
             /\ e[d + 1] <= Len(s) /\ (d + 1 < n => e[d + 1] < Len(s))
             /\ \A j \in 1 .. FrameSize(frames[d + 1]) : s[e[d] + j] = OnWire(frames[d + 1])[j]
  <2>1. d + 1 \in 1 .. n /\ d + 1 \in 0 .. n /\ (d + 1) - 1 = d
    BY <1>2, <1>4
  <2>2. frames[d + 1] \in SentFrames
    BY <1>1, <2>1
  <2>3. FrameSize(frames[d + 1]) \in Nat
    BY <2>2, FrameLengths
  <2> QED
    BY <2>1, <2>2, <2>3, <1>1, <1>3
<1> QED
  BY <1>1, <1>2, <1>3, <1>4

LEMMA StretchCut ==
    ASSUME NEW s \in Seq(WsBytes), NEW q \in Nat, NEW w, IsStretch(s, q, w), NEW n \in 0 .. Len(w)
    PROVE  /\ IsStretch(s, q, Upto(w, n)) /\ Len(Upto(w, n)) = n
           /\ IsStretch(s, q + n, From(w, n + 1)) /\ Len(From(w, n + 1)) = Len(w) - n
<1> DEFINE u == Upto(w, n)
           v == From(w, n + 1)
<1>1. w \in Seq(WsBytes) /\ q + Len(w) <= Len(s) /\ \A i \in 1 .. Len(w) : w[i] = s[q + i]
  BY DEF IsStretch
<1>2. /\ u \in Seq(WsBytes) /\ Len(u) = n /\ \A i \in 1 .. n : u[i] = w[i]
      /\ v \in Seq(WsBytes) /\ Len(v) = Len(w) - n
      /\ \A i \in 1 .. Len(w) - n : v[i] = w[n + i]
  BY <1>1, Cuts
<1> HIDE DEF u, v
<1>3. Len(w) \in Nat /\ Len(s) \in Nat /\ n \in Nat /\ n <= Len(w)
  BY <1>1
<1>4. IsStretch(s, q, u)
  <2>1. \A i \in 1 .. Len(u) : i \in 1 .. n /\ i \in 1 .. Len(w)
    BY <1>2, <1>3
  <2>2. q + Len(u) <= Len(s)
    BY <1>1, <1>2, <1>3
  <2> QED
    BY <2>1, <2>2, <1>1, <1>2 DEF IsStretch
<1>5. IsStretch(s, q + n, v)
  <2>1. \A i \in 1 .. Len(v) : i \in 1 .. Len(w) - n /\ n + i \in 1 .. Len(w) /\ q + (n + i) = (q + n) + i
    BY <1>2, <1>3
  <2>2. (q + n) + Len(v) <= Len(s)
    BY <1>1, <1>2, <1>3
  <2> QED
    BY <2>1, <2>2, <1>1, <1>2 DEF IsStretch
<1> QED
  BY <1>2, <1>4, <1>5 DEF u, v

LEMMA NothingComes ==
    ASSUME NEW s \in Seq(WsBytes), NEW q \in Nat, q <= Len(s)
    PROVE  IsStretch(s, q, <<>>) /\ Len(<<>>) = 0
<1> DEFINE w == <<>>
<1>1. w \in Seq(WsBytes) /\ Len(w) = 0 /\ \A i \in 1 .. 0 : FALSE
  OBVIOUS
<1> HIDE DEF w
<1>2. q + Len(w) <= Len(s)
  BY <1>1
<1>3. IsStretch(s, q, w) /\ Len(w) = 0
  BY <1>1, <1>2 DEF IsStretch
<1> QED
  BY <1>3 DEF w

LEMMA StretchGrows ==
    ASSUME NEW s \in Seq(WsBytes), NEW b \in Seq(WsBytes), NEW q \in Nat, NEW w, IsStretch(s, q, w)
    PROVE  /\ IsStretch(Cat(s, b), q, w) /\ Len(Cat(s, b)) = Len(s) + Len(b)
           /\ q + Len(w) = Len(s) => IsStretch(Cat(s, b), q, Cat(w, b)) /\ Len(Cat(w, b)) = Len(w) + Len(b)
<1> DEFINE t == Cat(s, b)
           v == Cat(w, b)
<1>1. w \in Seq(WsBytes) /\ q + Len(w) <= Len(s) /\ \A i \in 1 .. Len(w) : w[i] = s[q + i]
  BY DEF IsStretch
<1>2. t \in Seq(WsBytes) /\ IsCat(t, s, b) /\ v \in Seq(WsBytes) /\ IsCat(v, w, b)
  BY <1>1, CatPlaces
<1> HIDE DEF t, v
<1>3. /\ Len(w) \in Nat /\ Len(s) \in Nat /\ Len(b) \in Nat
      /\ Len(t) = Len(s) + Len(b) /\ Len(v) = Len(w) + Len(b)
  BY <1>2 DEF IsCat
<1>4. ASSUME NEW i \in 1 .. Len(w) PROVE w[i] = t[q + i]
  <2>1. q + i \in 1 .. Len(s)
    BY <1>1, <1>3
  <2> QED
    BY <2>1, <1>1, <1>2 DEF IsCat
<1>5. IsStretch(t, q, w)
  BY <1>1, <1>3, <1>4 DEF IsStretch
<1>6. ASSUME q + Len(w) = Len(s), NEW i \in 1 .. Len(v) PROVE v[i] = t[q + i]
  <2>1. CASE i <= Len(w)
    <3>1. i \in 1 .. Len(w)
      BY <2>1, <1>3
    <3> QED
      BY <3>1, <1>2, <1>4 DEF IsCat
  <2>2. CASE i > Len(w)
    <3> DEFINE j == i - Len(w)
    <3>1. j \in 1 .. Len(b) /\ i = Len(w) + j /\ q + i = Len(s) + j
      BY <2>2, <1>3, <1>6
    <3> HIDE DEF j
    <3>2. v[Len(w) + j] = b[j] /\ t[Len(s) + j] = b[j]
      BY <3>1, <1>2 DEF IsCat
    <3> QED
      BY <3>1, <3>2
  <2> QED
    BY <2>1, <2>2, <1>3
<1>7. q + Len(w) = Len(s) => IsStretch(t, q, v)
  <2> SUFFICES ASSUME q + Len(w) = Len(s) PROVE IsStretch(t, q, v)
    OBVIOUS
  <2>1. q + Len(v) <= Len(t)
    BY <1>3
  <2> QED
    BY <2>1, <1>2, <1>6 DEF IsStretch
<1> QED
  BY <1>3, <1>5, <1>7 DEF t, v

(* What is inbound are bytes of the next frame, and of those after it.     *)
LEMMA BufferedOnto ==
    ASSUME NEW frames, NEW c, NEW e, NEW s, Sent(frames, c, e, s),
           NEW d \in 0 .. Len(frames), d < Len(frames), NEW k \in Nat, NEW w,
           IsStretch(s, e[d] + k, w)
    PROVE  Onto(w, OnWire(frames[d + 1]), k)
<1> DEFINE f == frames[d + 1]
           b == OnWire(f)
<1>1. /\ f \in SentFrames /\ FrameSize(f) \in Nat /\ e[d] \in Nat
      /\ \A j \in 1 .. FrameSize(f) : s[e[d] + j] = b[j]
  BY NextFrame
<1>2. Len(b) = FrameSize(f)
  BY <1>1, BytesAre DEF AreBytesOf
<1>3. w \in Seq(WsBytes) /\ \A i \in 1 .. Len(w) : w[i] = s[(e[d] + k) + i]
  BY DEF IsStretch
<1> HIDE DEF b, f
<1>4. ASSUME NEW i \in 1 .. Len(w), k + i <= Len(b) PROVE w[i] = b[k + i]
  <2>1. k + i \in 1 .. FrameSize(f) /\ (e[d] + k) + i = e[d] + (k + i)
    BY <1>1, <1>2, <1>3, <1>4
  <2> QED
    BY <2>1, <1>1, <1>3
<1>5. Onto(w, b, k)
  BY <1>4 DEF Onto
<1> QED
  BY <1>5 DEF b, f

(* The viewer sends a frame.                                               *)
LEMMA FrameIsSent ==
    ASSUME NEW opcode \in {"Text", "Continuation", "Ping", "Pong", "Close"}, NEW fin \in BOOLEAN,
           NEW n \in PayloadLengths, Conversing,
           Send(Frame(opcode, fin, [i \in 1 .. n |-> <<Len(ws_sent) + 1, i>>]))
    PROVE  Conversing'
<1> DEFINE payload == [i \in 1 .. n |-> <<Len(ws_sent) + 1, i>>]
           f == Frame(opcode, fin, payload)
           frames == ws_sent
           m == Len(frames)
           b == OnWire(f)
<1>1. PICK c, e, s, d, k : /\ Sent(frames, c, e, s)
                           /\ Placed(frames, e, s, d, k, inbound, wire, reader)
                           /\ Said(c[d], messages, message, message_in_progress)
  BY DEF Conversing
<1>2. frames \in Seq(SentFrames) /\ m \in Nat /\ Counts(c, frames)
  <2>1. frames \in Seq(SentFrames) /\ Counts(c, frames)
    BY <1>1 DEF Sent
  <2> QED
    BY <2>1
<1>3. f \in SentFrames /\ f.opcode = opcode /\ f.fin = fin
  <2>1. n \in Nat
    BY WsConstants
  <2>2. payload \in Payloads
    BY <2>1, <1>2 DEF Payloads
  <2> HIDE DEF payload
  <2> QED
    BY <2>2 DEF Frame, SentFrames
<1>4. /\ f.opcode = "Text" => ~Recount(frames).going
      /\ f.opcode = "Continuation" => Recount(frames).going
      /\ f.opcode \in {"Ping", "Pong", "Close"} => f.fin
      /\ ws_sent' = Append(frames, f) /\ wire' = Cat(wire, b)
      /\ UNCHANGED <<server_ws_vars, inbound>>
  <2>1. Send(f)
    OBVIOUS
  <2> HIDE DEF f
  <2> QED
    BY <2>1 DEF Send, Cat, OnWire
<1> HIDE DEF f, b, frames
<1>5. Lawful(c[m], f)
  <2>1. Recount(frames) = c[m]
    BY <1>2, CountsAre
  <2> QED
    BY <2>1, <1>3, <1>4 DEF Lawful
<1>6. PICK c2, e2 : /\ Sent(Append(frames, f), c2, e2, Cat(s, b))
                    /\ Longer(c, c2, m) /\ Longer(e, e2, m)
  <2>1. \E c2, e2 : /\ Sent(Append(frames, f), c2, e2, s \o OnWire(f))
                    /\ Longer(c, c2, m) /\ Longer(e, e2, m)
    BY <1>1, <1>3, <1>5, SentGrows
  <2> QED
    BY <2>1 DEF Cat, b
<1>7. b \in Seq(WsBytes)
  BY <1>3, BytesAre DEF AreBytesOf, b
<1>8. /\ d \in 0 .. m /\ k \in Nat
      /\ IsStretch(s, e[d] + k, inbound) /\ IsStretch(s, e[d] + k + Len(inbound), wire)
      /\ e[d] + k + Len(inbound) + Len(wire) = Len(s)
      /\ \/ reader = {} /\ k = 0
         \/ /\ d < m /\ reader = {ReaderAt(frames[d + 1], k)}
            /\ CanWait(frames[d + 1], k)
  BY <1>1 DEF Placed
<1>9. s \in Seq(WsBytes) /\ e[d] \in Nat /\ Len(s) \in Nat
  BY <1>1, <1>8, NextFrame
<1>10. Len(inbound) \in Nat /\ Len(wire) \in Nat
  BY <1>8 DEF IsStretch
<1>11. c2[d] = c[d] /\ e2[d] = e[d]
  BY <1>6, <1>8 DEF Longer
<1> DEFINE all == Append(frames, f)
           s2 == Cat(s, b)
           v == Cat(wire, b)
<1>12. Len(all) = m + 1 /\ \A i \in 1 .. m : all[i] = frames[i]
  BY <1>2, <1>3
<1> HIDE DEF all, s2, v
<1>13. IsStretch(s2, e[d] + k, inbound)
  <2>1. e[d] + k \in Nat
    BY <1>8, <1>9
  <2> QED
    BY <2>1, <1>7, <1>8, <1>9, StretchGrows DEF s2
<1>14. /\ IsStretch(s2, e[d] + k + Len(inbound), v)
       /\ e[d] + k + Len(inbound) + Len(v) = Len(s2)
  <2> DEFINE q == e[d] + k + Len(inbound)
  <2>1. q \in Nat /\ q + Len(wire) = Len(s)
    BY <1>8, <1>9, <1>10
  <2> HIDE DEF q
  <2>2. IsStretch(s, q, wire)
    BY <1>8 DEF q
  <2>3. IsStretch(s2, q, v) /\ Len(v) = Len(wire) + Len(b) /\ Len(s2) = Len(s) + Len(b)
    BY <2>1, <2>2, <1>7, <1>9, StretchGrows DEF s2, v
  <2>4. Len(b) \in Nat
    BY <1>7
  <2> HIDE DEF m
  <2>5. q + Len(v) = Len(s2)
    BY ONLY <2>1, <2>3, <2>4, <1>9, <1>10
  <2> QED
    BY <2>3, <2>5 DEF q
<1>15. Placed(all, e2, s2, d, k, inbound, v, reader)
  <2>1. d \in 0 .. Len(all)
    BY <1>2, <1>8, <1>12
  <2>2. d < m => all[d + 1] = frames[d + 1] /\ d < Len(all)
    <3> SUFFICES ASSUME d < m PROVE all[d + 1] = frames[d + 1] /\ d < Len(all)
      OBVIOUS
    <3>1. d + 1 \in 1 .. m /\ d < m + 1
      BY <1>2, <1>8
    <3> QED
      BY <3>1, <1>12
  <2> QED
    BY <2>1, <2>2, <1>8, <1>11, <1>13, <1>14 DEF Placed
<1>16. Sent(all, c2, e2, s2) /\ Said(c2[d], messages, message, message_in_progress)
  BY <1>1, <1>6, <1>11 DEF all, s2
<1>17. Sent(ws_sent', c2, e2, s2)
       /\ Placed(ws_sent', e2, s2, d, k, inbound', wire', reader')
       /\ Said(c2[d], messages', message', message_in_progress')
  <2>1. ws_sent' = all /\ wire' = v
    BY <1>4 DEF all, v
  <2>2. inbound' = inbound /\ reader' = reader /\ messages' = messages /\ message' = message
        /\ message_in_progress' = message_in_progress
    BY <1>4 DEF server_ws_vars
  <2> QED
    BY <2>1, <2>2, <1>15, <1>16
<1>18. handshake_complete' /\ handshake_reader'.finished /\ ~error'
  BY <1>4 DEF server_ws_vars, Conversing
<1> QED
  BY <1>17, <1>18 DEF Conversing

(* Bytes arrive.                                                           *)
LEMMA FramesArrive ==
    ASSUME NEW n \in Nat, n \in 1 .. Len(wire), Conversing, Arrive(n)
    PROVE  Conversing'
<1>1. PICK c, e, s, d, k : /\ Sent(ws_sent, c, e, s)
                           /\ Placed(ws_sent, e, s, d, k, inbound, wire, reader)
                           /\ Said(c[d], messages, message, message_in_progress)
  BY DEF Conversing
<1>2. /\ inbound = <<>> /\ inbound' = Upto(wire, n) /\ wire' = From(wire, n + 1)
      /\ ws_sent' = ws_sent /\ reader' = reader /\ messages' = messages /\ message' = message
      /\ message_in_progress' = message_in_progress /\ error' = error
      /\ handshake_complete' = handshake_complete /\ handshake_reader' = handshake_reader
  BY DEF Arrive, server_ws_vars
<1>3. /\ d \in 0 .. Len(ws_sent) /\ k \in Nat
      /\ IsStretch(s, e[d] + k + Len(inbound), wire)
      /\ e[d] + k + Len(inbound) + Len(wire) = Len(s)
      /\ \/ reader = {} /\ k = 0
         \/ /\ d < Len(ws_sent) /\ reader = {ReaderAt(ws_sent[d + 1], k)}
            /\ CanWait(ws_sent[d + 1], k)
  BY <1>1 DEF Placed
<1>4. s \in Seq(WsBytes) /\ e[d] \in Nat /\ Len(s) \in Nat
  BY <1>1, <1>3, NextFrame
<1> DEFINE q == e[d] + k
           u == Upto(wire, n)
           v == From(wire, n + 1)
<1>5. q \in Nat /\ Len(wire) \in Nat /\ IsStretch(s, q, wire) /\ q + Len(wire) = Len(s)
  <2>1. Len(inbound) = 0
    BY <1>2
  <2>2. Len(wire) \in Nat
    BY <1>3 DEF IsStretch
  <2> QED
    BY <2>1, <2>2, <1>3, <1>4
<1> HIDE DEF q, u, v
<1>6. IsStretch(s, q, u) /\ Len(u) = n /\ IsStretch(s, q + n, v) /\ Len(v) = Len(wire) - n
  <2>1. n \in 0 .. Len(wire)
    BY <1>5
  <2> QED
    BY <2>1, <1>4, <1>5, StretchCut DEF u, v
<1>7. q + Len(u) + Len(v) = Len(s)
  BY <1>5, <1>6
<1>8. Placed(ws_sent, e, s, d, k, u, v, reader)
  BY <1>3, <1>6, <1>7 DEF Placed, q
<1> QED
  BY <1>1, <1>2, <1>8 DEF Conversing, u, v

LEMMA FlagsAre ==
    ASSUME NEW f, NEW k
    PROVE  /\ ~ReaderAt(f, k).error /\ ~ReaderAt(f, k).finished
           /\ ~ReaderWith(f).error /\ ReaderWith(f).finished
<1>1. ASSUME NEW a1, NEW a2, NEW a3, NEW a4, NEW x, NEW y, NEW z, NEW u
      PROVE  /\ AsReader(a1, x, a2, y, a3, z, a4, u).error = No
             /\ AsReader(a1, x, a2, y, a3, z, a4, u).finished = u
  BY DEF AsReader
<1>2. ASSUME NEW i, NEW j, NEW v
      PROVE  ReaderOf(f, i, j, v).error = No /\ ReaderOf(f, i, j, v).finished = v
  BY <1>1 DEF ReaderOf
<1> DEFINE yes == TRUE
<1>3. ReaderAt(f, k) = ReaderOf(f, k, k, No) /\ ReaderWith(f) = ReaderOf(f, FrameSize(f), FrameSize(f), yes)
  BY DEF ReaderAt, ReaderWith
<1>4. yes /\ ~No
  BY DEF No
<1> HIDE DEF yes
<1>5. ReaderAt(f, k).error = No /\ ReaderAt(f, k).finished = No
  BY <1>2, <1>3
<1>6. ReaderWith(f).error = No /\ ReaderWith(f).finished = yes
  BY <1>2, <1>3
<1> QED
  BY <1>4, <1>5, <1>6

(* What the server makes of a frame, which it has free to answer or not.   *)
LEMMA FrameIsSaid ==
    ASSUME NEW a \in Accounts, NEW f \in SentFrames, Lawful(a, f), NEW free,
           Said(a, messages, message, message_in_progress), Control(f, free) \/ Data(f)
    PROVE  Said(Counted(a, f), messages', message', message_in_progress') /\ error' = FALSE
<1> DEFINE next == Counted(a, f)
<1>1. CountedAs(a, f, next)
  BY CountedIs
<1> HIDE DEF next
<1>2. f.opcode \in {"Text", "Continuation", "Ping", "Pong", "Close"} /\ f.fin \in BOOLEAN
      /\ f.payload \in Payloads
  BY DEF SentFrames
<1>3. /\ messages = a.done /\ message \in SentFrames /\ message_in_progress \in BOOLEAN
      /\ message_in_progress <=> a.going
      /\ a.going => ~message.fin /\ message.payload = a.open
  BY DEF Said
<1>4. CASE f.opcode \notin {"Text", "Continuation"}
  <2>1. Control(f, free)
    BY <1>2, <1>4 DEF Data
  <2>2. f.fin /\ next = a
    BY <1>1, <1>4 DEF Lawful, CountedAs
  <2> QED
    BY <2>1, <2>2, <1>3 DEF Control, Said, next
<1>5. CASE f.opcode \in {"Text", "Continuation"}
  <2> DEFINE first == f.opcode # "Continuation"
             more == [message EXCEPT !.payload = @ \o f.payload, !.fin = f.fin]
             whole == IF first THEN f ELSE more
             wrong == IF first THEN message_in_progress ELSE ~message_in_progress \/ message.fin
             ready == ~wrong /\ whole.fin
  <2>1. Data(f)
    BY <1>5 DEF Control
  <2>2. /\ error' = wrong
        /\ messages' = IF ready THEN Append(messages, whole.payload) ELSE messages
        /\ message' = IF wrong THEN message ELSE IF ready THEN Cleared ELSE whole
        /\ message_in_progress' = IF wrong THEN message_in_progress ELSE ~ready
    BY <2>1 DEF Data
  <2>3. wrong = FALSE
    BY <1>3, <1>5 DEF Lawful
  <2>4. /\ more \in SentFrames /\ more.payload = message.payload \o f.payload /\ more.fin = f.fin
    <3> DEFINE p == message.payload \o f.payload
    <3>1. p \in Payloads
      BY <1>2, <1>3 DEF SentFrames, Payloads
    <3>2. more = [message EXCEPT !.payload = p, !.fin = f.fin]
      OBVIOUS
    <3> HIDE DEF p, more
    <3>3. more \in SentFrames /\ more.payload = p /\ more.fin = f.fin
      BY <3>1, <3>2, <1>2, <1>3 DEF SentFrames
    <3> QED
      BY <3>3 DEF p
  <2> HIDE DEF more
  <2>5. whole \in SentFrames /\ whole.fin = f.fin /\ whole.payload = a.open \o f.payload
    <3>1. CASE first
      <4>1. ~a.going /\ a.open = <<>>
        BY <3>1, <1>5 DEF Lawful, Accounts
      <4>2. <<>> \o f.payload = f.payload
        BY <1>2 DEF Payloads
      <4> QED
        BY <3>1, <4>1, <4>2
    <3>2. CASE ~first
      BY <3>2, <2>4, <1>3 DEF Lawful
    <3> QED
      BY <3>1, <3>2
  <2> HIDE DEF wrong, whole, first
  <2>6. Cleared \in SentFrames
    <3>1. <<>> \in Payloads
      BY DEF Payloads
    <3> QED
      BY <3>1 DEF Cleared, Frame, SentFrames
  <2>7. CASE f.fin
    <3>1. /\ messages' = Append(a.done, whole.payload) /\ message' = Cleared
          /\ message_in_progress' = FALSE /\ error' = FALSE
      BY <2>2, <2>3, <2>5, <2>7, <1>3
    <3>2. next.done = Append(a.done, whole.payload) /\ ~next.going
      BY <2>5, <2>7, <1>1, <1>5 DEF CountedAs
    <3>3. Said(next, messages', message', message_in_progress')
      BY <3>1, <3>2, <2>6 DEF Said
    <3> QED
      BY <3>1, <3>3 DEF next
  <2>8. CASE ~f.fin
    <3>1. /\ messages' = a.done /\ message' = whole
          /\ message_in_progress' = TRUE /\ error' = FALSE
      BY <2>2, <2>3, <2>5, <2>8, <1>3
    <3>2. next.done = a.done /\ next.going /\ next.open = whole.payload
      BY <2>5, <2>8, <1>1, <1>5 DEF CountedAs
    <3>3. Said(next, messages', message', message_in_progress')
      BY <3>1, <3>2, <2>5, <2>8 DEF Said
    <3> QED
      BY <3>1, <3>3 DEF next
  <2> QED
    BY <2>7, <2>8
<1> QED
  BY <1>4, <1>5

(* The server reads what is inbound, or up to the end of a frame.          *)
LEMMA FramesAreReadOn ==
    ASSUME NEW free, Conversing, read(free)
    PROVE  Conversing'
<1>1. PICK c, e, s, d, k : /\ Sent(ws_sent, c, e, s)
                           /\ Placed(ws_sent, e, s, d, k, inbound, wire, reader)
                           /\ Said(c[d], messages, message, message_in_progress)
  BY DEF Conversing
<1> DEFINE N == Len(ws_sent)
           f == ws_sent[d + 1]
           w == inbound
           n == Len(w)
           t == FrameSize(f)
<1>2. /\ d \in 0 .. N /\ k \in Nat
      /\ IsStretch(s, e[d] + k, w) /\ IsStretch(s, e[d] + k + n, wire)
      /\ e[d] + k + n + Len(wire) = Len(s)
      /\ \/ reader = {} /\ k = 0
         \/ d < N /\ reader = {ReaderAt(f, k)} /\ CanWait(f, k)
  BY <1>1 DEF Placed
<1>3. /\ N \in Nat /\ e[d] \in Nat /\ Len(s) \in Nat /\ s \in Seq(WsBytes) /\ e[N] = Len(s)
      /\ e[d] <= Len(s) /\ c[d] \in Accounts
  <2>1. d \in 0 .. Len(ws_sent) /\ Sent(ws_sent, c, e, s)
    BY <1>1, <1>2
  <2>2. Len(ws_sent) \in Nat /\ e[d] \in Nat /\ Len(s) \in Nat /\ s \in Seq(WsBytes)
    BY ONLY <2>1, NextFrame
  <2>3. e[Len(ws_sent)] = Len(s) /\ e[d] <= Len(s) /\ c[d] \in Accounts
    BY ONLY <2>1, NextFrame
  <2> QED
    BY <2>2, <2>3
<1>4. w \in Seq(WsBytes) /\ n \in Nat /\ Len(wire) \in Nat /\ w # <<>> /\ n > 0
  BY <1>2 DEF IsStretch, read
<1>5. d < N
  <2> HIDE DEF n, N
  <2>1. e[d] < Len(s)
    BY <1>2, <1>3, <1>4
  <2> QED
    BY <2>1, <1>2, <1>3
<1>6. /\ f \in SentFrames /\ e[d + 1] = e[d] + t /\ c[d + 1] = Counted(c[d], f) /\ Lawful(c[d], f)
      /\ d + 1 \in 0 .. N /\ t \in Nat /\ e[d + 1] <= Len(s) /\ e[d + 1] \in Nat
  <2>1. /\ f \in SentFrames /\ e[d + 1] = e[d] + t /\ c[d + 1] = Counted(c[d], f)
        /\ Lawful(c[d], f) /\ d + 1 \in 0 .. N /\ t \in Nat /\ e[d + 1] <= Len(s)
    <3>1. d \in 0 .. Len(ws_sent) /\ d < Len(ws_sent)
      BY <1>2, <1>5
    <3>2. Sent(ws_sent, c, e, s)
      BY <1>1
    <3>3. f \in SentFrames /\ t \in Nat /\ d + 1 \in 0 .. N
      BY ONLY <3>1, <3>2, NextFrame
    <3>4. c[d + 1] = Counted(c[d], f) /\ Lawful(c[d], f)
      BY ONLY <3>1, <3>2, NextFrame
    <3>5. e[d + 1] = e[d] + t /\ e[d + 1] <= Len(s)
      BY ONLY <3>1, <3>2, NextFrame
    <3> QED
      BY <3>3, <3>4, <3>5
  <2> HIDE DEF t
  <2>2. e[d + 1] \in Nat
    BY <2>1, <1>3
  <2> QED
    BY <2>1, <2>2
<1>7. CanWait(f, k) /\ (IF reader = {} THEN {FrameReader} ELSE reader) = {ReaderAt(f, k)}
  <2>1. CASE reader = {} /\ k = 0
    <3>1. FrameReader = ReaderAt(f, 0) /\ CanWait(f, 0)
      BY <1>6, FrameBegins
    <3> HIDE DEF f
    <3> QED
      BY <2>1, <3>1
  <2>2. CASE reader = {ReaderAt(f, k)} /\ CanWait(f, k)
    BY <2>2
  <2> QED
    BY <2>1, <2>2, <1>2
<1>8. Onto(w, OnWire(f), k)
  BY <1>1, <1>2, <1>5, BufferedOnto
<1>9. PICK got \in {ReadOn([reader |-> ReaderAt(f, k), rest |-> w])} :
       /\ inbound' = got.rest
       /\ IF got.reader.error
          THEN /\ error' = TRUE /\ reader' = {[got.reader EXCEPT !.error = FALSE]}
               /\ UNCHANGED <<closed, message, message_in_progress, messages, replies>>
          ELSE IF ~got.reader.finished
          THEN /\ reader' = {got.reader}
               /\ UNCHANGED <<error, closed, message, message_in_progress, messages, replies>>
          ELSE /\ reader' = {}
               /\ \E frame \in {Completed(got.reader)} : Control(frame, free) \/ Data(frame)
  <2> HIDE DEF f
  <2> QED
    BY <1>7 DEF read
<1>10. /\ ws_sent' = ws_sent /\ wire' = wire /\ handshake_complete' /\ handshake_reader'.finished
       /\ ~error
  BY DEF read, Conversing
<1> HIDE DEF f, n, N, t
<1>11. got = ReadOn(Waiting(f, k, w))
  BY <1>9 DEF Waiting
<1>12. CASE ReadOn(Waiting(f, k, w)) = Waiting(f, k + n, <<>>) /\ CanWait(f, k + n)
  <2>1. got.reader = ReaderAt(f, k + n) /\ got.rest = <<>>
    BY <1>11, <1>12 DEF Waiting
  <2>2. ~got.reader.error /\ ~got.reader.finished
    BY <2>1, FlagsAre
  <2>3. /\ inbound' = <<>> /\ reader' = {ReaderAt(f, k + n)} /\ error' = error
        /\ message' = message /\ message_in_progress' = message_in_progress /\ messages' = messages
    BY <2>1, <2>2, <1>9
  <2>4. k + n \in Nat /\ e[d] + (k + n) = (e[d] + k) + n /\ e[d] + (k + n) \in Nat
        /\ e[d] + (k + n) <= Len(s) /\ (e[d] + k) + n + 0 + Len(wire) = Len(s)
        /\ ((e[d] + k) + n) + 0 = (e[d] + k) + n
    <3> DEFINE p == e[d]
               x == Len(s)
               y == Len(wire)
    <3>1. p \in Nat /\ x \in Nat /\ y \in Nat /\ k \in Nat /\ n \in Nat /\ p + k + n + y = x
      BY <1>2, <1>3, <1>4
    <3> HIDE DEF p, x, y
    <3>2. k + n \in Nat /\ p + (k + n) = (p + k) + n /\ p + (k + n) \in Nat
          /\ p + (k + n) <= x /\ (p + k) + n + 0 + y = x /\ ((p + k) + n) + 0 = (p + k) + n
      BY ONLY <3>1
    <3> QED
      BY <3>2 DEF p, x, y
  <2>5. IsStretch(s, e[d] + (k + n), <<>>) /\ Len(<<>>) = 0
    BY <2>4, <1>3, NothingComes
  <2>6. Placed(ws_sent, e, s, d, k + n, <<>>, wire, {ReaderAt(f, k + n)})
    BY <2>4, <2>5, <1>2, <1>5, <1>12 DEF Placed, f, N
  <2> QED
    BY <2>3, <2>6, <1>1, <1>10 DEF Conversing
<1>13. CASE t - k \in 0 .. n /\ ReadOn(Waiting(f, k, w)) = Ended(f, From(w, t - k + 1))
  <2> DEFINE j == t - k
             v == From(w, j + 1)
  <2>1. got.reader = ReaderWith(f) /\ got.rest = v
    BY <1>11, <1>13 DEF Ended
  <2>2. ~got.reader.error /\ got.reader.finished
    BY <2>1, FlagsAre
  <2>3. /\ inbound' = v /\ reader' = {}
        /\ \E frame \in {Completed(got.reader)} : Control(frame, free) \/ Data(frame)
    <3> HIDE DEF v
    <3> QED
      BY <2>1, <2>2, <1>9
  <2>4. Completed(got.reader) = f
    BY <2>1, <1>6, CompletedIs
  <2>5. Control(f, free) \/ Data(f)
    BY <2>3, <2>4
  <2>6. Said(c[d + 1], messages', message', message_in_progress') /\ error' = FALSE
    BY <2>5, <1>1, <1>3, <1>6, FrameIsSaid
  <2>7. j \in 0 .. n /\ e[d] + k \in Nat /\ (e[d] + k) + j = e[d + 1] /\ e[d + 1] + 0 = e[d + 1]
    <3> DEFINE p == e[d]
               q == e[d + 1]
    <3>1. j \in 0 .. n
      BY <1>13
    <3>2. p \in Nat /\ k \in Nat /\ n \in Nat /\ t \in Nat /\ q = p + t
      BY <1>2, <1>3, <1>4, <1>6
    <3> HIDE DEF p, q
    <3>3. p + k \in Nat /\ (p + k) + j = q /\ q + 0 = q
      BY ONLY <3>1, <3>2
    <3> QED
      BY <3>1, <3>3 DEF p, q
  <2> HIDE DEF j, v
  <2>8. IsStretch(s, (e[d] + k) + j, v) /\ Len(v) = n - j
    <3> DEFINE q == e[d] + k
    <3>1. q \in Nat /\ IsStretch(s, q, w) /\ j \in 0 .. Len(w) /\ s \in Seq(WsBytes)
      BY <2>7, <1>2, <1>3 DEF n
    <3> HIDE DEF q
    <3>2. IsStretch(s, q + j, From(w, j + 1)) /\ Len(From(w, j + 1)) = Len(w) - j
      BY ONLY <3>1, StretchCut
    <3> QED
      BY <3>2 DEF q, n, v
  <2>9. e[d + 1] + Len(v) = e[d] + k + n /\ e[d + 1] + Len(v) + Len(wire) = Len(s)
    <3> DEFINE p == e[d]
               q == e[d + 1]
               x == Len(s)
               y == Len(wire)
               z == Len(v)
    <3>1. /\ p \in Nat /\ x \in Nat /\ y \in Nat /\ k \in Nat /\ n \in Nat /\ p + k + n + y = x
          /\ j \in 0 .. n /\ z = n - j /\ (p + k) + j = q
      BY <2>7, <2>8, <1>2, <1>3, <1>4
    <3> HIDE DEF p, q, x, y, z
    <3>2. q + z = p + k + n /\ q + z + y = x
      BY ONLY <3>1
    <3> QED
      BY <3>2 DEF p, q, x, y, z
  <2>10. Placed(ws_sent, e, s, d + 1, 0, v, wire, {})
    BY <2>7, <2>8, <2>9, <1>2, <1>6 DEF Placed, N
  <2> QED
    BY <2>3, <2>6, <2>10, <1>1, <1>10 DEF Conversing
<1> QED
  BY <1>2, <1>4, <1>6, <1>7, <1>8, <1>12, <1>13, ReadOnIs DEF n, t

(* The requests of the handshake.                                          *)
LEMMA OneTokenIsClean ==
    ASSUME NEW x \in {"websocket", "key"}
    PROVE  Clean(<<x>>) /\ <<x>> \in Strings
<1> DEFINE v == <<x>>
<1>1. x \in Tokens /\ x \notin Blank
  BY DEF Tokens, Blank
<1>2. v \in Strings /\ Len(v) = 1 /\ v[1] = x
  BY <1>1, StringAlgebra
<1> HIDE DEF v
<1>3. \A j \in 1 .. 1 : ~(j < 1)
  OBVIOUS
<1>4. Clean(v)
  BY <1>1, <1>2, <1>3 DEF Clean
<1> QED
  BY <1>2, <1>4 DEF v

UpgradeSays(m, method) ==
    /\ WellFormed(m) /\ m.start[1] = <<method>> /\ m.headers.length = {0} /\ m.body = <<>>

LEMMA UpgradeIs ==
    ASSUME NEW method \in {"GET", "POST"}, NEW version \in {"HTTP/1.0", "HTTP/1.1"},
           NEW upgrade \in {<<>>, <<"websocket">>}, NEW key \in {<<>>, <<"key">>}
    PROVE  UpgradeSays(Upgrade(method, version, upgrade, key), method)
<1> DEFINE m == Upgrade(method, version, upgrade, key)
           start == <<<<method>>, <<"/">>, <<version>>>>
           h == [NoHeaders EXCEPT !.length = {0}, !.kept[3] = upgrade, !.kept[5] = key]
<1>1. m = [start |-> start, headers |-> h, body |-> <<>>]
  BY DEF Upgrade
<1>2. /\ h \in HeadsSet /\ h.length = {0} /\ \A i \in 1 .. 6 : Clean(h.kept[i])
  <2> DEFINE k == NoHeaders.kept
             zero == {0}
  <2>1. k \in [1 .. 6 -> Strings] /\ \A i \in 1 .. 6 : k[i] = <<>>
    BY NoHeadersAre DEF HeadsSet
  <2>2. upgrade \in Strings /\ key \in Strings /\ Clean(upgrade) /\ Clean(key) /\ Clean(<<>>)
    BY OneTokenIsClean, HeadingIsClean, StringAlgebra
  <2>3. zero \in SUBSET (0 .. 2)
    OBVIOUS
  <2>4. h = [NoHeaders EXCEPT !.length = zero, !.kept[3] = upgrade, !.kept[5] = key]
    OBVIOUS
  <2> HIDE DEF h, k, zero
  <2>5. h \in HeadsSet /\ h.length = zero /\ h.kept = [k EXCEPT ![3] = upgrade, ![5] = key]
    BY <2>2, <2>3, <2>4, NoHeadersAre DEF HeadsSet, k
  <2>6. \A i \in 1 .. 6 : h.kept[i] = IF i = 3 THEN upgrade ELSE IF i = 5 THEN key ELSE <<>>
    BY <2>1, <2>5
  <2>7. \A i \in 1 .. 6 : Clean(h.kept[i])
    BY <2>2, <2>6
  <2> QED
    BY <2>5, <2>7 DEF zero
<1>3. method \in Tokens /\ "/" \in Tokens /\ version \in Tokens
      /\ method \notin {"CR", "SP"} /\ version # "CR" /\ "/" # "CR" /\ "/" # "SP"
  BY DEF Tokens
<1>4. /\ NoCR(<<method>>) /\ NoCR(<<"/">>) /\ NoCR(<<version>>)
      /\ OneWord(<<method>>) /\ OneWord(<<"/">>)
  BY <1>3, PlainTokens
<1>5. /\ start \in Seq(Strings) /\ Len(start) = 3 /\ start[1] = <<method>>
      /\ start[2] = <<"/">> /\ start[3] = <<version>>
  <2> DEFINE p == <<method>>
             q == <<"/">>
             r == <<version>>
  <2>1. p \in Strings /\ q \in Strings /\ r \in Strings /\ start = <<p, q, r>>
    BY <1>4 DEF NoCR
  <2> HIDE DEF p, q, r, start
  <2>2. start \in Seq(Strings) /\ Len(start) = 3 /\ start[1] = p /\ start[2] = q /\ start[3] = r
    BY <2>1
  <2> QED
    BY <2>2 DEF p, q, r
<1>6. <<>> \in Strings
  BY StringAlgebra
<1> HIDE DEF h, start
<1>7. /\ m.start = start /\ m.headers = h /\ m.body = <<>>
      /\ m \in [start : Seq(Strings), headers : HeadsSet, body : Strings]
  BY <1>1, <1>2, <1>5, <1>6
<1> HIDE DEF m
<1>8. IsLine(StartOf(m) \o CRLF, Len(StartOf(m)))
  <2>1. NoCR(m.start[1]) /\ NoCR(m.start[2]) /\ NoCR(m.start[3])
    BY ONLY <1>4, <1>5, <1>7
  <2> QED
    BY ONLY <2>1, PlainStart
<1>9. WellFormed(m)
  <2>1. Len(m.start) = 3 /\ OneWord(m.start[1]) /\ OneWord(m.start[2])
    BY ONLY <1>4, <1>5, <1>7
  <2>2. m.headers.length = {0} /\ \A i \in 1 .. 6 : Clean(m.headers.kept[i])
    BY ONLY <1>2, <1>7
  <2>3. \E n \in 0 .. 2 : m.headers.length = {n}
    BY <2>2
  <2> QED
    BY ONLY <1>7, <1>8, <2>1, <2>2, <2>3, Zenon DEF WellFormed
<1> QED
  BY <1>2, <1>5, <1>7, <1>9 DEF UpgradeSays, m

LEMMA RequestsAreReadable ==
    ASSUME NEW m \in Requests
    PROVE  WellFormed(m) /\ Sized("request", FALSE, m)
<1>1. \E method \in {"GET", "POST"} : UpgradeSays(m, method)
  <2>1. \E method \in {"GET", "POST"}, version \in {"HTTP/1.0", "HTTP/1.1"},
           upgrade \in {<<>>, <<"websocket">>}, key \in {<<>>, <<"key">>} :
           m = Upgrade(method, version, upgrade, key)
    BY DEF Requests
  <2> QED
    BY <2>1, UpgradeIs
<1>2. WellFormed(m) /\ m.headers.length = {0} /\ m.body = <<>>
  BY <1>1 DEF UpgradeSays
<1>3. Len(m.body) = 0
  BY <1>2
<1>4. Sized("request", FALSE, m)
  BY <1>2, <1>3 DEF Sized, BodyLength, BadStatus
<1> QED
  BY <1>2, <1>4

(* A stream that is a request.                                             *)
LEMMA RequestCloses ==
    ASSUME NEW x \in Requests
    PROVE  Text(x) \in Strings /\ Len(Text(x)) \in Nat /\ ClosesAt(Text(x), Len(Text(x)), Text(x))
<1> DEFINE s == Text(x)
<1>1. s \in Strings
  BY RequestsAreReadable, LayoutExists
<1> HIDE DEF s
<1>2. Len(s) \in Nat /\ Len(s) - Len(s) = 0 /\ Len(s) \in Int
  BY <1>1 DEF Strings
<1>3. \A i \in 1 .. Len(s) : 0 + i = i
  OBVIOUS
<1>4. ClosesAt(s, Len(s), s)
  BY <1>2, <1>3 DEF ClosesAt, Piece
<1> QED
  BY <1>1, <1>2, <1>4 DEF s

LEMMA NoPiece ==
    ASSUME NEW s \in Strings, NEW q \in Nat, q <= Len(s)
    PROVE  Piece(s, q, <<>>) /\ <<>> \in Strings /\ Len(<<>>) = 0
<1> DEFINE w == <<>>
<1>1. w \in Strings /\ Len(w) = 0 /\ \A i \in 1 .. 0 : FALSE
  BY StringAlgebra
<1> HIDE DEF w
<1>2. q + 0 <= Len(s)
  BY DEF Strings
<1>3. Piece(s, q, w)
  BY <1>1, <1>2 DEF Piece
<1> QED
  BY <1>1, <1>3 DEF w

(* The handshake: before the request, after it, and when it is refused.    *)
Asked ==
    \E x \in Requests : \E o \in Nat :
        /\ Reads(handshake_reader, "request", FALSE)
        /\ Expecting(handshake_reader, x, Len(Text(x)), o)
        /\ inbound \in Strings /\ wire \in Strings
        /\ Piece(Text(x), o, inbound) /\ Piece(Text(x), o + Len(inbound), wire)
        /\ o + Len(inbound) + Len(wire) = Len(Text(x))

Shaking ==
    /\ ~handshake_complete /\ ws_sent = <<>> /\ reader = {} /\ messages = <<>>
    /\ message = Cleared /\ message_in_progress = FALSE
    /\ \/ inbound = <<>> /\ wire = <<>> /\ error = FALSE /\ handshake_reader = Reader("request", FALSE)
       \/ Asked /\ error = FALSE
       \/ inbound = <<>> /\ wire = <<>> /\ handshake_reader.finished

(* The request is made at the start, and only then.                        *)
LEMMA RequestIsMade ==
    ASSUME NEW x \in Requests, Shaking, Request(x)
    PROVE  Shaking'
<1> DEFINE s == Text(x)
           n == Len(s)
           r == Reader("request", FALSE)
<1>1. /\ handshake_reader = r /\ wire = <<>> /\ inbound = <<>> /\ wire' = s /\ inbound' = inbound
      /\ handshake_reader' = handshake_reader /\ handshake_complete' = handshake_complete
      /\ ws_sent' = ws_sent /\ reader' = reader /\ messages' = messages /\ message' = message
      /\ message_in_progress' = message_in_progress /\ error' = error
  <2> HIDE DEF s, r
  <2>1. Request(x) /\ s = Text(x) /\ r = Reader("request", FALSE)
    BY DEF s, r
  <2> QED
    BY <2>1 DEF Request, server_ws_vars
<1>2. s \in Strings /\ n \in Nat /\ ClosesAt(s, n, s) /\ WellFormed(x)
  BY RequestCloses, RequestsAreReadable
<1>3. error = FALSE
  <2>1. CASE Asked
    BY <2>1 DEF Shaking, Asked, Reads
  <2>2. CASE handshake_reader.finished
    <3>1. ~r.finished
      BY <1>2, ReaderBegins DEF Reads
    <3> QED
      BY <1>1, <2>2, <3>1
  <2> QED
    BY <2>1, <2>2 DEF Shaking
<1>4. Reads(r, "request", FALSE) /\ Expecting(r, x, n, 0)
  <2>1. n - n = 0
    BY <1>2
  <2>2. Reads(r, "request", FALSE) /\ Expecting(r, x, n, n - n)
    BY <1>2, ReaderBegins
  <2> HIDE DEF n
  <2> QED
    BY <2>1, <2>2
<1>5. Piece(s, 0, <<>>) /\ Piece(s, 0 + 0, s) /\ 0 + 0 + n = n /\ Len(<<>>) = 0 /\ <<>> \in Strings
  <2>1. Piece(s, 0, s)
    <3> HIDE DEF s
    <3>1. Piece(s, n - n, s) /\ n - n = 0
      BY <1>2 DEF ClosesAt, n
    <3> QED
      BY <3>1
  <2>2. Piece(s, 0, <<>>) /\ <<>> \in Strings /\ Len(<<>>) = 0
    BY <1>2, NoPiece
  <2>3. 0 + 0 = 0 /\ 0 + 0 + n = n
    BY <1>2
  <2> QED
    BY <2>1, <2>2, <2>3
<1>6. \E y \in Requests : \E o \in Nat :
          /\ Reads(r, "request", FALSE) /\ Expecting(r, y, Len(Text(y)), o)
          /\ <<>> \in Strings /\ s \in Strings
          /\ Piece(Text(y), o, <<>>) /\ Piece(Text(y), o + Len(<<>>), s)
          /\ o + Len(<<>>) + Len(s) = Len(Text(y))
  <2> DEFINE zero == 0
             empty == <<>>
  <2>1. zero \in Nat /\ Expecting(r, x, Len(Text(x)), zero) /\ empty \in Strings
        /\ Piece(Text(x), zero, empty) /\ Piece(Text(x), zero + Len(empty), s)
        /\ zero + Len(empty) + Len(s) = Len(Text(x))
    BY <1>4, <1>5
  <2> HIDE DEF zero, empty, s, r
  <2>2. \E y \in Requests : \E o \in Nat :
          /\ Reads(r, "request", FALSE) /\ Expecting(r, y, Len(Text(y)), o)
          /\ empty \in Strings /\ s \in Strings
          /\ Piece(Text(y), o, empty) /\ Piece(Text(y), o + Len(empty), s)
          /\ o + Len(empty) + Len(s) = Len(Text(y))
    BY <2>1, <1>2, <1>4
  <2> QED
    BY <2>2 DEF empty
<1> HIDE DEF r, s
<1>7. Asked'
  BY <1>1, <1>6 DEF Asked
<1> QED
  BY <1>1, <1>3, <1>7 DEF Shaking

(* A piece of it arrives.                                                  *)
LEMMA RequestArrives ==
    ASSUME NEW n \in Nat, n \in 1 .. Len(wire), Shaking, Arrive(n)
    PROVE  Shaking'
<1>1. /\ inbound = <<>> /\ inbound' = Upto(wire, n) /\ wire' = From(wire, n + 1)
      /\ ws_sent' = ws_sent /\ reader' = reader /\ messages' = messages /\ message' = message
      /\ message_in_progress' = message_in_progress /\ error' = error
      /\ handshake_complete' = handshake_complete /\ handshake_reader' = handshake_reader
  BY DEF Arrive, server_ws_vars
<1>2. wire # <<>>
  <2>1. wire = <<>> => Len(wire) = 0
    OBVIOUS
  <2> QED
    BY <2>1
<1>3. Asked /\ error = FALSE
  BY <1>2 DEF Shaking
<1>4. PICK x \in Requests, o \in Nat :
        /\ Reads(handshake_reader, "request", FALSE)
        /\ Expecting(handshake_reader, x, Len(Text(x)), o)
        /\ inbound \in Strings /\ wire \in Strings
        /\ Piece(Text(x), o, inbound) /\ Piece(Text(x), o + Len(inbound), wire)
        /\ o + Len(inbound) + Len(wire) = Len(Text(x))
  BY <1>3 DEF Asked
<1> DEFINE s == Text(x)
           u == Upto(wire, n)
           v == From(wire, n + 1)
<1>5. s \in Strings /\ Len(inbound) = 0 /\ Len(wire) \in Nat
  BY <1>1, <1>4, RequestCloses DEF Strings
<1>6. Piece(s, o, wire) /\ o + Len(wire) = Len(s)
  <2>1. o + Len(inbound) = o
    BY <1>5
  <2> HIDE DEF s
  <2> QED
    BY <2>1, <1>4 DEF s
<1> HIDE DEF s, u, v
<1>7. /\ u \in Strings /\ v \in Strings /\ Len(u) = n /\ Len(v) = Len(wire) - n
      /\ Piece(s, o, u) /\ Piece(s, o + n, v)
  <2>1. n \in 0 .. Len(wire)
    BY <1>5
  <2> QED
    BY <2>1, <1>4, <1>5, <1>6, PiecesOf DEF u, v
<1>8. o + Len(u) + Len(v) = Len(s) /\ Piece(s, o + Len(u), v)
  BY <1>5, <1>6, <1>7
<1>9. Asked'
  <2>1. Reads(handshake_reader', "request", FALSE) /\ Expecting(handshake_reader', x, Len(Text(x)), o)
        /\ inbound' \in Strings /\ wire' \in Strings
        /\ Piece(Text(x), o, inbound') /\ Piece(Text(x), o + Len(inbound'), wire')
        /\ o + Len(inbound') + Len(wire') = Len(Text(x))
    BY <1>1, <1>4, <1>7, <1>8 DEF s, u, v
  <2> QED
    BY <2>1 DEF Asked
<1> QED
  BY <1>1, <1>3, <1>9 DEF Shaking

(* The server reads what has arrived of the request, and answers it.       *)
LEMMA RequestIsRead ==
    ASSUME Shaking, do_handshake
    PROVE  Shaking' \/ Conversing'
<1>1. /\ inbound # <<>> /\ wire' = wire /\ ws_sent' = ws_sent /\ reader' = reader
      /\ messages' = messages /\ message' = message /\ message_in_progress' = message_in_progress
  BY DEF do_handshake
<1>2. Asked /\ error = FALSE
  BY <1>1 DEF Shaking
<1>3. PICK x \in Requests, o \in Nat :
        /\ Reads(handshake_reader, "request", FALSE)
        /\ Expecting(handshake_reader, x, Len(Text(x)), o)
        /\ inbound \in Strings /\ wire \in Strings
        /\ Piece(Text(x), o, inbound) /\ Piece(Text(x), o + Len(inbound), wire)
        /\ o + Len(inbound) + Len(wire) = Len(Text(x))
  BY <1>2 DEF Asked
<1> DEFINE s == Text(x)
           e == Len(s)
           end == o + Len(inbound)
           got == Read(handshake_reader, inbound)
<1>4. /\ inbound' = got.rest /\ handshake_reader' = got.reader
      /\ handshake_complete' = (got.reader.finished /\ accepts(Message(got.reader)))
      /\ error' = (error \/ (got.reader.finished /\ ~accepts(Message(got.reader))))
  BY DEF do_handshake
<1>5. s \in Strings /\ e \in Nat /\ ClosesAt(s, e, s) /\ WellFormed(x) /\ Sized("request", FALSE, x)
  BY RequestCloses, RequestsAreReadable
<1>6. ReadEnds(got, "request", FALSE, x, s, e, end)
  BY <1>1, <1>3, <1>5, ReadGoesOn
<1>7. Len(inbound) \in Nat /\ Len(wire) \in Nat /\ end \in Nat /\ end + Len(wire) = e /\ end <= e
  BY <1>3, <1>5 DEF Strings
<1> HIDE DEF got, end, e, s
<1>8. CASE Reads(got.reader, "request", FALSE) /\ got.rest = <<>> /\ Expecting(got.reader, x, e, end)
  <2>1. ~got.reader.finished
    BY <1>8 DEF Reads
  <2>2. handshake_complete' = FALSE /\ error' = FALSE /\ inbound' = <<>>
    BY <2>1, <1>2, <1>4, <1>8
  <2>3. Piece(s, end, inbound') /\ inbound' \in Strings /\ Len(inbound') = 0
    BY <2>2, <1>5, <1>7, NoPiece DEF e
  <2>4. Piece(s, end, wire)
    BY <1>3 DEF s, end
  <2>5. end + 0 = end
    BY <1>7
  <2>6. Asked'
    <3>1. /\ Reads(handshake_reader', "request", FALSE)
          /\ Expecting(handshake_reader', x, Len(Text(x)), end)
          /\ inbound' \in Strings /\ wire' \in Strings
          /\ Piece(Text(x), end, inbound') /\ Piece(Text(x), end + Len(inbound'), wire')
          /\ end + Len(inbound') + Len(wire') = Len(Text(x))
      BY <2>3, <2>4, <2>5, <1>1, <1>3, <1>4, <1>7, <1>8 DEF e, s
    <3> QED
      BY <3>1, <1>7 DEF Asked
  <2> QED
    BY <2>2, <2>6, <1>1 DEF Shaking
<1>9. CASE got.reader.finished /\ Message(got.reader) = x /\ end - Len(got.rest) = e /\ got.rest \in Strings
  <2>1. Len(got.rest) \in Nat
    BY <1>9 DEF Strings
  <2>2. Len(got.rest) = 0 /\ Len(wire) = 0
    <3> DEFINE a == Len(got.rest)
               b == Len(wire)
    <3>1. a \in Nat /\ b \in Nat /\ end \in Nat /\ e \in Nat /\ end - a = e /\ end + b = e
      BY <2>1, <1>5, <1>7, <1>9
    <3> HIDE DEF a, b
    <3>2. a = 0 /\ b = 0
      BY ONLY <3>1
    <3> QED
      BY <3>2 DEF a, b
  <2>3. got.rest = <<>> /\ wire = <<>>
    BY <2>2, <1>3, <1>9, EmptySeq DEF Strings
  <2>4. inbound' = <<>> /\ wire' = <<>> /\ handshake_reader'.finished
    BY <2>3, <1>1, <1>4, <1>9
  <2>5. CASE ~accepts(x)
    BY <2>4, <2>5, <1>1, <1>4, <1>9 DEF Shaking
  <2>6. CASE accepts(x)
    <3> DEFINE c == [i \in 0 .. 0 |-> Nothing]
               m == [i \in 0 .. 0 |-> 0]
               none == <<>>
    <3>1. Sent(none, c, m, none)
      BY NoneSent
    <3>2. c[0] = Nothing /\ m[0] = 0 /\ 0 \in 0 .. 0
      OBVIOUS
    <3> HIDE DEF c, m
    <3>3. none \in Seq(WsBytes) /\ Len(none) = 0
      OBVIOUS
    <3>4. IsStretch(none, 0, none)
      <4> DEFINE empty == none
      <4>1. empty \in Seq(WsBytes) /\ 0 \in Nat /\ 0 <= Len(empty)
        BY <3>3
      <4> HIDE DEF empty
      <4>2. IsStretch(empty, 0, <<>>)
        BY ONLY <4>1, NothingComes
      <4> QED
        BY <4>2 DEF empty
    <3>5. Placed(none, m, none, 0, 0, none, none, {})
      <4> HIDE DEF none
      <4>1. 0 + 0 = 0 /\ 0 + 0 + 0 = 0 /\ 0 + 0 + 0 + 0 = 0
        OBVIOUS
      <4> QED
        BY <4>1, <3>2, <3>3, <3>4 DEF Placed
    <3>6. Said(c[0], none, Cleared, FALSE)
      <4>1. <<>> \in Payloads
        BY DEF Payloads
      <4>2. Cleared \in SentFrames
        BY <4>1 DEF Cleared, Frame, SentFrames
      <4> QED
        BY <4>2, <3>2, NothingIsSaid DEF Said, NothingYet
    <3>7. /\ ws_sent' = none /\ inbound' = none /\ wire' = none /\ reader' = {}
          /\ messages' = none /\ message' = Cleared /\ message_in_progress' = FALSE
      BY <2>4, <1>1 DEF Shaking
    <3> HIDE DEF none
    <3>8. \E c2, e2, s2, d, k : /\ Sent(ws_sent', c2, e2, s2)
                           /\ Placed(ws_sent', e2, s2, d, k, inbound', wire', reader')
                           /\ Said(c2[d], messages', message', message_in_progress')
      BY <3>1, <3>5, <3>6, <3>7
    <3>9. handshake_complete' /\ handshake_reader'.finished /\ ~error'
      BY <2>4, <2>6, <1>2, <1>4, <1>9
    <3> QED
      BY <3>8, <3>9 DEF Conversing
  <2> QED
    BY <2>5, <2>6
<1> QED
  BY <1>6, <1>8, <1>9 DEF ReadEnds

WsIInv == Shaking \/ Conversing

LEMMA WsBegins == WsInit => WsIInv
  BY DEF WsInit, WsIInv, Shaking

LEMMA WsStays ==
    ASSUME UNCHANGED ws_vars
    PROVE  (Shaking => Shaking') /\ (Conversing => Conversing')
<1>1. /\ handshake_reader' = handshake_reader /\ handshake_complete' = handshake_complete
      /\ error' = error /\ reader' = reader /\ message' = message
      /\ message_in_progress' = message_in_progress /\ messages' = messages
      /\ inbound' = inbound /\ ws_sent' = ws_sent /\ wire' = wire
  BY DEF ws_vars, server_ws_vars
<1>2. Asked' <=> Asked
  BY <1>1 DEF Asked
<1>3. Shaking => Shaking'
  BY <1>1, <1>2 DEF Shaking
<1>4. ASSUME Conversing PROVE Conversing'
  <2>1. PICK c, e, s, d, k : /\ Sent(ws_sent, c, e, s)
                             /\ Placed(ws_sent, e, s, d, k, inbound, wire, reader)
                             /\ Said(c[d], messages, message, message_in_progress)
    BY <1>4 DEF Conversing
  <2>2. /\ Sent(ws_sent', c, e, s)
        /\ Placed(ws_sent', e, s, d, k, inbound', wire', reader')
        /\ Said(c[d], messages', message', message_in_progress')
    BY <1>1, <2>1
  <2> QED
    BY <1>1, <1>4, <2>2 DEF Conversing
<1> QED
  BY <1>3, <1>4

LEMMA WsGoesOn == WsIInv /\ [WsNext]_ws_vars => WsIInv'
<1> SUFFICES ASSUME WsIInv, [WsNext]_ws_vars PROVE WsIInv'
  OBVIOUS
<1>1. CASE Shaking
  <2>1. ~handshake_complete
    BY <1>1 DEF Shaking
  <2>2. ASSUME NEW x \in Requests, Request(x) PROVE Shaking'
    BY <1>1, <2>2, RequestIsMade
  <2>3. ASSUME NEW n \in (Pieces \cup {Len(wire)}) \cap 1 .. Len(wire), Arrive(n) PROVE Shaking'
    BY <1>1, <2>3, RequestArrives
  <2>4. ASSUME do_handshake PROVE Shaking' \/ Conversing'
    BY <1>1, <2>4, RequestIsRead
  <2>5. ASSUME NEW frame, Send(frame) PROVE FALSE
    BY <2>1, <2>5 DEF Send
  <2>6. ASSUME NEW free, read(free) PROVE FALSE
    BY <2>1, <2>6 DEF read
  <2>7. CASE UNCHANGED ws_vars
    BY <1>1, <2>7, WsStays DEF WsIInv
  <2> QED
    BY <2>2, <2>3, <2>4, <2>5, <2>6, <2>7 DEF WsNext, WsIInv
<1>2. CASE Conversing
  <2>1. handshake_complete /\ handshake_reader.finished
    BY <1>2 DEF Conversing
  <2>2. ASSUME NEW x \in Requests, Request(x) PROVE FALSE
    <3>1. handshake_reader = Reader("request", FALSE)
      BY <2>2 DEF Request
    <3>2. WellFormed(x) /\ Text(x) \in Strings /\ ClosesAt(Text(x), Len(Text(x)), Text(x))
      BY RequestsAreReadable, RequestCloses
    <3>3. Reads(Reader("request", FALSE), "request", FALSE)
      BY <3>2, ReaderBegins
    <3> QED
      BY <2>1, <3>1, <3>3 DEF Reads
  <2>3. ASSUME NEW n \in (Pieces \cup {Len(wire)}) \cap 1 .. Len(wire), Arrive(n) PROVE Conversing'
    BY <1>2, <2>3, FramesArrive
  <2>4. ASSUME do_handshake PROVE FALSE
    BY <2>1, <2>4 DEF do_handshake
  <2>5. ASSUME NEW opcode \in {"Text", "Continuation", "Ping", "Pong", "Close"}, NEW fin \in BOOLEAN,
               NEW n \in PayloadLengths,
               Send(Frame(opcode, fin, [i \in 1 .. n |-> <<Len(ws_sent) + 1, i>>]))
        PROVE  Conversing'
    BY <1>2, <2>5, FrameIsSent
  <2>6. ASSUME NEW free \in BOOLEAN, read(free) PROVE Conversing'
    BY <1>2, <2>6, FramesAreReadOn
  <2>7. CASE UNCHANGED ws_vars
    BY <1>2, <2>7, WsStays DEF WsIInv
  <2> QED
    BY <2>2, <2>3, <2>4, <2>5, <2>6, <2>7 DEF WsNext, WsIInv
<1> QED
  BY <1>1, <1>2 DEF WsIInv

(* What the parts of a sequence with a common beginning are.               *)
LEMMA PrefixedIsPrefix ==
    ASSUME NEW S, NEW x \in Seq(S), NEW y \in Seq(S), Prefixed(x, y)
    PROVE  IsPrefix(x, y)
<1> DEFINE n == Len(x)
           a == Upto(x, n)
           b == Upto(y, n)
<1>1. n \in 0 .. Len(x) /\ n \in 0 .. Len(y) /\ n <= Len(y) /\ \A i \in 1 .. n : x[i] = y[i]
  BY DEF Prefixed
<1>2. /\ a \in Seq(S) /\ b \in Seq(S) /\ Len(a) = n /\ Len(b) = n
      /\ \A i \in 1 .. n : a[i] = x[i] /\ b[i] = y[i]
  BY <1>1, Cuts
<1> HIDE DEF a, b
<1>3. \A i \in 1 .. n : a[i] = b[i]
  BY <1>1, <1>2
<1>4. a = b
  BY <1>2, <1>3, SeqEqual
<1> QED
  BY <1>1, <1>4 DEF IsPrefix, a, b, Upto

LEMMA WsInvariantSuffices == WsIInv => FramesAreRead
<1> SUFFICES ASSUME WsIInv, handshake_complete
             PROVE  /\ ~error
                    /\ IsPrefix(messages, MessagesOf(ws_sent))
                    /\ wire = <<>> /\ inbound = <<>> =>
                          \/ messages = MessagesOf(ws_sent) /\ reader = {}
                          \/ Last(ws_sent).payload = <<>> /\ messages = MessagesOf(Front(ws_sent))
  BY DEF FramesAreRead
<1>1. Conversing
  BY DEF WsIInv, Shaking
<1>2. PICK c, e, s, d, k : /\ Sent(ws_sent, c, e, s)
                           /\ Placed(ws_sent, e, s, d, k, inbound, wire, reader)
                           /\ Said(c[d], messages, message, message_in_progress)
  BY <1>1 DEF Conversing
<1> DEFINE n == Len(ws_sent)
<1>3. /\ d \in 0 .. n /\ k \in Nat
      /\ e[d] + k + Len(inbound) + Len(wire) = Len(s)
      /\ \/ reader = {} /\ k = 0
         \/ d < n /\ CanWait(ws_sent[d + 1], k)
  BY <1>2 DEF Placed
<1>4. /\ n \in Nat /\ c[d] \in Accounts /\ e[d] \in Nat /\ Len(s) \in Nat
      /\ e[n] = Len(s) /\ ws_sent \in Seq(SentFrames) /\ Counts(c, ws_sent)
      /\ c[n] \in Accounts /\ Prefixed(c[d].done, c[n].done) /\ (d < n => e[d] < Len(s))
  <2>1. n \in Nat /\ c[d] \in Accounts /\ e[d] \in Nat /\ Len(s) \in Nat /\ e[n] = Len(s)
    BY <1>2, <1>3, NextFrame
  <2>2. n \in 0 .. n
    BY <2>1
  <2>3. c[n] \in Accounts
    BY <2>2, <1>2, NextFrame
  <2>4. /\ ws_sent \in Seq(SentFrames) /\ Counts(c, ws_sent)
        /\ Prefixed(c[d].done, c[n].done) /\ (d < n => e[d] < Len(s))
    BY <1>2, <1>3 DEF Sent
  <2> QED
    BY <2>1, <2>3, <2>4
<1>5. messages = c[d].done
  BY <1>2 DEF Said
<1>6. MessagesOf(ws_sent) = c[n].done
  BY <1>4, CountsAre DEF MessagesOf
<1>7. IsPrefix(messages, MessagesOf(ws_sent))
  <2>1. c[d].done \in Seq(Payloads) /\ c[n].done \in Seq(Payloads)
    BY <1>4 DEF Accounts
  <2> QED
    BY <2>1, <1>4, <1>5, <1>6, PrefixedIsPrefix
<1>8. ASSUME wire = <<>>, inbound = <<>>
      PROVE  \/ messages = MessagesOf(ws_sent) /\ reader = {}
             \/ Last(ws_sent).payload = <<>> /\ messages = MessagesOf(Front(ws_sent))
  <2> HIDE DEF n
  <2>1. e[d] + k = Len(s)
    <3>1. Len(wire) = 0 /\ Len(inbound) = 0
      BY <1>8
    <3> QED
      BY <3>1, <1>3, <1>4
  <2>2. CASE d = n
    <3>1. reader = {}
      BY <2>2, <1>3, <1>4
    <3> QED
      BY <3>1, <2>2, <1>5, <1>6
  <2>3. CASE d # n
    <3> DEFINE f == ws_sent[d + 1]
    <3>1. d < n /\ d + 1 \in 1 .. n
      BY <2>3, <1>3, <1>4
    <3>2. k # 0
      BY <2>1, <3>1, <1>3, <1>4
    <3>3. CanWait(f, k)
      BY <3>2, <1>3
    <3>4. /\ f \in SentFrames /\ e[d + 1] = e[d] + FrameSize(f) /\ FrameSize(f) \in Nat
          /\ e[d + 1] <= Len(s) /\ (d + 1 < n => e[d + 1] < Len(s))
      <4>1. d \in 0 .. Len(ws_sent) /\ d < Len(ws_sent) /\ Sent(ws_sent, c, e, s)
        BY <3>1, <1>2, <1>3 DEF n
      <4>2. f \in SentFrames /\ e[d + 1] = e[d] + FrameSize(f) /\ FrameSize(f) \in Nat
        BY ONLY <4>1, NextFrame
      <4>3. e[d + 1] <= Len(s) /\ (d + 1 < Len(ws_sent) => e[d + 1] < Len(s))
        BY ONLY <4>1, NextFrame
      <4> QED
        BY <4>2, <4>3 DEF n
    <3> HIDE DEF f
    <3>5. k <= FrameSize(f) /\ (k = FrameSize(f) => Len(f.payload) = 0)
      BY <3>3 DEF CanWait
    <3>6. k = FrameSize(f) /\ d + 1 = n
      <4> DEFINE p == e[d]
                 q == e[d + 1]
                 t == FrameSize(f)
                 x == Len(s)
      <4>1. /\ p \in Nat /\ k \in Nat /\ t \in Nat /\ x \in Nat /\ p + k = x /\ q = p + t
            /\ q <= x /\ (d + 1 < n => q < x) /\ k <= t /\ d \in Nat /\ n \in Nat /\ d < n
        BY <2>1, <3>1, <3>4, <3>5, <1>3, <1>4
      <4> HIDE DEF p, q, t, x
      <4>2. k = t /\ d + 1 = n
        BY ONLY <4>1
      <4> QED
        BY <4>2 DEF t
    <3>7. f.payload = <<>>
      BY <3>4, <3>5, <3>6, EmptySeq DEF SentFrames, Payloads
    <3>8. Last(ws_sent) = f
      BY <3>6 DEF Last, f, n
    <3>9. messages = MessagesOf(Front(ws_sent))
      <4>1. ws_sent # <<>>
        <5>1. ws_sent = <<>> => Len(ws_sent) = 0
          OBVIOUS
        <5> QED
          BY <5>1, <3>1 DEF n
      <4>2. n - 1 = d
        BY <3>6, <1>3
      <4>3. Recount(Front(ws_sent)) = c[Len(ws_sent) - 1]
        BY <4>1, <1>4, CountsOfFront
      <4> QED
        BY <4>2, <4>3, <1>5 DEF MessagesOf, n
    <3> QED
      BY <3>7, <3>8, <3>9
  <2> QED
    BY <2>2, <2>3
<1>9. ~error
  BY <1>1 DEF Conversing
<1> QED
  BY <1>7, <1>8, <1>9

(* However its bytes are cut, a viewer's messages are read whole, in order *)
(* and without error (http/ws_frame.cc, ws_server.cc), and what has        *)
(* arrived has been read but for a last frame without payload, for any     *)
(* number of frames of any lengths and any boundaries between the three    *)
(* forms of a length.                                                      *)
THEOREM FramesReadWhole == WsSpec => []FramesAreRead
<1>1. WsInit => WsIInv
  BY WsBegins
<1>2. WsIInv /\ [WsNext]_ws_vars => WsIInv'
  BY WsGoesOn
<1>3. WsIInv => FramesAreRead
  BY WsInvariantSuffices
<1> QED
  BY <1>1, <1>2, <1>3, PTL DEF WsSpec
------------------------------------------------------------------------------
(* A behaviour that TLC explores for parts has the steps of one part and   *)
(* no other, so it is a behaviour of each part's own specification; what   *)
(* is proved of these, here, in MediaProofs and in SessionProofs, is so of *)
(* the run, with its constants or any others.                              *)
THEOREM PartsRunParts ==
    PartsSpec => /\ Spec /\ LoopSpec /\ HttpSpec /\ WsSpec
                 /\ ViewerSpec /\ ControlSpec /\ RingsSpec
<1>1. PartsInit => Init /\ LoopInit /\ HttpInit /\ WsInit /\ ViewerInit /\ ControlInit /\ RingsInit
  BY DEF PartsInit
<1>2. [PartsNext]_part_vars =>
          /\ [Next]_mix_vars /\ [LoopNext]_loop_vars /\ [HttpNext]_http_vars /\ [WsNext]_ws_vars
          /\ [ViewerNext]_viewer_vars /\ [ControlNext]_control_vars /\ [RingsNext]_rings_vars
  <2>1. UNCHANGED part_vars =>
            /\ UNCHANGED mix_vars /\ UNCHANGED loop_vars /\ UNCHANGED http_vars /\ UNCHANGED ws_vars
            /\ UNCHANGED viewer_vars /\ UNCHANGED control_vars /\ UNCHANGED rings_vars
    BY DEF part_vars
  <2>2. PartsNext =>
            /\ [Next]_mix_vars /\ [LoopNext]_loop_vars /\ [HttpNext]_http_vars /\ [WsNext]_ws_vars
            /\ [ViewerNext]_viewer_vars /\ [ControlNext]_control_vars /\ [RingsNext]_rings_vars
    BY Zenon DEF PartsNext
  <2> QED
    BY <2>1, <2>2
<1> QED
  BY <1>1, <1>2, PTL DEF PartsSpec, Spec, LoopSpec, HttpSpec, WsSpec, ViewerSpec, ControlSpec,
                         RingsSpec
==============================================================================
