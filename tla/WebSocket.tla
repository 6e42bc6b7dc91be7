----------------------------- MODULE WebSocket ------------------------------
(***************************************************************************)
(* A viewer's WebSocket as the server sees it (http/ws_server.cc,          *)
(* ws_frame.cc): the HTTP handshake, then frames, which arrive in pieces   *)
(* cut anywhere, with their reassembly into messages.                      *)
(*                                                                         *)
(* The viewer is external: it waits for the answer to its request, masks   *)
(* its frames, writes lengths in their shortest form, keeps the rules of   *)
(* fragmentation and of short control frames, sends nothing after a Close.  *)
(*                                                                         *)
(* Lengths up to SmallMax fit in the second byte of a frame, up to         *)
(* Len16Max in two more bytes (125 and 65535 in the code).  A byte is a    *)
(* record that says what the reader makes of it.                           *)
(***************************************************************************)
EXTENDS HttpReader

CONSTANTS SmallMax, Len16Max,
          PayloadLengths,  \* of the viewer's frames
          Pieces,          \* lengths of pieces, beside all that is on its way
          WsFrames         \* how many frames the viewer sends

ASSUME WsConstants ==
    /\ SmallMax \in Nat /\ Len16Max \in Nat /\ SmallMax < Len16Max
    /\ PayloadLengths \subseteq Nat /\ WsFrames \in Nat

VARIABLES
    inbound,             \* SSLSession: inbound_plaintext_
    handshake_reader,    \* WebSocketServer, with the next two
    handshake_complete,
    error,               \* error_ of the server or of its endpoint
    closed,              \* WebSocketEndpoint, with the next four
    reader,              \* a set of at most one
    message, message_in_progress,
    messages,            \* what parse_message was given: a history variable
    replies,             \* what was written into outbound_plaintext_
    ws_sent,             \* the frames the viewer has sent: a history variable
    wire                 \* bytes on their way

server_ws_vars == <<handshake_reader, handshake_complete, error, closed, reader,
                    message, message_in_progress, messages, replies>>
ws_vars == <<server_ws_vars, inbound, ws_sent, wire>>

Opcodes == {"Continuation", "Text", "Binary", "Close", "Ping", "Pong"}
Frame(opcode, fin, payload) ==
    [opcode |-> opcode, fin |-> fin, masked |-> FALSE, payload |-> payload]
Cleared == Frame("Continuation", FALSE, <<>>)

------------------------------------------------------------------------------
(* WebSocketFrame::serialize.  A byte under the mask is marked as such.    *)
Bytes(frame) ==
    LET n == Len(frame.payload)
        length == IF n <= SmallMax THEN <<>>
                  ELSE [i \in 1 .. IF n <= Len16Max THEN 2 ELSE 8 |-> [value |-> n]]
        sigil == IF n <= SmallMax THEN n ELSE IF n <= Len16Max THEN SmallMax + 1
                 ELSE SmallMax + 2 IN
    <<[fin |-> frame.fin, opcode |-> frame.opcode],
      [mask |-> frame.masked, sigil |-> sigil]>>
    \o length
    \o (IF frame.masked THEN [i \in 1 .. 4 |-> [key |-> i]] ELSE <<>>)
    \o [i \in 1 .. n |-> [under |-> frame.masked, data |-> frame.payload[i]]]

(* WebSocketFrameReader.  length, key and payload are the optional readers *)
(* of these parts: a set of at most one number of bytes, with what has     *)
(* been read.                                                              *)
FrameReader ==
    [bytes12 |-> <<>>, length |-> {}, length_read |-> <<>>, key |-> {}, key_read |-> <<>>,
     payload |-> {}, payload_read |-> <<>>, finished |-> FALSE, error |-> FALSE]

process_bytes12(r) ==
    LET sigil == r.bytes12[2].sigil IN
    IF r.bytes12[1].opcode \notin Opcodes THEN [r EXCEPT !.error = TRUE] ELSE
    [r EXCEPT !.key = IF r.bytes12[2].mask THEN {4} ELSE {},
              !.payload = IF sigil <= SmallMax THEN {sigil} ELSE {},
              !.length = IF sigil = SmallMax + 1 THEN {2}
                         ELSE IF sigil = SmallMax + 2 THEN {8} ELSE {}]

process_length(r) ==
    LET n == r.length_read[1].value IN
    IF n > (IF r.length = {2} THEN SmallMax ELSE Len16Max)
    THEN [r EXCEPT !.payload = {n}] ELSE [r EXCEPT !.error = TRUE]

(* read: each call goes on with the first part that is not finished; a     *)
(* part takes as much of the input as it wants.                            *)
Unfinished(wanted, got) == \E n \in wanted : Len(got) < n
Wants(wanted, got) == (CHOOSE n \in wanted : TRUE) - Len(got)

(* What is read in a call, and what the reader makes of its end.           *)
Taken(r, piece) ==
    IF Unfinished({2}, r.bytes12) THEN [r EXCEPT !.bytes12 = @ \o piece]
    ELSE IF Unfinished(r.length, r.length_read) THEN [r EXCEPT !.length_read = @ \o piece]
    ELSE IF Unfinished(r.key, r.key_read) THEN [r EXCEPT !.key_read = @ \o piece]
    ELSE [r EXCEPT !.payload_read = @ \o piece,
                   !.finished = ~Unfinished(r.payload, r.payload_read \o piece)]

Wanted(r) ==
    IF Unfinished({2}, r.bytes12) THEN Wants({2}, r.bytes12)
    ELSE IF Unfinished(r.length, r.length_read) THEN Wants(r.length, r.length_read)
    ELSE IF Unfinished(r.key, r.key_read) THEN Wants(r.key, r.key_read)
    ELSE Wants(r.payload, r.payload_read)

Processed(old, r) ==
    IF Unfinished({2}, old.bytes12) /\ ~Unfinished({2}, r.bytes12) THEN process_bytes12(r)
    ELSE IF Unfinished(old.length, old.length_read) /\ ~Unfinished(r.length, r.length_read)
    THEN process_length(r) ELSE r

ReadFrame(r, input, n) ==
    [reader |-> Processed(r, Taken(r, Upto(input, n))), rest |-> From(input, n + 1)]

(* complete: the payload, without its mask.                                *)
Completed(r) ==
    Frame(r.bytes12[1].opcode, r.bytes12[1].fin,
          [i \in DOMAIN r.payload_read |->
              IF r.payload_read[i].under = (r.key # {}) THEN r.payload_read[i].data
              ELSE "masked"])

(* The loop of WebSocketEndpoint::read over the reader.  A turn of it ends *)
(* one of a frame's four parts, or the input.                              *)
ReadTurn(at) ==
    IF at.reader.finished \/ at.reader.error \/ at.rest = <<>> THEN at
    ELSE ReadFrame(at.reader, at.rest, Smaller(Len(at.rest), Wanted(at.reader)))

ReadOn(at) == ReadTurn(ReadTurn(ReadTurn(ReadTurn(at))))

------------------------------------------------------------------------------
(* The requests a viewer or a visitor may make, and which of them are      *)
(* answered with 101.                                                      *)
Upgrade(method, version, upgrade, key) ==
    [start |-> <<<<method>>, <<"/">>, <<version>>>>, body |-> <<>>,
     headers |-> [NoHeaders EXCEPT !.length = {0}, !.kept[3] = upgrade, !.kept[5] = key]]
Requests == {Upgrade("GET", "HTTP/1.1", <<"websocket">>, <<"key">>),
             Upgrade("POST", "HTTP/1.1", <<"websocket">>, <<"key">>),
             Upgrade("GET", "HTTP/1.0", <<"websocket">>, <<"key">>),
             Upgrade("GET", "HTTP/1.1", <<>>, <<"key">>),
             Upgrade("GET", "HTTP/1.1", <<"websocket">>, <<>>)}

accepts(request) ==
    /\ request.start[1] = <<"GET">> /\ request.start[3] = <<"HTTP/1.1">>
    /\ request.headers.kept[3] = <<"websocket">> /\ request.headers.kept[5] # <<>>

WsInit ==
    /\ inbound = <<>> /\ wire = <<>> /\ ws_sent = <<>>
    /\ handshake_reader = Reader("request", FALSE) /\ handshake_complete = FALSE
    /\ error = FALSE /\ closed = FALSE /\ reader = {}
    /\ message = Cleared /\ message_in_progress = FALSE
    /\ messages = <<>> /\ replies = <<>>

Request(request) ==
    /\ wire = <<>> /\ inbound = <<>> /\ replies = <<>> /\ handshake_reader = Reader("request", FALSE)
    /\ wire' = Text(request)
    /\ UNCHANGED <<server_ws_vars, inbound, ws_sent>>

(* What a sequence of frames says: the messages that are done, each the    *)
(* payloads of its fragments without the control frames between them, and  *)
(* what there is of one that is open.                                      *)
Nothing == [done |-> <<>>, open |-> <<>>, going |-> FALSE]

Counted(acc, frame) ==
    LET whole == acc.open \o frame.payload IN
    IF frame.opcode \notin {"Text", "Continuation"} THEN acc
    ELSE IF frame.fin THEN [Nothing EXCEPT !.done = Append(acc.done, whole)]
    ELSE [acc EXCEPT !.open = whole, !.going = TRUE]

Recount(frames) ==
    LET after[i \in 0 .. Len(frames)] ==
            IF i = 0 THEN Nothing ELSE Counted(after[i - 1], frames[i]) IN
    after[Len(frames)]

Send(frame) ==
    /\ handshake_complete /\ Len(ws_sent) < WsFrames
    /\ \A i \in DOMAIN ws_sent : ws_sent[i].opcode # "Close"
    /\ frame.opcode = "Text" => ~Recount(ws_sent).going
    /\ frame.opcode = "Continuation" => Recount(ws_sent).going
    /\ frame.opcode \in {"Ping", "Pong", "Close"} =>
          frame.fin /\ Len(frame.payload) <= SmallMax
    /\ ws_sent' = Append(ws_sent, frame)
    /\ wire' = wire \o Bytes([frame EXCEPT !.masked = TRUE])
    /\ UNCHANGED <<server_ws_vars, inbound>>

(* SSL_read is polled only when the rules have nothing left to read.       *)
Arrive(n) ==
    /\ inbound = <<>>
    /\ inbound' = Upto(wire, n) /\ wire' = From(wire, n + 1)
    /\ UNCHANGED <<server_ws_vars, ws_sent>>

(* WebSocketServer::do_handshake, as a rule that comes before ws_receive.  *)
do_handshake ==
    /\ ~handshake_complete /\ inbound # <<>>
    /\ \E got \in {Read(handshake_reader, inbound)} :
       \E request \in {Message(got.reader)} :
       /\ inbound' = got.rest
       /\ handshake_reader' = got.reader
       /\ handshake_complete' = (got.reader.finished /\ accepts(request))
       /\ error' = (error \/ (got.reader.finished /\ ~accepts(request)))
       /\ replies' = IF ~got.reader.finished THEN replies
                     ELSE Append(replies, IF accepts(request) THEN <<"101">> ELSE <<"403">>)
    /\ UNCHANGED <<closed, reader, message, message_in_progress, messages, ws_sent, wire>>

------------------------------------------------------------------------------
(* WebSocketEndpoint::read at the end of a frame, by its opcode.  room     *)
(* says whether the outbound ring has room for an answer.                  *)
Control(frame, room) ==
    /\ frame.opcode \in {"Ping", "Pong", "Close"}
    /\ error' = ~frame.fin
    /\ closed' = (frame.fin /\ frame.opcode = "Close")
    /\ replies' = IF ~frame.fin \/ ~room \/ frame.opcode = "Pong" THEN replies
                  ELSE Append(replies, IF frame.opcode = "Ping" THEN <<"Pong", frame.payload>>
                                       ELSE <<"Close">>)
    /\ UNCHANGED <<message, message_in_progress, messages>>

X_Data(frame) ==
    /\ frame.opcode \in {"Text", "Continuation"}
    /\ LET whole == [message EXCEPT !.payload = @ \o frame.payload, !.fin = frame.fin]
           ready == frame.fin IN
       /\ error' = FALSE
       /\ messages' = IF ready THEN Append(messages, whole.payload) ELSE messages
       /\ message' = IF ready THEN [Cleared EXCEPT !.payload = whole.payload] ELSE whole
       /\ message_in_progress' = ~ready
    /\ UNCHANGED <<closed, replies>>

(* The rule parses a message once it is ready, and pops it.                *)
Data(frame) ==
    /\ frame.opcode \in {"Text", "Binary", "Continuation"}
    /\ LET first == frame.opcode # "Continuation"
           whole == IF first THEN frame
                    ELSE [message EXCEPT !.payload = @ \o frame.payload, !.fin = frame.fin]
           wrong == IF first THEN message_in_progress
                    ELSE ~message_in_progress \/ message.fin
           ready == ~wrong /\ whole.fin IN
       /\ error' = wrong
       /\ messages' = IF ready THEN Append(messages, whole.payload) ELSE messages
       /\ message' = IF wrong THEN message ELSE IF ready THEN Cleared ELSE whole
       /\ message_in_progress' = IF wrong THEN message_in_progress ELSE ~ready
    /\ UNCHANGED <<closed, replies>>

read(room) ==
    /\ handshake_complete /\ inbound # <<>> /\ ~error /\ ~closed
    /\ \E r \in IF reader = {} THEN {FrameReader} ELSE reader :
       \E got \in {ReadOn([reader |-> r, rest |-> inbound])} :
       /\ inbound' = got.rest
       /\ IF got.reader.error
          THEN /\ error' = TRUE /\ reader' = {[got.reader EXCEPT !.error = FALSE]}
               /\ UNCHANGED <<closed, message, message_in_progress, messages, replies>>
          ELSE IF ~got.reader.finished
          THEN /\ reader' = {got.reader}
               /\ UNCHANGED <<error, closed, message, message_in_progress, messages, replies>>
          ELSE /\ reader' = {}
               /\ \E frame \in {Completed(got.reader)} : Control(frame, room) \/ Data(frame)
    /\ UNCHANGED <<handshake_reader, handshake_complete, ws_sent, wire>>

WsNext ==
    \/ \E request \in Requests : Request(request)
    \/ \E opcode \in {"Text", "Continuation", "Ping", "Pong", "Close"}, fin \in BOOLEAN,
          n \in PayloadLengths :
          Send(Frame(opcode, fin, [i \in 1 .. n |-> <<Len(ws_sent) + 1, i>>]))
    \/ \E n \in (Pieces \cup {Len(wire)}) \cap 1 .. Len(wire) : Arrive(n)
    \/ do_handshake
    \/ \E room \in BOOLEAN : read(room)

WsSpec == WsInit /\ [][WsNext]_ws_vars

------------------------------------------------------------------------------
MessagesOf(frames) == Recount(frames).done

(* However its bytes are cut, a viewer's messages are read whole, in order *)
(* and without error, and once all bytes have arrived all of its frames    *)
(* have been read, but for a last one with no payload, which waits for the *)
(* next byte of input (http/ws_frame.cc:42, ws_server.cc:51).              *)
FramesAreRead ==
    handshake_complete =>
        /\ ~error
        /\ IsPrefix(messages, MessagesOf(ws_sent))
        /\ wire = <<>> /\ inbound = <<>> =>
              \/ messages = MessagesOf(ws_sent) /\ reader = {}
              \/ Last(ws_sent).payload = <<>> /\ messages = MessagesOf(Front(ws_sent))
=============================================================================
