------------------------------- MODULE Viewer --------------------------------
(***************************************************************************)
(* One viewer of the camera server (frontend/ws-camera-server.cc): NALs    *)
(* are muxed into the viewer's own buffer (video/mp4writer.cc), sent on as *)
(* WebSocket frames through the buffer of its TLS session                  *)
(* (http/secure_socket.cc) and so into its socket, which it reads as fast  *)
(* as it can.                                                              *)
(*                                                                         *)
(* Buffers hold units.  A fragment of the MP4 stream, one per NAL, has one *)
(* unit or several; a WebSocket frame adds a unit of its own and one for   *)
(* the type of its payload.  libavformat hands a fragment to write_helper  *)
(* in one piece, as it does for NALs below the megabyte of its buffer.     *)
(***************************************************************************)
EXTENDS Integers, Sequences

CONSTANTS
    MuxCapacity,      \* BUF_SIZE
    OutCapacity,      \* SSLSession's storage_size
    RecordLength,     \* the most SSL_write takes at once
    SocketCapacity,   \* the kernel's send buffer
    FragmentLengths,  \* of a NAL's fragment
    SkipFrom,         \* 119
    CameraNames,      \* how many names are announced to a viewer
    ViewerFrames      \* bound on the NALs of a behaviour

ASSUME ViewerConstants ==
    /\ {MuxCapacity, OutCapacity, RecordLength, SocketCapacity, SkipFrom} \subseteq Nat \ {0}
    /\ FragmentLengths \subseteq Nat \ {0} /\ CameraNames \in Nat /\ ViewerFrames \in Nat

VARIABLES
    nals,               \* how many NALs so far: a history variable
    frames_since_idr, skipping, idrs_since_skip,
    idr_hit,            \* MP4Writer: idr_hit_
    output,             \* MP4Writer: output()
    outbound,           \* SSLSession: outbound_plaintext_
    handshake_complete_, closed_,
    controls_sent,
    good_,
    socket,             \* what the kernel holds for the viewer
    last_seen,          \* the last unit of video that the viewer has read, if any
    gone                \* the viewer has closed its WebSocket or its socket

mux_vars == <<nals, frames_since_idr, skipping, idrs_since_skip, idr_hit, output>>
ws_state_vars == <<handshake_complete_, closed_, controls_sent>>
viewer_vars == <<mux_vars, ws_state_vars, outbound, good_, socket, last_seen, gone>>

(* Units: of the fragment of NAL number no, or of anything else.           *)
Fragment(no, idr, length) ==
    [i \in 1 .. length |-> [kind |-> "video", no |-> no, idr |-> idr, part |-> i, of |-> length]]
Plain(kind, length) ==
    [i \in 1 .. length |-> [kind |-> kind, no |-> 0, idr |-> TRUE, part |-> i, of |-> length]]
ftyp == Fragment(0, TRUE, 1)[1]

max_overhead == 1
MuxRoom == MuxCapacity - Len(output)
OutRoom == OutCapacity - Len(outbound)

ViewerInit ==
    /\ nals = 0 /\ frames_since_idr = 0 /\ idrs_since_skip = 0
    /\ skipping = FALSE /\ idr_hit = FALSE /\ output = <<ftyp>>
    /\ outbound = <<>> /\ handshake_complete_ = FALSE /\ closed_ = FALSE
    /\ controls_sent = 0 /\ good_ = TRUE
    /\ socket = <<>> /\ last_seen = <<>> /\ gone = FALSE

------------------------------------------------------------------------------
(* The rules without a descriptor, in the loop's order: each is called     *)
(* until it has no interest, before any descriptor is polled.              *)
close_interest == good_ /\ closed_ /\ outbound = <<>>
send_interest == OutRoom > 1 + max_overhead /\ output # <<>> /\ handshake_complete_
names_interest == handshake_complete_ /\ controls_sent < CameraNames /\ OutRoom > 3
Polls == good_ /\ ~close_interest /\ ~send_interest /\ ~names_interest

Close ==
    /\ close_interest
    /\ good_' = FALSE
    /\ UNCHANGED <<mux_vars, ws_state_vars, outbound, socket, last_seen, gone>>

ws_send ==
    /\ good_ /\ ~close_interest /\ send_interest
    /\ LET payload == IF Len(output) + 1 < OutRoom - max_overhead - 1
                      THEN Len(output) + 1 ELSE OutRoom - max_overhead - 1 IN
       /\ outbound' = outbound \o Plain("frame", max_overhead + 1)
                               \o SubSeq(output, 1, payload - 1)
       /\ output' = SubSeq(output, payload, Len(output))
    /\ UNCHANGED <<nals, frames_since_idr, skipping, idrs_since_skip, idr_hit,
                   ws_state_vars, good_, socket, last_seen, gone>>

SendName ==
    /\ good_ /\ ~close_interest /\ ~send_interest /\ names_interest
    /\ outbound' = outbound \o Plain("name", 3)
    /\ controls_sent' = controls_sent + 1
    /\ UNCHANGED <<mux_vars, handshake_complete_, closed_, good_, socket, last_seen, gone>>

------------------------------------------------------------------------------
X_write_helper(piece) ==
    /\ idr_hit' = TRUE
    /\ output' = IF MuxRoom < Len(piece) THEN output ELSE output \o piece

(* MP4Writer::write and write_helper: nothing is written before an IDR is, *)
(* and a fragment without room is dropped, with all after it up to an IDR. *)
write_helper(piece) ==
    IF MuxRoom < Len(piece) THEN idr_hit' = FALSE /\ UNCHANGED output
    ELSE idr_hit' = TRUE /\ output' = output \o piece

write(no, idr, length) ==
    IF idr \/ idr_hit THEN write_helper(Fragment(no, idr, length))
    ELSE UNCHANGED <<idr_hit, output>>

(* ClientConnection::push_NAL.                                             *)
push_NAL(idr, length) ==
    /\ Polls /\ nals < ViewerFrames
    /\ nals' = nals + 1
    /\ frames_since_idr' = IF idr THEN 0 ELSE frames_since_idr + 1
    /\ LET skips == ~idr /\ skipping /\ frames_since_idr + 1 >= SkipFrom IN
       /\ skipping' = (skipping /\ ~idr)
       /\ idrs_since_skip' = IF skips THEN 0 ELSE IF idr THEN idrs_since_skip + 1
                             ELSE idrs_since_skip
       /\ IF skips THEN UNCHANGED <<idr_hit, output>>
          ELSE write(nals + 1, idr, length)
    /\ UNCHANGED <<ws_state_vars, outbound, good_, socket, last_seen, gone>>

(* ClientConnection::push_update: left out when there is no room for it.   *)
push_update(length) ==
    /\ Polls /\ handshake_complete_ /\ OutRoom > length + 1 + max_overhead
    /\ outbound' = outbound \o Plain("update", length + 1 + max_overhead)
    /\ UNCHANGED <<mux_vars, ws_state_vars, good_, socket, last_seen, gone>>

------------------------------------------------------------------------------
(* What the viewer sends: its request, a report that its buffer is full    *)
(* (parse_message and what follows it in the rule), a Close.               *)
Opens ==
    /\ Polls /\ ~handshake_complete_ /\ ~gone
    /\ handshake_complete_' = TRUE
    /\ outbound' = outbound \o Plain("101", 1)
    /\ UNCHANGED <<mux_vars, closed_, controls_sent, good_, socket, last_seen, gone>>

Reports ==
    /\ Polls /\ handshake_complete_ /\ ~closed_ /\ ~gone
    /\ idrs_since_skip > 0
    /\ skipping' = TRUE
    /\ UNCHANGED <<nals, frames_since_idr, idrs_since_skip, idr_hit, output,
                   ws_state_vars, outbound, good_, socket, last_seen, gone>>

Closes ==
    /\ Polls /\ handshake_complete_ /\ ~closed_ /\ ~gone
    /\ closed_' = TRUE /\ gone' = TRUE
    /\ outbound' = IF OutRoom >= 1 THEN outbound \o Plain("close", 1) ELSE outbound
    /\ UNCHANGED <<mux_vars, handshake_complete_, controls_sent, good_, socket, last_seen>>

(* The socket is closed: poll reports it, or a read finds its end.         *)
Leaves == ~gone /\ gone' = TRUE
          /\ UNCHANGED <<mux_vars, ws_state_vars, outbound, good_, socket, last_seen>>

SocketClosed ==
    /\ Polls /\ gone /\ ~closed_
    /\ good_' = FALSE
    /\ UNCHANGED <<mux_vars, ws_state_vars, outbound, socket, last_seen, gone>>

------------------------------------------------------------------------------
(* The writes of a record of n units to the socket.  The kernel takes what *)
(* it has room for; asked for more when it is full it would block, which   *)
(* CheckSystemCall makes a 0 and FileDescriptor::write an exception.       *)
socket_room == SocketCapacity - Len(socket)
written(n) == IF n <= socket_room THEN n ELSE socket_room
would_block(n) == n > socket_room

(* do_write: SSL_write makes a record of what is readable, and has the BIO *)
(* write all of it before it returns.  An exception ends in a cull.        *)
do_write ==
    /\ Polls /\ outbound # <<>> /\ socket_room > 0
    /\ LET n == IF Len(outbound) < RecordLength THEN Len(outbound) ELSE RecordLength IN
       /\ socket' = socket \o SubSeq(outbound, 1, written(n))
       /\ outbound' = IF would_block(n) THEN outbound
                      ELSE SubSeq(outbound, n + 1, Len(outbound))
       /\ good_' = ~would_block(n)
    /\ UNCHANGED <<mux_vars, ws_state_vars, last_seen, gone>>

ViewerReads ==
    /\ socket # <<>>
    /\ last_seen' = IF Head(socket).kind = "video" THEN <<Head(socket)>> ELSE last_seen
    /\ socket' = Tail(socket)
    /\ UNCHANGED <<mux_vars, ws_state_vars, outbound, good_, gone>>

ViewerNext ==
    \/ Close \/ ws_send \/ SendName
    \/ \E idr \in BOOLEAN, length \in FragmentLengths : push_NAL(idr, length)
    \/ push_update(1)
    \/ Opens \/ Reports \/ Closes \/ Leaves \/ SocketClosed \/ do_write \/ ViewerReads

ViewerSpec == ViewerInit /\ [][ViewerNext]_viewer_vars

------------------------------------------------------------------------------
(* What the viewer has read, is about to read or is to be sent is an MP4   *)
(* stream that decodes: whole fragments, each an IDR's or that of the NAL  *)
(* after the one before it, whatever was skipped for a slow viewer         *)
(* (push_NAL), dropped from a full buffer (write_helper) or cut to the     *)
(* room of the next one (ws_send).                                         *)
Follows(u, v) ==
    IF v.part > 1 THEN v = [u EXCEPT !.part = @ + 1]
    ELSE u.part = u.of /\ (v.idr \/ v.no = u.no + 1)

Line == last_seen \o socket \o outbound \o output
IsVideo(u) == u.kind = "video"
NextVideo(line, i, j) ==
    /\ i < j /\ IsVideo(line[i]) /\ IsVideo(line[j])
    /\ \A k \in i + 1 .. j - 1 : ~IsVideo(line[k])
LastVideo(line, i) == IsVideo(line[i]) /\ \A k \in i + 1 .. Len(line) : ~IsVideo(line[k])

StreamIsDecodable ==
    good_ =>
        /\ \A i, j \in 1 .. Len(Line) : NextVideo(Line, i, j) => Follows(Line[i], Line[j])
        /\ \E i \in 1 .. Len(Line) : LastVideo(Line, i) /\ Line[i].part = Line[i].of

(* A viewer that has not left is not culled: no write to its socket comes  *)
(* back with nothing written, as util/file_descriptor.cc:98 asserts.       *)
SlowViewerIsKept == gone \/ good_
=============================================================================
