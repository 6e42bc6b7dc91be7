------------------------------- MODULE Session -------------------------------
(***************************************************************************)
(* How an audio client and the server set up, keep and give up a session   *)
(* (src/playback/networkclient.cc, src/server/client.cc, the session rules *)
(* of src/server/multiserver.cc, and the addressing of                     *)
(* src/network/connection.cc), over a network that loses, duplicates,      *)
(* delays and reorders, with a client whose address may change.            *)
(*                                                                         *)
(* A key pair is a number: next_keys_ is random, so each is new.  A        *)
(* decryption succeeds exactly for the key a packet was encrypted with.    *)
(* Each end of a session pushes one frame with each packet, so one counter *)
(* serves as next_frame_index_ and next_sequence_number_; the windows and  *)
(* the order of frames are the subject of FrameStream.  An optional is a   *)
(* set with at most one element.                                           *)
(***************************************************************************)
EXTENDS Integers, FiniteSets

CONSTANTS
    Addresses,    \* addresses the client may have
    FirstAddress, \* the one it starts with
    PromptNetwork,\* TRUE: nothing sent before a client timeout arrives after it
    MaxSessions,  \* bound: sessions that the client makes
    MaxSent,      \* bound: packets sent by each end of a session
    MaxMoves,     \* bound: changes of the client's address
    MaxOutages    \* bound: 4 s silences of a session that could have been heard

ASSUME SessionConstants ==
    /\ FirstAddress \in Addresses
    /\ PromptNetwork \in BOOLEAN
    /\ MaxSessions \in Nat
    /\ MaxSent \in Nat
    /\ MaxMoves \in Nat
    /\ MaxOutages \in Nat

VARIABLES
    client_session, \* NetworkClient::session_
    server_session, \* KnownClient::current_session_
    client_fresh,   \* the client's last good ack is less than 4 s old
    server_fresh,   \* the server's last good ack is less than 4 s old
    next_key,       \* next_keys_ and next_session_ of the KnownClient
    reply_allowed,  \* next_reply_allowed_ has passed
    address,        \* the client's address
    requests,       \* key requests in the network: their sources
    replies,        \* key replies in the network: [key, to]
    to_server,      \* packets in the network
    to_client,
    sessions_made,  \* sessions the client has created
    moves, outages

session_vars == <<client_session, server_session, client_fresh, server_fresh,
                  next_key, reply_allowed, address, requests, replies,
                  to_server, to_client, sessions_made, moves, outages>>

network == <<requests, replies, to_server, to_client>>
budgets == <<moves, outages>>

NoSeqno == -1

(* One end of a session.  made is a history variable: which of the client's*)
(* sessions this end belongs to.                                           *)
NewEnd(key, made) ==
    [key |-> key, made |-> made, sent |-> 0, begin |-> 0, greatest_sack |-> NoSeqno,
     needed |-> 0, heard |-> NoSeqno]

(* The server's end also has a destination, known from the first packet    *)
(* on, and last_biggest_seqno_received_.                                   *)
NewServerEnd(key, made, source) ==
    [end |-> NewEnd(key, made), destination |-> source, homed |-> NoSeqno]

Ends == [key : Nat, made : Nat, sent : 0 .. MaxSent, begin : Nat,
         greatest_sack : Nat \cup {NoSeqno}, needed : Nat, heard : Nat \cup {NoSeqno}]
ServerEnds == [end : Ends, destination : Addresses, homed : Nat \cup {NoSeqno}]
Packets == [key : Nat, made : Nat, seqno : Nat, needed : Nat,
            sack : Nat \cup {NoSeqno}, address : Addresses]

TypeOK ==
    /\ client_session \subseteq Ends /\ Cardinality(client_session) <= 1
    /\ server_session \subseteq ServerEnds /\ Cardinality(server_session) <= 1
    /\ client_fresh \in BOOLEAN /\ server_fresh \in BOOLEAN
    /\ next_key \in Nat /\ sessions_made \in Nat
    /\ reply_allowed \in BOOLEAN
    /\ address \in Addresses
    /\ requests \subseteq Addresses
    /\ replies \subseteq [key : Nat, to : Addresses]
    /\ to_server \subseteq Packets /\ to_client \subseteq Packets
    /\ moves \in 0 .. MaxMoves /\ outages \in 0 .. MaxOutages

Init ==
    /\ client_session = {} /\ server_session = {}
    /\ client_fresh = TRUE /\ server_fresh = TRUE
    /\ next_key = 0 /\ reply_allowed = TRUE
    /\ address = FirstAddress
    /\ requests = {} /\ replies = {} /\ to_server = {} /\ to_client = {}
    /\ sessions_made = 0 /\ moves = 0 /\ outages = 0

-----------------------------------------------------------------------------
(* push_frame and set_sender_section, set_receiver_section: the packet an  *)
(* end sends next.  push_frame throws if the window has moved beyond the   *)
(* next frame (see AcksAreOurs).                                           *)
CanPush(end) == end.begin <= end.sent /\ end.sent < MaxSent

PacketFrom(end, addr) ==
    [key |-> end.key, made |-> end.made, seqno |-> end.sent, needed |-> end.needed,
     sack |-> end.heard, address |-> addr]

Sent(end) == [end EXCEPT !.sent = @ + 1]

AtLeast(old, new) == IF new > old THEN new ELSE old

(* What receive_packet may make of an end: the ack pops frames and moves   *)
(* greatest_sack_, and the packet brings some of the frames up to its own. *)
AfterPacket(end, packet) ==
    {[end EXCEPT !.begin = AtLeast(@, packet.needed),
                 !.greatest_sack = AtLeast(@, packet.sack),
                 !.heard = AtLeast(@, packet.seqno),
                 !.needed = needed] :
        needed \in end.needed .. AtLeast(end.needed, packet.seqno + 1)}

(* last_good_ack_ts moves only when greatest_sack_ does.                   *)
GoodAck(end, packet) == packet.sack > end.greatest_sack

-----------------------------------------------------------------------------
(* "key request", every 250 ms while there is no session.                  *)
RequestKey ==
    /\ client_session = {}
    /\ requests' = requests \cup {address}
    /\ UNCHANGED <<client_session, server_session, client_fresh, server_fresh, next_key,
                   reply_allowed, address, replies, to_server, to_client,
                   sessions_made, budgets>>

(* try_keyrequest: at most one reply each 250 ms, always with the keys to  *)
(* the next session.                                                       *)
ReplyKey ==
    \E source \in requests :
        /\ requests' = requests \ {source}
        /\ IF reply_allowed
           THEN /\ replies' = replies \cup {[key |-> next_key, to |-> source]}
                /\ reply_allowed' = FALSE
           ELSE UNCHANGED <<replies, reply_allowed>>
        /\ UNCHANGED <<client_session, server_session, client_fresh, server_fresh,
                       next_key, address, to_server, to_client, sessions_made, budgets>>

(* Variant: next_reply_allowed_ never comes.                               *)
AllowReply_Never == FALSE

(* 250 ms have passed since the last reply.                                *)
AllowReply ==
    /\ ~reply_allowed
    /\ reply_allowed' = TRUE
    /\ UNCHANGED <<client_session, server_session, client_fresh, server_fresh, next_key,
                   address, network, sessions_made, budgets>>

(* Variant of process_keyreply: it runs while there is a session.          *)
ReceiveKey_Replaces ==
    \E reply \in replies :
        /\ reply.to = address
        /\ client_session' = {NewEnd(reply.key, sessions_made)}
        /\ client_fresh' = TRUE
        /\ sessions_made < MaxSessions /\ sessions_made' = sessions_made + 1
        /\ UNCHANGED <<server_session, server_fresh, next_key, reply_allowed, address,
                       network, budgets>>

(* process_keyreply, ignored while there is a session.  The reply stays in *)
(* the network and may come again.                                         *)
ReceiveKey ==
    \E reply \in replies :
        /\ reply.to = address
        /\ client_session = {}
        /\ sessions_made < MaxSessions
        /\ client_session' = {NewEnd(reply.key, sessions_made)}
        /\ client_fresh' = TRUE
        /\ sessions_made' = sessions_made + 1
        /\ UNCHANGED <<server_session, server_fresh, next_key, reply_allowed, address,
                       network, budgets>>

-----------------------------------------------------------------------------
(* transmit_frame.                                                         *)
ClientSend ==
    \E end \in client_session :
        /\ CanPush(end)
        /\ client_session' = {Sent(end)}
        /\ to_server' = to_server \cup {PacketFrom(end, address)}
        /\ UNCHANGED <<server_session, client_fresh, server_fresh, next_key, reply_allowed,
                       address, requests, replies, to_client, sessions_made, budgets>>

(* network_receive: a packet for another session fails to decrypt.         *)
ClientReceive ==
    \E end \in client_session, packet \in to_client :
        /\ packet.address = address
        /\ packet.key = end.key
        /\ \E after \in AfterPacket(end, packet) : client_session' = {after}
        /\ client_fresh' = (client_fresh \/ GoodAck(end, packet))
        /\ UNCHANGED <<server_session, server_fresh, next_key, reply_allowed, address,
                       network, sessions_made, budgets>>

(* The part of the "decode" rule that gives a session up.                  *)
ClientTimeout ==
    /\ client_session # {}
    /\ ~client_fresh
    /\ client_session' = {}
    /\ IF PromptNetwork
       THEN requests' = {} /\ replies' = {} /\ to_server' = {} /\ to_client' = {}
       ELSE UNCHANGED network
    /\ UNCHANGED <<server_session, client_fresh, server_fresh, next_key, reply_allowed,
                   address, sessions_made, budgets>>

(* The part of "mix+encode+send" that sends.                               *)
ServerSend ==
    \E session \in server_session :
        /\ CanPush(session.end)
        /\ server_session' = {[session EXCEPT !.end = Sent(@)]}
        /\ to_client' = to_client \cup {PacketFrom(session.end, session.destination)}
        /\ UNCHANGED <<client_session, client_fresh, server_fresh, next_key, reply_allowed,
                       address, requests, replies, to_server, sessions_made, budgets>>

(* Variant: a late packet takes the destination back.                      *)
Rehome_Always(session, after, source) ==
    [end |-> after, destination |-> source, homed |-> after.heard]

(* receive_packet( c, src ): the source of the newest packet is the        *)
(* session's destination.                                                  *)
Rehome(session, after, source) ==
    IF after.heard > session.homed
    THEN [end |-> after, destination |-> source, homed |-> after.heard]
    ELSE [session EXCEPT !.end = after]

(* next_keys_ are new, and next_session_ with them, when a packet has      *)
(* opened next_session_.  Variant: the keys stay the same.                 *)
KeyAfter_Same(opens) == next_key
KeyAfter(opens) == IF opens THEN next_key + 1 ELSE next_key

(* KnownClient::receive_packet: the packet is the current session's, or it *)
(* opens the next one, or it is dropped.                                   *)
ServerReceive ==
    \E packet \in to_server :
        LET current == {s \in server_session : s.end.key = packet.key}
            opened  == {NewServerEnd(packet.key, packet.made, packet.address) :
                          k \in {next_key} \cap {packet.key}}
        IN  /\ \E session \in (IF current # {} THEN current ELSE opened) :
                 /\ \E after \in AfterPacket(session.end, packet) :
                      server_session' = {Rehome(session, after, packet.address)}
                 /\ server_fresh' = (current = {} \/ server_fresh
                                       \/ GoodAck(session.end, packet))
            /\ next_key' = KeyAfter(current = {})
            /\ UNCHANGED <<client_session, client_fresh, reply_allowed, address,
                           network, sessions_made, budgets>>

(* The part of "mix+encode+send" that gives a session up.                  *)
ServerTimeout ==
    /\ server_session # {}
    /\ ~server_fresh
    /\ server_session' = {}
    /\ UNCHANGED <<client_session, client_fresh, server_fresh, next_key, reply_allowed,
                   address, network, sessions_made, budgets>>

-----------------------------------------------------------------------------
(* Both ends have a session with the same keys.                            *)
Paired ==
    \E c \in client_session, s \in server_session : c.key = s.end.key

(* The server has no use for the client's keys, and will have none.        *)
Orphaned == ~Paired /\ \A c \in client_session : c.key # next_key

(* 4 s pass at one end without a good ack, because there is no peer to     *)
(* send one or because of an outage.                                       *)
ClientSilence ==
    /\ client_session # {} /\ client_fresh
    /\ client_fresh' = FALSE
    /\ \/ Orphaned /\ UNCHANGED outages
       \/ ~Orphaned /\ outages < MaxOutages /\ outages' = outages + 1
    /\ UNCHANGED <<client_session, server_session, server_fresh, next_key, reply_allowed,
                   address, network, sessions_made, moves>>

ServerSilence ==
    /\ server_session # {} /\ server_fresh
    /\ server_fresh' = FALSE
    /\ \/ ~Paired /\ UNCHANGED outages
       \/ Paired /\ outages < MaxOutages /\ outages' = outages + 1
    /\ UNCHANGED <<client_session, server_session, client_fresh, next_key, reply_allowed,
                   address, network, sessions_made, moves>>

Move ==
    /\ moves < MaxMoves
    /\ moves' = moves + 1
    /\ address' \in Addresses \ {address}
    /\ UNCHANGED <<client_session, server_session, client_fresh, server_fresh, next_key,
                   reply_allowed, network, sessions_made, outages>>

Next ==
    \/ RequestKey \/ ReplyKey \/ AllowReply \/ ReceiveKey
    \/ ClientSend \/ ClientReceive \/ ClientTimeout
    \/ ServerSend \/ ServerReceive \/ ServerTimeout
    \/ ClientSilence \/ ServerSilence \/ Move

(* Each rule whose condition holds is run, and of what the network is not  *)
(* made to lose every packet arrives.                                      *)
Fairness ==
    /\ WF_session_vars(RequestKey)
    /\ WF_session_vars(ReplyKey)
    /\ WF_session_vars(AllowReply)
    /\ WF_session_vars(ReceiveKey)
    /\ WF_session_vars(ClientSend)
    /\ WF_session_vars(ClientTimeout)
    /\ WF_session_vars(ServerReceive)
    /\ WF_session_vars(Orphaned /\ ClientSilence)

Spec == Init /\ [][Next]_session_vars /\ Fairness
-----------------------------------------------------------------------------
(* The two ends of a session belong together, when the network is prompt:  *)
(* key replies and packets of the client's sessions, retried and repeated, *)
(* do not become part of another session.                                  *)
SessionsArePaired ==
    \A c \in client_session, s \in server_session :
        c.key = s.end.key => c.made = s.end.made

(* Keys with which no other of the client's sessions has sent a packet     *)
(* that may still arrive: on a prompt network all are.  On any other the   *)
(* client may have used ones, as process_keyreply does not ask whether it  *)
(* had these keys before, and the server offers the same keys until it has *)
(* heard a packet with them.                                               *)
UsedOnlyBy(made, key) == \A packet \in to_server : packet.key = key => packet.made = made

OwnKeys(end) == UsedOnlyBy(end.made, end.key)

(* An ack that arrives needs no frame and names no packet that was not     *)
(* sent.  Otherwise push_frame and receive_receiver_section would meet     *)
(* their internal errors: "next_frame_index_ < frames_.range_begin()"      *)
(* (sender.hh) and "sack != pack.seqno" (sender.cc).                       *)
AckIsFor(packet, end) ==
    packet.key = end.key => packet.needed <= end.sent /\ packet.sack < end.sent

(* So it is at the server, of which no two sessions have the same keys,    *)
(* and at a client with keys of its own.                                   *)
AcksAreOurs ==
    /\ \A c \in client_session, packet \in to_client : OwnKeys(c) => AckIsFor(packet, c)
    /\ \A s \in server_session, packet \in to_server : AckIsFor(packet, s.end)

(* What the code takes for granted: so it is with any keys.                *)
EveryAckIsOurs ==
    \A c \in client_session, packet \in to_client : AckIsFor(packet, c)

(* The server answers to where the newest packet of the session came from, *)
(* however late or often the older ones arrive.                            *)
DestinationIsNewest ==
    \A s \in server_session, packet \in to_server :
        /\ packet.key = s.end.key /\ packet.seqno = s.end.heard
        /\ OwnKeys(s.end)
        => packet.address = s.destination

(* A session in which both ends hear each other, with keys of its own, is  *)
(* not lost to a key reply or a packet, however late: only a silence ends  *)
(* it.                                                                     *)
LivePairIsKept ==
    [][/\ Paired /\ client_fresh /\ server_fresh
       /\ \A c \in client_session : OwnKeys(c)
       => Paired']_session_vars

(* After the last outage and the last move the ends share a session for    *)
(* good: an end whose peer has lost or replaced the session gives up, and  *)
(* the keys it asks for then are ones the server will accept.              *)
Reconnects == <>[]Paired
=============================================================================
