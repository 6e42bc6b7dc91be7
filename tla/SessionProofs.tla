---------------------------- MODULE SessionProofs ----------------------------
(***************************************************************************)
(* Proofs about sessions for any addresses, any number of sessions,        *)
(* packets, moves and outages, over any network: packets and key replies   *)
(* of sessions that the client has given up may arrive at any time, and    *)
(* again.  The server makes new keys whenever a session is opened, so no   *)
(* two of its sessions have the same ones.  A client may get keys that it  *)
(* had before (StaleKeys.cfg); what holds only of keys of its own says so, *)
(* and a client gets such keys from a reply only if they are the server's  *)
(* next ones.  On a prompt network all keys are.                           *)
(*                                                                         *)
(* The second part is about what is written and read (Formats, Sealing,    *)
(* Control), for bytes of any number of values and any limits: that every  *)
(* message, printed key and sealed message is read as it was written, and  *)
(* nothing is read of less; and that the rules that hear the messages edit *)
(* the scene as Scene expects.                                             *)
(***************************************************************************)
EXTENDS Session, Control, Numbers, SequenceTheorems, FiniteSetTheorems, TLAPS

AtMostOne(S) == \A x, y \in S : x = y

(* TypeOK, with the two optionals stated without counting.                 *)
Shapes ==
    /\ client_session \subseteq Ends /\ AtMostOne(client_session)
    /\ server_session \subseteq ServerEnds /\ AtMostOne(server_session)
    /\ client_fresh \in BOOLEAN /\ server_fresh \in BOOLEAN
    /\ next_key \in Nat /\ sessions_made \in Nat
    /\ reply_allowed \in BOOLEAN
    /\ address \in Addresses
    /\ requests \subseteq Addresses
    /\ replies \subseteq [key : Nat, to : Addresses]
    /\ to_server \subseteq Packets /\ to_client \subseteq Packets
    /\ moves \in 0 .. MaxMoves /\ outages \in 0 .. MaxOutages

(* The server's session has the newest keys ever used; everything else has *)
(* keys that were used or are the next ones, of a session that was made.   *)
KeysInOrder ==
    /\ \A c \in client_session : c.key <= next_key /\ c.made < sessions_made
    /\ \A s \in server_session : s.end.key = next_key - 1
    /\ \A p \in to_server : p.key <= next_key /\ p.made < sessions_made
    /\ \A p \in to_client : p.key < next_key

(* A reply offers the next keys, or ones with which the client has sent.   *)
UsedKeysShow ==
    \A r \in replies : r.key = next_key \/ \E p \in to_server : p.key = r.key

(* Nothing was sent with newer keys than keys of the client's own.         *)
OwnIsNewest ==
    \A c \in client_session : OwnKeys(c) => \A p \in to_server : p.key <= c.key

PacketsAreTheClients ==
    \A c \in client_session, p \in to_server :
        p.made = c.made => p.key = c.key /\ p.seqno < c.sent

NumberedOnce == \A p, q \in to_server : p.made = q.made /\ p.seqno = q.seqno => p = q

(* Keys the server has not used yet have brought the client nothing.       *)
UnusedKeysAreSilent ==
    /\ \A c \in client_session : c.key = next_key => c.needed = 0 /\ c.heard = NoSeqno
    /\ \A p \in to_server : p.key = next_key => p.needed = 0 /\ p.sack = NoSeqno

(* What each of two ends with the same keys has from the other.            *)
AgreesWith(c, s) ==
    /\ c.needed <= s.end.sent /\ c.heard < s.end.sent
    /\ OwnKeys(c) => /\ c.made = s.end.made
                     /\ s.end.needed <= c.sent /\ s.end.heard < c.sent

PairAgrees ==
    \A c \in client_session, s \in server_session : c.key = s.end.key => AgreesWith(c, s)

PacketsAreTheServers ==
    \A s \in server_session, p \in to_client :
        p.key = s.end.key => p.seqno < s.end.sent

HomedOnNewest == \A s \in server_session : s.homed = s.end.heard

(* On a prompt network what is on its way is of the client's session.      *)
PromptPackets ==
    PromptNetwork => \A p \in to_server : \E c \in client_session : p.made = c.made

Inv ==
    /\ Shapes
    /\ KeysInOrder
    /\ UsedKeysShow
    /\ OwnIsNewest
    /\ PacketsAreTheClients
    /\ NumberedOnce
    /\ UnusedKeysAreSilent
    /\ PairAgrees
    /\ PacketsAreTheServers
    /\ HomedOnNewest
    /\ PromptPackets
    /\ AcksAreOurs
    /\ DestinationIsNewest

-----------------------------------------------------------------------------
(* The operators on ends and packets.                                      *)
LEMMA AtMost == ASSUME NEW S, AtMostOne(S) PROVE Cardinality(S) <= 1
  <1>1. CASE S = {}
    BY <1>1, FS_EmptySet
  <1>2. ASSUME NEW x \in S PROVE Cardinality(S) = 1
    <2>1. S = {x}
      BY DEF AtMostOne
    <2>2. QED BY <2>1, FS_Singleton
  <1>3. QED BY <1>1, <1>2

LEMMA FreshEnd ==
    ASSUME NEW key \in Nat, NEW made \in Nat
    PROVE  /\ NewEnd(key, made) \in Ends
           /\ NewEnd(key, made).key = key /\ NewEnd(key, made).made = made
           /\ NewEnd(key, made).sent = 0 /\ NewEnd(key, made).needed = 0
           /\ NewEnd(key, made).heard = NoSeqno
  BY SessionConstants DEF SessionConstants, NewEnd, Ends, NoSeqno

LEMMA SendFacts ==
    ASSUME NEW end \in Ends, CanPush(end), NEW addr \in Addresses
    PROVE  /\ Sent(end) \in Ends
           /\ Sent(end).key = end.key /\ Sent(end).made = end.made
           /\ Sent(end).sent = end.sent + 1
           /\ Sent(end).needed = end.needed /\ Sent(end).heard = end.heard
           /\ PacketFrom(end, addr) \in Packets
           /\ PacketFrom(end, addr).key = end.key /\ PacketFrom(end, addr).made = end.made
           /\ PacketFrom(end, addr).seqno = end.sent
           /\ PacketFrom(end, addr).needed = end.needed
           /\ PacketFrom(end, addr).sack = end.heard
           /\ PacketFrom(end, addr).address = addr
  BY SessionConstants DEF SessionConstants, Ends, Packets, CanPush, Sent, PacketFrom

(* A packet leaves an end its keys and its own counter, and moves what it  *)
(* has from its peer up to the packet at most.                             *)
LEMMA AfterFacts ==
    ASSUME NEW end \in Ends, NEW packet \in Packets, NEW after \in AfterPacket(end, packet)
    PROVE  /\ after \in Ends
           /\ after.key = end.key /\ after.made = end.made /\ after.sent = end.sent
           /\ after.heard = AtLeast(end.heard, packet.seqno)
           /\ after.needed >= end.needed
           /\ after.needed <= end.needed \/ after.needed <= packet.seqno + 1
  <1>1. PICK needed \in end.needed .. AtLeast(end.needed, packet.seqno + 1) :
          after = [end EXCEPT !.begin = AtLeast(@, packet.needed),
                              !.greatest_sack = AtLeast(@, packet.sack),
                              !.heard = AtLeast(@, packet.seqno),
                              !.needed = needed]
    BY DEF AfterPacket
  <1>2. /\ end.begin \in Nat /\ end.needed \in Nat
        /\ end.greatest_sack \in Nat \cup {NoSeqno} /\ end.heard \in Nat \cup {NoSeqno}
        /\ packet.needed \in Nat /\ packet.seqno \in Nat
        /\ packet.sack \in Nat \cup {NoSeqno}
    BY DEF Ends, Packets
  <1>3. /\ needed \in Nat /\ needed >= end.needed
        /\ needed <= end.needed \/ needed <= packet.seqno + 1
    BY <1>2 DEF AtLeast
  <1>4. /\ AtLeast(end.begin, packet.needed) \in Nat
        /\ AtLeast(end.greatest_sack, packet.sack) \in Nat \cup {NoSeqno}
        /\ AtLeast(end.heard, packet.seqno) \in Nat \cup {NoSeqno}
    BY <1>2 DEF AtLeast, NoSeqno
  <1>5. /\ after.key = end.key /\ after.made = end.made /\ after.sent = end.sent
        /\ after.heard = AtLeast(end.heard, packet.seqno)
        /\ after.needed = needed
    BY <1>1 DEF Ends
  <1>6. after \in Ends
    BY <1>1, <1>3, <1>4 DEF Ends
  <1>7. QED BY <1>3, <1>5, <1>6

-----------------------------------------------------------------------------
LEMMA SessionInit == Init => Inv
  BY SessionConstants
     DEF SessionConstants, Init, Inv, Shapes, AtMostOne, KeysInOrder, UsedKeysShow, OwnIsNewest,
         PacketsAreTheClients, NumberedOnce, UnusedKeysAreSilent, PairAgrees,
         PacketsAreTheServers, HomedOnNewest, PromptPackets, AcksAreOurs, DestinationIsNewest

(* A step that leaves both ends, the keys and the packets alone, and may   *)
(* add replies with the next keys.                                         *)
LEMMA QuietStep ==
    ASSUME Inv, Shapes',
           UNCHANGED <<client_session, server_session, next_key, to_server, to_client,
                       sessions_made>>,
           \A r \in replies' : r \in replies \/ r.key = next_key
    PROVE  Inv'
  <1>1. KeysInOrder' /\ UsedKeysShow' /\ OwnIsNewest'
    BY DEF Inv, KeysInOrder, UsedKeysShow, OwnIsNewest, OwnKeys, UsedOnlyBy
  <1>2. /\ PacketsAreTheClients' /\ NumberedOnce' /\ UnusedKeysAreSilent'
        /\ PacketsAreTheServers' /\ HomedOnNewest' /\ PromptPackets'
    BY DEF Inv, PacketsAreTheClients, NumberedOnce, UnusedKeysAreSilent,
           PacketsAreTheServers, HomedOnNewest, PromptPackets
  <1>3. PairAgrees' /\ AcksAreOurs' /\ DestinationIsNewest'
    BY DEF Inv, PairAgrees, AgreesWith, AcksAreOurs, AckIsFor, DestinationIsNewest, OwnKeys,
           UsedOnlyBy
  <1>4. QED BY <1>1, <1>2, <1>3 DEF Inv

LEMMA QuietActions ==
    ASSUME Inv,
           RequestKey \/ ReplyKey \/ AllowReply \/ ClientSilence \/ ServerSilence \/ Move
    PROVE  Inv'
  <1>1. CASE RequestKey
    <2>1. Shapes'
      BY <1>1 DEF RequestKey, Inv, Shapes, budgets
    <2>2. QED BY <1>1, <2>1, QuietStep DEF RequestKey
  <1>2. CASE ReplyKey
    <2>1. PICK source \in requests :
            /\ requests' = requests \ {source}
            /\ \/ replies' = replies \cup {[key |-> next_key, to |-> source]} /\ reply_allowed' = FALSE
               \/ UNCHANGED <<replies, reply_allowed>>
            /\ UNCHANGED <<client_session, server_session, client_fresh, server_fresh,
                           next_key, address, to_server, to_client, sessions_made, budgets>>
      BY <1>2 DEF ReplyKey
    <2>2. Shapes'
      <3>1. source \in Addresses /\ requests' \subseteq Addresses
        BY <2>1 DEF Inv, Shapes
      <3>2. [key |-> next_key, to |-> source] \in [key : Nat, to : Addresses]
        BY <3>1 DEF Inv, Shapes
      <3>3. replies' \subseteq [key : Nat, to : Addresses]
        BY <2>1, <3>2 DEF Inv, Shapes
      <3>4. QED BY <2>1, <3>1, <3>3 DEF Inv, Shapes, budgets
    <2>3. \A r \in replies' : r \in replies \/ r.key = next_key
      BY <2>1
    <2>4. QED BY <2>1, <2>2, <2>3, QuietStep
  <1>3. CASE AllowReply
    <2>1. Shapes'
      BY <1>3 DEF AllowReply, Inv, Shapes, budgets, network
    <2>2. QED BY <1>3, <2>1, QuietStep DEF AllowReply, network
  <1>4. CASE ClientSilence \/ ServerSilence
    <2>1. outages' \in 0 .. MaxOutages
      BY <1>4, SessionConstants DEF ClientSilence, ServerSilence, Inv, Shapes, SessionConstants
    <2>2. Shapes'
      BY <1>4, <2>1 DEF ClientSilence, ServerSilence, Inv, Shapes, network
    <2>3. QED BY <1>4, <2>2, QuietStep DEF ClientSilence, ServerSilence, network
  <1>5. CASE Move
    <2>1. moves' \in 0 .. MaxMoves
      BY <1>5, SessionConstants DEF Move, Inv, Shapes, SessionConstants
    <2>2. Shapes'
      BY <1>5, <2>1 DEF Move, Inv, Shapes, network
    <2>3. QED BY <1>5, <2>2, QuietStep DEF Move, network
  <1>6. QED BY <1>1, <1>2, <1>3, <1>4, <1>5

(* A client without a session takes any reply.  If its keys were used, a   *)
(* packet of another session has them; the client's own ones are new.      *)
LEMMA ReceiveKeyStep == ASSUME Inv, ReceiveKey PROVE Inv'
  <1>1. PICK reply \in replies :
          /\ client_session = {}
          /\ client_session' = {NewEnd(reply.key, sessions_made)}
          /\ client_fresh' = TRUE
          /\ sessions_made' = sessions_made + 1
          /\ UNCHANGED <<server_session, server_fresh, next_key, reply_allowed, address,
                         network, budgets>>
    BY DEF ReceiveKey
  <1>2. UNCHANGED <<requests, replies, to_server, to_client, moves, outages>>
    BY <1>1 DEF network, budgets
  <1> PICK made : made = sessions_made
    OBVIOUS
  <1> DEFINE c == NewEnd(reply.key, made)
  <1>3. /\ reply.key \in Nat /\ next_key \in Nat /\ sessions_made \in Nat
        /\ \A p \in to_server \cup to_client : p.key \in Nat /\ p.made \in Nat
        /\ \A s \in server_session : s.end.sent \in Nat
    BY <1>1, SessionConstants DEF Inv, Shapes, Packets, ServerEnds, Ends, SessionConstants
  <1>4. /\ c \in Ends /\ c.key = reply.key /\ c.made = sessions_made
        /\ c.sent = 0 /\ c.needed = 0 /\ c.heard = NoSeqno
    BY <1>3, FreshEnd
  <1> HIDE DEF c
  <1>5. client_session' # {} /\ \A d \in client_session' : d = c
    BY <1>1 DEF c
  <1>6. /\ \A p \in to_server : p.key <= next_key /\ p.made < sessions_made
        /\ \A p \in to_server : p.made # c.made
        /\ \A p \in to_client : p.key < next_key
        /\ \A s \in server_session : s.end.key = next_key - 1
    BY <1>3, <1>4 DEF Inv, KeysInOrder
  <1>7. c.key <= next_key
    BY <1>1, <1>3, <1>4, <1>6 DEF Inv, UsedKeysShow
  <1>8. OwnKeys(c)' => c.key = next_key
    <2>1. ASSUME NEW p \in to_server, p.key = c.key PROVE ~OwnKeys(c)'
      BY <2>1, <1>2, <1>6 DEF OwnKeys, UsedOnlyBy
    <2>2. QED BY <2>1, <1>1, <1>4 DEF Inv, UsedKeysShow
  <1>9. Shapes'
    BY <1>1, <1>2, <1>3, <1>4, <1>5 DEF Inv, Shapes, AtMostOne
  <1>10. KeysInOrder' /\ UsedKeysShow'
    BY <1>1, <1>2, <1>3, <1>4, <1>5, <1>6, <1>7 DEF Inv, KeysInOrder, UsedKeysShow
  <1>11. OwnIsNewest'
    BY <1>1, <1>2, <1>5, <1>6, <1>8 DEF OwnIsNewest
  <1>12. PacketsAreTheClients' /\ NumberedOnce' /\ UnusedKeysAreSilent'
    BY <1>1, <1>2, <1>4, <1>5, <1>6
       DEF Inv, PacketsAreTheClients, NumberedOnce, UnusedKeysAreSilent
  <1>13. PairAgrees'
    <2> SUFFICES ASSUME NEW s \in server_session, c.key = s.end.key PROVE AgreesWith(c, s)'
      BY <1>1, <1>5 DEF PairAgrees
    <2>1. ~OwnKeys(c)'
      BY <1>3, <1>6, <1>8
    <2>2. c.needed <= s.end.sent /\ c.heard < s.end.sent
      BY <1>3, <1>4 DEF NoSeqno
    <2>3. QED BY <2>1, <2>2 DEF AgreesWith
  <1>14. PacketsAreTheServers' /\ HomedOnNewest'
    BY <1>1, <1>2 DEF Inv, PacketsAreTheServers, HomedOnNewest
  <1>15. PromptPackets'
    BY <1>1, <1>2 DEF Inv, PromptPackets
  <1>16. AcksAreOurs'
    <2>1. ASSUME NEW p \in to_client, OwnKeys(c)' PROVE AckIsFor(p, c)
      BY <2>1, <1>3, <1>6, <1>8 DEF AckIsFor
    <2>2. QED BY <2>1, <1>1, <1>2, <1>5 DEF Inv, AcksAreOurs, AckIsFor
  <1>17. DestinationIsNewest'
    BY <1>1, <1>2 DEF Inv, DestinationIsNewest, OwnKeys, UsedOnlyBy
  <1>18. QED
    BY <1>9, <1>10, <1>11, <1>12, <1>13, <1>14, <1>15, <1>16, <1>17 DEF Inv

(* The client's packets and the replies to it are lost, or nothing is.     *)
LEMMA ClientTimeoutStep == ASSUME Inv, ClientTimeout PROVE Inv'
  <1>1. /\ client_session' = {}
        /\ UNCHANGED <<server_session, client_fresh, server_fresh, next_key, reply_allowed,
                       address, sessions_made, moves, outages>>
    BY DEF ClientTimeout, budgets
  <1>2. CASE PromptNetwork
    <2>1. requests' = {} /\ replies' = {} /\ to_server' = {} /\ to_client' = {}
      BY <1>2 DEF ClientTimeout
    <2>2. QED
      BY <1>1, <2>1
         DEF Inv, Shapes, AtMostOne, KeysInOrder, UsedKeysShow, OwnIsNewest,
             PacketsAreTheClients, NumberedOnce, UnusedKeysAreSilent, PairAgrees,
             PacketsAreTheServers, HomedOnNewest, PromptPackets, AcksAreOurs,
             DestinationIsNewest
  <1>3. CASE ~PromptNetwork
    <2>1. UNCHANGED <<requests, replies, to_server, to_client>>
      BY <1>3 DEF ClientTimeout, network
    <2>2. Shapes' /\ KeysInOrder' /\ UsedKeysShow' /\ OwnIsNewest'
      BY <1>1, <2>1 DEF Inv, Shapes, AtMostOne, KeysInOrder, UsedKeysShow, OwnIsNewest
    <2>3. /\ PacketsAreTheClients' /\ NumberedOnce' /\ UnusedKeysAreSilent' /\ PairAgrees'
          /\ PacketsAreTheServers' /\ HomedOnNewest' /\ PromptPackets'
      BY <1>1, <1>3, <2>1
         DEF Inv, PacketsAreTheClients, NumberedOnce, UnusedKeysAreSilent, PairAgrees,
             PacketsAreTheServers, HomedOnNewest, PromptPackets
    <2>4. AcksAreOurs' /\ DestinationIsNewest'
      BY <1>1, <2>1 DEF Inv, AcksAreOurs, AckIsFor, DestinationIsNewest, OwnKeys, UsedOnlyBy
    <2>5. QED BY <2>2, <2>3, <2>4 DEF Inv
  <1>4. QED BY <1>2, <1>3

LEMMA ServerTimeoutStep == ASSUME Inv, ServerTimeout PROVE Inv'
  <1>1. /\ server_session' = {}
        /\ UNCHANGED <<client_session, client_fresh, server_fresh, next_key, reply_allowed,
                       address, requests, replies, to_server, to_client, sessions_made,
                       moves, outages>>
    BY DEF ServerTimeout, budgets, network
  <1>2. Shapes' /\ KeysInOrder' /\ UsedKeysShow' /\ OwnIsNewest'
    BY <1>1
       DEF Inv, Shapes, AtMostOne, KeysInOrder, UsedKeysShow, OwnIsNewest, OwnKeys, UsedOnlyBy
  <1>3. /\ PacketsAreTheClients' /\ NumberedOnce' /\ UnusedKeysAreSilent' /\ PairAgrees'
        /\ PacketsAreTheServers' /\ HomedOnNewest' /\ PromptPackets'
    BY <1>1
       DEF Inv, PacketsAreTheClients, NumberedOnce, UnusedKeysAreSilent, PairAgrees,
           PacketsAreTheServers, HomedOnNewest, PromptPackets
  <1>4. AcksAreOurs' /\ DestinationIsNewest'
    BY <1>1 DEF Inv, AcksAreOurs, AckIsFor, DestinationIsNewest, OwnKeys, UsedOnlyBy
  <1>5. QED BY <1>2, <1>3, <1>4 DEF Inv

(* The client's next packet has the next number and what the client has    *)
(* from the server.                                                        *)
LEMMA ClientSendStep == ASSUME Inv, ClientSend PROVE Inv'
  <1>1. PICK end \in client_session :
          /\ CanPush(end)
          /\ client_session' = {Sent(end)}
          /\ to_server' = to_server \cup {PacketFrom(end, address)}
          /\ UNCHANGED <<server_session, client_fresh, server_fresh, next_key, reply_allowed,
                         address, requests, replies, to_client, sessions_made, moves, outages>>
    BY DEF ClientSend, budgets
  <1> DEFINE c == Sent(end)
             new == PacketFrom(end, address)
  <1>2. /\ end \in Ends /\ address \in Addresses
        /\ \A d \in client_session : d = end
    BY DEF Inv, Shapes, AtMostOne
  <1>3. /\ c \in Ends /\ c.key = end.key /\ c.made = end.made /\ c.sent = end.sent + 1
        /\ c.needed = end.needed /\ c.heard = end.heard
        /\ new \in Packets /\ new.key = end.key /\ new.made = end.made
        /\ new.seqno = end.sent /\ new.needed = end.needed /\ new.sack = end.heard
    BY <1>1, <1>2, SendFacts
  <1>4. /\ end.sent \in Nat /\ end.needed \in Nat /\ end.heard \in Nat \cup {NoSeqno}
        /\ end.key \in Nat
        /\ \A s \in server_session : s.end.heard \in Nat \cup {NoSeqno} /\ s.end.needed \in Nat
        /\ \A p \in to_server \cup to_client :
             p.needed \in Nat /\ p.sack \in Nat \cup {NoSeqno} /\ p.seqno \in Nat
    BY <1>2, SessionConstants
       DEF Inv, Shapes, Ends, ServerEnds, Packets, SessionConstants
  <1>5. client_session' = {c} /\ to_server' = to_server \cup {new}
    BY <1>1
  <1> HIDE DEF c, new
  <1>6. \A p \in to_server : p.made = end.made => p.key = end.key /\ p.seqno < end.sent
    BY DEF Inv, PacketsAreTheClients
  <1>7. OwnKeys(c)' => OwnKeys(end)
    BY <1>3, <1>5 DEF OwnKeys, UsedOnlyBy
  <1>8. Shapes'
    BY <1>1, <1>3, <1>5 DEF Inv, Shapes, AtMostOne
  <1>9. KeysInOrder'
    BY <1>1, <1>3, <1>5 DEF Inv, KeysInOrder
  <1>10. UsedKeysShow'
    BY <1>1, <1>5 DEF Inv, UsedKeysShow
  <1>11. OwnIsNewest'
    BY <1>3, <1>4, <1>5, <1>7 DEF Inv, OwnIsNewest
  <1>12. PacketsAreTheClients'
    <2> SUFFICES ASSUME NEW p \in to_server', p.made = c.made
                 PROVE  p.key = c.key /\ p.seqno < c.sent
      BY <1>5 DEF PacketsAreTheClients
    <2>1. CASE p = new
      BY <2>1, <1>3, <1>4
    <2>2. CASE p \in to_server
      BY <2>2, <1>3, <1>4, <1>6
    <2>3. QED BY <2>1, <2>2, <1>5
  <1>13. NumberedOnce'
    BY <1>3, <1>4, <1>5, <1>6 DEF Inv, NumberedOnce
  <1>14. UnusedKeysAreSilent'
    BY <1>1, <1>3, <1>5 DEF Inv, UnusedKeysAreSilent
  <1>15. PairAgrees'
    <2> SUFFICES ASSUME NEW s \in server_session, c.key = s.end.key PROVE AgreesWith(c, s)'
      BY <1>1, <1>5 DEF PairAgrees
    <2>1. AgreesWith(end, s)
      BY <1>3 DEF Inv, PairAgrees
    <2>2. c.needed <= s.end.sent /\ c.heard < s.end.sent
      BY <2>1, <1>3 DEF AgreesWith
    <2>3. ASSUME OwnKeys(c)'
          PROVE  /\ c.made = s.end.made
                 /\ s.end.needed <= c.sent /\ s.end.heard < c.sent
      <3>1. /\ end.made = s.end.made
            /\ s.end.needed <= end.sent /\ s.end.heard < end.sent
        BY <2>1, <2>3, <1>7 DEF AgreesWith
      <3>2. QED BY <3>1, <1>3, <1>4 DEF NoSeqno
    <2>4. QED BY <2>2, <2>3 DEF AgreesWith
  <1>16. PacketsAreTheServers' /\ HomedOnNewest'
    BY <1>1 DEF Inv, PacketsAreTheServers, HomedOnNewest
  <1>17. PromptPackets'
    BY <1>2, <1>3, <1>5 DEF Inv, PromptPackets
  <1>18. AcksAreOurs'
    <2>1. ASSUME NEW p \in to_client, OwnKeys(c)' PROVE AckIsFor(p, c)
      BY <2>1, <1>3, <1>4, <1>7 DEF Inv, AcksAreOurs, AckIsFor, NoSeqno
    <2>2. ASSUME NEW s \in server_session PROVE AckIsFor(new, s.end)
      BY <1>3 DEF Inv, PairAgrees, AgreesWith, AckIsFor
    <2>3. QED BY <1>1, <1>5, <2>1, <2>2 DEF Inv, AcksAreOurs, AckIsFor
  <1>19. DestinationIsNewest'
    <2> SUFFICES ASSUME NEW s \in server_session, NEW p \in to_server',
                        p.key = s.end.key, p.seqno = s.end.heard, OwnKeys(s.end)'
                 PROVE  p.address = s.destination
      BY <1>1 DEF DestinationIsNewest
    <2>1. OwnKeys(s.end)
      BY <1>5 DEF OwnKeys, UsedOnlyBy
    <2>2. CASE p \in to_server
      BY <2>1, <2>2 DEF Inv, DestinationIsNewest
    <2>3. p # new
      <3> SUFFICES ASSUME p = new PROVE FALSE
        OBVIOUS
      <3>1. end.key = s.end.key /\ end.made = s.end.made
        BY <1>3, <1>5 DEF OwnKeys, UsedOnlyBy
      <3>2. OwnKeys(end)
        BY <2>1, <3>1 DEF OwnKeys
      <3>3. s.end.heard < end.sent
        BY <3>1, <3>2 DEF Inv, PairAgrees, AgreesWith
      <3>4. QED BY <3>3, <1>3, <1>4
    <2>4. QED BY <2>2, <2>3, <1>5
  <1>20. QED
    BY <1>8, <1>9, <1>10, <1>11, <1>12, <1>13, <1>14, <1>15, <1>16, <1>17, <1>18, <1>19 DEF Inv

(* A packet for the client's session is one the server's session sent, if  *)
(* the server still has one with these keys.                               *)
LEMMA ClientReceiveStep == ASSUME Inv, ClientReceive PROVE Inv'
  <1>1. PICK end \in client_session, packet \in to_client :
          /\ packet.key = end.key
          /\ \E after \in AfterPacket(end, packet) : client_session' = {after}
          /\ client_fresh' = (client_fresh \/ GoodAck(end, packet))
          /\ UNCHANGED <<server_session, server_fresh, next_key, reply_allowed, address,
                         requests, replies, to_server, to_client, sessions_made, moves, outages>>
    BY DEF ClientReceive, budgets, network
  <1>2. PICK c \in AfterPacket(end, packet) : client_session' = {c}
    BY <1>1
  <1>3. /\ end \in Ends /\ packet \in Packets
        /\ \A d \in client_session : d = end
    BY DEF Inv, Shapes, AtMostOne
  <1>4. /\ c \in Ends /\ c.key = end.key /\ c.made = end.made /\ c.sent = end.sent
        /\ c.heard = AtLeast(end.heard, packet.seqno)
        /\ c.needed >= end.needed
        /\ c.needed <= end.needed \/ c.needed <= packet.seqno + 1
    BY <1>3, AfterFacts
  <1>5. /\ packet.seqno \in Nat /\ packet.key \in Nat
        /\ end.heard \in Nat \cup {NoSeqno} /\ c.heard \in Nat \cup {NoSeqno}
        /\ end.needed \in Nat /\ c.needed \in Nat
        /\ next_key \in Nat
        /\ \A s \in server_session : s.end.sent \in Nat
    BY <1>3, <1>4, SessionConstants DEF Inv, Shapes, Ends, ServerEnds, Packets, SessionConstants
  <1>6. c.heard = end.heard \/ c.heard = packet.seqno
    BY <1>4 DEF AtLeast
  <1>7. c.key # next_key
    BY <1>1, <1>4, <1>5 DEF Inv, KeysInOrder
  <1>8. OwnKeys(c)' => OwnKeys(end)
    BY <1>1, <1>4 DEF OwnKeys, UsedOnlyBy
  <1>9. Shapes'
    BY <1>1, <1>2, <1>4 DEF Inv, Shapes, AtMostOne
  <1>10. KeysInOrder' /\ UsedKeysShow'
    BY <1>1, <1>2, <1>4 DEF Inv, KeysInOrder, UsedKeysShow
  <1>11. OwnIsNewest'
    BY <1>1, <1>2, <1>4, <1>8 DEF Inv, OwnIsNewest
  <1>12. PacketsAreTheClients'
    BY <1>1, <1>2, <1>4 DEF Inv, PacketsAreTheClients
  <1>13. NumberedOnce' /\ UnusedKeysAreSilent'
    BY <1>1, <1>2, <1>7 DEF Inv, NumberedOnce, UnusedKeysAreSilent
  <1>14. PairAgrees'
    <2> SUFFICES ASSUME NEW s \in server_session, c.key = s.end.key PROVE AgreesWith(c, s)'
      BY <1>1, <1>2 DEF PairAgrees
    <2>1. AgreesWith(end, s)
      BY <1>4 DEF Inv, PairAgrees
    <2>2. packet.seqno < s.end.sent
      BY <1>1, <1>4 DEF Inv, PacketsAreTheServers
    <2>3. c.needed <= s.end.sent
      BY <2>1, <2>2, <1>4, <1>5 DEF AgreesWith
    <2>4. c.heard < s.end.sent
      BY <2>1, <2>2, <1>6 DEF AgreesWith
    <2>5. QED BY <2>1, <2>3, <2>4, <1>1, <1>4, <1>8 DEF AgreesWith
  <1>15. PacketsAreTheServers' /\ HomedOnNewest'
    BY <1>1 DEF Inv, PacketsAreTheServers, HomedOnNewest
  <1>16. PromptPackets'
    BY <1>1, <1>2, <1>3, <1>4 DEF Inv, PromptPackets
  <1>17. AcksAreOurs'
    BY <1>1, <1>2, <1>4, <1>8 DEF Inv, AcksAreOurs, AckIsFor
  <1>18. DestinationIsNewest'
    BY <1>1 DEF Inv, DestinationIsNewest, OwnKeys, UsedOnlyBy
  <1>19. QED
    BY <1>9, <1>10, <1>11, <1>12, <1>13, <1>14, <1>15, <1>16, <1>17, <1>18 DEF Inv

(* The server's next packet, to its destination.                           *)
LEMMA ServerSendStep == ASSUME Inv, ServerSend PROVE Inv'
  <1>1. PICK session \in server_session :
          /\ CanPush(session.end)
          /\ server_session' = {[session EXCEPT !.end = Sent(@)]}
          /\ to_client' = to_client \cup {PacketFrom(session.end, session.destination)}
          /\ UNCHANGED <<client_session, client_fresh, server_fresh, next_key, reply_allowed,
                         address, requests, replies, to_server, sessions_made, moves, outages>>
    BY DEF ServerSend, budgets
  <1> DEFINE end == session.end
             s == [session EXCEPT !.end = Sent(@)]
             new == PacketFrom(end, session.destination)
  <1>2. /\ session \in ServerEnds /\ end \in Ends /\ session.destination \in Addresses
        /\ \A t \in server_session : t = session
    BY DEF Inv, Shapes, AtMostOne, ServerEnds
  <1>3. /\ Sent(end) \in Ends /\ Sent(end).key = end.key /\ Sent(end).made = end.made
        /\ Sent(end).sent = end.sent + 1
        /\ Sent(end).needed = end.needed /\ Sent(end).heard = end.heard
        /\ new \in Packets /\ new.key = end.key
        /\ new.seqno = end.sent /\ new.needed = end.needed /\ new.sack = end.heard
    BY <1>1, <1>2, SendFacts
  <1>4. /\ s \in ServerEnds /\ s.end = Sent(end)
        /\ s.destination = session.destination /\ s.homed = session.homed
    BY <1>2, <1>3 DEF ServerEnds
  <1>5. /\ end.sent \in Nat /\ end.needed \in Nat /\ end.heard \in Nat \cup {NoSeqno}
        /\ next_key \in Nat
        /\ \A c \in client_session : /\ c.heard \in Nat \cup {NoSeqno} /\ c.needed \in Nat
                                     /\ c.sent \in Nat
        /\ \A p \in to_server \cup to_client :
             p.needed \in Nat /\ p.sack \in Nat \cup {NoSeqno} /\ p.seqno \in Nat
    BY <1>2, SessionConstants DEF Inv, Shapes, Ends, Packets, SessionConstants
  <1>6. server_session' = {s} /\ to_client' = to_client \cup {new}
    BY <1>1
  <1> HIDE DEF s, new, end
  <1>7. session.end = end /\ end.key = next_key - 1
    BY DEF end, Inv, KeysInOrder
  <1>8. Shapes'
    BY <1>1, <1>3, <1>4, <1>6 DEF Inv, Shapes, AtMostOne
  <1>9. KeysInOrder'
    BY <1>1, <1>3, <1>4, <1>5, <1>6, <1>7 DEF Inv, KeysInOrder
  <1>10. UsedKeysShow' /\ OwnIsNewest' /\ PromptPackets'
    BY <1>1 DEF Inv, UsedKeysShow, OwnIsNewest, OwnKeys, UsedOnlyBy, PromptPackets
  <1>11. PacketsAreTheClients' /\ NumberedOnce' /\ UnusedKeysAreSilent'
    BY <1>1 DEF Inv, PacketsAreTheClients, NumberedOnce, UnusedKeysAreSilent
  <1>12. PairAgrees'
    <2> SUFFICES ASSUME NEW c \in client_session, c.key = s.end.key PROVE AgreesWith(c, s)'
      BY <1>1, <1>6 DEF PairAgrees
    <2>1. AgreesWith(c, session)
      BY <1>3, <1>4, <1>7 DEF Inv, PairAgrees
    <2>2. c.needed <= s.end.sent /\ c.heard < s.end.sent
      <3>1. c.needed <= end.sent /\ c.heard < end.sent
        BY <2>1, <1>7 DEF AgreesWith
      <3>2. QED BY <3>1, <1>3, <1>4, <1>5 DEF NoSeqno
    <2>3. ASSUME OwnKeys(c)'
          PROVE  /\ c.made = s.end.made
                 /\ s.end.needed <= c.sent /\ s.end.heard < c.sent
      <3>1. OwnKeys(c)
        BY <2>3, <1>1 DEF OwnKeys, UsedOnlyBy
      <3>2. QED BY <3>1, <2>1, <1>3, <1>4, <1>7 DEF AgreesWith
    <2>4. QED BY <2>2, <2>3 DEF AgreesWith
  <1>13. PacketsAreTheServers'
    <2> SUFFICES ASSUME NEW p \in to_client', p.key = s.end.key PROVE p.seqno < s.end.sent
      BY <1>6 DEF PacketsAreTheServers
    <2>1. CASE p = new
      BY <2>1, <1>3, <1>4, <1>5
    <2>2. CASE p \in to_client
      <3>1. p.seqno < end.sent
        BY <2>2, <1>3, <1>4, <1>7 DEF Inv, PacketsAreTheServers
      <3>2. QED BY <3>1, <2>2, <1>3, <1>4, <1>5
    <2>3. QED BY <2>1, <2>2, <1>6
  <1>14. HomedOnNewest'
    BY <1>3, <1>4, <1>6, <1>7 DEF Inv, HomedOnNewest
  <1>15. AcksAreOurs'
    <2>1. ASSUME NEW c \in client_session, NEW p \in to_client', OwnKeys(c)' PROVE AckIsFor(p, c)
      <3>1. OwnKeys(c)
        BY <2>1, <1>1 DEF OwnKeys, UsedOnlyBy
      <3>2. CASE p = new
        BY <3>1, <3>2, <1>3, <1>7 DEF Inv, PairAgrees, AgreesWith, AckIsFor
      <3>3. CASE p \in to_client
        BY <3>1, <3>3 DEF Inv, AcksAreOurs
      <3>4. QED BY <3>2, <3>3, <1>6
    <2>2. ASSUME NEW p \in to_server PROVE AckIsFor(p, s.end)
      BY <1>3, <1>4, <1>5, <1>7 DEF Inv, AcksAreOurs, AckIsFor, NoSeqno
    <2>3. QED BY <1>1, <1>6, <2>1, <2>2 DEF AcksAreOurs, AckIsFor
  <1>16. DestinationIsNewest'
    <2> SUFFICES ASSUME NEW p \in to_server, p.key = s.end.key, p.seqno = s.end.heard,
                        OwnKeys(s.end)'
                 PROVE  p.address = s.destination
      BY <1>1, <1>6 DEF DestinationIsNewest
    <2>1. OwnKeys(session.end)
      BY <1>1, <1>3, <1>4, <1>7 DEF OwnKeys, UsedOnlyBy
    <2>2. QED BY <2>1, <1>3, <1>4, <1>7 DEF Inv, DestinationIsNewest
  <1>17. QED
    BY <1>8, <1>9, <1>10, <1>11, <1>12, <1>13, <1>14, <1>15, <1>16 DEF Inv

(* A packet for the server's session, or one that opens the next one, is   *)
(* from the client's session if that has keys of its own: the two ends     *)
(* then agree on what they have sent to one another.                       *)
LEMMA ServerReceiveStep == ASSUME Inv, ServerReceive PROVE Inv'
  <1>1. PICK packet \in to_server :
          LET current == {t \in server_session : t.end.key = packet.key}
              opened  == {NewServerEnd(packet.key, packet.made, packet.address) :
                            k \in {next_key} \cap {packet.key}}
          IN  /\ \E session \in (IF current # {} THEN current ELSE opened) :
                   /\ \E after \in AfterPacket(session.end, packet) :
                        server_session' = {Rehome(session, after, packet.address)}
                   /\ server_fresh' = (current = {} \/ server_fresh
                                         \/ GoodAck(session.end, packet))
              /\ next_key' = KeyAfter(current = {})
              /\ UNCHANGED <<client_session, client_fresh, reply_allowed, address,
                             requests, replies, to_server, to_client, sessions_made, moves, outages>>
    BY DEF ServerReceive, budgets, network
  <1> DEFINE current == {t \in server_session : t.end.key = packet.key}
             opened  == {NewServerEnd(packet.key, packet.made, packet.address) :
                           k \in {next_key} \cap {packet.key}}
  <1>2. PICK session \in (IF current # {} THEN current ELSE opened) :
           \E after \in AfterPacket(session.end, packet) :
              server_session' = {Rehome(session, after, packet.address)}
    BY <1>1
  <1>3. PICK after \in AfterPacket(session.end, packet) :
           server_session' = {Rehome(session, after, packet.address)}
    BY <1>2
  <1>4. /\ next_key' = IF current = {} THEN next_key + 1 ELSE next_key
        /\ server_fresh' = TRUE \/ server_fresh' = server_fresh \/ server_fresh' \in BOOLEAN
        /\ UNCHANGED <<client_session, client_fresh, reply_allowed, address,
                       requests, replies, to_server, to_client, sessions_made, moves, outages>>
    BY <1>1 DEF KeyAfter
  <1>5. /\ packet \in Packets
        /\ next_key \in Nat
        /\ packet.key \in Nat /\ packet.made \in Nat /\ packet.address \in Addresses
        /\ packet.seqno \in Nat
        /\ \A c \in client_session :
             c.key \in Nat /\ c.sent \in Nat /\ c.needed \in Nat /\ c.heard \in Nat \cup {NoSeqno}
        /\ \A p \in to_server \cup to_client :
             /\ p.key \in Nat
             /\ p.needed \in Nat /\ p.sack \in Nat \cup {NoSeqno} /\ p.seqno \in Nat
    BY SessionConstants DEF Inv, Shapes, Ends, Packets, SessionConstants
  (* What both cases come to.                                              *)
  <1>6. /\ session \in ServerEnds
        /\ session.end.key = packet.key /\ session.homed = session.end.heard
        /\ \A p \in to_client : p.key = packet.key => p.seqno < session.end.sent
        /\ \A p \in to_server : AckIsFor(p, session.end)
        /\ \A c \in client_session : c.key = packet.key => AgreesWith(c, session)
        /\ \A p \in to_server :
             /\ p.key = packet.key /\ p.seqno = session.end.heard /\ OwnKeys(session.end)
             => p.address = session.destination
        /\ packet.key = next_key' - 1
        /\ \/ next_key' = next_key
           \/ next_key' = next_key + 1 /\ packet.key = next_key
    <2>1. CASE current # {}
      <3>1. session \in server_session /\ session.end.key = packet.key
        BY <2>1, <1>2
      <3>2. session \in ServerEnds /\ next_key' = next_key
        BY <2>1, <3>1, <1>4 DEF Inv, Shapes
      <3>3. packet.key = next_key - 1 /\ session.homed = session.end.heard
        BY <3>1 DEF Inv, KeysInOrder, HomedOnNewest
      <3>4. \A c \in client_session : c.key = packet.key => AgreesWith(c, session)
        BY <3>1 DEF Inv, PairAgrees
      <3>5. \A p \in to_client : p.key = packet.key => p.seqno < session.end.sent
        BY <3>1 DEF Inv, PacketsAreTheServers
      <3>6. \A p \in to_server : AckIsFor(p, session.end)
        BY <3>1 DEF Inv, AcksAreOurs
      <3>7. \A p \in to_server :
              /\ p.key = packet.key /\ p.seqno = session.end.heard /\ OwnKeys(session.end)
              => p.address = session.destination
        BY <3>1 DEF Inv, DestinationIsNewest
      <3>8. QED BY <3>1, <3>2, <3>3, <3>4, <3>5, <3>6, <3>7
    <2>2. CASE current = {}
      <3>1. packet.key = next_key /\ session = NewServerEnd(packet.key, packet.made, packet.address)
        BY <2>2, <1>2
      <3> DEFINE fresh == NewEnd(packet.key, packet.made)
      <3>2. /\ fresh \in Ends /\ fresh.key = packet.key /\ fresh.made = packet.made
            /\ fresh.sent = 0 /\ fresh.needed = 0 /\ fresh.heard = NoSeqno
        BY <1>5, FreshEnd
      <3>3. session = [end |-> fresh, destination |-> packet.address, homed |-> NoSeqno]
        BY <3>1 DEF NewServerEnd
      <3> HIDE DEF fresh
      <3>4. /\ session \in ServerEnds /\ session.end = fresh /\ session.homed = NoSeqno
            /\ session.destination = packet.address
        BY <3>2, <3>3, <1>5 DEF ServerEnds
      <3>5. next_key' = next_key + 1
        BY <2>2, <1>4
      <3>6. \A p \in to_client : p.key # packet.key
        BY <3>1, <1>5 DEF Inv, KeysInOrder
      <3>7. \A p \in to_server : AckIsFor(p, session.end)
        BY <3>1, <3>2, <3>4 DEF Inv, UnusedKeysAreSilent, AckIsFor, NoSeqno
      <3>8. ASSUME NEW c \in client_session, c.key = packet.key PROVE AgreesWith(c, session)
        <4>1. c.needed = 0 /\ c.heard = NoSeqno
          BY <3>1, <3>8 DEF Inv, UnusedKeysAreSilent
        <4>2. OwnKeys(c) => packet.made = c.made
          BY <3>8 DEF OwnKeys, UsedOnlyBy
        <4>3. QED BY <4>1, <4>2, <3>2, <3>4, <1>5 DEF AgreesWith, NoSeqno
      <3>9. \A p \in to_server : p.seqno # session.end.heard
        BY <3>2, <3>4, <1>5 DEF NoSeqno
      <3>10. session.end.key = packet.key /\ session.homed = session.end.heard
        BY <3>2, <3>4
      <3>11. packet.key = next_key' - 1
        BY <3>1, <3>5, <1>5
      <3>12. QED BY <3>1, <3>4, <3>5, <3>6, <3>7, <3>8, <3>9, <3>10, <3>11
    <2>3. QED BY <2>1, <2>2
  <1> DEFINE s == Rehome(session, after, packet.address)
  <1>7. server_session' = {s}
    BY <1>3
  <1> HIDE DEF current, opened, s
  <1>8. /\ session.end \in Ends /\ session.destination \in Addresses
        /\ session.end.heard \in Nat \cup {NoSeqno} /\ session.end.needed \in Nat
        /\ session.end.sent \in Nat
    BY <1>6, SessionConstants DEF ServerEnds, Ends, SessionConstants
  <1>9. /\ after \in Ends
        /\ after.key = packet.key /\ after.made = session.end.made
        /\ after.sent = session.end.sent
        /\ after.heard = AtLeast(session.end.heard, packet.seqno)
        /\ after.needed <= session.end.needed \/ after.needed <= packet.seqno + 1
        /\ after.needed \in Nat
    <2>1. after.needed \in Nat
      BY <1>3, <1>5, <1>8, AfterFacts DEF Ends
    <2>2. QED BY <2>1, <1>3, <1>5, <1>6, <1>8, AfterFacts
  <1>10. /\ after.heard \in Nat
         /\ after.heard = packet.seqno \/ after.heard = session.end.heard
    BY <1>5, <1>8, <1>9 DEF AtLeast, NoSeqno
  <1>11. /\ s \in ServerEnds /\ s.end = after /\ s.homed = after.heard
         /\ \/ s.destination = packet.address /\ after.heard = packet.seqno
            \/ s.destination = session.destination /\ after.heard = session.end.heard
    <2>1. CASE after.heard > session.homed
      <3>1. s = [end |-> after, destination |-> packet.address, homed |-> after.heard]
        BY <2>1 DEF s, Rehome
      <3>2. after.heard = packet.seqno
        BY <2>1, <1>6, <1>8, <1>10 DEF NoSeqno
      <3>3. QED BY <3>1, <3>2, <1>5, <1>9, <1>10 DEF ServerEnds
    <2>2. CASE ~(after.heard > session.homed)
      <3>1. s = [session EXCEPT !.end = after]
        BY <2>2 DEF s, Rehome
      <3>2. s \in ServerEnds /\ s.end = after /\ s.homed = session.homed
            /\ s.destination = session.destination
        BY <3>1, <1>6, <1>9 DEF ServerEnds
      <3>3. after.heard = session.homed
        BY <2>2, <1>5, <1>6, <1>8, <1>9 DEF AtLeast, NoSeqno
      <3>4. QED BY <3>2, <3>3, <1>6
    <2>3. QED BY <2>1, <2>2
  <1>12. Shapes'
    <2>1. server_fresh' \in BOOLEAN
      BY <1>1 DEF Inv, Shapes
    <2>2. next_key' \in Nat
      BY <1>5, <1>6
    <2>3. QED BY <2>1, <2>2, <1>4, <1>7, <1>11 DEF Inv, Shapes, AtMostOne
  <1>13. KeysInOrder'
    <2>1. /\ \A c \in client_session : c.key <= next_key' /\ c.made < sessions_made
          /\ \A p \in to_server : p.key <= next_key' /\ p.made < sessions_made
          /\ \A p \in to_client : p.key < next_key'
      BY <1>5, <1>6 DEF Inv, KeysInOrder
    <2>2. s.end.key = next_key' - 1
      BY <1>6, <1>9, <1>11
    <2>3. QED BY <2>1, <2>2, <1>4, <1>7 DEF KeysInOrder
  <1>14. UsedKeysShow'
    BY <1>4, <1>6 DEF Inv, UsedKeysShow
  <1>15. UnusedKeysAreSilent'
    <2>1. CASE next_key' = next_key
      BY <2>1, <1>4 DEF Inv, UnusedKeysAreSilent
    <2>2. CASE next_key' = next_key + 1
      <3>1. /\ \A c \in client_session : c.key # next_key'
            /\ \A p \in to_server : p.key # next_key'
        BY <2>2, <1>5 DEF Inv, KeysInOrder
      <3>2. QED BY <3>1, <1>4 DEF UnusedKeysAreSilent
    <2>3. QED BY <2>1, <2>2, <1>6
  <1>16. OwnIsNewest' /\ PacketsAreTheClients' /\ NumberedOnce' /\ PromptPackets'
    BY <1>4 DEF Inv, OwnIsNewest, OwnKeys, UsedOnlyBy, PacketsAreTheClients, NumberedOnce,
                PromptPackets
  <1>17. PairAgrees'
    <2> SUFFICES ASSUME NEW c \in client_session, c.key = s.end.key PROVE AgreesWith(c, s)'
      BY <1>4, <1>7 DEF PairAgrees
    <2>1. c.key = packet.key /\ AgreesWith(c, session)
      BY <1>6, <1>9, <1>11
    <2>2. c.needed <= s.end.sent /\ c.heard < s.end.sent
      BY <2>1, <1>9, <1>11 DEF AgreesWith
    <2>3. ASSUME OwnKeys(c)'
          PROVE  /\ c.made = s.end.made
                 /\ s.end.needed <= c.sent /\ s.end.heard < c.sent
      <3>1. OwnKeys(c)
        BY <2>3, <1>4 DEF OwnKeys, UsedOnlyBy
      <3>2. packet.made = c.made
        BY <3>1, <2>1 DEF OwnKeys, UsedOnlyBy
      <3>3. packet.seqno < c.sent
        BY <3>2 DEF Inv, PacketsAreTheClients
      <3>4. /\ c.made = session.end.made
            /\ session.end.needed <= c.sent /\ session.end.heard < c.sent
        BY <3>1, <2>1 DEF AgreesWith
      <3>5. after.needed <= c.sent /\ after.heard < c.sent
        BY <3>3, <3>4, <1>5, <1>8, <1>9, <1>10
      <3>6. QED BY <3>4, <3>5, <1>9, <1>11
    <2>4. QED BY <2>2, <2>3 DEF AgreesWith
  <1>18. PacketsAreTheServers' /\ HomedOnNewest'
    BY <1>4, <1>6, <1>7, <1>9, <1>11 DEF PacketsAreTheServers, HomedOnNewest
  <1>19. AcksAreOurs'
    <2>1. ASSUME NEW p \in to_server PROVE AckIsFor(p, s.end)
      BY <1>6, <1>9, <1>11 DEF AckIsFor
    <2>2. \A c \in client_session, p \in to_client : OwnKeys(c)' => AckIsFor(p, c)
      BY <1>4 DEF Inv, AcksAreOurs, OwnKeys, UsedOnlyBy
    <2>3. QED BY <2>1, <2>2, <1>4, <1>7 DEF AcksAreOurs, AckIsFor
  <1>20. DestinationIsNewest'
    <2> SUFFICES ASSUME NEW p \in to_server, p.key = after.key, p.seqno = after.heard,
                        OwnKeys(after)'
                 PROVE  p.address = s.destination
      BY <1>4, <1>7, <1>11 DEF DestinationIsNewest
    <2>1. OwnKeys(session.end)
      BY <1>4, <1>6, <1>9 DEF OwnKeys, UsedOnlyBy
    <2>2. CASE s.destination = packet.address /\ after.heard = packet.seqno
      <3>1. p.made = session.end.made /\ packet.made = session.end.made
        BY <2>1, <1>6, <1>9 DEF OwnKeys, UsedOnlyBy
      <3>2. p = packet
        BY <3>1, <2>2 DEF Inv, NumberedOnce
      <3>3. QED BY <2>2, <3>2
    <2>3. CASE s.destination = session.destination /\ after.heard = session.end.heard
      BY <2>1, <2>3, <1>6, <1>9
    <2>4. QED BY <2>2, <2>3, <1>11
  <1>21. QED
    BY <1>12, <1>13, <1>14, <1>15, <1>16, <1>17, <1>18, <1>19, <1>20 DEF Inv

LEMMA SessionNext == Inv /\ [Next]_session_vars => Inv'
  <1> SUFFICES ASSUME Inv, [Next]_session_vars PROVE Inv'
    OBVIOUS
  <1>1. CASE UNCHANGED session_vars
    <2>1. UNCHANGED <<client_session, server_session, client_fresh, server_fresh,
                      next_key, reply_allowed, address, requests, replies,
                      to_server, to_client, sessions_made, moves, outages>>
      BY <1>1 DEF session_vars
    <2>2. Shapes'
      BY <2>1 DEF Inv, Shapes
    <2>3. QED BY <2>1, <2>2, QuietStep
  <1>2. QED
    BY <1>1, QuietActions, ReceiveKeyStep, ClientTimeoutStep, ServerTimeoutStep,
       ClientSendStep, ClientReceiveStep, ServerSendStep, ServerReceiveStep
       DEF Next

-----------------------------------------------------------------------------
(* The state of a session keeps its type, and each end at most one session.*)
THEOREM SessionTypeCorrect == Spec => []TypeOK
  <1>1. Inv => TypeOK
    BY AtMost DEF Inv, Shapes, TypeOK
  <1>2. QED BY SessionInit, SessionNext, <1>1, PTL DEF Spec

(* No ack that an end with keys of its own can hear needs a frame or names *)
(* a packet that its session has not sent, late as it may be, so it does   *)
(* not meet the internal errors of sender.hh and sender.cc; and the server *)
(* does not with any keys.                                                 *)
THEOREM SessionAcksAreOurs == Spec => []AcksAreOurs
  <1>1. Inv => AcksAreOurs
    BY DEF Inv
  <1>2. QED BY SessionInit, SessionNext, <1>1, PTL DEF Spec

(* The server answers to where the newest packet came from.                *)
THEOREM SessionDestinationIsNewest == Spec => []DestinationIsNewest
  <1>1. Inv => DestinationIsNewest
    BY DEF Inv
  <1>2. QED BY SessionInit, SessionNext, <1>1, PTL DEF Spec

(* On a prompt network every end has keys of its own, and so no packet or  *)
(* reply of one of the client's sessions becomes part of another.          *)
LEMMA PromptKeysAreOwn ==
    ASSUME PromptNetwork
    PROVE  Spec => [](SessionsArePaired /\ \A c \in client_session : OwnKeys(c))
  <1>1. ASSUME Inv, NEW c \in client_session PROVE OwnKeys(c)
    BY <1>1 DEF Inv, Shapes, AtMostOne, PromptPackets, OwnKeys, UsedOnlyBy
  <1>2. Inv => SessionsArePaired /\ \A c \in client_session : OwnKeys(c)
    BY <1>1 DEF Inv, PairAgrees, AgreesWith, SessionsArePaired
  <1>3. QED BY SessionInit, SessionNext, <1>2, PTL DEF Spec

(* Only a silence ends a session in which both ends hear each other, with  *)
(* keys of its own.                                                        *)
THEOREM SessionLivePairIsKept == Spec => LivePairIsKept
  <1> DEFINE Kept == /\ Paired /\ client_fresh /\ server_fresh
                     /\ \A c \in client_session : OwnKeys(c)
                     => Paired'
  <1>1. Inv /\ [Next]_session_vars => [Kept]_session_vars
    <2> SUFFICES ASSUME Inv, Next, Paired, client_fresh, server_fresh,
                        \A c \in client_session : OwnKeys(c)
                 PROVE  Paired'
      OBVIOUS
    <2>1. PICK c \in client_session, s \in server_session : c.key = s.end.key
      BY DEF Paired
    <2>2. /\ c \in Ends /\ s \in ServerEnds /\ s.end \in Ends /\ next_key \in Nat
          /\ \A d \in client_session : d = c
          /\ \A t \in server_session : t = s
      BY DEF Inv, Shapes, AtMostOne, ServerEnds
    <2>3. s.end.key = next_key - 1
      BY DEF Inv, KeysInOrder
    <2>4. CASE UNCHANGED <<client_session, server_session>>
      BY <2>4 DEF Paired
    <2>5. CASE ClientSend
      <3>1. client_session' = {Sent(c)} /\ CanPush(c) /\ server_session' = server_session
        BY <2>2, <2>5 DEF ClientSend
      <3>2. address \in Addresses
        BY DEF Inv, Shapes
      <3>3. Sent(c).key = c.key
        BY <2>2, <3>1, <3>2, SendFacts
      <3>4. QED BY <2>1, <3>1, <3>3 DEF Paired
    <2>6. CASE ClientReceive
      <3>1. PICK packet \in to_client : \E after \in AfterPacket(c, packet) :
               client_session' = {after} /\ server_session' = server_session
        BY <2>2, <2>6 DEF ClientReceive
      <3> PICK after \in AfterPacket(c, packet) :
               client_session' = {after} /\ server_session' = server_session
        BY <3>1
      <3>2. after.key = c.key
        BY <2>2, <3>1, AfterFacts DEF Inv, Shapes
      <3>3. QED BY <2>1, <3>1, <3>2 DEF Paired
    <2>7. CASE ServerSend
      <3>1. /\ server_session' = {[s EXCEPT !.end = Sent(@)]} /\ CanPush(s.end)
            /\ client_session' = client_session
        BY <2>2, <2>7 DEF ServerSend
      <3>2. s.destination \in Addresses
        BY <2>2 DEF ServerEnds
      <3>3. Sent(s.end).key = s.end.key
        BY <2>2, <3>1, <3>2, SendFacts
      <3>4. [s EXCEPT !.end = Sent(@)].end = Sent(s.end)
        BY <2>2 DEF ServerEnds
      <3>5. QED BY <2>1, <3>1, <3>3, <3>4 DEF Paired
    <2>8. CASE ServerReceive
      <3>1. PICK packet \in to_server :
              LET current == {t \in server_session : t.end.key = packet.key}
                  opened  == {NewServerEnd(packet.key, packet.made, packet.address) :
                                k \in {next_key} \cap {packet.key}}
              IN  /\ \E session \in (IF current # {} THEN current ELSE opened) :
                        \E after \in AfterPacket(session.end, packet) :
                          server_session' = {Rehome(session, after, packet.address)}
                  /\ client_session' = client_session
        BY <2>8 DEF ServerReceive
      <3>2. packet \in Packets /\ packet.key \in Nat /\ packet.key <= c.key
        BY <2>1 DEF Inv, Shapes, Packets, OwnIsNewest
      <3>3. s \in {t \in server_session : t.end.key = packet.key}
        <4>1. packet.key # next_key
          BY <2>1, <2>2, <2>3, <3>2
        <4>2. {t \in server_session : t.end.key = packet.key} # {}
          BY <3>1, <4>1
        <4>3. QED BY <2>2, <4>2
      <3>4. PICK after \in AfterPacket(s.end, packet) :
              server_session' = {Rehome(s, after, packet.address)}
        BY <2>2, <3>1, <3>3
      <3>5. client_session' = client_session
        BY <3>1
      <3>6. after.key = s.end.key
        BY <2>2, <3>2, <3>4, AfterFacts
      <3>7. Rehome(s, after, packet.address).end = after
        BY <2>2 DEF Rehome, ServerEnds
      <3>8. QED BY <2>1, <3>4, <3>5, <3>6, <3>7 DEF Paired
    <2>9. QED
      BY <2>1, <2>4, <2>5, <2>6, <2>7, <2>8
         DEF Next, RequestKey, ReplyKey, AllowReply, ReceiveKey, ClientTimeout, ServerTimeout,
             ClientSilence, ServerSilence, Move
  <1>2. QED BY SessionInit, SessionNext, <1>1, PTL DEF Spec, LivePairIsKept
------------------------------------------------------------------------------
(* Messages, the other half of this module: what Control checks of the     *)
(* formats on a few samples, for every sample and any limits. From numbers *)
(* and sequences up to parsers of fields, of structures and of whole       *)
(* messages; then keys as text, sealed messages, and the datagrams that    *)
(* hold them.                                                              *)

------------------------------------------------------------------------------
(* Numbers as digits of a base.                                            *)

(* Two functions with the same beginning and the same steps are the same.  *)
LEMMA SameSteps ==
    ASSUME NEW n \in Nat, NEW f, NEW c, f[0] = c[0],
           \A i \in 1 .. n : f[i - 1] = c[i - 1] => f[i] = c[i]
    PROVE  \A i \in 0 .. n : f[i] = c[i]
<1> DEFINE T == {m \in Nat : m <= n => f[m] = c[m]}
<1>1. 0 \in T
  OBVIOUS
<1>2. ASSUME NEW m \in T PROVE m + 1 \in T
  <2>1. CASE m + 1 > n
    BY <2>1
  <2>2. CASE m + 1 <= n
    <3>1. m + 1 \in 1 .. n /\ (m + 1) - 1 = m /\ f[m] = c[m]
      BY <2>2
    <3>2. f[m + 1] = c[m + 1]
      BY <3>1
    <3> QED
      BY <3>1, <3>2
  <2> QED
    BY <2>1, <2>2
<1>3. T \subseteq Nat
  OBVIOUS
<1> HIDE DEF T
<1>4. T = Nat
  BY <1>1, <1>2, <1>3, NatSetInduction
<1> QED
  BY <1>4 DEF T

LEMMA PowerAt ==
    ASSUME NEW base \in Nat, NEW n \in Nat, NEW c, c = [i \in 0 .. n |-> c[i]],
           c[0] = 1, \A i \in 1 .. n : c[i] = base * c[i - 1]
    PROVE  Power(base, n) = c[n]
<1> DEFINE Is(g) == g = [i \in 0 .. n |-> IF i = 0 THEN 1 ELSE base * g[i - 1]]
           power == CHOOSE g : Is(g)
<1>1. Is(c)
  <2>1. \A i \in 0 .. n : i = 0 \/ i \in 1 .. n
    OBVIOUS
  <2>2. \A i \in 0 .. n : c[i] = IF i = 0 THEN 1 ELSE base * c[i - 1]
    BY <2>1
  <2> QED
    BY <2>2
<1>2. Is(power)
  BY <1>1
<1> HIDE DEF power
<1>3. Power(base, n) = power[n]
  BY DEF Power, power
<1>4. power[0] = c[0] /\ \A i \in 1 .. n : power[i - 1] = c[i - 1] => power[i] = c[i]
  <2>1. 0 \in 0 .. n /\ \A i \in 1 .. n : i \in 0 .. n /\ i # 0
    OBVIOUS
  <2>2. power[0] = 1 /\ \A i \in 1 .. n : power[i] = base * power[i - 1]
    BY <1>2, <2>1
  <2> QED
    BY <2>2
<1>5. \A i \in 0 .. n : power[i] = c[i]
  BY ONLY <1>4, n \in Nat, SameSteps
<1> QED
  BY <1>3, <1>5

LEMMA PowerIs ==
    ASSUME NEW base \in Nat \ {0}, NEW n \in Nat
    PROVE  /\ Power(base, n) \in Nat \ {0} /\ Power(base, 0) = 1
           /\ Power(base, n + 1) = base * Power(base, n)
<1> DEFINE S == Nat \ {0}
           step == [i \in 1 .. n + 1 |-> [v \in S |-> base * v]]
<1>1. 1 \in S /\ step \in [1 .. n + 1 -> [S -> S]] /\ n + 1 \in Nat
  <2>1. \A v \in S : base * v \in S
    OBVIOUS
  <2> QED
    BY <2>1
<1>2. PICK f : Recursion(f, n + 1, S, 1, step)
  <2> HIDE DEF step, S
  <2> QED
    BY <1>1, RecursionOnNat
<1>3. f \in [0 .. n + 1 -> S] /\ f[0] = 1 /\ \A i \in 1 .. n + 1 : f[i] = base * f[i - 1]
  <2>1. \A i \in 1 .. n + 1 : i - 1 \in 0 .. n + 1
    OBVIOUS
  <2> QED
    BY <1>2, <2>1 DEF Recursion
<1>4. Power(base, n + 1) = f[n + 1]
  <2>1. f = [i \in 0 .. n + 1 |-> f[i]]
    BY <1>3
  <2> QED
    BY <2>1, <1>1, <1>3, PowerAt
<1> DEFINE g == [i \in 0 .. n |-> f[i]]
           z == [i \in 0 .. 0 |-> 1]
<1>5. Power(base, n) = f[n]
  <2>1. g = [i \in 0 .. n |-> g[i]] /\ g[0] = 1 /\ g[n] = f[n]
    BY <1>3
  <2>2. \A i \in 1 .. n : g[i] = base * g[i - 1]
    BY <1>3
  <2> HIDE DEF g
  <2> QED
    BY <2>1, <2>2, PowerAt
<1>6. Power(base, 0) = 1
  <2>1. z = [i \in 0 .. 0 |-> z[i]] /\ z[0] = 1 /\ \A i \in 1 .. 0 : z[i] = base * z[i - 1]
    OBVIOUS
  <2> HIDE DEF z
  <2> QED
    BY <2>1, PowerAt
<1> QED
  BY <1>3, <1>4, <1>5, <1>6

LEMMA QuotientTwice ==
    ASSUME NEW v \in Nat, NEW a \in Nat \ {0}, NEW b \in Nat \ {0}
    PROVE  v \div (b * a) = (v \div a) \div b
<1> DEFINE q == v \div a
           r == v % a
           x == q \div b
           y == q % b
<1>1. q \in Int /\ r \in 0 .. a - 1 /\ v = a * q + r
  BY Quotient
<1>2. x \in Int /\ y \in 0 .. b - 1 /\ q = b * x + y
  BY <1>1, Quotient
<1> HIDE DEF q, r, x, y
<1>3. a * q = a * (b * x) + a * y
  <2>1. b * x \in Int /\ y \in Int
    BY <1>2
  <2> QED
    BY <1>2, <2>1, Distributes
<1>4. a * (b * x) = (b * a) * x
  BY <1>2
<1>5. a * y + r \in 0 .. (b * a) - 1
  <2>1. y <= b - 1 /\ y >= 0 /\ a > 0 /\ a \in Nat /\ y \in Int
    BY <1>2
  <2>2. a * y <= a * (b - 1) /\ a * y >= 0 /\ a * y \in Int
    BY ONLY <2>1, b \in Nat
  <2>3. a * (b - 1) = (b * a) - a
    BY ONLY <2>1, b \in Nat
  <2> QED
    BY <1>1, <2>1, <2>2, <2>3
<1>6. v = (b * a) * x + (a * y + r)
  <2>1. a * y \in Int /\ (b * a) * x \in Int
    BY <1>2
  <2> QED
    BY ONLY <1>1, <1>3, <1>4, <2>1, a * q \in Int
<1>7. b * a \in Nat \ {0}
  OBVIOUS
<1>8. v \div (b * a) = x
  <2> DEFINE m == b * a
             s == a * y + r
  <2>1. m \in Nat \ {0} /\ s \in 0 .. m - 1 /\ v = m * x + s /\ v \in Int
    BY <1>5, <1>6, <1>7
  <2> HIDE DEF m, s
  <2>2. v \div m = x
    BY ONLY <2>1, <1>2, Remainder
  <2> QED
    BY <2>2 DEF m
<1> QED
  BY <1>8 DEF x, q

LEMMA ValueAt ==
    ASSUME NEW base \in Nat, NEW digits, Len(digits) \in Nat, NEW c,
           c = [i \in 0 .. Len(digits) |-> c[i]],
           c[0] = 0, \A i \in 1 .. Len(digits) : c[i] = c[i - 1] * base + digits[i]
    PROVE  ValueOf(base, digits) = c[Len(digits)]
<1> DEFINE n == Len(digits)
           Is(g) == g = [i \in 0 .. n |-> IF i = 0 THEN 0 ELSE g[i - 1] * base + digits[i]]
           value == CHOOSE g : Is(g)
<1>1. Is(c)
  <2>1. \A i \in 0 .. n : i = 0 \/ i \in 1 .. n
    OBVIOUS
  <2>2. \A i \in 0 .. n : c[i] = IF i = 0 THEN 0 ELSE c[i - 1] * base + digits[i]
    BY <2>1
  <2> QED
    BY <2>2
<1>2. Is(value)
  BY <1>1
<1> HIDE DEF value
<1>3. ValueOf(base, digits) = value[n]
  BY DEF ValueOf, value
<1>4. value[0] = c[0] /\ \A i \in 1 .. n : value[i - 1] = c[i - 1] => value[i] = c[i]
  <2>1. 0 \in 0 .. n /\ \A i \in 1 .. n : i \in 0 .. n /\ i # 0
    OBVIOUS
  <2>2. value[0] = 0 /\ \A i \in 1 .. n : value[i] = value[i - 1] * base + digits[i]
    BY <1>2, <2>1
  <2> QED
    BY <2>2
<1>5. \A i \in 0 .. n : value[i] = c[i]
  <2>1. n \in Nat
    OBVIOUS
  <2> QED
    BY ONLY <1>4, <2>1, SameSteps
<1> QED
  BY <1>3, <1>5

LEMMA TotalAt ==
    ASSUME NEW numbers, Len(numbers) \in Nat, NEW c,
           c = [i \in 0 .. Len(numbers) |-> c[i]],
           c[0] = 0, \A i \in 1 .. Len(numbers) : c[i] = c[i - 1] + numbers[i]
    PROVE  Total(numbers) = c[Len(numbers)]
<1> DEFINE n == Len(numbers)
           Is(g) == g = [i \in 0 .. n |-> IF i = 0 THEN 0 ELSE g[i - 1] + numbers[i]]
           sum == CHOOSE g : Is(g)
<1>1. Is(c)
  <2>1. \A i \in 0 .. n : i = 0 \/ i \in 1 .. n
    OBVIOUS
  <2>2. \A i \in 0 .. n : c[i] = IF i = 0 THEN 0 ELSE c[i - 1] + numbers[i]
    BY <2>1
  <2> QED
    BY <2>2
<1>2. Is(sum)
  BY <1>1
<1> HIDE DEF sum
<1>3. Total(numbers) = sum[n]
  BY DEF Total, sum
<1>4. sum[0] = c[0] /\ \A i \in 1 .. n : sum[i - 1] = c[i - 1] => sum[i] = c[i]
  <2>1. 0 \in 0 .. n /\ \A i \in 1 .. n : i \in 0 .. n /\ i # 0
    OBVIOUS
  <2>2. sum[0] = 0 /\ \A i \in 1 .. n : sum[i] = sum[i - 1] + numbers[i]
    BY <1>2, <2>1
  <2> QED
    BY <2>2
<1>5. \A i \in 0 .. n : sum[i] = c[i]
  <2>1. n \in Nat
    OBVIOUS
  <2> QED
    BY ONLY <1>4, <2>1, SameSteps
<1> QED
  BY <1>3, <1>5

(* Digits are bytes of the base, and their value is the number.            *)
LEMMA DigitsAre ==
    ASSUME NEW base \in Nat \ {0}, NEW size \in Nat, NEW v \in Int
    PROVE  Digits(base, v, size) \in Seq(0 .. base - 1) /\ Len(Digits(base, v, size)) = size
<1>1. \A i \in 1 .. size : (v \div Power(base, size - i)) % base \in 0 .. base - 1
  <2> TAKE i \in 1 .. size
  <2>1. size - i \in Nat
    OBVIOUS
  <2>2. Power(base, size - i) \in Nat \ {0}
    BY <2>1, PowerIs
  <2>3. v \div Power(base, size - i) \in Int
    BY <2>2, Quotient
  <2> QED
    BY <2>3, Quotient
<1> QED
  BY <1>1 DEF Digits

LEMMA DigitsRead ==
    ASSUME NEW base \in Nat \ {0}, NEW size \in Nat, NEW v \in Nat, v < Power(base, size)
    PROVE  ValueOf(base, Digits(base, v, size)) = v
<1> DEFINE d == Digits(base, v, size)
           c == [i \in 0 .. size |-> v \div Power(base, size - i)]
<1>1. Len(d) = size
  BY DigitsAre
<1>2. c = [i \in 0 .. size |-> c[i]]
  OBVIOUS
<1>3. c[0] = 0
  <2> DEFINE p == Power(base, size)
  <2>1. p \in Nat \ {0} /\ v < p
    BY PowerIs
  <2>2. c[0] = v \div p
    OBVIOUS
  <2> HIDE DEF p
  <2>3. v \div p = 0
    BY ONLY <2>1, v \in Nat
  <2> QED
    BY <2>2, <2>3
<1>4. ASSUME NEW i \in 1 .. size PROVE c[i] = c[i - 1] * base + d[i]
  <2> DEFINE p == Power(base, size - i)
             q == v \div p
  <2>1. size - i \in Nat /\ size - (i - 1) = (size - i) + 1 /\ i \in 0 .. size /\ i - 1 \in 0 .. size
    OBVIOUS
  <2>2. p \in Nat \ {0} /\ Power(base, size - (i - 1)) = base * p
    BY <2>1, PowerIs
  <2>3. c[i] = q /\ c[i - 1] = v \div (base * p) /\ d[i] = q % base
    BY <2>1, <2>2 DEF Digits
  <2> HIDE DEF p, d, c
  <2>4. v \div (base * p) = q \div base
    BY ONLY <2>2, v \in Nat, base \in Nat \ {0}, QuotientTwice DEF q
  <2>5. q \in Int
    BY ONLY <2>2, v \in Nat, Quotient DEF q
  <2> HIDE DEF q
  <2>6. q = base * (q \div base) + (q % base) /\ q \div base \in Int
    BY ONLY <2>5, base \in Nat \ {0}, Quotient
  <2>7. base * (q \div base) = (q \div base) * base
    BY ONLY <2>6, base \in Nat \ {0}
  <2> QED
    BY <2>3, <2>4, <2>6, <2>7
<1>5. c[size] = v
  <2>1. size - size = 0 /\ size \in 0 .. size
    OBVIOUS
  <2>2. c[size] = v \div 1
    BY <2>1, PowerIs
  <2>3. v = 1 * v + 0
    OBVIOUS
  <2> HIDE DEF c
  <2> QED
    BY ONLY <2>2, <2>3, v \in Int, Remainder
<1> HIDE DEF c, d
<1>6. ValueOf(base, d) = c[size]
  BY <1>1, <1>2, <1>3, <1>4, ValueAt
<1> QED
  BY <1>5, <1>6 DEF d

------------------------------------------------------------------------------
(* Sequences of sequences one after the other, and the beginnings and the  *)
(* rest of a sequence.                                                     *)

(* c[i] is the first i sequences of w, one after the other.                *)
Joins(w, c, X) ==
    /\ c \in [0 .. Len(w) -> Seq(X)] /\ c[0] = <<>>
    /\ \A i \in 1 .. Len(w) : c[i] = c[i - 1] \o w[i]

Stands(w, c) ==
    /\ \A i \in 1 .. Len(w) : Len(c[i]) <= Len(c[Len(w)])
    /\ \A i \in 1 .. Len(w) : \A j \in 1 .. Len(w[i]) :
          c[Len(w)][Len(c[i - 1]) + j] = w[i][j]

LEMMA FlattenIs ==
    ASSUME NEW X, NEW w \in Seq(Seq(X))
    PROVE  \E c : Joins(w, c, X) /\ FlattenSeq(w) = c[Len(w)]
<1> DEFINE n == Len(w)
           S == Seq(X)
           step == [i \in 1 .. n |-> [s \in S |-> s \o w[i]]]
<1>1. n \in Nat /\ \A i \in 1 .. n : w[i] \in S
  OBVIOUS
<1>2. <<>> \in S /\ step \in [1 .. n -> [S -> S]]
  <2>1. \A i \in 1 .. n, s \in S : s \o w[i] \in S
    BY <1>1
  <2> QED
    BY <2>1
<1>3. PICK c : Recursion(c, n, S, <<>>, step)
  <2> HIDE DEF step, S
  <2> QED
    BY <1>1, <1>2, RecursionOnNat
<1>4. c \in [0 .. n -> S] /\ c[0] = <<>> /\ \A i \in 1 .. n : c[i] = c[i - 1] \o w[i]
  <2>1. \A i \in 1 .. n : i - 1 \in 0 .. n
    BY <1>1
  <2> QED
    BY <1>3, <2>1 DEF Recursion
<1>5. Joins(w, c, X)
  BY <1>4 DEF Joins
<1> DEFINE Is(g) == g = [i \in 1 .. n |-> IF i = 1 THEN w[i] ELSE g[i - 1] \o w[i]]
           flatten == CHOOSE g : Is(g)
           g1 == [i \in 1 .. n |-> c[i]]
<1> HIDE DEF S, step
<1>6. FlattenSeq(w) = c[n]
  <2>1. CASE n = 0
    BY <2>1, <1>4 DEF FlattenSeq
  <2>2. CASE n # 0
    <3>1. Is(g1)
      <4>1. c[1] = w[1]
        <5>1. 1 \in 1 .. n /\ 1 - 1 = 0
          BY <1>1, <2>2
        <5>2. c[1] = <<>> \o w[1]
          BY <5>1, <1>4
        <5>3. w[1] \in Seq(X)
          BY <5>1
        <5> QED
          BY <5>2, <5>3
      <4>2. \A i \in 1 .. n : i # 1 => i - 1 \in 1 .. n
        BY <1>1
      <4>3. \A i \in 1 .. n : c[i] = IF i = 1 THEN w[i] ELSE c[i - 1] \o w[i]
        BY <1>4, <4>1
      <4>4. \A i \in 1 .. n : g1[i] = IF i = 1 THEN w[i] ELSE g1[i - 1] \o w[i]
        BY <4>2, <4>3
      <4> QED
        BY <4>4
    <3>2. Is(flatten)
      BY <3>1
    <3> HIDE DEF flatten
    <3>3. FlattenSeq(w) = flatten[n]
      BY <2>2 DEF FlattenSeq, flatten
    <3> DEFINE f == [i \in 0 .. n - 1 |-> flatten[i + 1]]
               h == [i \in 0 .. n - 1 |-> c[i + 1]]
    <3>4. \A i \in 0 .. n - 1 : f[i] = h[i]
      <4>1. f[0] = h[0]
        <5>1. 1 \in 1 .. n /\ 0 \in 0 .. n - 1 /\ 0 + 1 = 1
          BY <1>1, <2>2
        <5>2. flatten[1] = w[1] /\ g1[1] = w[1] /\ g1[1] = c[1]
          BY <3>1, <3>2, <5>1
        <5> QED
          BY <5>1, <5>2
      <4>2. ASSUME NEW i \in 1 .. n - 1, f[i - 1] = h[i - 1] PROVE f[i] = h[i]
        <5>1. /\ i + 1 \in 1 .. n /\ i + 1 # 1 /\ (i + 1) - 1 = i /\ i \in 0 .. n - 1
              /\ i - 1 \in 0 .. n - 1 /\ (i - 1) + 1 = i
          BY <1>1
        <5>2. flatten[i + 1] = flatten[i] \o w[i + 1]
          BY <3>2, <5>1
        <5>3. c[i + 1] = c[i] \o w[i + 1]
          BY <1>4, <5>1
        <5>4. flatten[i] = c[i]
          BY <4>2, <5>1
        <5> QED
          BY <5>1, <5>2, <5>3, <5>4
      <4>3. n - 1 \in Nat
        BY <1>1, <2>2
      <4> HIDE DEF f, h, n
      <4> QED
        BY <4>1, <4>2, <4>3, SameSteps
    <3>5. n - 1 \in 0 .. n - 1 /\ (n - 1) + 1 = n
      BY <1>1, <2>2
    <3> QED
      BY <3>3, <3>4, <3>5
  <2> QED
    BY <2>1, <2>2
<1> QED
  BY <1>5, <1>6

LEMMA ConcatAt ==
    ASSUME NEW X, NEW a \in Seq(X), NEW b \in Seq(X)
    PROVE  /\ a \o b \in Seq(X) /\ Len(a \o b) = Len(a) + Len(b)
           /\ Len(a) \in Nat /\ Len(b) \in Nat
           /\ \A j \in 1 .. Len(a) : (a \o b)[j] = a[j]
           /\ \A j \in 1 .. Len(b) : (a \o b)[Len(a) + j] = b[j]
<1>1. /\ a \o b \in Seq(X) /\ Len(a \o b) = Len(a) + Len(b)
      /\ Len(a) \in Nat /\ Len(b) \in Nat
  OBVIOUS
<1>2. \A j \in 1 .. Len(a) : (a \o b)[j] = a[j]
  BY <1>1
<1>3. \A j \in 1 .. Len(b) : (a \o b)[Len(a) + j] = b[j]
  BY <1>1
<1> QED
  BY <1>1, <1>2, <1>3

LEMMA JoinsLengths ==
    ASSUME NEW X, NEW w \in Seq(Seq(X)), NEW c, Joins(w, c, X)
    PROVE  \A i \in 1 .. Len(w) : Len(c[i]) = Len(c[i - 1]) + Len(w[i])
<1> DEFINE n == Len(w)
<1>1. n \in Nat /\ \A i \in 1 .. n : w[i] \in Seq(X)
  OBVIOUS
<1>2. c \in [0 .. n -> Seq(X)] /\ \A i \in 1 .. n : c[i] = c[i - 1] \o w[i]
  BY DEF Joins
<1> HIDE DEF n
<1>3. ASSUME NEW i \in 1 .. n PROVE Len(c[i]) = Len(c[i - 1]) + Len(w[i])
  <2>1. i - 1 \in 0 .. n
    BY <1>1
  <2>2. c[i - 1] \in Seq(X) /\ w[i] \in Seq(X) /\ c[i] = c[i - 1] \o w[i]
    BY <1>1, <1>2, <2>1
  <2> QED
    BY <2>2, ConcatAt
<1> QED
  BY <1>3 DEF n

LEMMA JoinsPlaces ==
    ASSUME NEW X, NEW w \in Seq(Seq(X)), NEW c, Joins(w, c, X)
    PROVE  /\ \A i \in 0 .. Len(w) : c[i] \in Seq(X) /\ Len(c[i]) \in Nat
           /\ Len(c[0]) = 0
           /\ \A i \in 1 .. Len(w) : w[i] \in Seq(X) /\ Len(w[i]) \in Nat
           /\ Stands(w, c)
<1> DEFINE n == Len(w)
           S == Seq(X)
           Good(m, i) == /\ Len(c[i]) <= Len(c[m])
                         /\ \A j \in 1 .. Len(w[i]) : c[m][Len(c[i - 1]) + j] = w[i][j]
           T == {m \in Nat : m <= n => \A i \in 1 .. m : Good(m, i)}
<1>1. n \in Nat /\ \A i \in 1 .. n : w[i] \in S
  OBVIOUS
<1>2. c \in [0 .. n -> S] /\ c[0] = <<>> /\ \A i \in 1 .. n : c[i] = c[i - 1] \o w[i]
  BY DEF Joins
<1> HIDE DEF n
<1>3. \A i \in 0 .. n : c[i] \in S
  BY <1>2
<1>4. \A i \in 1 .. n : i \in 0 .. n /\ i - 1 \in 0 .. n
  BY <1>1
<1>5. ASSUME NEW i \in 1 .. n
      PROVE  /\ Len(c[i]) = Len(c[i - 1]) + Len(w[i]) /\ Len(c[i - 1]) \in Nat
             /\ Len(w[i]) \in Nat /\ Len(c[i]) \in Nat
             /\ \A j \in 1 .. Len(c[i - 1]) : c[i][j] = c[i - 1][j]
             /\ \A j \in 1 .. Len(w[i]) : c[i][Len(c[i - 1]) + j] = w[i][j]
  <2> DEFINE a == c[i - 1]
             b == w[i]
  <2>1. c[i] = a \o b
    BY <1>2
  <2>2. a \in Seq(X) /\ b \in Seq(X) /\ c[i] \in Seq(X)
    BY <1>1, <1>3, <1>4
  <2> HIDE DEF a, b
  <2>3. /\ Len(a \o b) = Len(a) + Len(b) /\ Len(a) \in Nat /\ Len(b) \in Nat
        /\ \A j \in 1 .. Len(a) : (a \o b)[j] = a[j]
        /\ \A j \in 1 .. Len(b) : (a \o b)[Len(a) + j] = b[j]
    BY <2>2, ConcatAt
  <2>4. /\ Len(c[i]) = Len(a) + Len(b) /\ Len(c[i]) \in Nat
        /\ \A j \in 1 .. Len(a) : c[i][j] = a[j]
        /\ \A j \in 1 .. Len(b) : c[i][Len(a) + j] = b[j]
    BY ONLY <2>1, <2>2, <2>3
  <2> QED
    BY <2>3, <2>4 DEF a, b
<1> HIDE DEF Good
<1>6. 0 \in T
  OBVIOUS
<1>7. ASSUME NEW m \in T PROVE m + 1 \in T
  <2>3. m \in Nat
    OBVIOUS
  <2>1. CASE m + 1 > n
    BY <2>1, <2>3, <1>1
  <2>2. CASE m + 1 <= n
    <3>1. m \in Nat /\ m + 1 \in 1 .. n /\ (m + 1) - 1 = m
      BY <2>2, <1>1
    <3>2. \A i \in 1 .. m : Good(m, i)
      BY <2>2, <3>1, <1>1
    <3>3. /\ Len(c[m + 1]) = Len(c[m]) + Len(w[m + 1]) /\ Len(c[m]) \in Nat
          /\ Len(w[m + 1]) \in Nat /\ Len(c[m + 1]) \in Nat
          /\ \A j \in 1 .. Len(c[m]) : c[m + 1][j] = c[m][j]
          /\ \A j \in 1 .. Len(w[m + 1]) : c[m + 1][Len(c[m]) + j] = w[m + 1][j]
      <4> DEFINE x == m + 1
      <4>1. x \in 1 .. n /\ x - 1 = m
        BY <3>1
      <4> HIDE DEF x
      <4>2. /\ Len(c[x]) = Len(c[x - 1]) + Len(w[x]) /\ Len(c[x - 1]) \in Nat
            /\ Len(w[x]) \in Nat /\ Len(c[x]) \in Nat
            /\ \A j \in 1 .. Len(c[x - 1]) : c[x][j] = c[x - 1][j]
            /\ \A j \in 1 .. Len(w[x]) : c[x][Len(c[x - 1]) + j] = w[x][j]
        BY <4>1, <1>5
      <4>3. c[x - 1] = c[m]
        BY <4>1
      <4> QED
        BY ONLY <4>2, <4>3 DEF x
    <3>4. Good(m + 1, m + 1)
      BY <3>1, <3>3 DEF Good
    <3>5. ASSUME NEW i \in 1 .. m PROVE Good(m + 1, i)
      <4>1. i \in 1 .. n /\ i \in Nat
        BY <3>1, <1>1
      <4>2. /\ Len(c[i]) = Len(c[i - 1]) + Len(w[i]) /\ Len(c[i]) \in Nat
            /\ Len(c[i - 1]) \in Nat /\ Len(w[i]) \in Nat
        BY <4>1, <1>5
      <4>3. /\ Len(c[i]) <= Len(c[m])
            /\ \A j \in 1 .. Len(w[i]) : c[m][Len(c[i - 1]) + j] = w[i][j]
        BY <3>2 DEF Good
      <4>6. Len(c[m + 1]) = Len(c[m]) + Len(w[m + 1])
        BY <3>3
      <4>7. Len(c[m]) \in Nat /\ Len(w[m + 1]) \in Nat
        BY <3>3
      <4>4. Len(c[i]) <= Len(c[m + 1])
        <5> DEFINE a == Len(c[i])
                   b == Len(c[m])
                   d == Len(w[m + 1])
                   e == Len(c[m + 1])
        <5>1. a \in Nat /\ b \in Nat /\ d \in Nat /\ e = b + d /\ a <= b
          BY <4>2, <4>3, <4>6, <4>7
        <5> HIDE DEF a, b, d, e
        <5>2. a <= e
          BY ONLY <5>1
        <5> QED
          BY <5>2 DEF a, e
      <4>5. ASSUME NEW j \in 1 .. Len(w[i]) PROVE c[m + 1][Len(c[i - 1]) + j] = w[i][j]
        <5>1. Len(c[i - 1]) + j \in 1 .. Len(c[m])
          <6> DEFINE a == Len(c[i])
                     b == Len(c[m])
                     d == Len(w[i])
                     e == Len(c[i - 1])
          <6>1. a \in Nat /\ b \in Nat /\ d \in Nat /\ e \in Nat /\ a = e + d /\ a <= b
                /\ j \in 1 .. d
            BY <4>2, <4>3, <4>7
          <6> HIDE DEF a, b, d, e
          <6>2. e + j \in 1 .. b
            BY ONLY <6>1
          <6> QED
            BY <6>2 DEF b, e
        <5>2. c[m + 1][Len(c[i - 1]) + j] = c[m][Len(c[i - 1]) + j]
          BY <5>1, <3>3
        <5> QED
          BY <5>2, <4>3
      <4> QED
        BY <4>4, <4>5 DEF Good
    <3>6. \A i \in 1 .. m + 1 : i = m + 1 \/ i \in 1 .. m
      BY <3>1
    <3>7. \A i \in 1 .. m + 1 : Good(m + 1, i)
      BY <3>4, <3>5, <3>6
    <3> QED
      BY <3>7, <2>3
  <2> QED
    BY <2>1, <2>2, <2>3, <1>1
<1>8. T \subseteq Nat
  OBVIOUS
<1> HIDE DEF T
<1>9. T = Nat
  BY <1>6, <1>7, <1>8, NatSetInduction
<1>10. \A i \in 1 .. n : Good(n, i)
  <2>1. n \in T
    BY <1>1, <1>9
  <2> QED
    BY <2>1, <1>1 DEF T
<1>11. \A i \in 0 .. n : c[i] \in Seq(X) /\ Len(c[i]) \in Nat
  BY <1>3
<1>12. Len(c[0]) = 0
  BY <1>2
<1>13. \A i \in 1 .. n : w[i] \in Seq(X)
  BY <1>1
<1> QED
  BY <1>5, <1>10, <1>11, <1>12, <1>13 DEF n, Good, Stands

(* All of it is as long as its parts.                                      *)
LEMMA FlattenLength ==
    ASSUME NEW X, NEW w \in Seq(Seq(X))
    PROVE  /\ FlattenSeq(w) \in Seq(X)
           /\ Len(FlattenSeq(w)) = Total([i \in 1 .. Len(w) |-> Len(w[i])])
<1> DEFINE n == Len(w)
           numbers == [i \in 1 .. n |-> Len(w[i])]
<1>1. PICK c : Joins(w, c, X) /\ FlattenSeq(w) = c[n]
  BY FlattenIs
<1>2. /\ \A i \in 0 .. n : c[i] \in Seq(X) /\ Len(c[i]) \in Nat
      /\ Len(c[0]) = 0 /\ \A i \in 1 .. n : Len(c[i]) = Len(c[i - 1]) + Len(w[i])
  <2>1. \A i \in 0 .. n : c[i] \in Seq(X) /\ Len(c[i]) \in Nat
    BY <1>1, JoinsPlaces
  <2>2. Len(c[0]) = 0
    BY <1>1, JoinsPlaces
  <2>3. \A i \in 1 .. n : Len(c[i]) = Len(c[i - 1]) + Len(w[i])
    <3>1. Joins(w, c, X)
      BY <1>1
    <3> QED
      BY <3>1, JoinsLengths
  <2> QED
    BY <2>1, <2>2, <2>3
<1>3. n \in Nat /\ n \in 0 .. n
  OBVIOUS
<1> DEFINE s == [i \in 0 .. n |-> Len(c[i])]
<1> HIDE DEF n
<1>4. Len(numbers) = n
  BY <1>3
<1>5. s = [i \in 0 .. n |-> s[i]] /\ s[0] = 0 /\ s[n] = Len(c[n])
  BY <1>2, <1>3
<1>6. \A i \in 1 .. n : s[i] = s[i - 1] + numbers[i]
  <2>1. \A i \in 1 .. n : i \in 0 .. n /\ i - 1 \in 0 .. n
    BY <1>3
  <2> QED
    BY <2>1, <1>2
<1> HIDE DEF s, numbers
<1>7. Total(numbers) = s[n]
  BY <1>3, <1>4, <1>5, <1>6, TotalAt
<1>8. c[n] \in Seq(X)
  BY <1>2, <1>3
<1> QED
  BY <1>1, <1>5, <1>7, <1>8 DEF numbers, n

LEMMA SuffixIs ==
    ASSUME NEW X, NEW s \in Seq(X), NEW p \in Nat, p <= Len(s)
    PROVE  /\ SubSeq(s, p + 1, Len(s)) \in Seq(X)
           /\ Len(SubSeq(s, p + 1, Len(s))) = Len(s) - p
           /\ \A j \in 1 .. Len(s) - p : SubSeq(s, p + 1, Len(s))[j] = s[p + j]
<1>1. Len(s) \in Nat
  OBVIOUS
<1>2. Len(SubSeq(s, p + 1, Len(s))) = Len(s) - p
  BY <1>1
<1>3. SubSeq(s, p + 1, Len(s)) \in Seq(X)
  BY <1>1
<1>4. ASSUME NEW j \in 1 .. Len(s) - p PROVE SubSeq(s, p + 1, Len(s))[j] = s[p + j]
  BY <1>1
<1> QED
  BY <1>2, <1>3, <1>4

LEMMA PrefixIs ==
    ASSUME NEW X, NEW s \in Seq(X), NEW k \in 0 .. Len(s)
    PROVE  /\ SubSeq(s, 1, k) \in Seq(X) /\ Len(SubSeq(s, 1, k)) = k
           /\ \A j \in 1 .. k : SubSeq(s, 1, k)[j] = s[j]
<1>1. Len(s) \in Nat /\ k \in Nat
  OBVIOUS
<1>2. Len(SubSeq(s, 1, k)) = k
  BY <1>1
<1>3. SubSeq(s, 1, k) \in Seq(X)
  BY <1>1
<1>4. ASSUME NEW j \in 1 .. k PROVE SubSeq(s, 1, k)[j] = s[j]
  BY <1>1
<1> QED
  BY <1>2, <1>3, <1>4

LEMMA SameSequence ==
    ASSUME NEW X, NEW s \in Seq(X), NEW t \in Seq(X), Len(s) = Len(t),
           \A j \in 1 .. Len(s) : s[j] = t[j]
    PROVE  s = t
  OBVIOUS

LEMMA SplitAt ==
    ASSUME NEW X, NEW s \in Seq(X), NEW u \in Seq(X), NEW p \in Nat,
           p + Len(u) <= Len(s), \A j \in 1 .. Len(u) : s[p + j] = u[j]
    PROVE  /\ SubSeq(s, p + Len(u) + 1, Len(s)) \in Seq(X)
           /\ SubSeq(s, p + 1, Len(s)) = u \o SubSeq(s, p + Len(u) + 1, Len(s))
<1> DEFINE m == Len(u)
           a == SubSeq(s, p + 1, Len(s))
           b == SubSeq(s, (p + m) + 1, Len(s))
<1>1. m \in Nat /\ Len(s) \in Nat /\ p + m <= Len(s) /\ p <= Len(s) /\ p + m \in Nat
  OBVIOUS
<1>2. a \in Seq(X) /\ Len(a) = Len(s) - p /\ \A j \in 1 .. Len(s) - p : a[j] = s[p + j]
  BY <1>1, SuffixIs
<1>3. /\ b \in Seq(X) /\ Len(b) = Len(s) - (p + m)
      /\ \A j \in 1 .. Len(s) - (p + m) : b[j] = s[(p + m) + j]
  <2> HIDE DEF m, a
  <2> QED
    BY <1>1, SuffixIs
<1> HIDE DEF a, b
<1>4. /\ u \o b \in Seq(X) /\ Len(u \o b) = m + Len(b)
      /\ \A j \in 1 .. m : (u \o b)[j] = u[j]
      /\ \A j \in 1 .. Len(b) : (u \o b)[m + j] = b[j]
  BY <1>3, ConcatAt
<1> DEFINE l == Len(s)
           ub == u \o b
<1>6. ub \in Seq(X) /\ Len(ub) = Len(a)
  BY <1>1, <1>2, <1>3, <1>4
<1>5. ASSUME NEW j \in 1 .. Len(a) PROVE a[j] = ub[j]
  <2>1. l \in Nat /\ j \in 1 .. l - p /\ a[j] = s[p + j]
    BY <1>1, <1>2
  <2> HIDE DEF l, m
  <2>2. CASE j <= m
    <3>1. j \in 1 .. m
      BY <2>1, <2>2, <1>1
    <3>2. s[p + j] = u[j]
      BY <3>1 DEF m
    <3> QED
      BY <2>1, <3>1, <3>2, <1>4
  <2>3. CASE j > m
    <3> DEFINE i == j - m
    <3>1. i \in 1 .. l - (p + m) /\ m + i = j /\ (p + m) + i = p + j
      BY <2>1, <2>3, <1>1
    <3> HIDE DEF i
    <3>2. b[i] = s[(p + m) + i] /\ (u \o b)[m + i] = b[i]
      BY <3>1, <1>3, <1>4 DEF l
    <3>3. (u \o b)[j] = s[p + j]
      BY ONLY <3>1, <3>2
    <3> QED
      BY <2>1, <3>3
  <2>4. j \in Int /\ m \in Int
    BY <1>1, <2>1
  <2>5. j <= m \/ j > m
    BY ONLY <2>4
  <2> QED
    BY <2>2, <2>3, <2>5
<1> HIDE DEF ub, m
<1>7. a = ub
  BY <1>2, <1>5, <1>6, SameSequence
<1> QED
  BY <1>3, <1>7 DEF a, b, ub, m

LEMMA CutAt ==
    ASSUME NEW X, NEW s \in Seq(X), NEW u \in Seq(X), NEW p \in Nat,
           p <= Len(s), Len(s) < p + Len(u), \A j \in 1 .. Len(s) - p : s[p + j] = u[j]
    PROVE  /\ Len(s) - p \in 0 .. Len(u) - 1
           /\ SubSeq(s, p + 1, Len(s)) = SubSeq(u, 1, Len(s) - p)
<1> DEFINE k == Len(s) - p
           a == SubSeq(s, p + 1, Len(s))
           b == SubSeq(u, 1, k)
<1>1. k \in 0 .. Len(u) - 1 /\ k \in 0 .. Len(u)
  OBVIOUS
<1>2. a \in Seq(X) /\ Len(a) = k /\ \A j \in 1 .. k : a[j] = s[p + j]
  BY SuffixIs
<1>3. \A j \in 1 .. k : s[p + j] = u[j]
  OBVIOUS
<1> HIDE DEF k, a
<1>4. b \in Seq(X) /\ Len(b) = k /\ \A j \in 1 .. k : b[j] = u[j]
  BY <1>1, PrefixIs
<1> HIDE DEF b
<1>5. a = b
  BY <1>2, <1>3, <1>4, SameSequence
<1> QED
  BY <1>1, <1>5 DEF a, b, k

LEMMA WholeIs ==
    ASSUME NEW X, NEW s \in Seq(X)
    PROVE  /\ SubSeq(s, 1, Len(s)) = s /\ s \o <<>> = s /\ <<>> \o s = s
           /\ SubSeq(s, Len(s) + 1, Len(s)) = <<>>
<1>1. Len(s) \in Nat /\ Len(s) \in 0 .. Len(s)
  OBVIOUS
<1>2. SubSeq(s, 1, Len(s)) = s
  BY <1>1
<1>3. s \o <<>> = s /\ <<>> \o s = s
  OBVIOUS
<1>4. SubSeq(s, Len(s) + 1, Len(s)) = <<>>
  BY <1>1
<1> QED
  BY <1>2, <1>3, <1>4

LEMMA AppendIs ==
    ASSUME NEW v, NEW m \in Nat \ {0}
    PROVE  Append([j \in 1 .. m - 1 |-> v[j]], v[m]) = [j \in 1 .. m |-> v[j]]
<1> DEFINE X == {v[j] : j \in 1 .. m}
           a == [j \in 1 .. m - 1 |-> v[j]]
           b == [j \in 1 .. m |-> v[j]]
<1>1. a \in Seq(X) /\ Len(a) = m - 1 /\ v[m] \in X /\ b \in Seq(X) /\ Len(b) = m
  <2>1. m - 1 \in Nat /\ \A j \in 1 .. m - 1 : j \in 1 .. m
    OBVIOUS
  <2>2. a \in [1 .. m - 1 -> X] /\ b \in [1 .. m -> X]
    BY <2>1
  <2>3. v[m] \in X
    OBVIOUS
  <2> HIDE DEF a, b, X
  <2> QED
    BY <2>1, <2>2, <2>3
<1>2. /\ \A j \in 1 .. m - 1 : a[j] = v[j]
      /\ \A j \in 1 .. m : b[j] = v[j]
  OBVIOUS
<1> HIDE DEF X, a, b
<1>3. Append(a, v[m]) \in Seq(X) /\ Len(Append(a, v[m])) = m
  BY <1>1
<1>4. \A j \in 1 .. m : Append(a, v[m])[j] = b[j]
  BY <1>1, <1>2
<1> DEFINE d == Append(a, v[m])
<1> HIDE DEF d
<1>5. d = b
  BY <1>1, <1>3, <1>4, SameSequence DEF d
<1> QED
  BY <1>5 DEF a, b, d

------------------------------------------------------------------------------
(* Parsers that are called one after the other: they read, from what their *)
(* parts make together, the parts' values, and when it is cut, wherever    *)
(* that is, one of them finds too little.                                  *)

LEMMA ResultIs ==
    ASSUME NEW s, NEW v
    PROVE  /\ Result(s, v).input = s /\ Result(s, v).error = FALSE /\ Result(s, v).value = v
           /\ ~Result(s, v).error /\ set_error(s).error /\ set_error(s).error = TRUE
  BY DEF Result, set_error

(* A parser reads v from w, whatever follows it, and nothing from less.    *)
Reads(parser, w, v) ==
    /\ w \in Inputs
    /\ \A rest \in Inputs : parser[w \o rest] = Result(rest, v)
    /\ \A k \in 0 .. Len(w) - 1 : parser[SubSeq(w, 1, k)].error

LEMMA ParsedAllAt ==
    ASSUME NEW parsers, Len(parsers) \in Nat, NEW input, NEW c,
           c = [i \in 0 .. Len(parsers) |-> c[i]], c[0] = Result(input, <<>>),
           \A i \in 1 .. Len(parsers) : c[i] = ParsedNext(parsers[i], c[i - 1])
    PROVE  ParsedAll(parsers, input) = c[Len(parsers)]
<1> DEFINE n == Len(parsers)
           Is(g) == g = [i \in 0 .. n |-> IF i = 0 THEN Result(input, <<>>)
                                          ELSE ParsedNext(parsers[i], g[i - 1])]
           after == CHOOSE g : Is(g)
<1>1. Is(c)
  <2>1. \A i \in 0 .. n : i = 0 \/ i \in 1 .. n
    OBVIOUS
  <2>2. \A i \in 0 .. n : c[i] = IF i = 0 THEN Result(input, <<>>)
                                 ELSE ParsedNext(parsers[i], c[i - 1])
    BY <2>1
  <2> QED
    BY <2>2
<1>2. Is(after)
  BY <1>1
<1> HIDE DEF after
<1>3. ParsedAll(parsers, input) = after[n]
  BY DEF ParsedAll, after
<1>4. after[0] = c[0] /\ \A i \in 1 .. n : after[i - 1] = c[i - 1] => after[i] = c[i]
  <2>1. 0 \in 0 .. n /\ \A i \in 1 .. n : i \in 0 .. n /\ i # 0
    OBVIOUS
  <2>2. after[0] = Result(input, <<>>)
        /\ \A i \in 1 .. n : after[i] = ParsedNext(parsers[i], after[i - 1])
    BY <1>2, <2>1
  <2> QED
    BY <2>2
<1>5. \A i \in 0 .. n : after[i] = c[i]
  <2>1. n \in Nat
    OBVIOUS
  <2> QED
    BY ONLY <1>4, <2>1, SameSteps
<1> QED
  BY <1>3, <1>5

LEMMA NextReads ==
    ASSUME NEW parser, NEW w, NEW v, Reads(parser, w, v), NEW rest \in Inputs, NEW values
    PROVE  ParsedNext(parser, Result(w \o rest, values)) = Result(rest, Append(values, v))
<1> DEFINE p == Result(w \o rest, values)
<1>1. p.error = FALSE /\ p.input = w \o rest /\ p.value = values
  BY DEF Result
<1>2. parser[w \o rest] = Result(rest, v)
  BY DEF Reads
<1> DEFINE q == parser[w \o rest]
<1>3. q.error = FALSE /\ q.input = rest /\ q.value = v
  BY <1>2 DEF Result
<1> HIDE DEF p, q
<1>4. ParsedNext(parser, p) = Result(rest, Append(values, v))
  BY <1>1, <1>3 DEF ParsedNext, q
<1> QED
  BY <1>4 DEF p

LEMMA NextFails ==
    ASSUME NEW parser, NEW p
    PROVE  /\ p.error => ParsedNext(parser, p) = p
           /\ ~p.error /\ parser[p.input].error => ParsedNext(parser, p) = parser[p.input]
  BY DEF ParsedNext

(* The place of a number between the steps of a rising sequence.           *)
LEMMA StepAbove ==
    ASSUME NEW n \in Nat, NEW c, NEW k, c[0] <= k, ~(c[n] <= k)
    PROVE  \E m \in 1 .. n : c[m - 1] <= k /\ ~(c[m] <= k)
<1> SUFFICES ASSUME \A m \in 1 .. n : c[m - 1] <= k => c[m] <= k
             PROVE  FALSE
  OBVIOUS
<1> DEFINE T == {m \in Nat : m <= n => c[m] <= k}
<1>1. 0 \in T
  OBVIOUS
<1>2. ASSUME NEW m \in T PROVE m + 1 \in T
  <2>1. CASE m + 1 > n
    BY <2>1
  <2>2. CASE m + 1 <= n
    <3>1. m + 1 \in 1 .. n /\ (m + 1) - 1 = m /\ c[m] <= k
      BY <2>2
    <3>2. c[m + 1] <= k
      BY <3>1
    <3> QED
      BY <3>1, <3>2
  <2> QED
    BY <2>1, <2>2
<1>3. T \subseteq Nat
  OBVIOUS
<1> HIDE DEF T
<1>4. T = Nat
  BY <1>1, <1>2, <1>3, NatSetInduction
<1> QED
  BY <1>4 DEF T

(* The first m sequences of w stand in s one after the other.              *)
Placed(w, pos, m, s) ==
    /\ pos[0] = 0
    /\ \A i \in 0 .. m : pos[i] \in Nat /\ pos[i] <= Len(s)
    /\ \A i \in 1 .. m : pos[i] = pos[i - 1] + Len(w[i])
    /\ \A i \in 1 .. m : \A j \in 1 .. Len(w[i]) : s[pos[i - 1] + j] = w[i][j]

(* What is left and what has been read after i of them.                    *)
AfterSome(s, pos, v, i) ==
    Result(SubSeq(s, pos[i] + 1, Len(s)), [j \in 1 .. i |-> v[j]])

(* The first m parsers of several read their parts.                        *)
LEMMA SomeRead ==
    ASSUME NEW m \in Nat, NEW parsers, NEW w, NEW v, NEW pos, NEW s \in Inputs,
           \A i \in 1 .. m : Reads(parsers[i], w[i], v[i]),
           Placed(w, pos, m, s), NEW i \in 1 .. m
    PROVE  AfterSome(s, pos, v, i) = ParsedNext(parsers[i], AfterSome(s, pos, v, i - 1))
<1> DEFINE u == w[i]
           p == pos[i - 1]
           rest == SubSeq(s, p + Len(u) + 1, Len(s))
           before == [j \in 1 .. i - 1 |-> v[j]]
<1>1. i - 1 \in 0 .. m /\ i \in 0 .. m /\ i \in Nat \ {0}
  OBVIOUS
<1>2. u \in Inputs /\ Reads(parsers[i], u, v[i])
  BY DEF Reads
<1>3. p \in Nat /\ p + Len(u) <= Len(s) /\ pos[i] = p + Len(u)
  BY <1>1 DEF Placed
<1>4. \A j \in 1 .. Len(u) : s[p + j] = u[j]
  BY DEF Placed
<1>5. Append(before, v[i]) = [j \in 1 .. i |-> v[j]]
  BY <1>1, AppendIs
<1> HIDE DEF u, p, before
<1>6. rest \in Inputs /\ SubSeq(s, p + 1, Len(s)) = u \o rest
  BY <1>2, <1>3, <1>4, SplitAt DEF Inputs
<1> HIDE DEF rest
<1>7. ParsedNext(parsers[i], Result(u \o rest, before)) = Result(rest, Append(before, v[i]))
  BY <1>2, <1>6, NextReads
<1>8. rest = SubSeq(s, pos[i] + 1, Len(s))
  BY <1>3 DEF rest
<1> QED
  BY <1>5, <1>6, <1>7, <1>8 DEF p, before, AfterSome

LEMMA PlacedBetween ==
    ASSUME NEW w, NEW pos, NEW m \in Nat, NEW s, Placed(w, pos, m, s),
           \A i \in 1 .. m : Len(w[i]) \in Nat
    PROVE  \A i \in 0 .. m : pos[i] <= pos[m]
<1> DEFINE T == {h \in Nat : h <= m => pos[m - h] <= pos[m]}
<1>1. 0 \in T
  <2>1. pos[m] \in Nat /\ m - 0 = m
    BY DEF Placed
  <2> QED
    BY <2>1
<1>2. ASSUME NEW h \in T PROVE h + 1 \in T
  <2>1. CASE h + 1 > m
    BY <2>1
  <2>2. CASE h + 1 <= m
    <3> DEFINE x == m - h
    <3>1. x \in 1 .. m /\ x - 1 = m - (h + 1) /\ pos[x] <= pos[m] /\ h \in Nat /\ x - 1 \in 0 .. m
          /\ x \in 0 .. m
      BY <2>2
    <3> HIDE DEF x
    <3>2. /\ pos[x - 1] \in Nat /\ pos[x] \in Nat /\ Len(w[x]) \in Nat
          /\ pos[x] = pos[x - 1] + Len(w[x]) /\ pos[m] \in Nat
      BY <3>1 DEF Placed
    <3> DEFINE a == pos[x - 1]
               b == pos[x]
               d == pos[m]
               e == Len(w[x])
    <3>3. a \in Nat /\ b \in Nat /\ d \in Nat /\ e \in Nat /\ b = a + e /\ b <= d
      BY <3>1, <3>2
    <3> HIDE DEF a, b, d, e
    <3>4. a <= d
      BY ONLY <3>3
    <3>5. pos[m - (h + 1)] <= pos[m] /\ h + 1 \in Nat
      BY <3>1, <3>4 DEF a, d
    <3> QED
      BY <3>5
  <2> QED
    BY <2>1, <2>2
<1>3. T \subseteq Nat
  OBVIOUS
<1> HIDE DEF T
<1>4. T = Nat
  BY <1>1, <1>2, <1>3, NatSetInduction
<1> TAKE i \in 0 .. m
<1>5. m - i \in T /\ m - i <= m /\ m - (m - i) = i
  BY <1>4
<1> QED
  BY <1>5 DEF T

(* Where the parts of several sequences stand in all of them.              *)
LEMMA PlacesOf ==
    ASSUME NEW X, NEW w \in Seq(Seq(X))
    PROVE  \E pos : /\ Placed(w, pos, Len(w), FlattenSeq(w))
                    /\ pos[Len(w)] = Len(FlattenSeq(w))
<1> DEFINE n == Len(w)
           all == FlattenSeq(w)
<1>1. PICK c : Joins(w, c, X) /\ all = c[n]
  BY FlattenIs
<1> DEFINE pos == [i \in 0 .. n |-> Len(c[i])]
<1>2. \A i \in 0 .. n : c[i] \in Seq(X) /\ Len(c[i]) \in Nat
  BY <1>1, JoinsPlaces
<1>3. Len(c[0]) = 0
  BY <1>1, JoinsPlaces
<1>4. \A i \in 1 .. n : Len(c[i]) = Len(c[i - 1]) + Len(w[i])
  <2>1. Joins(w, c, X)
    BY <1>1
  <2> QED
    BY <2>1, JoinsLengths
<1>5. Stands(w, c)
  BY <1>1, JoinsPlaces
<1>7. n \in Nat /\ 0 \in 0 .. n /\ n \in 0 .. n
  OBVIOUS
<1>8. \A i \in 1 .. n : i \in 0 .. n /\ i - 1 \in 0 .. n
  BY <1>7
<1>9. \A i \in 0 .. n : i = 0 \/ i \in 1 .. n
  BY <1>7
<1>6. /\ \A i \in 1 .. n : Len(c[i]) <= Len(c[n])
      /\ \A i \in 1 .. n : \A j \in 1 .. Len(w[i]) : c[n][Len(c[i - 1]) + j] = w[i][j]
  BY <1>5 DEF Stands
<1> HIDE DEF n, all
<1>10. \A i \in 0 .. n : pos[i] = Len(c[i]) /\ pos[i] \in Nat
  BY <1>2
<1> HIDE DEF pos
<1>11. pos[0] = 0 /\ pos[n] = Len(all)
  BY <1>1, <1>3, <1>7, <1>10
<1>12. \A i \in 0 .. n : pos[i] <= Len(all)
  <2>1. pos[0] <= Len(all)
    BY <1>1, <1>2, <1>7, <1>11
  <2>2. \A i \in 1 .. n : pos[i] <= Len(all)
    BY <1>1, <1>6, <1>8, <1>10
  <2> QED
    BY <2>1, <2>2, <1>9
<1>13. \A i \in 1 .. n : pos[i] = pos[i - 1] + Len(w[i])
  BY <1>4, <1>8, <1>10
<1>14. \A i \in 1 .. n : \A j \in 1 .. Len(w[i]) : all[pos[i - 1] + j] = w[i][j]
  BY <1>1, <1>6, <1>8, <1>10
<1>15. Placed(w, pos, n, all)
  BY <1>10, <1>11, <1>12, <1>13, <1>14 DEF Placed
<1> QED
  BY <1>11, <1>15 DEF n, all

(* One parser after the other, over all of their parts.                    *)
LEMMA AllRead ==
    ASSUME NEW n \in Nat, NEW parsers, Len(parsers) = n, NEW w, w \in Seq(Inputs), Len(w) = n,
           NEW v, \A i \in 1 .. n : Reads(parsers[i], w[i], v[i])
    PROVE  /\ FlattenSeq(w) \in Inputs
           /\ \A rest \in Inputs :
                 ParsedAll(parsers, FlattenSeq(w) \o rest) = Result(rest, [i \in 1 .. n |-> v[i]])
           /\ \A k \in 0 .. Len(FlattenSeq(w)) - 1 :
                 ParsedAll(parsers, SubSeq(FlattenSeq(w), 1, k)).error
<1> DEFINE X == 0 .. Byte - 1
           all == FlattenSeq(w)
           l == Len(all)
<1>1. w \in Seq(Seq(X))
  BY DEF Inputs
<1>2. all \in Inputs
  BY <1>1, FlattenLength DEF Inputs
<1>0. PICK pos : Placed(w, pos, n, all) /\ pos[n] = l
  BY <1>1, PlacesOf
<1>3. /\ pos[0] = 0 /\ pos[n] = l
      /\ \A i \in 0 .. n : pos[i] \in Nat /\ pos[i] <= l
      /\ \A i \in 1 .. n : pos[i] = pos[i - 1] + Len(w[i])
      /\ \A i \in 1 .. n : \A j \in 1 .. Len(w[i]) : all[pos[i - 1] + j] = w[i][j]
  BY <1>0 DEF Placed
<1>4. l \in Nat
  BY <1>2 DEF Inputs
<1>5. \A i \in 1 .. n : i \in 0 .. n /\ i - 1 \in 0 .. n
  OBVIOUS
<1>6. \A i \in 1 .. n : w[i] \in Inputs /\ Len(w[i]) \in Nat
  OBVIOUS
<1>7. ASSUME NEW i \in 1 .. n, NEW j \in 1 .. Len(w[i]) PROVE pos[i - 1] + j \in 1 .. l
  <2>1. pos[i - 1] \in Nat /\ pos[i] <= l /\ pos[i] = pos[i - 1] + Len(w[i]) /\ Len(w[i]) \in Nat
    BY <1>3, <1>5, <1>6
  <2> QED
    BY <2>1
<1> HIDE DEF all, l
<1>8. ASSUME NEW rest \in Inputs
      PROVE  ParsedAll(parsers, all \o rest) = Result(rest, [i \in 1 .. n |-> v[i]])
  <2> DEFINE s == all \o rest
             F == [i \in 0 .. n |-> AfterSome(s, pos, v, i)]
  <2>1. /\ s \in Inputs /\ Len(s) = l + Len(rest) /\ Len(rest) \in Nat
        /\ \A j \in 1 .. l : s[j] = all[j]
        /\ \A j \in 1 .. Len(rest) : s[l + j] = rest[j]
    BY <1>2, ConcatAt DEF Inputs, l
  <2> HIDE DEF s
  <2>2. \A i \in 0 .. n : pos[i] \in Nat /\ pos[i] <= Len(s)
    <3>1. \A i \in 0 .. n : pos[i] \in Nat /\ pos[i] <= l
      BY <1>3
    <3> QED
      BY <3>1, <2>1, <1>4
  <2>3. \A i \in 1 .. n : \A j \in 1 .. Len(w[i]) : s[pos[i - 1] + j] = w[i][j]
    BY <1>3, <1>7, <2>1
  <2>10. Placed(w, pos, n, s)
    BY <1>3, <2>2, <2>3 DEF Placed
  <2>4. \A i \in 1 .. n :
              AfterSome(s, pos, v, i) = ParsedNext(parsers[i], AfterSome(s, pos, v, i - 1))
    <3>1. s \in Inputs
      BY <2>1
    <3>2. \A i \in 1 .. n : Reads(parsers[i], w[i], v[i])
      OBVIOUS
    <3> TAKE i \in 1 .. n
    <3> HIDE DEF F
    <3> QED
      BY ONLY <3>1, <3>2, n \in Nat, i \in 1 .. n, <2>10, SomeRead
  <2>5. \A i \in 1 .. n : F[i] = ParsedNext(parsers[i], F[i - 1])
    BY <2>4, <1>5
  <2>6. F[0] = Result(s, <<>>)
    <3>1. 0 \in 0 .. n /\ pos[0] + 1 = 1
      BY <1>3
    <3>2. [j \in 1 .. 0 |-> v[j]] = <<>>
      OBVIOUS
    <3>3. SubSeq(s, 1, Len(s)) = s
      BY <2>1, WholeIs DEF Inputs
    <3> QED
      BY <3>1, <3>2, <3>3 DEF AfterSome
  <2>7. F[n] = Result(rest, [i \in 1 .. n |-> v[i]])
    <3>1. n \in 0 .. n /\ pos[n] = l
      BY <1>3
    <3>2. SubSeq(s, l + 1, Len(s)) = rest
      <4> DEFINE t == SubSeq(s, l + 1, Len(s))
      <4>5. l <= Len(s) /\ s \in Seq(X)
        BY <1>4, <2>1 DEF Inputs
      <4> HIDE DEF X
      <4>1. /\ t \in Seq(X) /\ Len(t) = Len(s) - l
            /\ \A j \in 1 .. Len(s) - l : t[j] = s[l + j]
        BY <1>4, <4>5, SuffixIs
      <4> USE DEF X
      <4> HIDE DEF t
      <4>2. rest \in Seq(X) /\ Len(t) = Len(rest)
        BY <2>1, <4>1, <1>4 DEF Inputs
      <4>3. \A j \in 1 .. Len(t) : t[j] = rest[j]
        BY <2>1, <4>1, <4>2, <1>4
      <4>4. t = rest
        BY <4>1, <4>2, <4>3, SameSequence
      <4> QED
        BY <4>4 DEF t
    <3> QED
      BY <3>1, <3>2 DEF AfterSome
  <2>8. F = [i \in 0 .. n |-> F[i]]
    OBVIOUS
  <2> HIDE DEF F
  <2>9. ParsedAll(parsers, s) = F[n]
    BY <2>5, <2>6, <2>8, ParsedAllAt
  <2> QED
    BY <2>7, <2>9 DEF s
<1>9. ASSUME NEW k \in 0 .. l - 1 PROVE ParsedAll(parsers, SubSeq(all, 1, k)).error
  <2> DEFINE s == SubSeq(all, 1, k)
  <2>1. s \in Inputs /\ Len(s) = k /\ \A j \in 1 .. k : s[j] = all[j]
    <3>1. k \in 0 .. Len(all)
      BY <1>4 DEF l
    <3> QED
      BY <1>2, <3>1, PrefixIs DEF Inputs
  <2> HIDE DEF s
  <2>2. PICK m \in 1 .. n : pos[m - 1] <= k /\ ~(pos[m] <= k)
    <3>1. pos[0] <= k /\ ~(pos[n] <= k) /\ k \in Nat
      BY <1>3, <1>4
    <3> QED
      BY <3>1, StepAbove
  <2> DEFINE E == parsers[m][SubSeq(s, pos[m - 1] + 1, Len(s))]
             G(i) == AfterSome(s, pos, v, i)
             F == [i \in 0 .. n |-> IF i < m THEN G(i) ELSE E]
  <2>3. /\ pos[m - 1] \in Nat /\ w[m] \in Inputs /\ Len(w[m]) \in Nat
        /\ pos[m] = pos[m - 1] + Len(w[m]) /\ pos[m] \in Nat /\ k \in Nat
    BY <1>3, <1>4, <1>5, <1>6
  <2>4. E.error
    <3> DEFINE p == pos[m - 1]
               u == w[m]
    <3>1. p <= Len(s) /\ Len(s) < p + Len(u) /\ p \in Nat /\ u \in Inputs /\ Len(u) \in Nat
      BY <2>1, <2>2, <2>3
    <3>2. \A j \in 1 .. Len(s) - p : s[p + j] = u[j]
      <4> TAKE j \in 1 .. Len(s) - p
      <4> DEFINE d == Len(u)
      <4>2. p \in Nat /\ d \in Nat /\ k \in Nat /\ p <= k /\ k < p + d /\ j \in 1 .. k - p
        BY <3>1, <2>1, <2>3
      <4> HIDE DEF d, p
      <4>1. j \in 1 .. d /\ p + j \in 1 .. k
        BY ONLY <4>2
      <4> QED
        BY <4>1, <2>1, <1>3 DEF d, p
    <3> HIDE DEF p, u
    <3>3. Len(s) - p \in 0 .. Len(u) - 1 /\ SubSeq(s, p + 1, Len(s)) = SubSeq(u, 1, Len(s) - p)
      BY <2>1, <3>1, <3>2, CutAt DEF Inputs
    <3>4. Reads(parsers[m], u, v[m])
      BY DEF u
    <3> HIDE DEF s
    <3>5. parsers[m][SubSeq(u, 1, Len(s) - p)].error
      BY ONLY <3>3, <3>4 DEF Reads
    <3> QED
      BY <3>3, <3>5 DEF p
  <2> HIDE DEF E
  <2>5. ASSUME NEW i \in 1 .. m - 1 PROVE G(i) = ParsedNext(parsers[i], G(i - 1))
    <3>1. m - 1 \in Nat /\ m - 1 \in 0 .. n /\ \A h \in 1 .. m - 1 : h \in 1 .. n
      OBVIOUS
    <3>8. Placed(w, pos, m - 1, all)
      <4>1. \A h \in 0 .. m - 1 : h \in 0 .. n
        BY <3>1
      <4> QED
        BY <3>1, <4>1, <1>0 DEF Placed
    <3>2. \A h \in 0 .. m - 1 : pos[h] \in Nat /\ pos[h] <= pos[m - 1]
      <4>1. \A h \in 1 .. m - 1 : Len(w[h]) \in Nat
        BY <3>1, <1>6
      <4>2. \A h \in 0 .. m - 1 : pos[h] \in Nat
        BY <3>8 DEF Placed
      <4> QED
        BY <3>1, <3>8, <4>1, <4>2, PlacedBetween
    <3>3. \A h \in 0 .. m - 1 : pos[h] \in Nat /\ pos[h] <= Len(s)
      BY <3>2, <2>1, <2>2, <2>3
    <3>4. \A h \in 1 .. m - 1 : Reads(parsers[h], w[h], v[h])
      BY <3>1
    <3>5. \A h \in 1 .. m - 1 : pos[h] = pos[h - 1] + Len(w[h])
      BY <3>1, <1>3
    <3>6. ASSUME NEW h \in 1 .. m - 1, NEW j \in 1 .. Len(w[h])
          PROVE  s[pos[h - 1] + j] = w[h][j]
      <4>1. h \in 1 .. n /\ h \in 0 .. m - 1
        BY <3>1
      <4>2. /\ pos[h - 1] \in Nat /\ Len(w[h]) \in Nat /\ pos[h] = pos[h - 1] + Len(w[h])
            /\ pos[h] <= Len(s) /\ all[pos[h - 1] + j] = w[h][j]
        BY <4>1, <1>3, <1>5, <1>6, <3>3
      <4> DEFINE a == pos[h - 1]
                 b == pos[h]
                 d == Len(w[h])
      <4>4. a \in Nat /\ d \in Nat /\ b = a + d /\ b <= k /\ j \in 1 .. d /\ k \in Nat
        BY <4>2, <2>1, <2>3
      <4> HIDE DEF a, b, d
      <4>5. a + j \in 1 .. k
        BY ONLY <4>4
      <4>3. pos[h - 1] + j \in 1 .. k
        BY <4>5 DEF a
      <4> QED
        BY <4>2, <4>3, <2>1
    <3> HIDE DEF s
    <3>7. \A h \in 1 .. m - 1 : G(h) = ParsedNext(parsers[h], G(h - 1))
      <4>1. Placed(w, pos, m - 1, s)
        BY <1>3, <3>3, <3>5, <3>6 DEF Placed
      <4> QED
        <5>1. s \in Inputs /\ m - 1 \in Nat
          BY <2>1, <3>1
        <5> DEFINE o == m - 1
        <5>2. o \in Nat /\ Placed(w, pos, o, s) /\ \A h \in 1 .. o : Reads(parsers[h], w[h], v[h])
          BY <3>4, <4>1, <5>1
        <5> HIDE DEF o
        <5>3. \A h \in 1 .. o : AfterSome(s, pos, v, h) = ParsedNext(parsers[h], AfterSome(s, pos, v, h - 1))
          <6> TAKE h \in 1 .. o
          <6> QED
            BY ONLY <5>1, <5>2, h \in 1 .. o, SomeRead
        <5> QED
          BY <5>3 DEF o
    <3> QED
      BY <3>7
  <2>6. F[0] = Result(s, <<>>)
    <3>1. 0 \in 0 .. n /\ pos[0] + 1 = 1 /\ 0 < m
      BY <1>3
    <3>2. [j \in 1 .. 0 |-> v[j]] = <<>>
      OBVIOUS
    <3>3. SubSeq(s, 1, Len(s)) = s
      BY <2>1, WholeIs DEF Inputs
    <3> QED
      BY <3>1, <3>2, <3>3 DEF AfterSome
  <2>7. ASSUME NEW i \in 1 .. n PROVE F[i] = ParsedNext(parsers[i], F[i - 1])
    <3>1. i \in 0 .. n /\ i - 1 \in 0 .. n
      BY <1>5
    <3>2. CASE i < m
      <4>1. i \in 1 .. m - 1 /\ i - 1 < m
        BY <3>2
      <4> HIDE DEF G
      <4> QED
        BY <3>1, <3>2, <4>1, <2>5
    <3>3. CASE i = m
      <4>1. F[i - 1] = G(m - 1) /\ F[i] = E
        BY <3>1, <3>3
      <4>2. ~G(m - 1).error /\ parsers[m][G(m - 1).input] = E
        BY ResultIs DEF E, AfterSome
      <4> HIDE DEF G
      <4>3. ParsedNext(parsers[m], G(m - 1)) = E
        BY <4>2, <2>4, NextFails
      <4> QED
        BY <4>1, <4>3, <3>3
    <3>4. CASE i > m
      <4>1. F[i - 1] = E /\ F[i] = E
        BY <3>1, <3>4
      <4>2. ParsedNext(parsers[i], E) = E
        BY <2>4, NextFails
      <4> QED
        BY <4>1, <4>2
    <3> QED
      BY <3>2, <3>3, <3>4
  <2>8. F[n] = E /\ F = [i \in 0 .. n |-> F[i]]
    OBVIOUS
  <2> HIDE DEF F
  <2>9. ParsedAll(parsers, s) = F[n]
    BY <2>6, <2>7, <2>8, ParsedAllAt
  <2> QED
    BY <2>4, <2>8, <2>9 DEF s
<1> QED
  BY <1>2, <1>8, <1>9 DEF all, l

LEMMA TwoCuts ==
    ASSUME NEW X, NEW a, a \in Seq(X), NEW b, b \in Seq(X), NEW k \in 0 .. Len(a \o b) - 1
    PROVE  \/ k \in 0 .. Len(a) - 1 /\ SubSeq(a \o b, 1, k) = SubSeq(a, 1, k)
           \/ /\ k - Len(a) \in 0 .. Len(b) - 1
              /\ SubSeq(b, 1, k - Len(a)) \in Seq(X)
              /\ SubSeq(a \o b, 1, k) = a \o SubSeq(b, 1, k - Len(a))
<1> DEFINE ab == a \o b
           c == SubSeq(ab, 1, k)
           m == Len(a)
<1>1. /\ ab \in Seq(X) /\ Len(ab) = m + Len(b) /\ m \in Nat /\ Len(b) \in Nat
      /\ \A j \in 1 .. m : ab[j] = a[j]
      /\ \A j \in 1 .. Len(b) : ab[m + j] = b[j]
  BY ConcatAt
<1>2. k \in Nat /\ k < m + Len(b) /\ k \in 0 .. Len(ab)
  BY <1>1
<1> HIDE DEF ab, m
<1>3. c \in Seq(X) /\ Len(c) = k /\ \A j \in 1 .. k : c[j] = ab[j]
  BY <1>1, <1>2, PrefixIs
<1> HIDE DEF c
<1>4. CASE k < m
  <2> DEFINE d == SubSeq(a, 1, k)
  <2>1. d \in Seq(X) /\ Len(d) = k /\ \A j \in 1 .. k : d[j] = a[j]
    <3>1. k \in 0 .. Len(a)
      BY <1>1, <1>2, <1>4 DEF m
    <3> QED
      BY <3>1, PrefixIs
  <2> HIDE DEF d
  <2>2. \A j \in 1 .. Len(c) : c[j] = d[j]
    <3>1. \A j \in 1 .. k : j \in 1 .. m
      BY <1>1, <1>2, <1>4
    <3> QED
      BY <3>1, <1>1, <1>3, <2>1
  <2>3. c = d
    BY <1>3, <2>1, <2>2, SameSequence
  <2>4. k \in 0 .. m - 1
    BY <1>1, <1>2, <1>4
  <2> QED
    BY <2>3, <2>4 DEF c, d, ab, m
<1>5. CASE ~(k < m)
  <2> DEFINE h == k - m
             d == SubSeq(b, 1, h)
             e == a \o d
  <2>1. h \in 0 .. Len(b) - 1 /\ h \in 0 .. Len(b) /\ m + h = k /\ h \in Nat
    BY <1>1, <1>2, <1>5
  <2> HIDE DEF h
  <2>2. d \in Seq(X) /\ Len(d) = h /\ \A j \in 1 .. h : d[j] = b[j]
    BY <2>1, PrefixIs
  <2> HIDE DEF d
  <2>3. /\ e \in Seq(X) /\ Len(e) = m + h
        /\ \A j \in 1 .. m : e[j] = a[j]
        /\ \A j \in 1 .. h : e[m + j] = d[j]
    <3>1. /\ e \in Seq(X) /\ Len(e) = Len(a) + Len(d)
          /\ \A j \in 1 .. Len(a) : e[j] = a[j]
          /\ \A j \in 1 .. Len(d) : e[Len(a) + j] = d[j]
      <4>1. a \in Seq(X) /\ d \in Seq(X)
        BY <2>2
      <4> QED
        BY ONLY <4>1, ConcatAt
    <3>2. Len(a) = m /\ Len(d) = h
      BY <2>2 DEF m
    <3> HIDE DEF e
    <3> QED
      BY <3>1, <3>2
  <2> HIDE DEF e
  <2>4. ASSUME NEW j \in 1 .. Len(c) PROVE c[j] = e[j]
    <3>1. CASE j <= m
      <4>1. j \in 1 .. m /\ j \in 1 .. k
        BY <3>1, <1>1, <1>3, <1>2
      <4> QED
        BY <4>1, <1>1, <1>3, <2>3
    <3>2. CASE j > m
      <4> DEFINE i == j - m
      <4>1. i \in 1 .. h /\ m + i = j /\ j \in 1 .. k /\ i \in 1 .. Len(b)
        BY <3>2, <1>1, <1>2, <1>3, <2>1
      <4> HIDE DEF i
      <4>2. e[m + i] = d[i] /\ d[i] = b[i] /\ ab[m + i] = b[i]
        BY <4>1, <1>1, <2>2, <2>3
      <4> QED
        BY <4>1, <4>2, <1>3
    <3>3. j \in Nat /\ m \in Nat
      BY <1>1, <1>2, <1>3
    <3> QED
      BY <3>1, <3>2, <3>3
  <2>5. c = e
    BY <1>3, <2>1, <2>3, <2>4, SameSequence
  <2> QED
    BY <2>1, <2>2, <2>5 DEF c, d, e, h, ab, m
<1> QED
  BY <1>4, <1>5

LEMMA TakeReads ==
    ASSUME NEW w, w \in Inputs
    PROVE  /\ \A rest \in Inputs : Take(w \o rest, Len(w)) = Result(rest, w)
           /\ \A k \in 0 .. Len(w) - 1 : Take(SubSeq(w, 1, k), Len(w)).error
<1> DEFINE X == 0 .. Byte - 1
           n == Len(w)
<1>1. n \in Nat
  BY DEF Inputs
<1>2. ASSUME NEW rest \in Inputs PROVE Take(w \o rest, n) = Result(rest, w)
  <2> DEFINE s == w \o rest
  <2>1. /\ s \in Seq(X) /\ Len(s) = n + Len(rest) /\ Len(rest) \in Nat
        /\ \A j \in 1 .. n : s[j] = w[j]
        /\ \A j \in 1 .. Len(rest) : s[n + j] = rest[j]
    <3>1. w \in Seq(X) /\ rest \in Seq(X)
      BY DEF Inputs
    <3> HIDE DEF X
    <3> QED
      BY <3>1, ConcatAt
  <2> HIDE DEF s, n
  <2>2. n <= Len(s) /\ ~(n > Len(s)) /\ n \in 0 .. Len(s)
    BY <1>1, <2>1
  <2>3. SubSeq(s, n + 1, Len(s)) = rest
    <3> DEFINE t == SubSeq(s, n + 1, Len(s))
    <3> HIDE DEF X
    <3>1. /\ t \in Seq(X) /\ Len(t) = Len(s) - n
          /\ \A j \in 1 .. Len(s) - n : t[j] = s[n + j]
      BY <1>1, <2>1, <2>2, SuffixIs
    <3> HIDE DEF t
    <3>2. rest \in Seq(X)
      BY DEF Inputs, X
    <3>3. Len(t) = Len(rest) /\ \A j \in 1 .. Len(t) : t[j] = rest[j]
      BY <1>1, <2>1, <3>1
    <3>4. t = rest
      BY <3>1, <3>2, <3>3, SameSequence
    <3> QED
      BY <3>4 DEF t
  <2>4. SubSeq(s, 1, n) = w
    <3> DEFINE t == SubSeq(s, 1, n)
    <3> HIDE DEF X
    <3>1. t \in Seq(X) /\ Len(t) = n /\ \A j \in 1 .. n : t[j] = s[j]
      BY <2>1, <2>2, PrefixIs
    <3> HIDE DEF t
    <3>2. w \in Seq(X) /\ Len(w) = n
      BY DEF Inputs, X, n
    <3>3. \A j \in 1 .. Len(t) : t[j] = w[j]
      BY <2>1, <3>1
    <3>4. t = w
      BY <3>1, <3>2, <3>3, SameSequence
    <3> QED
      BY <3>4 DEF t
  <2> QED
    BY <2>2, <2>3, <2>4 DEF Take, s
<1>3. ASSUME NEW k \in 0 .. n - 1 PROVE Take(SubSeq(w, 1, k), n).error
  <2>1. k \in 0 .. n /\ n > k
    BY <1>1
  <2>2. Len(SubSeq(w, 1, k)) = k
    BY <2>1, PrefixIs DEF Inputs
  <2> HIDE DEF n
  <2> QED
    BY <2>1, <2>2, ResultIs DEF Take
<1> QED
  BY <1>2, <1>3

LEMMA ByteIs ==
    Byte \in Nat \ {0} /\ Byte >= 3 /\ OpusCapacity \in 1 .. Byte - 2 /\ FramesPerPacket \in 1 .. Byte - 2
  BY FormatConstants

LEMMA ValuesAre ==
    ASSUME NEW size \in Nat \ {0}
    PROVE  /\ Values(size) \in Nat \ {0} /\ Values(size) >= Byte
           /\ Half(size) \in Nat \ {0} /\ 2 * Half(size) <= Values(size)
           /\ Half(size) <= Values(size) - 1
           /\ Values(1) = Byte /\ Values(2) = Byte * Byte
<1>1. Values(size) = Byte * Power(Byte, size - 1) /\ Power(Byte, size - 1) \in Nat \ {0}
  <2>1. size - 1 \in Nat /\ (size - 1) + 1 = size
    OBVIOUS
  <2> DEFINE m == size - 1
  <2>2. m \in Nat /\ m + 1 = size
    BY <2>1
  <2> HIDE DEF m
  <2>3. Power(Byte, m + 1) = Byte * Power(Byte, m) /\ Power(Byte, m) \in Nat \ {0}
    BY <2>2, ByteIs, PowerIs
  <2> QED
    BY <2>2, <2>3 DEF m, Values
<1> DEFINE p == Power(Byte, size - 1)
           x == Values(size)
<1>2. p \in Nat \ {0} /\ x = Byte * p /\ Byte \in Nat /\ Byte >= 3
  BY <1>1, ByteIs
<1> HIDE DEF p, x
<1>3. x \in Nat \ {0} /\ x >= Byte /\ x >= 3
  BY ONLY <1>2
<1>4. x \div 2 \in Nat \ {0} /\ 2 * (x \div 2) <= x /\ x \div 2 <= x - 1
  BY ONLY <1>3
<1>5. Values(1) = Byte /\ Values(2) = Byte * Byte
  <2>1. Power(Byte, 0) = 1
    BY ByteIs, PowerIs
  <2>2. Power(Byte, 0 + 1) = Byte * Power(Byte, 0)
    BY ByteIs, PowerIs
  <2>3. Power(Byte, 1 + 1) = Byte * Power(Byte, 1)
    BY ByteIs, PowerIs
  <2>4. 0 + 1 = 1 /\ 1 + 1 = 2 /\ Byte * 1 = Byte
    BY ByteIs
  <2> QED
    BY <2>1, <2>2, <2>3, <2>4 DEF Values
<1> QED
  BY <1>3, <1>4, <1>5 DEF x, Half

LEMMA TakeIntReads ==
    ASSUME NEW size \in Nat, NEW v \in Nat, v < Values(size)
    PROVE  /\ Digits(Byte, v, size) \in Inputs /\ Len(Digits(Byte, v, size)) = size
           /\ \A rest \in Inputs : TakeInt(Digits(Byte, v, size) \o rest, size) = Result(rest, v)
           /\ \A k \in 0 .. size - 1 : TakeInt(SubSeq(Digits(Byte, v, size), 1, k), size).error
<1> DEFINE w == Digits(Byte, v, size)
<1>1. w \in Inputs /\ Len(w) = size
  BY ByteIs, DigitsAre DEF Inputs
<1>2. ValueOf(Byte, w) = v
  BY ByteIs, DigitsRead DEF Values
<1> HIDE DEF w
<1>3. ASSUME NEW rest \in Inputs PROVE TakeInt(w \o rest, size) = Result(rest, v)
  <2>1. Take(w \o rest, size) = Result(rest, w)
    BY <1>1, TakeReads
  <2> DEFINE q == Take(w \o rest, size)
  <2>2. q.error = FALSE /\ q.input = rest /\ q.value = w
    BY <2>1 DEF Result
  <2> HIDE DEF q
  <2> QED
    BY <1>2, <2>2 DEF TakeInt, q
<1>4. ASSUME NEW k \in 0 .. size - 1 PROVE TakeInt(SubSeq(w, 1, k), size).error
  <2>1. Take(SubSeq(w, 1, k), size).error
    BY <1>1, TakeReads
  <2> QED
    BY <2>1 DEF TakeInt
<1> QED
  BY <1>1, <1>3, <1>4 DEF w

------------------------------------------------------------------------------
(* Fields without parts.                                                   *)

(* What a parser of one field makes of its bytes.                          *)
Reader0(type) == [s \in Inputs |-> FlatParsed(type, s)]

LEMMA InputsAre ==
    ASSUME NEW w, w \in Inputs
    PROVE  /\ Len(w) \in Nat /\ \A rest \in Inputs : w \o rest \in Inputs
           /\ \A k \in 0 .. Len(w) - 1 : SubSeq(w, 1, k) \in Inputs
<1>1. w \in Seq(0 .. Byte - 1) /\ Len(w) \in Nat
  BY DEF Inputs
<1>2. \A rest \in Inputs : w \o rest \in Inputs
  BY <1>1 DEF Inputs
<1>3. ASSUME NEW k \in 0 .. Len(w) - 1 PROVE SubSeq(w, 1, k) \in Inputs
  <2>1. k \in 0 .. Len(w)
    BY <1>1
  <2> QED
    BY <1>1, <2>1, PrefixIs DEF Inputs
<1> QED
  BY <1>1, <1>2, <1>3

LEMMA IntegerReads ==
    ASSUME NEW size \in Nat \ {0}, NEW v \in Nat, v < Values(size)
    PROVE  /\ FlatWritten(Integer(size), v) = Digits(Byte, v, size)
           /\ Reads(Reader0(Integer(size)), FlatWritten(Integer(size), v), v)
           /\ Len(FlatWritten(Integer(size), v)) = size
<1> DEFINE w == FlatWritten(Integer(size), v)
           type == Integer(size)
<1>1. w = Digits(Byte, v, size)
  BY DEF FlatWritten, Integer
<1>2. \A s \in Inputs : Reader0(type)[s] = TakeInt(s, size)
  BY DEF Reader0, FlatParsed, Integer
<1>3. /\ w \in Inputs /\ Len(w) = size
      /\ \A rest \in Inputs : TakeInt(w \o rest, size) = Result(rest, v)
      /\ \A k \in 0 .. size - 1 : TakeInt(SubSeq(w, 1, k), size).error
  <2>1. size \in Nat
    OBVIOUS
  <2> HIDE DEF w
  <2> QED
    BY <1>1, <2>1, TakeIntReads
<1>4. /\ \A rest \in Inputs : w \o rest \in Inputs
      /\ \A k \in 0 .. Len(w) - 1 : SubSeq(w, 1, k) \in Inputs
  BY <1>3, InputsAre
<1> HIDE DEF w, type
<1>5. Reads(Reader0(type), w, v)
  BY <1>2, <1>3, <1>4 DEF Reads
<1> QED
  BY <1>1, <1>3, <1>5 DEF w, type

LEMMA SignedReads ==
    ASSUME NEW size \in Nat \ {0}, NEW v \in - Half(size) .. Half(size) - 1
    PROVE  /\ Reads(Reader0(Signed(size)), FlatWritten(Signed(size), v), v)
           /\ Len(FlatWritten(Signed(size), v)) = size
<1> DEFINE w == FlatWritten(Signed(size), v)
           type == Signed(size)
           n == Values(size)
           h == Half(size)
           u == v % n
<1>1. w = Digits(Byte, u, size)
  BY DEF FlatWritten, Signed
<1>2. \A s \in Inputs : Reader0(type)[s] =
          IF TakeInt(s, size).error \/ TakeInt(s, size).value < h THEN TakeInt(s, size)
          ELSE Result(TakeInt(s, size).input, TakeInt(s, size).value - n)
  BY DEF Reader0, FlatParsed, Signed
<1>3. n \in Nat \ {0} /\ h \in Nat \ {0} /\ 2 * h <= n /\ v \in Int /\ - h <= v /\ v < h
  BY ValuesAre
<1> HIDE DEF n, h
<1>4. u \in 0 .. n - 1 /\ (u < h => v = u) /\ (~(u < h) => v = u - n)
  <2>1. CASE v >= 0
    <3>1. v = n * 0 + v /\ v \in 0 .. n - 1
      BY <1>3, <2>1
    <3>2. u = v
      BY <1>3, <3>1, Remainder
    <3> QED
      BY <1>3, <3>1, <3>2
  <2>2. CASE v < 0
    <3>1. v = n * (-1) + (v + n) /\ v + n \in 0 .. n - 1 /\ v + n >= h
      BY <1>3, <2>2
    <3>2. u = v + n
      BY <1>3, <3>1, Remainder
    <3> HIDE DEF u
    <3> QED
      BY <1>3, <3>1, <3>2
  <2> QED
    BY <1>3, <2>1, <2>2
<1> HIDE DEF u
<1>5. /\ w \in Inputs /\ Len(w) = size
      /\ \A rest \in Inputs : TakeInt(w \o rest, size) = Result(rest, u)
      /\ \A k \in 0 .. size - 1 : TakeInt(SubSeq(w, 1, k), size).error
  <2>1. size \in Nat /\ u \in Nat /\ u < Values(size)
    BY <1>3, <1>4 DEF n
  <2> HIDE DEF w
  <2> QED
    BY <1>1, <2>1, TakeIntReads
<1>6. /\ \A rest \in Inputs : w \o rest \in Inputs
      /\ \A k \in 0 .. Len(w) - 1 : SubSeq(w, 1, k) \in Inputs
  BY <1>5, InputsAre
<1> HIDE DEF w, type
<1>7. ASSUME NEW rest \in Inputs PROVE Reader0(type)[w \o rest] = Result(rest, v)
  <2> DEFINE q == TakeInt(w \o rest, size)
  <2>1. q = Result(rest, u)
    BY <1>5
  <2>2. q.error = FALSE /\ q.input = rest /\ q.value = u
    BY <2>1 DEF Result
  <2>3. Reader0(type)[w \o rest] =
          IF q.error \/ q.value < h THEN q ELSE Result(q.input, q.value - n)
    BY <1>2, <1>6
  <2> HIDE DEF q
  <2> QED
    BY <1>4, <2>1, <2>2, <2>3
<1>8. ASSUME NEW k \in 0 .. Len(w) - 1 PROVE Reader0(type)[SubSeq(w, 1, k)].error
  <2> DEFINE q == TakeInt(SubSeq(w, 1, k), size)
  <2>1. q.error
    BY <1>5
  <2>2. Reader0(type)[SubSeq(w, 1, k)] =
          IF q.error \/ q.value < h THEN q ELSE Result(q.input, q.value - n)
    BY <1>2, <1>6
  <2> HIDE DEF q
  <2> QED
    BY <2>1, <2>2
<1>9. Reads(Reader0(type), w, v)
  BY <1>5, <1>7, <1>8 DEF Reads
<1> QED
  BY <1>5, <1>9 DEF w, type

Bytes(size) == [kind |-> "bytes", size |-> size]

LEMMA BytesRead ==
    ASSUME NEW v, v \in Inputs
    PROVE  /\ Reads(Reader0(Bytes(Len(v))), FlatWritten(Bytes(Len(v)), v), v)
           /\ Len(FlatWritten(Bytes(Len(v)), v)) = Len(v)
<1> DEFINE type == Bytes(Len(v))
<1>1. FlatWritten(type, v) = v
  BY DEF FlatWritten, Bytes
<1>2. \A s \in Inputs : Reader0(type)[s] = Take(s, Len(v))
  BY DEF Reader0, FlatParsed, Bytes
<1>3. /\ \A rest \in Inputs : Take(v \o rest, Len(v)) = Result(rest, v)
      /\ \A k \in 0 .. Len(v) - 1 : Take(SubSeq(v, 1, k), Len(v)).error
  BY TakeReads
<1>4. /\ \A rest \in Inputs : v \o rest \in Inputs
      /\ \A k \in 0 .. Len(v) - 1 : SubSeq(v, 1, k) \in Inputs
  BY InputsAre
<1> HIDE DEF type
<1>5. Reads(Reader0(type), v, v)
  BY <1>2, <1>3, <1>4 DEF Reads
<1> QED
  BY <1>1, <1>5 DEF type

LEMMA BufferReads ==
    ASSUME NEW size \in Nat \ {0}, NEW capacity \in Nat, capacity < Values(size),
           NEW v, v \in Inputs, Len(v) <= capacity
    PROVE  /\ Reads(Reader0(Buffer(capacity, size)), FlatWritten(Buffer(capacity, size), v), v)
           /\ Len(FlatWritten(Buffer(capacity, size), v)) = size + Len(v)
<1> DEFINE type == Buffer(capacity, size)
           n == Len(v)
           d == Digits(Byte, n, size)
           w == d \o v
<1>1. FlatWritten(type, v) = w
  BY DEF FlatWritten, Buffer
<1>2. \A s \in Inputs : Reader0(type)[s] =
          IF TakeInt(s, size).error THEN TakeInt(s, size)
          ELSE IF TakeInt(s, size).value > capacity THEN set_error(TakeInt(s, size).input)
          ELSE Take(TakeInt(s, size).input, TakeInt(s, size).value)
  BY DEF Reader0, FlatParsed, Buffer
<1>3. n \in Nat /\ n < Values(size) /\ ~(n > capacity)
  <2>1. Values(size) \in Nat
    BY ValuesAre
  <2>2. n \in Nat
    BY InputsAre
  <2> HIDE DEF n
  <2>3. n <= capacity
    BY DEF n
  <2> QED
    BY <2>1, <2>2, <2>3
<1>4. /\ d \in Inputs /\ Len(d) = size
      /\ \A rest \in Inputs : TakeInt(d \o rest, size) = Result(rest, n)
      /\ \A k \in 0 .. size - 1 : TakeInt(SubSeq(d, 1, k), size).error
  <2> HIDE DEF n
  <2> QED
    BY <1>3, TakeIntReads
<1> HIDE DEF d, type
<1>5. w \in Inputs /\ Len(w) = size + n
  BY <1>4, ConcatAt DEF Inputs
<1>6. /\ \A rest \in Inputs : w \o rest \in Inputs /\ v \o rest \in Inputs
      /\ \A k \in 0 .. Len(w) - 1 : SubSeq(w, 1, k) \in Inputs
  BY <1>5, InputsAre
<1>7. ASSUME NEW rest \in Inputs PROVE Reader0(type)[w \o rest] = Result(rest, v)
  <2> DEFINE q == TakeInt(w \o rest, size)
  <2>1. w \o rest = d \o (v \o rest)
    BY <1>4, ConcatAssociative DEF Inputs
  <2>2. q = Result(v \o rest, n)
    BY <1>4, <1>6, <2>1
  <2>3. q.error = FALSE /\ q.input = v \o rest /\ q.value = n
    BY <2>2 DEF Result
  <2>4. Reader0(type)[w \o rest] =
          IF q.error THEN q ELSE IF q.value > capacity THEN set_error(q.input)
          ELSE Take(q.input, q.value)
    BY <1>2, <1>6
  <2>5. Take(v \o rest, n) = Result(rest, v)
    BY TakeReads
  <2> HIDE DEF q, n
  <2> QED
    BY <1>3, <2>3, <2>4, <2>5
<1>8. ASSUME NEW k \in 0 .. Len(w) - 1 PROVE Reader0(type)[SubSeq(w, 1, k)].error
  <2> DEFINE s == SubSeq(w, 1, k)
             q == TakeInt(s, size)
  <2>1. Reader0(type)[s] =
          IF q.error THEN q ELSE IF q.value > capacity THEN set_error(q.input)
          ELSE Take(q.input, q.value)
    BY <1>2, <1>6
  <2>2. \/ k \in 0 .. Len(d) - 1 /\ s = SubSeq(d, 1, k)
        \/ /\ k - Len(d) \in 0 .. n - 1
           /\ SubSeq(v, 1, k - Len(d)) \in Inputs
           /\ s = d \o SubSeq(v, 1, k - Len(d))
    <3> DEFINE X == 0 .. Byte - 1
    <3>1. d \in Seq(X) /\ v \in Seq(X) /\ k \in 0 .. Len(d \o v) - 1
      BY <1>4 DEF Inputs
    <3> HIDE DEF X
    <3>2. \/ k \in 0 .. Len(d) - 1 /\ SubSeq(d \o v, 1, k) = SubSeq(d, 1, k)
          \/ /\ k - Len(d) \in 0 .. Len(v) - 1
             /\ SubSeq(v, 1, k - Len(d)) \in Seq(X)
             /\ SubSeq(d \o v, 1, k) = d \o SubSeq(v, 1, k - Len(d))
      BY ONLY <3>1, TwoCuts
    <3> QED
      BY <3>2 DEF Inputs, X
  <2>3. CASE k \in 0 .. Len(d) - 1 /\ s = SubSeq(d, 1, k)
    <3>1. q.error
      BY <1>4, <2>3
    <3> HIDE DEF q, s
    <3> QED
      BY <2>1, <3>1 DEF s
  <2>4. CASE /\ k - Len(d) \in 0 .. n - 1
             /\ SubSeq(v, 1, k - Len(d)) \in Inputs
             /\ s = d \o SubSeq(v, 1, k - Len(d))
    <3> DEFINE t == SubSeq(v, 1, k - Len(d))
    <3>1. q = Result(t, n)
      BY <1>4, <2>4
    <3>2. q.error = FALSE /\ q.input = t /\ q.value = n
      BY <3>1 DEF Result
    <3>3. Take(t, n).error
      BY <2>4, TakeReads
    <3> HIDE DEF q, s, t, n
    <3>4. Reader0(type)[s] = Take(t, n)
      BY <1>3, <2>1, <3>2
    <3> QED
      BY <3>3, <3>4 DEF s
  <2> QED
    BY <2>2, <2>3, <2>4
<1> HIDE DEF w
<1>9. Reads(Reader0(type), w, v)
  BY <1>5, <1>7, <1>8 DEF Reads
<1> QED
  BY <1>1, <1>5, <1>9 DEF type

------------------------------------------------------------------------------
(* Arrays, structures and flagged fields, for any parsers of their parts.  *)

(* A number, and then what it announces.                                   *)
LEMMA CountedReads ==
    ASSUME NEW size \in Nat, NEW n \in Nat, n < Values(size), NEW reader, NEW body,
           NEW w, NEW v, Reads(body, w, v),
           \A s \in Inputs : TakeInt(s, size).error => reader[s].error,
           \A s \in Inputs : ~TakeInt(s, size).error /\ TakeInt(s, size).value = n
                             => reader[s] = body[TakeInt(s, size).input]
    PROVE  Reads(reader, Digits(Byte, n, size) \o w, v)
<1> DEFINE d == Digits(Byte, n, size)
           dw == d \o w
<1>1. /\ d \in Inputs /\ Len(d) = size
      /\ \A rest \in Inputs : TakeInt(d \o rest, size) = Result(rest, n)
      /\ \A k \in 0 .. size - 1 : TakeInt(SubSeq(d, 1, k), size).error
  BY TakeIntReads
<1>2. w \in Inputs
  BY DEF Reads
<1> HIDE DEF d
<1>3. dw \in Inputs
  BY <1>1, <1>2, InputsAre
<1>4. /\ \A rest \in Inputs : dw \o rest \in Inputs /\ w \o rest \in Inputs
      /\ \A k \in 0 .. Len(dw) - 1 : SubSeq(dw, 1, k) \in Inputs
  <2> HIDE DEF dw
  <2> QED
    BY <1>2, <1>3, InputsAre
<1>5. ASSUME NEW rest \in Inputs PROVE reader[dw \o rest] = Result(rest, v)
  <2> DEFINE q == TakeInt(dw \o rest, size)
  <2>1. dw \o rest = d \o (w \o rest)
    BY <1>1, <1>2, ConcatAssociative DEF Inputs
  <2>2. q = Result(w \o rest, n)
    BY <1>1, <1>4, <2>1
  <2>3. q.error = FALSE /\ q.input = w \o rest /\ q.value = n
    BY <2>2 DEF Result
  <2>4. reader[dw \o rest] = body[w \o rest]
    <3>1. ~q.error /\ q.value = n /\ dw \o rest \in Inputs
      BY <1>4, <2>3
    <3>2. reader[dw \o rest] = body[q.input]
      BY <3>1
    <3> HIDE DEF q
    <3> QED
      BY <3>2, <2>3
  <2> QED
    BY <2>4 DEF Reads
<1>6. ASSUME NEW k \in 0 .. Len(dw) - 1 PROVE reader[SubSeq(dw, 1, k)].error
  <2> DEFINE s == SubSeq(dw, 1, k)
             q == TakeInt(s, size)
  <2>1. s \in Inputs
    BY <1>4
  <2>2. \/ k \in 0 .. Len(d) - 1 /\ s = SubSeq(d, 1, k)
        \/ /\ k - Len(d) \in 0 .. Len(w) - 1
           /\ SubSeq(w, 1, k - Len(d)) \in Inputs
           /\ s = d \o SubSeq(w, 1, k - Len(d))
    <3> DEFINE X == 0 .. Byte - 1
    <3>1. d \in Seq(X) /\ w \in Seq(X) /\ k \in 0 .. Len(d \o w) - 1
      BY <1>1, <1>2 DEF Inputs
    <3> HIDE DEF X
    <3>2. \/ k \in 0 .. Len(d) - 1 /\ SubSeq(d \o w, 1, k) = SubSeq(d, 1, k)
          \/ /\ k - Len(d) \in 0 .. Len(w) - 1
             /\ SubSeq(w, 1, k - Len(d)) \in Seq(X)
             /\ SubSeq(d \o w, 1, k) = d \o SubSeq(w, 1, k - Len(d))
      BY ONLY <3>1, TwoCuts
    <3> QED
      BY <3>2 DEF Inputs, X
  <2>3. CASE k \in 0 .. Len(d) - 1 /\ s = SubSeq(d, 1, k)
    <3>1. q.error
      BY <1>1, <2>3
    <3> HIDE DEF s, dw
    <3> QED
      BY <2>1, <3>1 DEF s
  <2>4. CASE /\ k - Len(d) \in 0 .. Len(w) - 1
             /\ SubSeq(w, 1, k - Len(d)) \in Inputs
             /\ s = d \o SubSeq(w, 1, k - Len(d))
    <3> DEFINE t == SubSeq(w, 1, k - Len(d))
    <3>1. q = Result(t, n)
      BY <1>1, <2>4
    <3>2. q.error = FALSE /\ q.input = t /\ q.value = n
      BY <3>1 DEF Result
    <3>3. body[t].error
      BY <2>4 DEF Reads
    <3> HIDE DEF s, t
    <3>4. ~q.error /\ q.value = n
      BY <3>2
    <3>5. reader[s] = body[q.input]
      BY <2>1, <3>4
    <3> HIDE DEF q
    <3>6. reader[s].error
      BY <3>2, <3>3, <3>5
    <3> QED
      BY <3>6 DEF s
  <2> QED
    BY <2>2, <2>3, <2>4
<1> HIDE DEF dw
<1>7. Reads(reader, dw, v)
  BY <1>3, <1>5, <1>6 DEF Reads
<1> QED
  BY <1>7 DEF dw, d

LEMMA OneDigit ==
    ASSUME NEW n \in 0 .. Byte - 1
    PROVE  Digits(Byte, n, 1) = <<n>> /\ n < Values(1)
<1>1. Power(Byte, 0) = 1
  BY ByteIs, PowerIs
<1>2. n \div 1 = n /\ n % Byte = n
  <2>1. n \in Int /\ n = 1 * n + 0 /\ n = Byte * 0 + n /\ Byte \in Nat \ {0}
    BY ByteIs
  <2> QED
    BY <2>1, Remainder
<1>3. \A i \in 1 .. 1 : (n \div Power(Byte, 1 - i)) % Byte = n
  BY <1>1, <1>2
<1>4. Digits(Byte, n, 1) = [i \in 1 .. 1 |-> n]
  BY <1>3 DEF Digits
<1>5. [i \in 1 .. 1 |-> n] = <<n>>
  OBVIOUS
<1>6. n < Values(1)
  BY ByteIs, ValuesAre
<1> QED
  BY <1>4, <1>5, <1>6

LEMMA TakeIntLeaves ==
    ASSUME NEW size \in Nat, NEW s \in Inputs, ~TakeInt(s, size).error
    PROVE  TakeInt(s, size).input \in Inputs
<1> DEFINE q == TakeInt(s, size)
           X == 0 .. Byte - 1
           rest == SubSeq(s, size + 1, Len(s))
<1>1. s \in Seq(X) /\ Len(s) \in Nat
  BY DEF Inputs
<1>2. CASE size > Len(s)
  <2>1. q.error
    BY <1>2, ResultIs DEF TakeInt, Take
  <2> QED
    BY <2>1
<1>3. CASE ~(size > Len(s))
  <2>1. size <= Len(s)
    BY <1>1, <1>3
  <2> HIDE DEF X
  <2>2. rest \in Seq(X)
    BY <1>1, <2>1, SuffixIs
  <2>3. Take(s, size) = Result(rest, SubSeq(s, 1, size))
    BY <1>3 DEF Take
  <2> DEFINE p == Take(s, size)
  <2> HIDE DEF rest
  <2>4. p.error = FALSE /\ p.input = rest
    BY <2>3 DEF Result
  <2>5. q = IF p.error THEN p ELSE Result(p.input, ValueOf(Byte, p.value))
    BY DEF TakeInt
  <2> HIDE DEF p
  <2>6. q.input = p.input
    BY <2>4, <2>5 DEF Result
  <2> QED
    BY <2>2, <2>4, <2>6 DEF Inputs, X
<1> QED
  BY <1>2, <1>3

HasPlaces(v, n) == v = [i \in 1 .. n |-> v[i]]

LEMMA ArrayReads ==
    ASSUME NEW parser, NEW capacity \in 0 .. Byte - 1, NEW n \in 0 .. capacity,
           NEW w, w \in Seq(Inputs), Len(w) = n, NEW v, HasPlaces(v, n),
           \A i \in 1 .. n : Reads(parser, w[i], v[i]),
           NEW reader, \A s \in Inputs : reader[s] = ArrayParsed(parser, capacity, s)
    PROVE  Reads(reader, <<n>> \o FlattenSeq(w), v)
<1> DEFINE parsers == [i \in 1 .. n |-> parser]
           body == [s \in Inputs |-> ParsedAll(parsers, s)]
           all == FlattenSeq(w)
           value == [i \in 1 .. n |-> v[i]]
<1>1. n \in Nat /\ n \in 0 .. Byte - 1 /\ ~(n > capacity) /\ 1 \in Nat
  BY ByteIs
<1>2. Digits(Byte, n, 1) = <<n>> /\ n < Values(1)
  BY <1>1, OneDigit
<1>3. Len(parsers) = n /\ \A i \in 1 .. n : parsers[i] = parser
  BY <1>1
<1> HIDE DEF parsers
<1>4. /\ all \in Inputs
      /\ \A rest \in Inputs : ParsedAll(parsers, all \o rest) = Result(rest, value)
      /\ \A k \in 0 .. Len(all) - 1 : ParsedAll(parsers, SubSeq(all, 1, k)).error
  <2>1. \A i \in 1 .. n : Reads(parsers[i], w[i], v[i])
    BY <1>3
  <2> QED
    BY ONLY <1>1, <1>3, <2>1, w \in Seq(Inputs), Len(w) = n, AllRead
<1> HIDE DEF all, value
<1>5. Reads(body, all, value)
  <2>1. /\ \A rest \in Inputs : all \o rest \in Inputs
        /\ \A k \in 0 .. Len(all) - 1 : SubSeq(all, 1, k) \in Inputs
    BY <1>4, InputsAre
  <2>2. \A s \in Inputs : body[s] = ParsedAll(parsers, s)
    OBVIOUS
  <2> HIDE DEF body
  <2> QED
    BY <1>4, <2>1, <2>2 DEF Reads
<1>6. \A s \in Inputs : TakeInt(s, 1).error => reader[s].error
  BY DEF ArrayParsed
<1>7. ASSUME NEW s \in Inputs, ~TakeInt(s, 1).error, TakeInt(s, 1).value = n
      PROVE  reader[s] = body[TakeInt(s, 1).input]
  <2> DEFINE q == TakeInt(s, 1)
  <2>1. reader[s] = ParsedAll(parsers, q.input)
    <3>1. reader[s] = IF q.error THEN q
                      ELSE IF q.value > capacity THEN set_error(q.input)
                      ELSE ParsedAll([i \in 1 .. q.value |-> parser], q.input)
      BY DEF ArrayParsed
    <3> HIDE DEF q
    <3>2. ~q.error /\ q.value = n
      BY <1>7 DEF q
    <3> QED
      BY <1>1, <3>1, <3>2 DEF parsers
  <2>2. q.input \in Inputs
    BY <1>7, <1>1, TakeIntLeaves
  <2> QED
    BY <2>1, <2>2
<1> HIDE DEF body
<1>8. Reads(reader, Digits(Byte, n, 1) \o all, value)
  BY ONLY <1>1, <1>2, <1>5, <1>6, <1>7, CountedReads
<1> QED
  BY <1>2, <1>8 DEF all, value, HasPlaces

(* The parsers of a structure's fields, what they read and where it goes.  *)
Distinct(names, n) ==
    DOMAIN names = 1 .. n /\ \A i, j \in 1 .. n : names[i] = names[j] => i = j
EachReads(parsers, w, v, n) == \A i \in 1 .. n : Reads(parsers[i], w[i], v[i])
HasValues(value, names, v, n) ==
    /\ value = [name \in ToSet(names) |-> value[name]]
    /\ \A i \in 1 .. n : value[names[i]] = v[i]
ReadsStruct(reader, parsers, names) ==
    \A s \in Inputs : reader[s] = StructParsed(parsers, names, s)

LEMMA StructReads ==
    ASSUME NEW n \in Nat, NEW names, Distinct(names, n), NEW parsers, Len(parsers) = n,
           NEW w, w \in Seq(Inputs), Len(w) = n, NEW v, EachReads(parsers, w, v, n),
           NEW value, HasValues(value, names, v, n),
           NEW reader, ReadsStruct(reader, parsers, names)
    PROVE  Reads(reader, FlattenSeq(w), value)
<1>0. /\ DOMAIN names = 1 .. n /\ \A i, j \in 1 .. n : names[i] = names[j] => i = j
      /\ \A i \in 1 .. n : Reads(parsers[i], w[i], v[i])
      /\ value = [name \in ToSet(names) |-> value[name]]
      /\ \A i \in 1 .. n : value[names[i]] = v[i]
      /\ \A s \in Inputs : reader[s] = StructParsed(parsers, names, s)
  BY DEF Distinct, EachReads, HasValues, ReadsStruct
<1> DEFINE all == FlattenSeq(w)
           values == [i \in 1 .. n |-> v[i]]
           place(name) == CHOOSE i \in DOMAIN names : names[i] = name
           made == [name \in ToSet(names) |-> values[place(name)]]
<1>1. \A name \in ToSet(names) : values[place(name)] = value[name]
  <2> TAKE name \in ToSet(names)
  <2>1. PICK i \in 1 .. n : names[i] = name
    BY <1>0 DEF ToSet
  <2>2. place(name) \in 1 .. n /\ names[place(name)] = name
    BY <1>0, <2>1
  <2> QED
    BY <1>0, <2>2
<1>2. made = value
  BY <1>0, <1>1
<1>3. /\ all \in Inputs
      /\ \A rest \in Inputs : ParsedAll(parsers, all \o rest) = Result(rest, values)
      /\ \A k \in 0 .. Len(all) - 1 : ParsedAll(parsers, SubSeq(all, 1, k)).error
  BY ONLY n \in Nat, Len(parsers) = n, w \in Seq(Inputs), Len(w) = n,
          <1>0, AllRead
<1>4. \A s \in Inputs : reader[s] =
          IF ParsedAll(parsers, s).error THEN ParsedAll(parsers, s)
          ELSE Result(ParsedAll(parsers, s).input,
                      [name \in ToSet(names) |-> ParsedAll(parsers, s).value[place(name)]])
  BY <1>0 DEF StructParsed
<1> HIDE DEF all, values
<1>5. /\ \A rest \in Inputs : all \o rest \in Inputs
      /\ \A k \in 0 .. Len(all) - 1 : SubSeq(all, 1, k) \in Inputs
  BY <1>3, InputsAre
<1>6. ASSUME NEW rest \in Inputs PROVE reader[all \o rest] = Result(rest, value)
  <2> DEFINE q == ParsedAll(parsers, all \o rest)
  <2>1. q = Result(rest, values)
    BY <1>3
  <2>2. q.error = FALSE /\ q.input = rest /\ q.value = values
    BY <2>1 DEF Result
  <2>3. reader[all \o rest] =
          IF q.error THEN q
          ELSE Result(q.input, [name \in ToSet(names) |-> q.value[place(name)]])
    BY <1>4, <1>5
  <2> HIDE DEF q, place
  <2>4. reader[all \o rest] = Result(rest, made)
    BY <2>2, <2>3
  <2> QED
    BY <1>2, <2>4
<1>7. ASSUME NEW k \in 0 .. Len(all) - 1 PROVE reader[SubSeq(all, 1, k)].error
  <2> DEFINE q == ParsedAll(parsers, SubSeq(all, 1, k))
  <2>1. q.error
    BY <1>3
  <2>2. reader[SubSeq(all, 1, k)] =
          IF q.error THEN q
          ELSE Result(q.input, [name \in ToSet(names) |-> q.value[place(name)]])
    BY <1>4, <1>5
  <2> HIDE DEF q, place
  <2> QED
    BY <2>1, <2>2
<1>8. Reads(reader, all, value)
  BY <1>3, <1>6, <1>7 DEF Reads
<1> QED
  BY <1>8 DEF all

(* What follows the word of a flagged field.                               *)
FlaggedRest(plain, more, flag, index, s) ==
    LET p == plain[s]
        m == IF flag /\ ~p.error THEN more[p.input] ELSE p IN
    IF m.error THEN m
    ELSE Result(m.input, [flag |-> flag, index |-> index, plain |-> p.value,
                          more |-> IF flag THEN m.value ELSE <<>>])

LEMMA FlaggedRestReads ==
    ASSUME NEW plain, NEW more, NEW wp, NEW vp, Reads(plain, wp, vp),
           NEW flag \in BOOLEAN, NEW index, NEW wm, NEW vm,
           flag => Reads(more, wm, vm), ~flag => wm = <<>> /\ vm = <<>>
    PROVE  Reads([s \in Inputs |-> FlaggedRest(plain, more, flag, index, s)], wp \o wm,
                 [flag |-> flag, index |-> index, plain |-> vp, more |-> vm])
<1> DEFINE reader == [s \in Inputs |-> FlaggedRest(plain, more, flag, index, s)]
           w == wp \o wm
           value == [flag |-> flag, index |-> index, plain |-> vp, more |-> vm]
<1>1. wp \in Inputs /\ wm \in Inputs
  <2>1. <<>> \in Inputs
    BY DEF Inputs
  <2> QED
    BY <2>1 DEF Reads
<1>2. w \in Inputs
  BY <1>1, InputsAre
<1> HIDE DEF w
<1>3. /\ \A rest \in Inputs : w \o rest \in Inputs /\ wm \o rest \in Inputs
      /\ \A k \in 0 .. Len(w) - 1 : SubSeq(w, 1, k) \in Inputs
  BY <1>1, <1>2, InputsAre
<1>4. ASSUME NEW rest \in Inputs PROVE reader[w \o rest] = Result(rest, value)
  <2> DEFINE p == plain[w \o rest]
             m == IF flag /\ ~p.error THEN more[p.input] ELSE p
  <2>1. w \o rest = wp \o (wm \o rest)
    BY <1>1, ConcatAssociative DEF Inputs, w
  <2>2. p = Result(wm \o rest, vp)
    BY <1>3, <2>1 DEF Reads
  <2>3. p.error = FALSE /\ p.input = wm \o rest /\ p.value = vp
    BY <2>2 DEF Result
  <2>4. reader[w \o rest] = IF m.error THEN m
            ELSE Result(m.input, [flag |-> flag, index |-> index, plain |-> p.value,
                                  more |-> IF flag THEN m.value ELSE <<>>])
    BY <1>3 DEF FlaggedRest
  <2> HIDE DEF p
  <2>5. CASE flag
    <3>1. m = Result(rest, vm)
      <4>1. more[wm \o rest] = Result(rest, vm)
        BY <2>5 DEF Reads
      <4> QED
        BY <2>3, <2>5, <4>1
    <3>2. m.error = FALSE /\ m.input = rest /\ m.value = vm
      BY <3>1 DEF Result
    <3> HIDE DEF m
    <3> QED
      BY <2>3, <2>4, <2>5, <3>2
  <2>6. CASE ~flag
    <3>1. m = p /\ wm = <<>> /\ vm = <<>>
      BY <2>6
    <3>2. wm \o rest = rest
      BY <3>1, WholeIs DEF Inputs
    <3>3. m.error = FALSE /\ m.input = rest
      BY <3>1, <3>2, <2>3
    <3> HIDE DEF m
    <3> QED
      BY <2>3, <2>4, <2>6, <3>1, <3>3
  <2> QED
    BY <2>5, <2>6
<1>5. ASSUME NEW k \in 0 .. Len(w) - 1 PROVE reader[SubSeq(w, 1, k)].error
  <2> DEFINE s == SubSeq(w, 1, k)
             p == plain[s]
             m == IF flag /\ ~p.error THEN more[p.input] ELSE p
  <2>1. reader[s] = IF m.error THEN m
            ELSE Result(m.input, [flag |-> flag, index |-> index, plain |-> p.value,
                                  more |-> IF flag THEN m.value ELSE <<>>])
    BY <1>3 DEF FlaggedRest
  <2>2. \/ k \in 0 .. Len(wp) - 1 /\ s = SubSeq(wp, 1, k)
        \/ /\ k - Len(wp) \in 0 .. Len(wm) - 1
           /\ SubSeq(wm, 1, k - Len(wp)) \in Inputs
           /\ s = wp \o SubSeq(wm, 1, k - Len(wp))
    <3> DEFINE X == 0 .. Byte - 1
    <3>1. wp \in Seq(X) /\ wm \in Seq(X) /\ k \in 0 .. Len(wp \o wm) - 1
      BY <1>1 DEF Inputs, w
    <3> HIDE DEF X
    <3>2. \/ k \in 0 .. Len(wp) - 1 /\ SubSeq(wp \o wm, 1, k) = SubSeq(wp, 1, k)
          \/ /\ k - Len(wp) \in 0 .. Len(wm) - 1
             /\ SubSeq(wm, 1, k - Len(wp)) \in Seq(X)
             /\ SubSeq(wp \o wm, 1, k) = wp \o SubSeq(wm, 1, k - Len(wp))
      BY ONLY <3>1, TwoCuts
    <3> QED
      BY <3>2 DEF Inputs, X, w
  <2>3. CASE k \in 0 .. Len(wp) - 1 /\ s = SubSeq(wp, 1, k)
    <3>1. p.error
      BY <2>3 DEF Reads
    <3> HIDE DEF p
    <3>2. m = p
      BY <3>1
    <3> HIDE DEF m
    <3>3. reader[s].error
      BY <2>1, <3>1, <3>2
    <3> QED
      BY <3>3
  <2>4. CASE /\ k - Len(wp) \in 0 .. Len(wm) - 1
             /\ SubSeq(wm, 1, k - Len(wp)) \in Inputs
             /\ s = wp \o SubSeq(wm, 1, k - Len(wp))
    <3> DEFINE t == SubSeq(wm, 1, k - Len(wp))
    <3>1. flag
      <4>1. CASE ~flag
        <5>1. wm = <<>>
          BY <4>1
        <5>2. 0 .. Len(wm) - 1 = {}
          BY <5>1
        <5> QED
          BY <2>4, <5>2
      <4> QED
        BY <4>1
    <3>2. p = Result(t, vp)
      BY <2>4 DEF Reads
    <3>3. p.error = FALSE /\ p.input = t
      BY <3>2 DEF Result
    <3>4. more[t].error
      BY <2>4, <3>1 DEF Reads
    <3> HIDE DEF p, t
    <3>5. m = more[t]
      BY <3>1, <3>3
    <3> HIDE DEF m
    <3>6. reader[s].error
      BY <2>1, <3>4, <3>5
    <3> QED
      BY <3>6
  <2> QED
    BY <2>2, <2>3, <2>4
<1> HIDE DEF reader, value
<1>6. Reads(reader, w, value)
  BY <1>2, <1>4, <1>5 DEF Reads
<1> QED
  BY <1>6 DEF reader, w, value

LEMMA FlaggedReads ==
    ASSUME NEW plain, NEW more, NEW wp, NEW vp, Reads(plain, wp, vp),
           NEW flag \in BOOLEAN, NEW index \in 0 .. Half(4) - 1, NEW wm, NEW vm,
           flag => Reads(more, wm, vm), ~flag => wm = <<>> /\ vm = <<>>,
           NEW reader, \A s \in Inputs : reader[s] = FlaggedParsed(plain, more, s)
    PROVE  /\ Reads(reader,
                    Digits(Byte, (IF flag THEN Half(4) ELSE 0) + (index % Half(4)), 4) \o (wp \o wm),
                    [flag |-> flag, index |-> index, plain |-> vp, more |-> vm])
           /\ Len(Digits(Byte, (IF flag THEN Half(4) ELSE 0) + (index % Half(4)), 4)) = 4
<1> DEFINE h == Half(4)
           n == (IF flag THEN h ELSE 0) + (index % h)
           body == [s \in Inputs |-> FlaggedRest(plain, more, flag, index, s)]
           value == [flag |-> flag, index |-> index, plain |-> vp, more |-> vm]
<1>1. h \in Nat \ {0} /\ 2 * h <= Values(4) /\ Values(4) \in Nat /\ index \in 0 .. h - 1
  BY ValuesAre
<1> HIDE DEF h
<1>2. index % h = index /\ (h + index) % h = index
  <2>1. (index + h) % h = index /\ index % h = index
    BY ONLY <1>1, OnceRound
  <2>2. h + index = index + h
    BY <1>1
  <2> QED
    BY <2>1, <2>2
<1>3. n \in Nat /\ n < Values(4) /\ n % h = index /\ (n >= h <=> flag)
  <2>1. CASE flag
    BY <1>1, <1>2, <2>1
  <2>2. CASE ~flag
    BY <1>1, <1>2, <2>2
  <2> QED
    BY <2>1, <2>2
<1> HIDE DEF n
<1>4. Reads(body, wp \o wm, value)
  BY FlaggedRestReads
<1>5. \A s \in Inputs : TakeInt(s, 4).error => reader[s].error
  BY DEF FlaggedParsed
<1>6. ASSUME NEW s \in Inputs, ~TakeInt(s, 4).error, TakeInt(s, 4).value = n
      PROVE  reader[s] = body[TakeInt(s, 4).input]
  <2> DEFINE q == TakeInt(s, 4)
             t == q.input
             p == plain[t]
             m == IF flag /\ ~p.error THEN more[p.input] ELSE p
  <2>1. t \in Inputs /\ ~q.error /\ q.value = n
    BY <1>6, TakeIntLeaves
  <2> DEFINE plain1 == IF q.error THEN q ELSE plain[q.input]
             flag1 == ~q.error /\ q.value >= h
             more1 == IF flag1 /\ ~plain1.error THEN more[plain1.input] ELSE plain1
  <2>2. reader[s] = IF more1.error THEN more1
                    ELSE Result(more1.input, [flag |-> flag1, index |-> q.value % h,
                                              plain |-> plain1.value,
                                              more |-> IF flag1 THEN more1.value ELSE <<>>])
    BY DEF FlaggedParsed, h
  <2>3. body[t] = IF m.error THEN m
                  ELSE Result(m.input, [flag |-> flag, index |-> index, plain |-> p.value,
                                        more |-> IF flag THEN m.value ELSE <<>>])
    BY <2>1 DEF FlaggedRest
  <2> HIDE DEF body, q
  <2>4. plain1 = p
    BY <2>1
  <2>5. flag1 = flag
    BY <1>3, <2>1
  <2> HIDE DEF plain1, flag1, p
  <2>6. more1 = m
    BY <2>4, <2>5
  <2> HIDE DEF more1, m
  <2>7. q.value % h = index
    BY <1>3, <2>1
  <2> QED
    BY <2>2, <2>3, <2>4, <2>5, <2>6, <2>7 DEF q, t
<1> HIDE DEF body, value
<1>7. Reads(reader, Digits(Byte, n, 4) \o (wp \o wm), value)
  <2>1. 4 \in Nat /\ n \in Nat /\ n < Values(4)
    BY <1>3
  <2> QED
    BY ONLY <2>1, <1>4, <1>5, <1>6, CountedReads
<1>8. Len(Digits(Byte, n, 4)) = 4
  <2>1. 4 \in Nat /\ n \in Int /\ Byte \in Nat \ {0}
    BY <1>3, ByteIs
  <2> QED
    BY ONLY <2>1, DigitsAre
<1> QED
  BY <1>7, <1>8 DEF value, n, h

------------------------------------------------------------------------------
(* The samples of the fields are read as they were.                        *)

IsFlat(type) ==
    \E size \in Nat \ {0} :
       \/ type = Integer(size) \/ type = Signed(size) \/ type = Bytes(size)
       \/ \E capacity \in Nat : capacity < Values(size) /\ type = Buffer(capacity, size)

Word0(type, k) == FlatWritten(type, FlatSample(type, k))

FlatReads(type) ==
    \A k \in Nat : /\ Reads(Reader0(type), Word0(type, k), FlatSample(type, k))
                   /\ Len(Word0(type, k)) = FlatLength(type, FlatSample(type, k))

LEMMA OneOfThree ==
    ASSUME NEW k \in Nat, NEW a, NEW b, NEW c
    PROVE  <<a, b, c>>[(k % 3) + 1] \in {a, b, c}
<1>1. k % 3 = 0 \/ k % 3 = 1 \/ k % 3 = 2
  OBVIOUS
<1>2. <<a, b, c>>[1] = a /\ <<a, b, c>>[2] = b /\ <<a, b, c>>[3] = c
  OBVIOUS
<1>3. CASE k % 3 = 0
  BY <1>2, <1>3
<1>4. CASE k % 3 = 1
  BY <1>2, <1>4
<1>5. CASE k % 3 = 2
  BY <1>2, <1>5
<1> QED
  BY <1>1, <1>3, <1>4, <1>5

LEMMA RunOfBytes ==
    ASSUME NEW size \in Nat, NEW k \in Nat
    PROVE  /\ [i \in 1 .. size |-> (i + k) % Byte] \in Inputs
           /\ Len([i \in 1 .. size |-> (i + k) % Byte]) = size
<1>1. \A i \in 1 .. size : (i + k) % Byte \in 0 .. Byte - 1
  <2> TAKE i \in 1 .. size
  <2>1. i + k \in Int
    OBVIOUS
  <2> QED
    BY <2>1, ByteIs, Quotient
<1> QED
  BY <1>1 DEF Inputs

LEMMA FlatsRead ==
    ASSUME NEW type, IsFlat(type)
    PROVE  /\ FlatReads(type) /\ type.kind \notin {"array", "struct", "flagged"}
<1>1. PICK size \in Nat \ {0} :
         \/ type = Integer(size) \/ type = Signed(size) \/ type = Bytes(size)
         \/ \E capacity \in Nat : capacity < Values(size) /\ type = Buffer(capacity, size)
  BY DEF IsFlat
<1> DEFINE n == Values(size)
           h == Half(size)
<1>2. n \in Nat \ {0} /\ h \in Nat \ {0} /\ 2 * h <= n /\ h <= n - 1 /\ n >= Byte /\ Byte >= 3
  BY ValuesAre, ByteIs
<1>3. CASE type = Integer(size)
  <2>1. ASSUME NEW k \in Nat
        PROVE  /\ Reads(Reader0(type), Word0(type, k), FlatSample(type, k))
               /\ Len(Word0(type, k)) = FlatLength(type, FlatSample(type, k))
    <3> DEFINE v == FlatSample(type, k)
    <3>1. v = <<1, n - 1, h>>[(k % 3) + 1]
      BY <1>3 DEF FlatSample, Integer
    <3>2. v \in {1, n - 1, h}
      BY <3>1, OneOfThree
    <3> HIDE DEF v, n, h
    <3>3. v \in Nat /\ v < n
      BY <1>2, <3>2, ByteIs
    <3>4. Reads(Reader0(type), FlatWritten(type, v), v) /\ Len(FlatWritten(type, v)) = size
      BY <1>3, <3>3, IntegerReads DEF n
    <3>5. FlatLength(type, v) = size
      BY <1>3 DEF FlatLength, Integer
    <3> QED
      BY <3>4, <3>5 DEF Word0, v
  <2> QED
    BY <1>3, <2>1 DEF FlatReads, Integer
<1>4. CASE type = Signed(size)
  <2>1. ASSUME NEW k \in Nat
        PROVE  /\ Reads(Reader0(type), Word0(type, k), FlatSample(type, k))
               /\ Len(Word0(type, k)) = FlatLength(type, FlatSample(type, k))
    <3> DEFINE v == FlatSample(type, k)
    <3>1. v = <<-1, h - 1, -h>>[(k % 3) + 1]
      BY <1>4 DEF FlatSample, Signed
    <3>2. v \in {-1, h - 1, -h}
      BY <3>1, OneOfThree
    <3> HIDE DEF v, n, h
    <3>3. v \in - h .. h - 1
      BY <1>2, <3>2
    <3>4. Reads(Reader0(type), FlatWritten(type, v), v) /\ Len(FlatWritten(type, v)) = size
      BY <1>4, <3>3, SignedReads DEF h
    <3>5. FlatLength(type, v) = size
      BY <1>4 DEF FlatLength, Signed
    <3> QED
      BY <3>4, <3>5 DEF Word0, v
  <2> QED
    BY <1>4, <2>1 DEF FlatReads, Signed
<1>5. CASE type = Bytes(size)
  <2>1. ASSUME NEW k \in Nat
        PROVE  /\ Reads(Reader0(type), Word0(type, k), FlatSample(type, k))
               /\ Len(Word0(type, k)) = FlatLength(type, FlatSample(type, k))
    <3> DEFINE v == FlatSample(type, k)
    <3>1. v = [i \in 1 .. size |-> (i + k) % Byte]
      BY <1>5 DEF FlatSample, Bytes
    <3>2. v \in Inputs /\ Len(v) = size
      BY <3>1, RunOfBytes
    <3> HIDE DEF v
    <3>4. Reads(Reader0(type), FlatWritten(type, v), v) /\ Len(FlatWritten(type, v)) = size
      BY <1>5, <3>2, BytesRead
    <3>5. FlatLength(type, v) = size
      BY <1>5 DEF FlatLength, Bytes
    <3> QED
      BY <3>4, <3>5 DEF Word0, v
  <2> QED
    BY <1>5, <2>1 DEF FlatReads, Bytes
<1>6. CASE \E capacity \in Nat : capacity < Values(size) /\ type = Buffer(capacity, size)
  <2>0. PICK capacity \in Nat : capacity < Values(size) /\ type = Buffer(capacity, size)
    BY <1>6
  <2>1. ASSUME NEW k \in Nat
        PROVE  /\ Reads(Reader0(type), Word0(type, k), FlatSample(type, k))
               /\ Len(Word0(type, k)) = FlatLength(type, FlatSample(type, k))
    <3> DEFINE v == FlatSample(type, k)
               l == k % (capacity + 1)
    <3>1. v = [i \in 1 .. l |-> (i + k) % Byte]
      BY <2>0 DEF FlatSample, Buffer
    <3>2. l \in 0 .. capacity
      <4>1. capacity + 1 \in Nat \ {0} /\ k \in Int
        OBVIOUS
      <4>2. l \in 0 .. (capacity + 1) - 1
        BY ONLY <4>1, Quotient
      <4> QED
        BY <4>2
    <3> HIDE DEF l
    <3>3. v \in Inputs /\ Len(v) = l
      <4>1. l \in Nat
        BY <3>2
      <4> QED
        BY <3>1, <4>1, RunOfBytes
    <3> HIDE DEF v
    <3>4. Len(v) <= capacity
      BY <3>2, <3>3
    <3>5. Reads(Reader0(type), FlatWritten(type, v), v)
          /\ Len(FlatWritten(type, v)) = size + Len(v)
      BY <2>0, <3>3, <3>4, BufferReads
    <3>6. FlatLength(type, v) = size + Len(v)
      BY <2>0 DEF FlatLength, Buffer
    <3> QED
      BY <3>5, <3>6 DEF Word0, v
  <2> QED
    BY <2>0, <2>1 DEF FlatReads, Buffer
<1> QED
  BY <1>1, <1>3, <1>4, <1>5, <1>6

(* The fields of a structure: their names, in one order, and their types.  *)
HasFields(type, n, parts) ==
    /\ type.kind = "struct" /\ n \in Nat
    /\ DOMAIN type.fields = 1 .. n /\ DOMAIN type.reads = 1 .. n /\ Len(type.reads) = n
    /\ \A i \in 1 .. n : type.fields[i][1] = type.reads[i] /\ type.fields[i][2] = parts[i]
    /\ \A i, j \in 1 .. n : type.reads[i] = type.reads[j] => i = j

LEMMA FieldsAre ==
    ASSUME NEW type, NEW n, NEW parts, HasFields(type, n, parts)
    PROVE  \A i \in 1 .. n : /\ TypeOf(type, type.reads[i]) = parts[i]
                             /\ type.reads[i] \in ToSet(type.reads)
                             /\ \A j \in DOMAIN type.fields :
                                   type.fields[j][1] = type.reads[i] <=> j = i
<1> TAKE i \in 1 .. n
<1>1. \A j \in DOMAIN type.fields : type.fields[j][1] = type.reads[i] <=> j = i
  BY DEF HasFields
<1>2. type.reads[i] \in ToSet(type.reads)
  BY DEF ToSet, HasFields
<1>3. TypeOf(type, type.reads[i]) = parts[i]
  <2> DEFINE name == type.reads[i]
             S == ToSet(type.fields)
             f == CHOOSE g \in S : g[1] = name
  <2>1. S = {type.fields[j] : j \in DOMAIN type.fields} /\ i \in DOMAIN type.fields
    BY DEF ToSet, HasFields
  <2>2. type.fields[i] \in S /\ type.fields[i][1] = name
    BY <1>1, <2>1
  <2>3. f \in S /\ f[1] = name
    BY <2>2
  <2>4. f = type.fields[i]
    BY <1>1, <2>1, <2>3
  <2>5. type.fields[i][2] = parts[i]
    BY DEF HasFields
  <2> QED
    BY <2>4, <2>5 DEF TypeOf
<1> QED
  BY <1>1, <1>2, <1>3

------------------------------------------------------------------------------
(* The depths of types. A type without parts is the same at each; a        *)
(* structure, an array or a flagged field fits at one depth when its parts *)
(* fit at the one below.                                                   *)

(* For a type at each depth: its parser, the bytes of its samples, that    *)
(* they are read as they were, and that they are as many as announced.     *)
Reads0(type) == \A k \in Nat : Reads(Reader0(type), Word0(type, k), FlatSample(type, k))
Lasts0(type) == \A k \in Nat : Len(Word0(type, k)) = FlatLength(type, FlatSample(type, k))
Fits0(type) ==
    /\ Reads0(type) /\ Lasts0(type)
    /\ type.kind \in {"integer", "signed", "bytes"} =>
          \A k \in Nat : Len(Word0(type, k)) = type.size

Reader1(type) == [s \in Inputs |-> Parsed1(type, s)]
Word1(type, k) == Written1(type, Sample1(type, k))
Reads1(type) == \A k \in Nat : Reads(Reader1(type), Word1(type, k), Sample1(type, k))
Lasts1(type) == \A k \in Nat : Len(Word1(type, k)) = Length1(type, Sample1(type, k))
Fits1(type) ==
    /\ Reads1(type) /\ Lasts1(type)
    /\ type.kind \in {"integer", "signed", "bytes"} =>
          \A k \in Nat : Len(Word1(type, k)) = type.size

Reader2(type) == [s \in Inputs |-> Parsed2(type, s)]
Word2(type, k) == Written2(type, Sample2(type, k))
Reads2(type) == \A k \in Nat : Reads(Reader2(type), Word2(type, k), Sample2(type, k))
Lasts2(type) == \A k \in Nat : Len(Word2(type, k)) = Length2(type, Sample2(type, k))
Fits2(type) ==
    /\ Reads2(type) /\ Lasts2(type)
    /\ type.kind \in {"integer", "signed", "bytes"} =>
          \A k \in Nat : Len(Word2(type, k)) = type.size

Reader3(type) == [s \in Inputs |-> Parsed3(type, s)]
Word3(type, k) == Written3(type, Sample3(type, k))
Reads3(type) == \A k \in Nat : Reads(Reader3(type), Word3(type, k), Sample3(type, k))
Lasts3(type) == \A k \in Nat : Len(Word3(type, k)) = Length3(type, Sample3(type, k))
Fits3(type) ==
    /\ Reads3(type) /\ Lasts3(type)
    /\ type.kind \in {"integer", "signed", "bytes"} =>
          \A k \in Nat : Len(Word3(type, k)) = type.size

Reader4(type) == [s \in Inputs |-> Parsed(type, s)]
Word4(type, k) == Written(type, Sample(type, k))
Reads4(type) == \A k \in Nat : Reads(Reader4(type), Word4(type, k), Sample(type, k))
Lasts4(type) == \A k \in Nat : Len(Word4(type, k)) = serialized_length(type, Sample(type, k))
Fits4(type) ==
    /\ Reads4(type) /\ Lasts4(type)
    /\ type.kind \in {"integer", "signed", "bytes"} =>
          \A k \in Nat : Len(Word4(type, k)) = type.size

LEMMA FlatAt0 ==
    ASSUME NEW type, IsFlat(type)
    PROVE  /\ Reads0(type) /\ Lasts0(type)
           /\ type.kind # "buffer" => \A k \in Nat : Len(Word0(type, k)) = type.size
<1>1. /\ Reads0(type) /\ Lasts0(type)
  BY FlatsRead DEF FlatReads, Reads0, Lasts0
<1>2. ASSUME type.kind # "buffer", NEW k \in Nat PROVE Len(Word0(type, k)) = type.size
  BY <1>1, <1>2 DEF Lasts0, FlatLength
<1> QED
  BY <1>1, <1>2

LEMMA FlatFits0 ==
    ASSUME NEW type, IsFlat(type)
    PROVE  Fits0(type)
  BY FlatAt0 DEF Fits0

LEMMA FlatAt1 ==
    ASSUME NEW type, IsFlat(type)
    PROVE  /\ Reads1(type) /\ Lasts1(type)
           /\ type.kind # "buffer" => \A k \in Nat : Len(Word1(type, k)) = type.size
<1>1. /\ Reads0(type) /\ Lasts0(type) /\ type.kind \notin {"array", "struct", "flagged"}
      /\ type.kind # "buffer" => \A k \in Nat : Len(Word0(type, k)) = type.size
  BY FlatAt0, FlatsRead
<1>2. \A s : Parsed1(type, s) = FlatParsed(type, s) /\ FlatParsed(type, s) = FlatParsed(type, s)
  BY <1>1 DEF Parsed1, Parsed2, Parsed3, ParsedBy
<1>3. \A v : Written1(type, v) = FlatWritten(type, v) /\ FlatWritten(type, v) = FlatWritten(type, v)
  BY <1>1 DEF Written1, Written2, Written3, WrittenBy
<1>4. \A k : Sample1(type, k) = FlatSample(type, k) /\ FlatSample(type, k) = FlatSample(type, k)
  BY <1>1 DEF Sample1, Sample2, Sample3, SampleBy
<1>5. \A v : Length1(type, v) = FlatLength(type, v) /\ FlatLength(type, v) = FlatLength(type, v)
  BY <1>1 DEF Length1, Length2, Length3, LengthBy
<1>6. Reader1(type) = Reader0(type) /\ \A k : Word1(type, k) = Word0(type, k)
  BY <1>2, <1>3, <1>4 DEF Reader1, Reader0, Word1, Word0
<1>7. Reads1(type)
  BY <1>1, <1>4, <1>6 DEF Reads1, Reads0
<1>8. Lasts1(type)
  BY <1>1, <1>4, <1>5, <1>6 DEF Lasts1, Lasts0
<1> QED
  BY <1>1, <1>6, <1>7, <1>8

LEMMA FlatFits1 ==
    ASSUME NEW type, IsFlat(type)
    PROVE  Fits1(type)
  BY FlatAt1 DEF Fits1

LEMMA FlatAt2 ==
    ASSUME NEW type, IsFlat(type)
    PROVE  /\ Reads2(type) /\ Lasts2(type)
           /\ type.kind # "buffer" => \A k \in Nat : Len(Word2(type, k)) = type.size
<1>1. /\ Reads1(type) /\ Lasts1(type) /\ type.kind \notin {"array", "struct", "flagged"}
      /\ type.kind # "buffer" => \A k \in Nat : Len(Word1(type, k)) = type.size
  BY FlatAt1, FlatsRead
<1>2. \A s : Parsed2(type, s) = FlatParsed(type, s) /\ Parsed1(type, s) = FlatParsed(type, s)
  BY <1>1 DEF Parsed1, Parsed2, Parsed3, ParsedBy
<1>3. \A v : Written2(type, v) = FlatWritten(type, v) /\ Written1(type, v) = FlatWritten(type, v)
  BY <1>1 DEF Written1, Written2, Written3, WrittenBy
<1>4. \A k : Sample2(type, k) = FlatSample(type, k) /\ Sample1(type, k) = FlatSample(type, k)
  BY <1>1 DEF Sample1, Sample2, Sample3, SampleBy
<1>5. \A v : Length2(type, v) = FlatLength(type, v) /\ Length1(type, v) = FlatLength(type, v)
  BY <1>1 DEF Length1, Length2, Length3, LengthBy
<1>6. Reader2(type) = Reader1(type) /\ \A k : Word2(type, k) = Word1(type, k)
  BY <1>2, <1>3, <1>4 DEF Reader2, Reader1, Word2, Word1
<1>7. Reads2(type)
  BY <1>1, <1>4, <1>6 DEF Reads2, Reads1
<1>8. Lasts2(type)
  BY <1>1, <1>4, <1>5, <1>6 DEF Lasts2, Lasts1
<1> QED
  BY <1>1, <1>6, <1>7, <1>8

LEMMA FlatFits2 ==
    ASSUME NEW type, IsFlat(type)
    PROVE  Fits2(type)
  BY FlatAt2 DEF Fits2

LEMMA FlatAt3 ==
    ASSUME NEW type, IsFlat(type)
    PROVE  /\ Reads3(type) /\ Lasts3(type)
           /\ type.kind # "buffer" => \A k \in Nat : Len(Word3(type, k)) = type.size
<1>1. /\ Reads2(type) /\ Lasts2(type) /\ type.kind \notin {"array", "struct", "flagged"}
      /\ type.kind # "buffer" => \A k \in Nat : Len(Word2(type, k)) = type.size
  BY FlatAt2, FlatsRead
<1>2. \A s : Parsed3(type, s) = FlatParsed(type, s) /\ Parsed2(type, s) = FlatParsed(type, s)
  BY <1>1 DEF Parsed1, Parsed2, Parsed3, ParsedBy
<1>3. \A v : Written3(type, v) = FlatWritten(type, v) /\ Written2(type, v) = FlatWritten(type, v)
  BY <1>1 DEF Written1, Written2, Written3, WrittenBy
<1>4. \A k : Sample3(type, k) = FlatSample(type, k) /\ Sample2(type, k) = FlatSample(type, k)
  BY <1>1 DEF Sample1, Sample2, Sample3, SampleBy
<1>5. \A v : Length3(type, v) = FlatLength(type, v) /\ Length2(type, v) = FlatLength(type, v)
  BY <1>1 DEF Length1, Length2, Length3, LengthBy
<1>6. Reader3(type) = Reader2(type) /\ \A k : Word3(type, k) = Word2(type, k)
  BY <1>2, <1>3, <1>4 DEF Reader3, Reader2, Word3, Word2
<1>7. Reads3(type)
  BY <1>1, <1>4, <1>6 DEF Reads3, Reads2
<1>8. Lasts3(type)
  BY <1>1, <1>4, <1>5, <1>6 DEF Lasts3, Lasts2
<1> QED
  BY <1>1, <1>6, <1>7, <1>8

LEMMA FlatFits3 ==
    ASSUME NEW type, IsFlat(type)
    PROVE  Fits3(type)
  BY FlatAt3 DEF Fits3

LEMMA StructAt1 ==
    ASSUME NEW type, NEW m, NEW parts, HasFields(type, m, parts),
           \A i \in 1 .. m : Reads0(parts[i])
    PROVE  /\ Reads1(type)
           /\ \A k \in Nat :
                 /\ Word1(type, k) = FlattenSeq([i \in 1 .. m |-> Word0(parts[i], k + i)])
                 /\ \A i \in 1 .. m :
                       Sample1(type, k)[type.reads[i]] = FlatSample(parts[i], k + i)
<1>1. /\ type.kind = "struct" /\ m \in Nat
      /\ DOMAIN type.fields = 1 .. m /\ DOMAIN type.reads = 1 .. m /\ Len(type.reads) = m
      /\ \A i \in 1 .. m : type.fields[i][1] = type.reads[i] /\ type.fields[i][2] = parts[i]
      /\ \A i, j \in 1 .. m : type.reads[i] = type.reads[j] => i = j
  BY DEF HasFields
<1>2. \A i \in 1 .. m : /\ TypeOf(type, type.reads[i]) = parts[i]
                         /\ type.reads[i] \in ToSet(type.reads)
                         /\ \A j \in DOMAIN type.fields :
                               type.fields[j][1] = type.reads[i] <=> j = i
  BY FieldsAre
<1> DEFINE names == type.reads
           parsers == [i \in 1 .. m |-> Reader0(parts[i])]
<1>3. \A s \in Inputs : Reader1(type)[s] = StructParsed(parsers, names, s)
  <2>1. \A s \in Inputs : Reader1(type)[s] =
            StructParsed([i \in DOMAIN names |->
                [t \in Inputs |-> FlatParsed(TypeOf(type, names[i]), t)]], names, s)
    BY <1>1 DEF Reader1, Parsed1, ParsedBy
  <2>2. [i \in DOMAIN names |-> [t \in Inputs |-> FlatParsed(TypeOf(type, names[i]), t)]] = parsers
    BY <1>1, <1>2 DEF Reader0
  <2> QED
    BY <2>1, <2>2
<1>5. ASSUME NEW k \in Nat
      PROVE  /\ Reads(Reader1(type), Word1(type, k), Sample1(type, k))
             /\ Word1(type, k) = FlattenSeq([i \in 1 .. m |-> Word0(parts[i], k + i)])
             /\ \A i \in 1 .. m : Sample1(type, k)[names[i]] = FlatSample(parts[i], k + i)
  <2> DEFINE value == Sample1(type, k)
             place(name) == CHOOSE i \in DOMAIN type.fields : type.fields[i][1] = name
             w == [i \in 1 .. m |-> Word0(parts[i], k + i)]
             v == [i \in 1 .. m |-> FlatSample(parts[i], k + i)]
  <2>1. value = [name \in ToSet(names) |-> FlatSample(TypeOf(type, name), k + place(name))]
    BY <1>1 DEF Sample1, SampleBy
  <2>2. ASSUME NEW i \in 1 .. m PROVE value[names[i]] = v[i]
    <3>1. place(names[i]) = i
      BY <1>1, <1>2
    <3> HIDE DEF place
    <3>2. TypeOf(type, names[i]) = parts[i] /\ names[i] \in ToSet(names)
      BY <1>2
    <3> HIDE DEF names, value
    <3>3. value[names[i]] = FlatSample(TypeOf(type, names[i]), k + place(names[i]))
      BY <2>1, <3>2
    <3> QED
      BY <3>1, <3>2, <3>3
  <2>3. HasValues(value, names, v, m)
    <3> HIDE DEF value, place, v
    <3> QED
      BY <2>1, <2>2 DEF HasValues
  <2>4. Word1(type, k) = FlattenSeq(w)
    <3>1. Word1(type, k) = FlattenSeq([i \in DOMAIN type.fields |->
               FlatWritten(type.fields[i][2], value[type.fields[i][1]])])
      BY <1>1 DEF Word1, Written1, WrittenBy
    <3> HIDE DEF value
    <3>2. \A i \in 1 .. m : FlatWritten(type.fields[i][2], value[type.fields[i][1]]) = w[i]
      <4> TAKE i \in 1 .. m
      <4>1. type.fields[i][2] = parts[i] /\ type.fields[i][1] = names[i]
        BY <1>1
      <4>2. value[names[i]] = FlatSample(parts[i], k + i)
        BY <2>2
      <4> HIDE DEF names
      <4> QED
        BY <4>1, <4>2 DEF Word0
    <3> HIDE DEF w
    <3>3. [i \in DOMAIN type.fields |-> FlatWritten(type.fields[i][2], value[type.fields[i][1]])]
          = [i \in 1 .. m |-> w[i]]
      BY <1>1, <3>2
    <3>4. [i \in 1 .. m |-> w[i]] = w
      BY DEF w
    <3> QED
      BY <3>1, <3>3, <3>4
  <2>5. ASSUME NEW i \in 1 .. m PROVE Reads(parsers[i], w[i], v[i]) /\ w[i] \in Inputs
    <3>1. k + i \in Nat
      OBVIOUS
    <3>2. Reads(Reader0(parts[i]), Word0(parts[i], k + i), FlatSample(parts[i], k + i))
      BY <3>1 DEF Reads0
    <3>3. Reads(parsers[i], w[i], v[i])
      BY <3>2
    <3> HIDE DEF parsers, w, v
    <3> QED
      BY <3>3 DEF Reads
  <2>6. w \in Seq(Inputs) /\ Len(w) = m /\ Len(parsers) = m
    BY <1>1, <2>5
  <2> HIDE DEF value, w, v, parsers
  <2>8. Reads(Reader1(type), FlattenSeq(w), value)
    <3>1. Distinct(names, m)
      BY <1>1 DEF Distinct
    <3>3. EachReads(parsers, w, v, m)
      BY <2>5 DEF EachReads
    <3> DEFINE reader == Reader1(type)
    <3>4. ReadsStruct(reader, parsers, names)
      BY <1>3 DEF parsers, ReadsStruct
    <3> HIDE DEF names, reader
    <3>5. Reads(reader, FlattenSeq(w), value)
      BY <1>1, <2>3, <2>6, <3>1, <3>3, <3>4, StructReads
    <3> QED
      BY <3>5 DEF reader
  <2> HIDE DEF names
  <2> QED
    BY <2>2, <2>4, <2>8 DEF value, w, v
<1> QED
  BY <1>5 DEF Reads1

LEMMA StructAt2 ==
    ASSUME NEW type, NEW m, NEW parts, HasFields(type, m, parts),
           \A i \in 1 .. m : Reads1(parts[i])
    PROVE  /\ Reads2(type)
           /\ \A k \in Nat :
                 /\ Word2(type, k) = FlattenSeq([i \in 1 .. m |-> Word1(parts[i], k + i)])
                 /\ \A i \in 1 .. m :
                       Sample2(type, k)[type.reads[i]] = Sample1(parts[i], k + i)
<1>1. /\ type.kind = "struct" /\ m \in Nat
      /\ DOMAIN type.fields = 1 .. m /\ DOMAIN type.reads = 1 .. m /\ Len(type.reads) = m
      /\ \A i \in 1 .. m : type.fields[i][1] = type.reads[i] /\ type.fields[i][2] = parts[i]
      /\ \A i, j \in 1 .. m : type.reads[i] = type.reads[j] => i = j
  BY DEF HasFields
<1>2. \A i \in 1 .. m : /\ TypeOf(type, type.reads[i]) = parts[i]
                         /\ type.reads[i] \in ToSet(type.reads)
                         /\ \A j \in DOMAIN type.fields :
                               type.fields[j][1] = type.reads[i] <=> j = i
  BY FieldsAre
<1> DEFINE names == type.reads
           parsers == [i \in 1 .. m |-> Reader1(parts[i])]
<1>3. \A s \in Inputs : Reader2(type)[s] = StructParsed(parsers, names, s)
  <2>1. \A s \in Inputs : Reader2(type)[s] =
            StructParsed([i \in DOMAIN names |->
                [t \in Inputs |-> Parsed1(TypeOf(type, names[i]), t)]], names, s)
    BY <1>1 DEF Reader2, Parsed2, ParsedBy
  <2>2. [i \in DOMAIN names |-> [t \in Inputs |-> Parsed1(TypeOf(type, names[i]), t)]] = parsers
    BY <1>1, <1>2 DEF Reader1
  <2> QED
    BY <2>1, <2>2
<1>5. ASSUME NEW k \in Nat
      PROVE  /\ Reads(Reader2(type), Word2(type, k), Sample2(type, k))
             /\ Word2(type, k) = FlattenSeq([i \in 1 .. m |-> Word1(parts[i], k + i)])
             /\ \A i \in 1 .. m : Sample2(type, k)[names[i]] = Sample1(parts[i], k + i)
  <2> DEFINE value == Sample2(type, k)
             place(name) == CHOOSE i \in DOMAIN type.fields : type.fields[i][1] = name
             w == [i \in 1 .. m |-> Word1(parts[i], k + i)]
             v == [i \in 1 .. m |-> Sample1(parts[i], k + i)]
  <2>1. value = [name \in ToSet(names) |-> Sample1(TypeOf(type, name), k + place(name))]
    BY <1>1 DEF Sample2, SampleBy
  <2>2. ASSUME NEW i \in 1 .. m PROVE value[names[i]] = v[i]
    <3>1. place(names[i]) = i
      BY <1>1, <1>2
    <3> HIDE DEF place
    <3>2. TypeOf(type, names[i]) = parts[i] /\ names[i] \in ToSet(names)
      BY <1>2
    <3> HIDE DEF names, value
    <3>3. value[names[i]] = Sample1(TypeOf(type, names[i]), k + place(names[i]))
      BY <2>1, <3>2
    <3> QED
      BY <3>1, <3>2, <3>3
  <2>3. HasValues(value, names, v, m)
    <3> HIDE DEF value, place, v
    <3> QED
      BY <2>1, <2>2 DEF HasValues
  <2>4. Word2(type, k) = FlattenSeq(w)
    <3>1. Word2(type, k) = FlattenSeq([i \in DOMAIN type.fields |->
               Written1(type.fields[i][2], value[type.fields[i][1]])])
      BY <1>1 DEF Word2, Written2, WrittenBy
    <3> HIDE DEF value
    <3>2. \A i \in 1 .. m : Written1(type.fields[i][2], value[type.fields[i][1]]) = w[i]
      <4> TAKE i \in 1 .. m
      <4>1. type.fields[i][2] = parts[i] /\ type.fields[i][1] = names[i]
        BY <1>1
      <4>2. value[names[i]] = Sample1(parts[i], k + i)
        BY <2>2
      <4> HIDE DEF names
      <4> QED
        BY <4>1, <4>2 DEF Word1
    <3> HIDE DEF w
    <3>3. [i \in DOMAIN type.fields |-> Written1(type.fields[i][2], value[type.fields[i][1]])]
          = [i \in 1 .. m |-> w[i]]
      BY <1>1, <3>2
    <3>4. [i \in 1 .. m |-> w[i]] = w
      BY DEF w
    <3> QED
      BY <3>1, <3>3, <3>4
  <2>5. ASSUME NEW i \in 1 .. m PROVE Reads(parsers[i], w[i], v[i]) /\ w[i] \in Inputs
    <3>1. k + i \in Nat
      OBVIOUS
    <3>2. Reads(Reader1(parts[i]), Word1(parts[i], k + i), Sample1(parts[i], k + i))
      BY <3>1 DEF Reads1
    <3>3. Reads(parsers[i], w[i], v[i])
      BY <3>2
    <3> HIDE DEF parsers, w, v
    <3> QED
      BY <3>3 DEF Reads
  <2>6. w \in Seq(Inputs) /\ Len(w) = m /\ Len(parsers) = m
    BY <1>1, <2>5
  <2> HIDE DEF value, w, v, parsers
  <2>8. Reads(Reader2(type), FlattenSeq(w), value)
    <3>1. Distinct(names, m)
      BY <1>1 DEF Distinct
    <3>3. EachReads(parsers, w, v, m)
      BY <2>5 DEF EachReads
    <3> DEFINE reader == Reader2(type)
    <3>4. ReadsStruct(reader, parsers, names)
      BY <1>3 DEF parsers, ReadsStruct
    <3> HIDE DEF names, reader
    <3>5. Reads(reader, FlattenSeq(w), value)
      BY <1>1, <2>3, <2>6, <3>1, <3>3, <3>4, StructReads
    <3> QED
      BY <3>5 DEF reader
  <2> HIDE DEF names
  <2> QED
    BY <2>2, <2>4, <2>8 DEF value, w, v
<1> QED
  BY <1>5 DEF Reads2

LEMMA StructAt3 ==
    ASSUME NEW type, NEW m, NEW parts, HasFields(type, m, parts),
           \A i \in 1 .. m : Reads2(parts[i])
    PROVE  /\ Reads3(type)
           /\ \A k \in Nat :
                 /\ Word3(type, k) = FlattenSeq([i \in 1 .. m |-> Word2(parts[i], k + i)])
                 /\ \A i \in 1 .. m :
                       Sample3(type, k)[type.reads[i]] = Sample2(parts[i], k + i)
<1>1. /\ type.kind = "struct" /\ m \in Nat
      /\ DOMAIN type.fields = 1 .. m /\ DOMAIN type.reads = 1 .. m /\ Len(type.reads) = m
      /\ \A i \in 1 .. m : type.fields[i][1] = type.reads[i] /\ type.fields[i][2] = parts[i]
      /\ \A i, j \in 1 .. m : type.reads[i] = type.reads[j] => i = j
  BY DEF HasFields
<1>2. \A i \in 1 .. m : /\ TypeOf(type, type.reads[i]) = parts[i]
                         /\ type.reads[i] \in ToSet(type.reads)
                         /\ \A j \in DOMAIN type.fields :
                               type.fields[j][1] = type.reads[i] <=> j = i
  BY FieldsAre
<1> DEFINE names == type.reads
           parsers == [i \in 1 .. m |-> Reader2(parts[i])]
<1>3. \A s \in Inputs : Reader3(type)[s] = StructParsed(parsers, names, s)
  <2>1. \A s \in Inputs : Reader3(type)[s] =
            StructParsed([i \in DOMAIN names |->
                [t \in Inputs |-> Parsed2(TypeOf(type, names[i]), t)]], names, s)
    BY <1>1 DEF Reader3, Parsed3, ParsedBy
  <2>2. [i \in DOMAIN names |-> [t \in Inputs |-> Parsed2(TypeOf(type, names[i]), t)]] = parsers
    BY <1>1, <1>2 DEF Reader2
  <2> QED
    BY <2>1, <2>2
<1>5. ASSUME NEW k \in Nat
      PROVE  /\ Reads(Reader3(type), Word3(type, k), Sample3(type, k))
             /\ Word3(type, k) = FlattenSeq([i \in 1 .. m |-> Word2(parts[i], k + i)])
             /\ \A i \in 1 .. m : Sample3(type, k)[names[i]] = Sample2(parts[i], k + i)
  <2> DEFINE value == Sample3(type, k)
             place(name) == CHOOSE i \in DOMAIN type.fields : type.fields[i][1] = name
             w == [i \in 1 .. m |-> Word2(parts[i], k + i)]
             v == [i \in 1 .. m |-> Sample2(parts[i], k + i)]
  <2>1. value = [name \in ToSet(names) |-> Sample2(TypeOf(type, name), k + place(name))]
    BY <1>1 DEF Sample3, SampleBy
  <2>2. ASSUME NEW i \in 1 .. m PROVE value[names[i]] = v[i]
    <3>1. place(names[i]) = i
      BY <1>1, <1>2
    <3> HIDE DEF place
    <3>2. TypeOf(type, names[i]) = parts[i] /\ names[i] \in ToSet(names)
      BY <1>2
    <3> HIDE DEF names, value
    <3>3. value[names[i]] = Sample2(TypeOf(type, names[i]), k + place(names[i]))
      BY <2>1, <3>2
    <3> QED
      BY <3>1, <3>2, <3>3
  <2>3. HasValues(value, names, v, m)
    <3> HIDE DEF value, place, v
    <3> QED
      BY <2>1, <2>2 DEF HasValues
  <2>4. Word3(type, k) = FlattenSeq(w)
    <3>1. Word3(type, k) = FlattenSeq([i \in DOMAIN type.fields |->
               Written2(type.fields[i][2], value[type.fields[i][1]])])
      BY <1>1 DEF Word3, Written3, WrittenBy
    <3> HIDE DEF value
    <3>2. \A i \in 1 .. m : Written2(type.fields[i][2], value[type.fields[i][1]]) = w[i]
      <4> TAKE i \in 1 .. m
      <4>1. type.fields[i][2] = parts[i] /\ type.fields[i][1] = names[i]
        BY <1>1
      <4>2. value[names[i]] = Sample2(parts[i], k + i)
        BY <2>2
      <4> HIDE DEF names
      <4> QED
        BY <4>1, <4>2 DEF Word2
    <3> HIDE DEF w
    <3>3. [i \in DOMAIN type.fields |-> Written2(type.fields[i][2], value[type.fields[i][1]])]
          = [i \in 1 .. m |-> w[i]]
      BY <1>1, <3>2
    <3>4. [i \in 1 .. m |-> w[i]] = w
      BY DEF w
    <3> QED
      BY <3>1, <3>3, <3>4
  <2>5. ASSUME NEW i \in 1 .. m PROVE Reads(parsers[i], w[i], v[i]) /\ w[i] \in Inputs
    <3>1. k + i \in Nat
      OBVIOUS
    <3>2. Reads(Reader2(parts[i]), Word2(parts[i], k + i), Sample2(parts[i], k + i))
      BY <3>1 DEF Reads2
    <3>3. Reads(parsers[i], w[i], v[i])
      BY <3>2
    <3> HIDE DEF parsers, w, v
    <3> QED
      BY <3>3 DEF Reads
  <2>6. w \in Seq(Inputs) /\ Len(w) = m /\ Len(parsers) = m
    BY <1>1, <2>5
  <2> HIDE DEF value, w, v, parsers
  <2>8. Reads(Reader3(type), FlattenSeq(w), value)
    <3>1. Distinct(names, m)
      BY <1>1 DEF Distinct
    <3>3. EachReads(parsers, w, v, m)
      BY <2>5 DEF EachReads
    <3> DEFINE reader == Reader3(type)
    <3>4. ReadsStruct(reader, parsers, names)
      BY <1>3 DEF parsers, ReadsStruct
    <3> HIDE DEF names, reader
    <3>5. Reads(reader, FlattenSeq(w), value)
      BY <1>1, <2>3, <2>6, <3>1, <3>3, <3>4, StructReads
    <3> QED
      BY <3>5 DEF reader
  <2> HIDE DEF names
  <2> QED
    BY <2>2, <2>4, <2>8 DEF value, w, v
<1> QED
  BY <1>5 DEF Reads3

LEMMA StructAt4 ==
    ASSUME NEW type, NEW m, NEW parts, HasFields(type, m, parts),
           \A i \in 1 .. m : Reads3(parts[i])
    PROVE  /\ Reads4(type)
           /\ \A k \in Nat :
                 /\ Word4(type, k) = FlattenSeq([i \in 1 .. m |-> Word3(parts[i], k + i)])
                 /\ \A i \in 1 .. m :
                       Sample(type, k)[type.reads[i]] = Sample3(parts[i], k + i)
<1>1. /\ type.kind = "struct" /\ m \in Nat
      /\ DOMAIN type.fields = 1 .. m /\ DOMAIN type.reads = 1 .. m /\ Len(type.reads) = m
      /\ \A i \in 1 .. m : type.fields[i][1] = type.reads[i] /\ type.fields[i][2] = parts[i]
      /\ \A i, j \in 1 .. m : type.reads[i] = type.reads[j] => i = j
  BY DEF HasFields
<1>2. \A i \in 1 .. m : /\ TypeOf(type, type.reads[i]) = parts[i]
                         /\ type.reads[i] \in ToSet(type.reads)
                         /\ \A j \in DOMAIN type.fields :
                               type.fields[j][1] = type.reads[i] <=> j = i
  BY FieldsAre
<1> DEFINE names == type.reads
           parsers == [i \in 1 .. m |-> Reader3(parts[i])]
<1>3. \A s \in Inputs : Reader4(type)[s] = StructParsed(parsers, names, s)
  <2>1. \A s \in Inputs : Reader4(type)[s] =
            StructParsed([i \in DOMAIN names |->
                [t \in Inputs |-> Parsed3(TypeOf(type, names[i]), t)]], names, s)
    BY <1>1 DEF Reader4, Parsed, ParsedBy
  <2>2. [i \in DOMAIN names |-> [t \in Inputs |-> Parsed3(TypeOf(type, names[i]), t)]] = parsers
    BY <1>1, <1>2 DEF Reader3
  <2> QED
    BY <2>1, <2>2
<1>5. ASSUME NEW k \in Nat
      PROVE  /\ Reads(Reader4(type), Word4(type, k), Sample(type, k))
             /\ Word4(type, k) = FlattenSeq([i \in 1 .. m |-> Word3(parts[i], k + i)])
             /\ \A i \in 1 .. m : Sample(type, k)[names[i]] = Sample3(parts[i], k + i)
  <2> DEFINE value == Sample(type, k)
             place(name) == CHOOSE i \in DOMAIN type.fields : type.fields[i][1] = name
             w == [i \in 1 .. m |-> Word3(parts[i], k + i)]
             v == [i \in 1 .. m |-> Sample3(parts[i], k + i)]
  <2>1. value = [name \in ToSet(names) |-> Sample3(TypeOf(type, name), k + place(name))]
    BY <1>1 DEF Sample, SampleBy
  <2>2. ASSUME NEW i \in 1 .. m PROVE value[names[i]] = v[i]
    <3>1. place(names[i]) = i
      BY <1>1, <1>2
    <3> HIDE DEF place
    <3>2. TypeOf(type, names[i]) = parts[i] /\ names[i] \in ToSet(names)
      BY <1>2
    <3> HIDE DEF names, value
    <3>3. value[names[i]] = Sample3(TypeOf(type, names[i]), k + place(names[i]))
      BY <2>1, <3>2
    <3> QED
      BY <3>1, <3>2, <3>3
  <2>3. HasValues(value, names, v, m)
    <3> HIDE DEF value, place, v
    <3> QED
      BY <2>1, <2>2 DEF HasValues
  <2>4. Word4(type, k) = FlattenSeq(w)
    <3>1. Word4(type, k) = FlattenSeq([i \in DOMAIN type.fields |->
               Written3(type.fields[i][2], value[type.fields[i][1]])])
      BY <1>1 DEF Word4, Written, WrittenBy
    <3> HIDE DEF value
    <3>2. \A i \in 1 .. m : Written3(type.fields[i][2], value[type.fields[i][1]]) = w[i]
      <4> TAKE i \in 1 .. m
      <4>1. type.fields[i][2] = parts[i] /\ type.fields[i][1] = names[i]
        BY <1>1
      <4>2. value[names[i]] = Sample3(parts[i], k + i)
        BY <2>2
      <4> HIDE DEF names
      <4> QED
        BY <4>1, <4>2 DEF Word3
    <3> HIDE DEF w
    <3>3. [i \in DOMAIN type.fields |-> Written3(type.fields[i][2], value[type.fields[i][1]])]
          = [i \in 1 .. m |-> w[i]]
      BY <1>1, <3>2
    <3>4. [i \in 1 .. m |-> w[i]] = w
      BY DEF w
    <3> QED
      BY <3>1, <3>3, <3>4
  <2>5. ASSUME NEW i \in 1 .. m PROVE Reads(parsers[i], w[i], v[i]) /\ w[i] \in Inputs
    <3>1. k + i \in Nat
      OBVIOUS
    <3>2. Reads(Reader3(parts[i]), Word3(parts[i], k + i), Sample3(parts[i], k + i))
      BY <3>1 DEF Reads3
    <3>3. Reads(parsers[i], w[i], v[i])
      BY <3>2
    <3> HIDE DEF parsers, w, v
    <3> QED
      BY <3>3 DEF Reads
  <2>6. w \in Seq(Inputs) /\ Len(w) = m /\ Len(parsers) = m
    BY <1>1, <2>5
  <2> HIDE DEF value, w, v, parsers
  <2>8. Reads(Reader4(type), FlattenSeq(w), value)
    <3>1. Distinct(names, m)
      BY <1>1 DEF Distinct
    <3>3. EachReads(parsers, w, v, m)
      BY <2>5 DEF EachReads
    <3> DEFINE reader == Reader4(type)
    <3>4. ReadsStruct(reader, parsers, names)
      BY <1>3 DEF parsers, ReadsStruct
    <3> HIDE DEF names, reader
    <3>5. Reads(reader, FlattenSeq(w), value)
      BY <1>1, <2>3, <2>6, <3>1, <3>3, <3>4, StructReads
    <3> QED
      BY <3>5 DEF reader
  <2> HIDE DEF names
  <2> QED
    BY <2>2, <2>4, <2>8 DEF value, w, v
<1> QED
  BY <1>5 DEF Reads4

(* The sum of a few numbers.                                               *)
LEMMA TotalIs ==
    ASSUME NEW m \in Nat, NEW l, l \in [1 .. m -> Nat]
    PROVE  \E c : /\ c \in [0 .. m -> Nat] /\ c[0] = 0 /\ Total(l) = c[m]
                  /\ \A i \in 1 .. m : c[i] = c[i - 1] + l[i]
<1> DEFINE step == [i \in 1 .. m |-> [x \in Nat |-> x + l[i]]]
<1>1. step \in [1 .. m -> [Nat -> Nat]] /\ 0 \in Nat
  OBVIOUS
<1>2. PICK c : Recursion(c, m, Nat, 0, step)
  <2> HIDE DEF step
  <2> QED
    BY <1>1, RecursionOnNat
<1>3. c \in [0 .. m -> Nat] /\ c[0] = 0 /\ \A i \in 1 .. m : c[i] = c[i - 1] + l[i]
  <2>1. \A i \in 1 .. m : i - 1 \in 0 .. m
    OBVIOUS
  <2> QED
    BY <1>2, <2>1 DEF Recursion
<1>4. Len(l) = m /\ c = [i \in 0 .. m |-> c[i]]
  BY <1>3
<1>5. Total(l) = c[m]
  <2> HIDE DEF step
  <2> QED
    BY <1>3, <1>4, TotalAt
<1> QED
  BY <1>3, <1>5

LEMMA TotalOfFew ==
    ASSUME NEW m \in Nat, NEW l, l \in [1 .. m -> Nat]
    PROVE  /\ m = 0 => Total(l) = 0
           /\ m = 1 => Total(l) = l[1]
           /\ m = 2 => Total(l) = l[1] + l[2]
           /\ m = 3 => Total(l) = l[1] + l[2] + l[3]
           /\ m = 4 => Total(l) = l[1] + l[2] + l[3] + l[4]
           /\ m = 5 => Total(l) = l[1] + l[2] + l[3] + l[4] + l[5]
           /\ m = 7 => Total(l) = l[1] + l[2] + l[3] + l[4] + l[5] + l[6] + l[7]
           /\ m = 8 => Total(l) = l[1] + l[2] + l[3] + l[4] + l[5] + l[6] + l[7] + l[8]
<1>1. PICK c : /\ c \in [0 .. m -> Nat] /\ c[0] = 0 /\ Total(l) = c[m]
               /\ \A i \in 1 .. m : c[i] = c[i - 1] + l[i]
  BY TotalIs
<1> DEFINE Step(i) == c[i] = c[i - 1] + l[i] /\ l[i] \in Nat /\ c[i] \in Nat
<1>10. \A i \in 1 .. m : Step(i)
  BY <1>1
<1>11. c[0] = 0 /\ Total(l) = c[m]
  BY <1>1
<1> HIDE DEF Step
<1>2. m >= 1 => c[1] = c[0] + l[1] /\ l[1] \in Nat /\ c[1] \in Nat
  <2>1. m >= 1 => Step(1)
    BY <1>10
  <2>2. 1 - 1 = 0
    OBVIOUS
  <2> QED
    BY ONLY <2>1, <2>2 DEF Step
<1>3. m >= 2 => c[2] = c[1] + l[2] /\ l[2] \in Nat /\ c[2] \in Nat
  <2>1. m >= 2 => Step(2)
    BY <1>10
  <2>2. 2 - 1 = 1
    OBVIOUS
  <2> QED
    BY ONLY <2>1, <2>2 DEF Step
<1>4. m >= 3 => c[3] = c[2] + l[3] /\ l[3] \in Nat /\ c[3] \in Nat
  <2>1. m >= 3 => Step(3)
    BY <1>10
  <2>2. 3 - 1 = 2
    OBVIOUS
  <2> QED
    BY ONLY <2>1, <2>2 DEF Step
<1>5. m >= 4 => c[4] = c[3] + l[4] /\ l[4] \in Nat /\ c[4] \in Nat
  <2>1. m >= 4 => Step(4)
    BY <1>10
  <2>2. 4 - 1 = 3
    OBVIOUS
  <2> QED
    BY ONLY <2>1, <2>2 DEF Step
<1>6. m >= 5 => c[5] = c[4] + l[5] /\ l[5] \in Nat /\ c[5] \in Nat
  <2>1. m >= 5 => Step(5)
    BY <1>10
  <2>2. 5 - 1 = 4
    OBVIOUS
  <2> QED
    BY ONLY <2>1, <2>2 DEF Step
<1>7. m >= 6 => c[6] = c[5] + l[6] /\ l[6] \in Nat /\ c[6] \in Nat
  <2>1. m >= 6 => Step(6)
    BY <1>10
  <2>2. 6 - 1 = 5
    OBVIOUS
  <2> QED
    BY ONLY <2>1, <2>2 DEF Step
<1>8. m >= 7 => c[7] = c[6] + l[7] /\ l[7] \in Nat /\ c[7] \in Nat
  <2>1. m >= 7 => Step(7)
    BY <1>10
  <2>2. 7 - 1 = 6
    OBVIOUS
  <2> QED
    BY ONLY <2>1, <2>2 DEF Step
<1>9. m >= 8 => c[8] = c[7] + l[8] /\ l[8] \in Nat /\ c[8] \in Nat
  <2>1. m >= 8 => Step(8)
    BY <1>10
  <2>2. 8 - 1 = 7
    OBVIOUS
  <2> QED
    BY ONLY <2>1, <2>2 DEF Step
<1> QED
  BY ONLY m \in Nat, <1>2, <1>3, <1>4, <1>5, <1>6, <1>7, <1>8, <1>9, <1>11

(* The length that a structure announces: the places of its objects are    *)
(* those of o, and the other fields have lengths of their own.             *)
Adds(type, m, parts, o) ==
    /\ DOMAIN type.objects = DOMAIN o
    /\ \A j \in DOMAIN o : o[j] \in 1 .. m /\ type.objects[j] = type.reads[o[j]]
    /\ \A l \in [1 .. m -> Nat] :
          (\A i \in 1 .. m : parts[i].kind \in {"integer", "signed", "bytes"} => l[i] = parts[i].size)
          => Total(l) = type.fixed + Total([j \in DOMAIN o |-> l[o[j]]])

LEMMA StructFits1 ==
    ASSUME NEW type, NEW m, NEW parts, HasFields(type, m, parts),
           NEW o, Adds(type, m, parts, o), \A i \in 1 .. m : Fits0(parts[i])
    PROVE  Fits1(type)
<1>1. type.kind = "struct" /\ m \in Nat
  BY DEF HasFields
<1>2. \A i \in 1 .. m : Reads0(parts[i])
  BY DEF Fits0
<1>3. /\ Reads1(type)
      /\ \A k \in Nat :
            /\ Word1(type, k) = FlattenSeq([i \in 1 .. m |-> Word0(parts[i], k + i)])
            /\ \A i \in 1 .. m : Sample1(type, k)[type.reads[i]] = FlatSample(parts[i], k + i)
  BY <1>2, StructAt1
<1>4. ASSUME NEW k \in Nat PROVE Len(Word1(type, k)) = Length1(type, Sample1(type, k))
  <2> DEFINE w == [i \in 1 .. m |-> Word0(parts[i], k + i)]
             l == [i \in 1 .. m |-> Len(w[i])]
             value == Sample1(type, k)
  <2>1. ASSUME NEW i \in 1 .. m
        PROVE  /\ k + i \in Nat /\ w[i] \in Inputs /\ l[i] \in Nat
               /\ l[i] = FlatLength(parts[i], FlatSample(parts[i], k + i))
               /\ parts[i].kind \in {"integer", "signed", "bytes"} => l[i] = parts[i].size
    <3>1. k + i \in Nat /\ Fits0(parts[i])
      BY <1>1
    <3>2. Reads(Reader0(parts[i]), Word0(parts[i], k + i), FlatSample(parts[i], k + i))
      BY <3>1 DEF Fits0, Reads0
    <3>3. w[i] \in Inputs
      BY <3>2 DEF Reads
    <3>4. Len(Word0(parts[i], k + i)) = FlatLength(parts[i], FlatSample(parts[i], k + i))
      BY <3>1 DEF Fits0, Lasts0
    <3>5. parts[i].kind \in {"integer", "signed", "bytes"}
          => Len(Word0(parts[i], k + i)) = parts[i].size
      BY <3>1 DEF Fits0
    <3>6. Len(w[i]) \in Nat
      BY <3>3, InputsAre
    <3> QED
      BY <3>1, <3>3, <3>4, <3>5, <3>6
  <2>2. w \in Seq(Inputs) /\ Len(w) = m
    BY <1>1, <2>1
  <2>3. l \in [1 .. m -> Nat]
    BY <2>1
  <2> HIDE DEF w
  <2>4. Len(FlattenSeq(w)) = Total(l)
    <3> DEFINE X == 0 .. Byte - 1
    <3>1. w \in Seq(Seq(X))
      BY <2>2 DEF Inputs
    <3> HIDE DEF X
    <3>2. Len(FlattenSeq(w)) = Total([i \in 1 .. Len(w) |-> Len(w[i])])
      BY <3>1, FlattenLength
    <3> QED
      BY <2>2, <3>2
  <2> HIDE DEF l
  <2>5. /\ DOMAIN type.objects = DOMAIN o
        /\ \A j \in DOMAIN o : o[j] \in 1 .. m /\ type.objects[j] = type.reads[o[j]]
    BY DEF Adds
  <2>6. Total(l) = type.fixed + Total([j \in DOMAIN o |-> l[o[j]]])
    BY <2>1, <2>3 DEF Adds
  <2>7. Length1(type, value) = type.fixed + Total([j \in DOMAIN type.objects |->
                FlatLength(TypeOf(type, type.objects[j]), value[type.objects[j]])])
    BY <1>1 DEF Length1, LengthBy
  <2> HIDE DEF value
  <2>8. ASSUME NEW j \in DOMAIN o
        PROVE  FlatLength(TypeOf(type, type.objects[j]), value[type.objects[j]]) = l[o[j]]
    <3> DEFINE i == o[j]
    <3>1. i \in 1 .. m /\ type.objects[j] = type.reads[i]
      BY <2>5
    <3> HIDE DEF i
    <3>2. TypeOf(type, type.reads[i]) = parts[i]
      BY <3>1, FieldsAre
    <3>3. value[type.reads[i]] = FlatSample(parts[i], k + i)
      BY <1>3, <3>1 DEF value
    <3>4. l[i] = FlatLength(parts[i], FlatSample(parts[i], k + i))
      BY <2>1, <3>1
    <3> QED
      BY <3>1, <3>2, <3>3, <3>4 DEF i
  <2>9. [j \in DOMAIN type.objects |->
                FlatLength(TypeOf(type, type.objects[j]), value[type.objects[j]])]
        = [j \in DOMAIN o |-> l[o[j]]]
    BY <2>5, <2>8
  <2>10. Word1(type, k) = FlattenSeq(w)
    BY <1>3 DEF w
  <2> QED
    BY <2>4, <2>6, <2>7, <2>9, <2>10 DEF value
<1> QED
  BY <1>1, <1>3, <1>4 DEF Fits1, Lasts1

LEMMA StructFits2 ==
    ASSUME NEW type, NEW m, NEW parts, HasFields(type, m, parts),
           NEW o, Adds(type, m, parts, o), \A i \in 1 .. m : Fits1(parts[i])
    PROVE  Fits2(type)
<1>1. type.kind = "struct" /\ m \in Nat
  BY DEF HasFields
<1>2. \A i \in 1 .. m : Reads1(parts[i])
  BY DEF Fits1
<1>3. /\ Reads2(type)
      /\ \A k \in Nat :
            /\ Word2(type, k) = FlattenSeq([i \in 1 .. m |-> Word1(parts[i], k + i)])
            /\ \A i \in 1 .. m : Sample2(type, k)[type.reads[i]] = Sample1(parts[i], k + i)
  BY <1>2, StructAt2
<1>4. ASSUME NEW k \in Nat PROVE Len(Word2(type, k)) = Length2(type, Sample2(type, k))
  <2> DEFINE w == [i \in 1 .. m |-> Word1(parts[i], k + i)]
             l == [i \in 1 .. m |-> Len(w[i])]
             value == Sample2(type, k)
  <2>1. ASSUME NEW i \in 1 .. m
        PROVE  /\ k + i \in Nat /\ w[i] \in Inputs /\ l[i] \in Nat
               /\ l[i] = Length1(parts[i], Sample1(parts[i], k + i))
               /\ parts[i].kind \in {"integer", "signed", "bytes"} => l[i] = parts[i].size
    <3>1. k + i \in Nat /\ Fits1(parts[i])
      BY <1>1
    <3>2. Reads(Reader1(parts[i]), Word1(parts[i], k + i), Sample1(parts[i], k + i))
      BY <3>1 DEF Fits1, Reads1
    <3>3. w[i] \in Inputs
      BY <3>2 DEF Reads
    <3>4. Len(Word1(parts[i], k + i)) = Length1(parts[i], Sample1(parts[i], k + i))
      BY <3>1 DEF Fits1, Lasts1
    <3>5. parts[i].kind \in {"integer", "signed", "bytes"}
          => Len(Word1(parts[i], k + i)) = parts[i].size
      BY <3>1 DEF Fits1
    <3>6. Len(w[i]) \in Nat
      BY <3>3, InputsAre
    <3> QED
      BY <3>1, <3>3, <3>4, <3>5, <3>6
  <2>2. w \in Seq(Inputs) /\ Len(w) = m
    BY <1>1, <2>1
  <2>3. l \in [1 .. m -> Nat]
    BY <2>1
  <2> HIDE DEF w
  <2>4. Len(FlattenSeq(w)) = Total(l)
    <3> DEFINE X == 0 .. Byte - 1
    <3>1. w \in Seq(Seq(X))
      BY <2>2 DEF Inputs
    <3> HIDE DEF X
    <3>2. Len(FlattenSeq(w)) = Total([i \in 1 .. Len(w) |-> Len(w[i])])
      BY <3>1, FlattenLength
    <3> QED
      BY <2>2, <3>2
  <2> HIDE DEF l
  <2>5. /\ DOMAIN type.objects = DOMAIN o
        /\ \A j \in DOMAIN o : o[j] \in 1 .. m /\ type.objects[j] = type.reads[o[j]]
    BY DEF Adds
  <2>6. Total(l) = type.fixed + Total([j \in DOMAIN o |-> l[o[j]]])
    BY <2>1, <2>3 DEF Adds
  <2>7. Length2(type, value) = type.fixed + Total([j \in DOMAIN type.objects |->
                Length1(TypeOf(type, type.objects[j]), value[type.objects[j]])])
    BY <1>1 DEF Length2, LengthBy
  <2> HIDE DEF value
  <2>8. ASSUME NEW j \in DOMAIN o
        PROVE  Length1(TypeOf(type, type.objects[j]), value[type.objects[j]]) = l[o[j]]
    <3> DEFINE i == o[j]
    <3>1. i \in 1 .. m /\ type.objects[j] = type.reads[i]
      BY <2>5
    <3> HIDE DEF i
    <3>2. TypeOf(type, type.reads[i]) = parts[i]
      BY <3>1, FieldsAre
    <3>3. value[type.reads[i]] = Sample1(parts[i], k + i)
      BY <1>3, <3>1 DEF value
    <3>4. l[i] = Length1(parts[i], Sample1(parts[i], k + i))
      BY <2>1, <3>1
    <3> QED
      BY <3>1, <3>2, <3>3, <3>4 DEF i
  <2>9. [j \in DOMAIN type.objects |->
                Length1(TypeOf(type, type.objects[j]), value[type.objects[j]])]
        = [j \in DOMAIN o |-> l[o[j]]]
    BY <2>5, <2>8
  <2>10. Word2(type, k) = FlattenSeq(w)
    BY <1>3 DEF w
  <2> QED
    BY <2>4, <2>6, <2>7, <2>9, <2>10 DEF value
<1> QED
  BY <1>1, <1>3, <1>4 DEF Fits2, Lasts2

LEMMA StructFits3 ==
    ASSUME NEW type, NEW m, NEW parts, HasFields(type, m, parts),
           NEW o, Adds(type, m, parts, o), \A i \in 1 .. m : Fits2(parts[i])
    PROVE  Fits3(type)
<1>1. type.kind = "struct" /\ m \in Nat
  BY DEF HasFields
<1>2. \A i \in 1 .. m : Reads2(parts[i])
  BY DEF Fits2
<1>3. /\ Reads3(type)
      /\ \A k \in Nat :
            /\ Word3(type, k) = FlattenSeq([i \in 1 .. m |-> Word2(parts[i], k + i)])
            /\ \A i \in 1 .. m : Sample3(type, k)[type.reads[i]] = Sample2(parts[i], k + i)
  BY <1>2, StructAt3
<1>4. ASSUME NEW k \in Nat PROVE Len(Word3(type, k)) = Length3(type, Sample3(type, k))
  <2> DEFINE w == [i \in 1 .. m |-> Word2(parts[i], k + i)]
             l == [i \in 1 .. m |-> Len(w[i])]
             value == Sample3(type, k)
  <2>1. ASSUME NEW i \in 1 .. m
        PROVE  /\ k + i \in Nat /\ w[i] \in Inputs /\ l[i] \in Nat
               /\ l[i] = Length2(parts[i], Sample2(parts[i], k + i))
               /\ parts[i].kind \in {"integer", "signed", "bytes"} => l[i] = parts[i].size
    <3>1. k + i \in Nat /\ Fits2(parts[i])
      BY <1>1
    <3>2. Reads(Reader2(parts[i]), Word2(parts[i], k + i), Sample2(parts[i], k + i))
      BY <3>1 DEF Fits2, Reads2
    <3>3. w[i] \in Inputs
      BY <3>2 DEF Reads
    <3>4. Len(Word2(parts[i], k + i)) = Length2(parts[i], Sample2(parts[i], k + i))
      BY <3>1 DEF Fits2, Lasts2
    <3>5. parts[i].kind \in {"integer", "signed", "bytes"}
          => Len(Word2(parts[i], k + i)) = parts[i].size
      BY <3>1 DEF Fits2
    <3>6. Len(w[i]) \in Nat
      BY <3>3, InputsAre
    <3> QED
      BY <3>1, <3>3, <3>4, <3>5, <3>6
  <2>2. w \in Seq(Inputs) /\ Len(w) = m
    BY <1>1, <2>1
  <2>3. l \in [1 .. m -> Nat]
    BY <2>1
  <2> HIDE DEF w
  <2>4. Len(FlattenSeq(w)) = Total(l)
    <3> DEFINE X == 0 .. Byte - 1
    <3>1. w \in Seq(Seq(X))
      BY <2>2 DEF Inputs
    <3> HIDE DEF X
    <3>2. Len(FlattenSeq(w)) = Total([i \in 1 .. Len(w) |-> Len(w[i])])
      BY <3>1, FlattenLength
    <3> QED
      BY <2>2, <3>2
  <2> HIDE DEF l
  <2>5. /\ DOMAIN type.objects = DOMAIN o
        /\ \A j \in DOMAIN o : o[j] \in 1 .. m /\ type.objects[j] = type.reads[o[j]]
    BY DEF Adds
  <2>6. Total(l) = type.fixed + Total([j \in DOMAIN o |-> l[o[j]]])
    BY <2>1, <2>3 DEF Adds
  <2>7. Length3(type, value) = type.fixed + Total([j \in DOMAIN type.objects |->
                Length2(TypeOf(type, type.objects[j]), value[type.objects[j]])])
    BY <1>1 DEF Length3, LengthBy
  <2> HIDE DEF value
  <2>8. ASSUME NEW j \in DOMAIN o
        PROVE  Length2(TypeOf(type, type.objects[j]), value[type.objects[j]]) = l[o[j]]
    <3> DEFINE i == o[j]
    <3>1. i \in 1 .. m /\ type.objects[j] = type.reads[i]
      BY <2>5
    <3> HIDE DEF i
    <3>2. TypeOf(type, type.reads[i]) = parts[i]
      BY <3>1, FieldsAre
    <3>3. value[type.reads[i]] = Sample2(parts[i], k + i)
      BY <1>3, <3>1 DEF value
    <3>4. l[i] = Length2(parts[i], Sample2(parts[i], k + i))
      BY <2>1, <3>1
    <3> QED
      BY <3>1, <3>2, <3>3, <3>4 DEF i
  <2>9. [j \in DOMAIN type.objects |->
                Length2(TypeOf(type, type.objects[j]), value[type.objects[j]])]
        = [j \in DOMAIN o |-> l[o[j]]]
    BY <2>5, <2>8
  <2>10. Word3(type, k) = FlattenSeq(w)
    BY <1>3 DEF w
  <2> QED
    BY <2>4, <2>6, <2>7, <2>9, <2>10 DEF value
<1> QED
  BY <1>1, <1>3, <1>4 DEF Fits3, Lasts3

LEMMA StructFits4 ==
    ASSUME NEW type, NEW m, NEW parts, HasFields(type, m, parts),
           NEW o, Adds(type, m, parts, o), \A i \in 1 .. m : Fits3(parts[i])
    PROVE  Fits4(type)
<1>1. type.kind = "struct" /\ m \in Nat
  BY DEF HasFields
<1>2. \A i \in 1 .. m : Reads3(parts[i])
  BY DEF Fits3
<1>3. /\ Reads4(type)
      /\ \A k \in Nat :
            /\ Word4(type, k) = FlattenSeq([i \in 1 .. m |-> Word3(parts[i], k + i)])
            /\ \A i \in 1 .. m : Sample(type, k)[type.reads[i]] = Sample3(parts[i], k + i)
  BY <1>2, StructAt4
<1>4. ASSUME NEW k \in Nat PROVE Len(Word4(type, k)) = serialized_length(type, Sample(type, k))
  <2> DEFINE w == [i \in 1 .. m |-> Word3(parts[i], k + i)]
             l == [i \in 1 .. m |-> Len(w[i])]
             value == Sample(type, k)
  <2>1. ASSUME NEW i \in 1 .. m
        PROVE  /\ k + i \in Nat /\ w[i] \in Inputs /\ l[i] \in Nat
               /\ l[i] = Length3(parts[i], Sample3(parts[i], k + i))
               /\ parts[i].kind \in {"integer", "signed", "bytes"} => l[i] = parts[i].size
    <3>1. k + i \in Nat /\ Fits3(parts[i])
      BY <1>1
    <3>2. Reads(Reader3(parts[i]), Word3(parts[i], k + i), Sample3(parts[i], k + i))
      BY <3>1 DEF Fits3, Reads3
    <3>3. w[i] \in Inputs
      BY <3>2 DEF Reads
    <3>4. Len(Word3(parts[i], k + i)) = Length3(parts[i], Sample3(parts[i], k + i))
      BY <3>1 DEF Fits3, Lasts3
    <3>5. parts[i].kind \in {"integer", "signed", "bytes"}
          => Len(Word3(parts[i], k + i)) = parts[i].size
      BY <3>1 DEF Fits3
    <3>6. Len(w[i]) \in Nat
      BY <3>3, InputsAre
    <3> QED
      BY <3>1, <3>3, <3>4, <3>5, <3>6
  <2>2. w \in Seq(Inputs) /\ Len(w) = m
    BY <1>1, <2>1
  <2>3. l \in [1 .. m -> Nat]
    BY <2>1
  <2> HIDE DEF w
  <2>4. Len(FlattenSeq(w)) = Total(l)
    <3> DEFINE X == 0 .. Byte - 1
    <3>1. w \in Seq(Seq(X))
      BY <2>2 DEF Inputs
    <3> HIDE DEF X
    <3>2. Len(FlattenSeq(w)) = Total([i \in 1 .. Len(w) |-> Len(w[i])])
      BY <3>1, FlattenLength
    <3> QED
      BY <2>2, <3>2
  <2> HIDE DEF l
  <2>5. /\ DOMAIN type.objects = DOMAIN o
        /\ \A j \in DOMAIN o : o[j] \in 1 .. m /\ type.objects[j] = type.reads[o[j]]
    BY DEF Adds
  <2>6. Total(l) = type.fixed + Total([j \in DOMAIN o |-> l[o[j]]])
    BY <2>1, <2>3 DEF Adds
  <2>7. serialized_length(type, value) = type.fixed + Total([j \in DOMAIN type.objects |->
                Length3(TypeOf(type, type.objects[j]), value[type.objects[j]])])
    BY <1>1 DEF serialized_length, LengthBy
  <2> HIDE DEF value
  <2>8. ASSUME NEW j \in DOMAIN o
        PROVE  Length3(TypeOf(type, type.objects[j]), value[type.objects[j]]) = l[o[j]]
    <3> DEFINE i == o[j]
    <3>1. i \in 1 .. m /\ type.objects[j] = type.reads[i]
      BY <2>5
    <3> HIDE DEF i
    <3>2. TypeOf(type, type.reads[i]) = parts[i]
      BY <3>1, FieldsAre
    <3>3. value[type.reads[i]] = Sample3(parts[i], k + i)
      BY <1>3, <3>1 DEF value
    <3>4. l[i] = Length3(parts[i], Sample3(parts[i], k + i))
      BY <2>1, <3>1
    <3> QED
      BY <3>1, <3>2, <3>3, <3>4 DEF i
  <2>9. [j \in DOMAIN type.objects |->
                Length3(TypeOf(type, type.objects[j]), value[type.objects[j]])]
        = [j \in DOMAIN o |-> l[o[j]]]
    BY <2>5, <2>8
  <2>10. Word4(type, k) = FlattenSeq(w)
    BY <1>3 DEF w
  <2> QED
    BY <2>4, <2>6, <2>7, <2>9, <2>10 DEF value
<1> QED
  BY <1>1, <1>3, <1>4 DEF Fits4, Lasts4

LEMMA SequenceOf ==
    ASSUME NEW S, NEW n \in Nat, NEW f, HasPlaces(f, n), \A i \in 1 .. n : f[i] \in S
    PROVE  f \in Seq(S) /\ Len(f) = n
<1>1. f = [i \in 1 .. n |-> f[i]]
  BY DEF HasPlaces
<1>2. f \in [1 .. n -> S]
  BY <1>1
<1> QED
  BY <1>1, <1>2

LEMMA ArrayFits3 ==
    ASSUME NEW part, NEW capacity \in 0 .. Byte - 1, Fits2(part)
    PROVE  Fits3(NetArray(part, capacity))
<1> DEFINE type == NetArray(part, capacity)
<1>1. type.kind = "array" /\ type.type = part /\ type.capacity = capacity
  BY DEF NetArray
<1>2. \A s \in Inputs : Reader3(type)[s] = ArrayParsed(Reader2(part), capacity, s)
  BY <1>1 DEF Reader3, Reader2, Parsed3, ParsedBy
<1> HIDE DEF type
<1>3. ASSUME NEW k \in Nat
      PROVE  /\ Reads(Reader3(type), Word3(type, k), Sample3(type, k))
             /\ Len(Word3(type, k)) = Length3(type, Sample3(type, k))
  <2> DEFINE n == k % (capacity + 1)
             v == Sample3(type, k)
             w == [i \in 1 .. n |-> Word2(part, k + i)]
             l == [i \in 1 .. n |-> Length2(part, Sample2(part, k + i))]
  <2>1. n \in 0 .. capacity /\ n \in Nat
    <3>1. capacity + 1 \in Nat \ {0} /\ k \in Int /\ capacity \in Nat
      BY ByteIs
    <3>2. n \in 0 .. (capacity + 1) - 1
      BY ONLY <3>1, Quotient
    <3> QED
      BY <3>1, <3>2
  <2>2. v = [i \in 1 .. n |-> Sample2(part, k + i)]
    BY <1>1 DEF Sample3, SampleBy
  <2> HIDE DEF n, v
  <2>3. Len(v) = n /\ DOMAIN v = 1 .. n /\ \A i \in 1 .. n : v[i] = Sample2(part, k + i)
    BY <2>1, <2>2
  <2>4. Word3(type, k) = <<n>> \o FlattenSeq(w)
    <3>1. Word3(type, k) = <<Len(v)>> \o FlattenSeq([i \in DOMAIN v |-> Written2(part, v[i])])
      BY <1>1 DEF Word3, Written3, WrittenBy, v
    <3>2. [i \in DOMAIN v |-> Written2(part, v[i])] = w
      BY <2>3 DEF Word2
    <3> HIDE DEF w
    <3> QED
      BY <2>3, <3>1, <3>2
  <2>5. Length3(type, v) = 1 + Total(l)
    <3>1. Length3(type, v) = 1 + Total([i \in DOMAIN v |-> Length2(part, v[i])])
      BY <1>1 DEF Length3, LengthBy
    <3>2. [i \in DOMAIN v |-> Length2(part, v[i])] = l
      BY <2>3
    <3> HIDE DEF l
    <3> QED
      BY <3>1, <3>2
  <2>6. ASSUME NEW i \in 1 .. n
        PROVE  Reads(Reader2(part), w[i], v[i]) /\ w[i] \in Inputs /\ l[i] = Len(w[i])
    <3>1. k + i \in Nat
      BY <2>1
    <3>2. Reads(Reader2(part), Word2(part, k + i), Sample2(part, k + i))
      BY <3>1 DEF Fits2, Reads2
    <3>3. Len(Word2(part, k + i)) = Length2(part, Sample2(part, k + i))
      BY <3>1 DEF Fits2, Lasts2
    <3>4. Reads(Reader2(part), w[i], v[i])
      BY <2>3, <3>2
    <3>5. w[i] \in Inputs
      BY <3>2 DEF Reads
    <3> QED
      BY <3>3, <3>4, <3>5
  <2>7. w \in Seq(Inputs) /\ Len(w) = n
    <3>1. HasPlaces(w, n)
      BY DEF HasPlaces
    <3>2. \A i \in 1 .. n : w[i] \in Inputs
      BY <2>6
    <3> HIDE DEF w
    <3> QED
      BY <2>1, <3>1, <3>2, SequenceOf
  <2>8. HasPlaces(v, n)
    BY <2>2, <2>3 DEF HasPlaces
  <2>9. l = [i \in 1 .. Len(w) |-> Len(w[i])]
    BY <2>6, <2>7
  <2> HIDE DEF w, l
  <2>10. Len(FlattenSeq(w)) = Total(l) /\ FlattenSeq(w) \in Inputs
    <3> DEFINE X == 0 .. Byte - 1
    <3>1. w \in Seq(Seq(X))
      BY <2>7 DEF Inputs
    <3> HIDE DEF X
    <3>2. /\ FlattenSeq(w) \in Seq(X)
          /\ Len(FlattenSeq(w)) = Total([i \in 1 .. Len(w) |-> Len(w[i])])
      BY <3>1, FlattenLength
    <3> QED
      BY <2>9, <3>2 DEF Inputs, X
  <2>11. Len(<<n>> \o FlattenSeq(w)) = 1 + Len(FlattenSeq(w))
    <3>1. n \in 0 .. Byte - 1
      BY <2>1, ByteIs
    <3>2. <<n>> \in Inputs /\ Len(<<n>>) = 1
      BY <3>1 DEF Inputs
    <3> QED
      BY <2>10, <3>2, ConcatAt DEF Inputs
  <2>12. Reads(Reader3(type), <<n>> \o FlattenSeq(w), v)
    <3> DEFINE reader == Reader3(type)
               parser == Reader2(part)
    <3>1. \A s \in Inputs : reader[s] = ArrayParsed(parser, capacity, s)
      BY <1>2
    <3>2. \A i \in 1 .. n : Reads(parser, w[i], v[i])
      BY <2>6
    <3> HIDE DEF reader, parser
    <3>3. Reads(reader, <<n>> \o FlattenSeq(w), v)
      BY <2>1, <2>7, <2>8, <3>1, <3>2, ArrayReads
    <3> QED
      BY <3>3 DEF reader
  <2> QED
    BY <2>4, <2>5, <2>10, <2>11, <2>12 DEF v
<1> QED
  BY <1>1, <1>3 DEF Fits3, Reads3, Lasts3, type

HasFlag(v, flag, index, vp, vm) ==
    v = [flag |-> flag, index |-> index, plain |-> vp, more |-> vm]
FlagWord(flag, index) == Digits(Byte, (IF flag THEN Half(4) ELSE 0) + (index % Half(4)), 4)
ReadsMore(flag, more, wm, vm) ==
    /\ flag => Reads(more, wm, vm)
    /\ ~flag => wm = <<>> /\ vm = <<>>
ReadsFlagged(reader, plain, more) ==
    \A s \in Inputs : reader[s] = FlaggedParsed(plain, more, s)

LEMMA FlaggedReadsIt ==
    ASSUME NEW plain, NEW more, NEW wp, NEW vp, Reads(plain, wp, vp),
           NEW flag \in BOOLEAN, NEW index, index \in 0 .. Half(4) - 1, NEW wm, NEW vm,
           ReadsMore(flag, more, wm, vm),
           NEW reader, ReadsFlagged(reader, plain, more), NEW v, HasFlag(v, flag, index, vp, vm)
    PROVE  Reads(reader, FlagWord(flag, index) \o (wp \o wm), v) /\ Len(FlagWord(flag, index)) = 4
<1>1. /\ flag => Reads(more, wm, vm)
      /\ ~flag => wm = <<>> /\ vm = <<>>
  BY DEF ReadsMore
<1>2. \A s \in Inputs : reader[s] = FlaggedParsed(plain, more, s)
  BY DEF ReadsFlagged
<1>3. v = [flag |-> flag, index |-> index, plain |-> vp, more |-> vm]
  BY DEF HasFlag
<1>4. index \in 0 .. Half(4) - 1
  OBVIOUS
<1>5. /\ Reads(reader,
               Digits(Byte, (IF flag THEN Half(4) ELSE 0) + (index % Half(4)), 4) \o (wp \o wm),
               [flag |-> flag, index |-> index, plain |-> vp, more |-> vm])
      /\ Len(Digits(Byte, (IF flag THEN Half(4) ELSE 0) + (index % Half(4)), 4)) = 4
  BY <1>1, <1>2, <1>4, FlaggedReads
<1> QED
  BY <1>3, <1>5 DEF FlagWord

LEMMA FlaggedFits2 ==
    ASSUME NEW plain, NEW more, Fits1(plain), Fits1(more)
    PROVE  Fits2(Flagged(plain, more))
<1> DEFINE type == Flagged(plain, more)
           h == Half(4)
<1>1. type.kind = "flagged" /\ type.plain = plain /\ type.more = more
  BY DEF Flagged
<1>2. \A s \in Inputs : Reader2(type)[s] = FlaggedParsed(Reader1(plain), Reader1(more), s)
  BY <1>1 DEF Reader2, Reader1, Parsed2, ParsedBy
<1>3. h \in Nat \ {0}
  BY ValuesAre
<1> HIDE DEF type, h
<1>4. ASSUME NEW k \in Nat
      PROVE  /\ Reads(Reader2(type), Word2(type, k), Sample2(type, k))
             /\ Len(Word2(type, k)) = Length2(type, Sample2(type, k))
  <2> DEFINE v == Sample2(type, k)
             flag == k % 2 = 1
             index == <<0, h - 1>>[(k % 2) + 1]
             wp == Word1(plain, k)
             vp == Sample1(plain, k)
             wm == IF flag THEN Word1(more, k) ELSE <<>>
             vm == IF flag THEN Sample1(more, k) ELSE <<>>
             d == Digits(Byte, (IF flag THEN Half(4) ELSE 0) + (index % Half(4)), 4)
  <2>1. v = [flag |-> flag, index |-> index, plain |-> vp, more |-> vm]
    BY <1>1 DEF Sample2, SampleBy, h
  <2>2. flag \in BOOLEAN /\ index \in 0 .. Half(4) - 1
    <3>1. k % 2 = 0 \/ k % 2 = 1
      OBVIOUS
    <3>2. <<0, h - 1>>[1] = 0 /\ <<0, h - 1>>[2] = h - 1
      OBVIOUS
    <3>3. index \in {0, h - 1}
      BY <3>1, <3>2
    <3> HIDE DEF index
    <3> QED
      BY <1>3, <3>3 DEF h
  <2>3. Reads(Reader1(plain), wp, vp) /\ Len(wp) = Length1(plain, vp)
    BY DEF Fits1, Reads1, Lasts1
  <2>4. flag => Reads(Reader1(more), wm, vm) /\ Len(wm) = Length1(more, vm)
    BY DEF Fits1, Reads1, Lasts1
  <2>5. ~flag => wm = <<>> /\ vm = <<>>
    OBVIOUS
  <2>6. Word2(type, k) = (d \o wp) \o wm
    <3>1. v.flag = flag /\ v.index = index /\ v.plain = vp /\ v.more = vm
      BY <2>1
    <3>2. Word2(type, k) =
              (Digits(Byte, (IF v.flag THEN Half(4) ELSE 0) + (v.index % Half(4)), 4)
               \o Written1(plain, v.plain)) \o IF v.flag THEN Written1(more, v.more) ELSE <<>>
      BY <1>1 DEF Word2, Written2, WrittenBy
    <3>3. Written1(plain, vp) = wp
      BY DEF Word1
    <3>4. (IF flag THEN Written1(more, vm) ELSE <<>>) = wm
      BY DEF Word1
    <3> HIDE DEF v, flag, index, vp, vm, wp, wm
    <3> QED
      BY <3>1, <3>2, <3>3, <3>4
  <2>7. Length2(type, v) = 4 + Length1(plain, vp) + IF flag THEN Length1(more, vm) ELSE 0
    <3>1. v.flag = flag /\ v.plain = vp /\ v.more = vm
      BY <2>1
    <3>2. Length2(type, v) = 4 + Length1(plain, v.plain)
                             + IF v.flag THEN Length1(more, v.more) ELSE 0
      BY <1>1 DEF Length2, LengthBy
    <3> HIDE DEF v, flag, vp, vm
    <3> QED
      BY <3>1, <3>2
  <2> DEFINE reader == Reader2(type)
             p1 == Reader1(plain)
             p2 == Reader1(more)
  <2>8. \A s \in Inputs : reader[s] = FlaggedParsed(p1, p2, s)
    BY <1>2
  <2> HIDE DEF v, flag, index, vp, vm, wp, wm, reader
  <2>9. Reads(reader, d \o (wp \o wm), v) /\ Len(d) = 4
    <3>1. Reads(p1, wp, vp) /\ ReadsMore(flag, p2, wm, vm)
      BY <2>3, <2>4, <2>5 DEF ReadsMore
    <3>2. ReadsFlagged(reader, p1, p2) /\ HasFlag(v, flag, index, vp, vm)
      BY <2>1, <2>8 DEF ReadsFlagged, HasFlag
    <3> HIDE DEF p1, p2, d
    <3>3. /\ Reads(reader, FlagWord(flag, index) \o (wp \o wm), v)
          /\ Len(FlagWord(flag, index)) = 4
      BY <2>2, <3>1, <3>2, FlaggedReadsIt
    <3>4. FlagWord(flag, index) = d
      BY DEF FlagWord, d
    <3> QED
      BY <3>3, <3>4
  <2>10. wp \in Inputs /\ wm \in Inputs
    <3>1. <<>> \in Inputs
      BY DEF Inputs
    <3> QED
      BY <2>2, <2>3, <2>4, <2>5, <3>1 DEF Reads
  <2>11. d \in Inputs
    <3> DEFINE n == (IF flag THEN Half(4) ELSE 0) + (index % Half(4))
    <3>1. n \in Int /\ 4 \in Nat
      <4>1. Half(4) \in Nat \ {0}
        BY ValuesAre
      <4>2. index % Half(4) \in Int
        BY <2>2, <4>1
      <4> QED
        BY <4>1, <4>2
    <3> HIDE DEF n
    <3>2. Digits(Byte, n, 4) \in Inputs
      BY <3>1, ByteIs, DigitsAre DEF Inputs
    <3> QED
      BY <3>2 DEF n
  <2> HIDE DEF d
  <2>12. (d \o wp) \o wm = d \o (wp \o wm)
    BY <2>10, <2>11, ConcatAssociative DEF Inputs
  <2>13. Len((d \o wp) \o wm) = 4 + Len(wp) + Len(wm)
    <3>1. \A a, b \in Inputs : a \o b \in Inputs /\ Len(a \o b) = Len(a) + Len(b)
      BY ConcatAt DEF Inputs
    <3>2. d \o wp \in Inputs /\ Len(d \o wp) = 4 + Len(wp)
      BY <2>9, <2>10, <2>11, <3>1
    <3> QED
      BY <2>10, <3>1, <3>2
  <2>14. Len(wm) = IF flag THEN Length1(more, vm) ELSE 0
    BY <2>2, <2>4, <2>5
  <2>15. Reads(reader, Word2(type, k), v)
    BY <2>6, <2>9, <2>12
  <2>16. Len(Word2(type, k)) = Length2(type, v)
    BY <2>3, <2>6, <2>7, <2>13, <2>14
  <2> QED
    BY <2>15, <2>16 DEF v, reader
<1> QED
  BY <1>1, <1>4 DEF Fits2, Reads2, Lasts2, type

------------------------------------------------------------------------------
(* Each format: its fields and the length it announces.                    *)

ChunkFormat == Format(<<<<"nal_index", Integer(4)>>, <<"data", Buffer(Byte + 1, 2)>>>>,
                      <<"nal_index", "data">>, 4, <<"data">>)
NoFormat == Format(<<>>, <<>>, 0, <<>>)

LEMMA CursorLagHas ==
    HasFields(set_cursor_lag, 5, <<NetString, NetString, Integer(2), Integer(2), Integer(2)>>)
<1> DEFINE parts == <<NetString, NetString, Integer(2), Integer(2), Integer(2)>>
           reads == <<"feed", "name", "target_samples", "min_samples", "max_samples">>
           fields == <<<<"feed", NetString>>, <<"name", NetString>>, <<"target_samples", Integer(2)>>, <<"min_samples", Integer(2)>>, <<"max_samples", Integer(2)>>>>
           type == set_cursor_lag
<1>1. type.kind = "struct" /\ type.fields = fields /\ type.reads = reads
  BY DEF set_cursor_lag, Format
<1>2. DOMAIN fields = 1 .. 5 /\ DOMAIN reads = 1 .. 5 /\ Len(reads) = 5 /\ 5 \in Nat
  OBVIOUS
<1>3. \A i \in 1 .. 5 : i = 1 \/ i = 2 \/ i = 3 \/ i = 4 \/ i = 5
  OBVIOUS
<1>4. /\ fields[1][1] = reads[1] /\ fields[1][2] = parts[1] /\ reads[1] = "feed"
      /\ fields[2][1] = reads[2] /\ fields[2][2] = parts[2] /\ reads[2] = "name"
      /\ fields[3][1] = reads[3] /\ fields[3][2] = parts[3] /\ reads[3] = "target_samples"
      /\ fields[4][1] = reads[4] /\ fields[4][2] = parts[4] /\ reads[4] = "min_samples"
      /\ fields[5][1] = reads[5] /\ fields[5][2] = parts[5] /\ reads[5] = "max_samples"
  OBVIOUS
<1>6. \A i \in 1 .. 5 : fields[i][1] = reads[i] /\ fields[i][2] = parts[i]
  <2> HIDE DEF fields, reads, parts
  <2> QED
    BY <1>3, <1>4
<1>7. \A i, j \in 1 .. 5 : reads[i] = reads[j] => i = j
  <2> HIDE DEF fields, reads, parts
  <2> QED
    BY <1>3, <1>4
<1> HIDE DEF fields, reads, parts, type
<1>8. HasFields(type, 5, parts)
  BY <1>1, <1>2, <1>6, <1>7 DEF HasFields
<1> QED
  BY <1>8 DEF type, parts

LEMMA CursorLagAdds ==
    Adds(set_cursor_lag, 5, <<NetString, NetString, Integer(2), Integer(2), Integer(2)>>, <<2, 1>>)
<1> DEFINE parts == <<NetString, NetString, Integer(2), Integer(2), Integer(2)>>
           reads == <<"feed", "name", "target_samples", "min_samples", "max_samples">>
           objects == <<"name", "feed">>
           o == <<2, 1>>
           type == set_cursor_lag
<1>1. type.objects = objects /\ type.reads = reads /\ type.fixed = 6
  BY DEF set_cursor_lag, Format
<1>2. DOMAIN objects = 1 .. 2 /\ DOMAIN o = 1 .. 2
  OBVIOUS
<1>3. \A j \in 1 .. 2 : j = 1 \/ j = 2
  OBVIOUS
<1>4. /\ o[1] = 2 /\ objects[1] = reads[2]
      /\ o[2] = 1 /\ objects[2] = reads[1]
  OBVIOUS
<1>5. \A j \in DOMAIN o : o[j] \in 1 .. 5 /\ objects[j] = reads[o[j]]
  <2> HIDE DEF o, objects, reads
  <2> QED
    BY <1>2, <1>3, <1>4
<1>6. /\ parts[3].kind \in {"integer", "signed", "bytes"} /\ parts[3].size = 2
      /\ parts[4].kind \in {"integer", "signed", "bytes"} /\ parts[4].size = 2
      /\ parts[5].kind \in {"integer", "signed", "bytes"} /\ parts[5].size = 2
  BY DEF Integer, Signed, Floating, Key
<1> HIDE DEF parts, reads, objects, o, type
<1>7. ASSUME NEW l, l \in [1 .. 5 -> Nat],
             \A i \in 1 .. 5 : parts[i].kind \in {"integer", "signed", "bytes"} => l[i] = parts[i].size
      PROVE  Total(l) = 6 + Total([j \in DOMAIN o |-> l[o[j]]])
  <2> DEFINE s == [j \in DOMAIN o |-> l[o[j]]]
  <2>1. s = [j \in 1 .. 2 |-> l[o[j]]]
    BY <1>2
  <2>2. s \in [1 .. 2 -> Nat]
    BY <1>2, <1>5, <1>7
  <2>3. s[1] = l[2] /\ s[2] = l[1]
    BY <1>2, <1>3, <1>4
  <2> HIDE DEF s
  <2>4. Total(s) = s[1] + s[2]
    <3>1. 2 \in Nat
      OBVIOUS
    <3> QED
      BY ONLY <2>2, <3>1, TotalOfFew
  <2>5. Total(l) = l[1] + l[2] + l[3] + l[4] + l[5]
    <3>1. 5 \in Nat /\ l \in [1 .. 5 -> Nat]
      BY <1>7
    <3> QED
      BY ONLY <3>1, TotalOfFew
  <2>6. l[3] = 2 /\ l[4] = 2 /\ l[5] = 2
    BY <1>6, <1>7
  <2>7. l[1] \in Nat /\ l[2] \in Nat /\ l[3] \in Nat /\ l[4] \in Nat /\ l[5] \in Nat
    BY <1>7
  <2>8. Total(l) = 6 + Total(s)
    BY ONLY <2>4, <2>5, <2>3, <2>6, <2>7
  <2> QED
    BY <2>8 DEF s
<1>8. Adds(type, 5, parts, o)
  BY <1>1, <1>2, <1>5, <1>7 DEF Adds
<1> QED
  BY <1>8 DEF type, parts, o

LEMMA GainHas ==
    HasFields(set_gain, 4, <<NetString, NetString, Floating, Floating>>)
<1> DEFINE parts == <<NetString, NetString, Floating, Floating>>
           reads == <<"board_name", "channel_name", "gain1", "gain2">>
           fields == <<<<"board_name", NetString>>, <<"channel_name", NetString>>, <<"gain1", Floating>>, <<"gain2", Floating>>>>
           type == set_gain
<1>1. type.kind = "struct" /\ type.fields = fields /\ type.reads = reads
  BY DEF set_gain, Format
<1>2. DOMAIN fields = 1 .. 4 /\ DOMAIN reads = 1 .. 4 /\ Len(reads) = 4 /\ 4 \in Nat
  OBVIOUS
<1>3. \A i \in 1 .. 4 : i = 1 \/ i = 2 \/ i = 3 \/ i = 4
  OBVIOUS
<1>4. /\ fields[1][1] = reads[1] /\ fields[1][2] = parts[1] /\ reads[1] = "board_name"
      /\ fields[2][1] = reads[2] /\ fields[2][2] = parts[2] /\ reads[2] = "channel_name"
      /\ fields[3][1] = reads[3] /\ fields[3][2] = parts[3] /\ reads[3] = "gain1"
      /\ fields[4][1] = reads[4] /\ fields[4][2] = parts[4] /\ reads[4] = "gain2"
  OBVIOUS
<1>6. \A i \in 1 .. 4 : fields[i][1] = reads[i] /\ fields[i][2] = parts[i]
  <2> HIDE DEF fields, reads, parts
  <2> QED
    BY <1>3, <1>4
<1>7. \A i, j \in 1 .. 4 : reads[i] = reads[j] => i = j
  <2> HIDE DEF fields, reads, parts
  <2> QED
    BY <1>3, <1>4
<1> HIDE DEF fields, reads, parts, type
<1>8. HasFields(type, 4, parts)
  BY <1>1, <1>2, <1>6, <1>7 DEF HasFields
<1> QED
  BY <1>8 DEF type, parts

LEMMA GainAdds ==
    Adds(set_gain, 4, <<NetString, NetString, Floating, Floating>>, <<1, 2>>)
<1> DEFINE parts == <<NetString, NetString, Floating, Floating>>
           reads == <<"board_name", "channel_name", "gain1", "gain2">>
           objects == <<"board_name", "channel_name">>
           o == <<1, 2>>
           type == set_gain
<1>1. type.objects = objects /\ type.reads = reads /\ type.fixed = 8
  BY DEF set_gain, Format
<1>2. DOMAIN objects = 1 .. 2 /\ DOMAIN o = 1 .. 2
  OBVIOUS
<1>3. \A j \in 1 .. 2 : j = 1 \/ j = 2
  OBVIOUS
<1>4. /\ o[1] = 1 /\ objects[1] = reads[1]
      /\ o[2] = 2 /\ objects[2] = reads[2]
  OBVIOUS
<1>5. \A j \in DOMAIN o : o[j] \in 1 .. 4 /\ objects[j] = reads[o[j]]
  <2> HIDE DEF o, objects, reads
  <2> QED
    BY <1>2, <1>3, <1>4
<1>6. /\ parts[3].kind \in {"integer", "signed", "bytes"} /\ parts[3].size = 4
      /\ parts[4].kind \in {"integer", "signed", "bytes"} /\ parts[4].size = 4
  BY DEF Integer, Signed, Floating, Key
<1> HIDE DEF parts, reads, objects, o, type
<1>7. ASSUME NEW l, l \in [1 .. 4 -> Nat],
             \A i \in 1 .. 4 : parts[i].kind \in {"integer", "signed", "bytes"} => l[i] = parts[i].size
      PROVE  Total(l) = 8 + Total([j \in DOMAIN o |-> l[o[j]]])
  <2> DEFINE s == [j \in DOMAIN o |-> l[o[j]]]
  <2>1. s = [j \in 1 .. 2 |-> l[o[j]]]
    BY <1>2
  <2>2. s \in [1 .. 2 -> Nat]
    BY <1>2, <1>5, <1>7
  <2>3. s[1] = l[1] /\ s[2] = l[2]
    BY <1>2, <1>3, <1>4
  <2> HIDE DEF s
  <2>4. Total(s) = s[1] + s[2]
    <3>1. 2 \in Nat
      OBVIOUS
    <3> QED
      BY ONLY <2>2, <3>1, TotalOfFew
  <2>5. Total(l) = l[1] + l[2] + l[3] + l[4]
    <3>1. 4 \in Nat /\ l \in [1 .. 4 -> Nat]
      BY <1>7
    <3> QED
      BY ONLY <3>1, TotalOfFew
  <2>6. l[3] = 4 /\ l[4] = 4
    BY <1>6, <1>7
  <2>7. l[1] \in Nat /\ l[2] \in Nat /\ l[3] \in Nat /\ l[4] \in Nat
    BY <1>7
  <2>8. Total(l) = 8 + Total(s)
    BY ONLY <2>4, <2>5, <2>3, <2>6, <2>7
  <2> QED
    BY <2>8 DEF s
<1>8. Adds(type, 4, parts, o)
  BY <1>1, <1>2, <1>5, <1>7 DEF Adds
<1> QED
  BY <1>8 DEF type, parts, o

LEMMA LiveHas ==
    HasFields(set_live_message, 1, <<NetString>>)
<1> DEFINE parts == <<NetString>>
           reads == <<"name">>
           fields == <<<<"name", NetString>>>>
           type == set_live_message
<1>1. type.kind = "struct" /\ type.fields = fields /\ type.reads = reads
  BY DEF set_live_message, Format
<1>2. DOMAIN fields = 1 .. 1 /\ DOMAIN reads = 1 .. 1 /\ Len(reads) = 1 /\ 1 \in Nat
  OBVIOUS
<1>3. \A i \in 1 .. 1 : i = 1
  OBVIOUS
<1>4. /\ fields[1][1] = reads[1] /\ fields[1][2] = parts[1] /\ reads[1] = "name"
  OBVIOUS
<1>6. \A i \in 1 .. 1 : fields[i][1] = reads[i] /\ fields[i][2] = parts[i]
  <2> HIDE DEF fields, reads, parts
  <2> QED
    BY <1>3, <1>4
<1>7. \A i, j \in 1 .. 1 : reads[i] = reads[j] => i = j
  <2> HIDE DEF fields, reads, parts
  <2> QED
    BY <1>3, <1>4
<1> HIDE DEF fields, reads, parts, type
<1>8. HasFields(type, 1, parts)
  BY <1>1, <1>2, <1>6, <1>7 DEF HasFields
<1> QED
  BY <1>8 DEF type, parts

LEMMA LiveAdds ==
    Adds(set_live_message, 1, <<NetString>>, <<1>>)
<1> DEFINE parts == <<NetString>>
           reads == <<"name">>
           objects == <<"name">>
           o == <<1>>
           type == set_live_message
<1>1. type.objects = objects /\ type.reads = reads /\ type.fixed = 0
  BY DEF set_live_message, Format
<1>2. DOMAIN objects = 1 .. 1 /\ DOMAIN o = 1 .. 1
  OBVIOUS
<1>3. \A j \in 1 .. 1 : j = 1
  OBVIOUS
<1>4. /\ o[1] = 1 /\ objects[1] = reads[1]
  OBVIOUS
<1>5. \A j \in DOMAIN o : o[j] \in 1 .. 1 /\ objects[j] = reads[o[j]]
  <2> HIDE DEF o, objects, reads
  <2> QED
    BY <1>2, <1>3, <1>4
<1> HIDE DEF parts, reads, objects, o, type
<1>7. ASSUME NEW l, l \in [1 .. 1 -> Nat],
             \A i \in 1 .. 1 : parts[i].kind \in {"integer", "signed", "bytes"} => l[i] = parts[i].size
      PROVE  Total(l) = 0 + Total([j \in DOMAIN o |-> l[o[j]]])
  <2> DEFINE s == [j \in DOMAIN o |-> l[o[j]]]
  <2>1. s = [j \in 1 .. 1 |-> l[o[j]]]
    BY <1>2
  <2>2. s \in [1 .. 1 -> Nat]
    BY <1>2, <1>5, <1>7
  <2>3. s[1] = l[1]
    BY <1>2, <1>3, <1>4
  <2> HIDE DEF s
  <2>4. Total(s) = s[1]
    <3>1. 1 \in Nat
      OBVIOUS
    <3> QED
      BY ONLY <2>2, <3>1, TotalOfFew
  <2>5. Total(l) = l[1]
    <3>1. 1 \in Nat /\ l \in [1 .. 1 -> Nat]
      BY <1>7
    <3> QED
      BY ONLY <3>1, TotalOfFew
  <2>7. l[1] \in Nat
    BY <1>7
  <2>8. Total(l) = 0 + Total(s)
    BY ONLY <2>4, <2>5, <2>3, <2>7
  <2> QED
    BY <2>8 DEF s
<1>8. Adds(type, 1, parts, o)
  BY <1>1, <1>2, <1>5, <1>7 DEF Adds
<1> QED
  BY <1>8 DEF type, parts, o

LEMMA ReportHas ==
    HasFields(client_report, 7, <<Integer(4), Integer(2), Integer(2), Integer(2), Floating, Floating, Floating>>)
<1> DEFINE parts == <<Integer(4), Integer(2), Integer(2), Integer(2), Floating, Floating, Floating>>
           reads == <<"resets", "target_lag", "min_lag", "max_lag", "actual_lag", "quality", "self_gain">>
           fields == <<<<"resets", Integer(4)>>, <<"target_lag", Integer(2)>>, <<"min_lag", Integer(2)>>, <<"max_lag", Integer(2)>>, <<"actual_lag", Floating>>, <<"quality", Floating>>, <<"self_gain", Floating>>>>
           type == client_report
<1>1. type.kind = "struct" /\ type.fields = fields /\ type.reads = reads
  BY DEF client_report, Format
<1>2. DOMAIN fields = 1 .. 7 /\ DOMAIN reads = 1 .. 7 /\ Len(reads) = 7 /\ 7 \in Nat
  OBVIOUS
<1>3. \A i \in 1 .. 7 : i = 1 \/ i = 2 \/ i = 3 \/ i = 4 \/ i = 5 \/ i = 6 \/ i = 7
  OBVIOUS
<1>4. /\ fields[1][1] = reads[1] /\ fields[1][2] = parts[1] /\ reads[1] = "resets"
      /\ fields[2][1] = reads[2] /\ fields[2][2] = parts[2] /\ reads[2] = "target_lag"
      /\ fields[3][1] = reads[3] /\ fields[3][2] = parts[3] /\ reads[3] = "min_lag"
      /\ fields[4][1] = reads[4] /\ fields[4][2] = parts[4] /\ reads[4] = "max_lag"
      /\ fields[5][1] = reads[5] /\ fields[5][2] = parts[5] /\ reads[5] = "actual_lag"
      /\ fields[6][1] = reads[6] /\ fields[6][2] = parts[6] /\ reads[6] = "quality"
      /\ fields[7][1] = reads[7] /\ fields[7][2] = parts[7] /\ reads[7] = "self_gain"
  OBVIOUS
<1>6. \A i \in 1 .. 7 : fields[i][1] = reads[i] /\ fields[i][2] = parts[i]
  <2> HIDE DEF fields, reads, parts
  <2> QED
    BY <1>3, <1>4
<1>7. \A i, j \in 1 .. 7 : reads[i] = reads[j] => i = j
  <2> HIDE DEF fields, reads, parts
  <2> QED
    BY <1>3, <1>4
<1> HIDE DEF fields, reads, parts, type
<1>8. HasFields(type, 7, parts)
  BY <1>1, <1>2, <1>6, <1>7 DEF HasFields
<1> QED
  BY <1>8 DEF type, parts

LEMMA VideoControlHas ==
    HasFields(video_control, 8, <<Integer(2), Integer(2), Integer(2), Integer(2), Integer(2), Integer(2), Integer(2), Integer(2)>>)
<1> DEFINE parts == <<Integer(2), Integer(2), Integer(2), Integer(2), Integer(2), Integer(2), Integer(2), Integer(2)>>
           reads == <<"x", "y", "width", "height", "crop_left", "crop_right", "crop_top", "crop_bottom">>
           fields == <<<<"x", Integer(2)>>, <<"y", Integer(2)>>, <<"width", Integer(2)>>, <<"height", Integer(2)>>, <<"crop_left", Integer(2)>>, <<"crop_right", Integer(2)>>, <<"crop_top", Integer(2)>>, <<"crop_bottom", Integer(2)>>>>
           type == video_control
<1>1. type.kind = "struct" /\ type.fields = [i \in DOMAIN reads |-> <<reads[i], Integer(2)>>] /\ type.reads = reads
  BY DEF video_control, Format
<1>5. [i \in DOMAIN reads |-> <<reads[i], Integer(2)>>] = fields
  OBVIOUS
<1>2. DOMAIN fields = 1 .. 8 /\ DOMAIN reads = 1 .. 8 /\ Len(reads) = 8 /\ 8 \in Nat
  OBVIOUS
<1>3. \A i \in 1 .. 8 : i = 1 \/ i = 2 \/ i = 3 \/ i = 4 \/ i = 5 \/ i = 6 \/ i = 7 \/ i = 8
  OBVIOUS
<1>4. /\ fields[1][1] = reads[1] /\ fields[1][2] = parts[1] /\ reads[1] = "x"
      /\ fields[2][1] = reads[2] /\ fields[2][2] = parts[2] /\ reads[2] = "y"
      /\ fields[3][1] = reads[3] /\ fields[3][2] = parts[3] /\ reads[3] = "width"
      /\ fields[4][1] = reads[4] /\ fields[4][2] = parts[4] /\ reads[4] = "height"
      /\ fields[5][1] = reads[5] /\ fields[5][2] = parts[5] /\ reads[5] = "crop_left"
      /\ fields[6][1] = reads[6] /\ fields[6][2] = parts[6] /\ reads[6] = "crop_right"
      /\ fields[7][1] = reads[7] /\ fields[7][2] = parts[7] /\ reads[7] = "crop_top"
      /\ fields[8][1] = reads[8] /\ fields[8][2] = parts[8] /\ reads[8] = "crop_bottom"
  OBVIOUS
<1>6. \A i \in 1 .. 8 : fields[i][1] = reads[i] /\ fields[i][2] = parts[i]
  <2> HIDE DEF fields, reads, parts
  <2> QED
    BY <1>3, <1>4
<1>7. \A i, j \in 1 .. 8 : reads[i] = reads[j] => i = j
  <2> HIDE DEF fields, reads, parts
  <2> QED
    BY <1>3, <1>4
<1> HIDE DEF fields, reads, parts, type
<1>8. HasFields(type, 8, parts)
  BY <1>1, <1>2, <1>5, <1>6, <1>7 DEF HasFields
<1> QED
  BY <1>8 DEF type, parts

LEMMA VideoControlAdds ==
    Adds(video_control, 8, <<Integer(2), Integer(2), Integer(2), Integer(2), Integer(2), Integer(2), Integer(2), Integer(2)>>, <<>>)
<1> DEFINE parts == <<Integer(2), Integer(2), Integer(2), Integer(2), Integer(2), Integer(2), Integer(2), Integer(2)>>
           reads == <<"x", "y", "width", "height", "crop_left", "crop_right", "crop_top", "crop_bottom">>
           objects == <<>>
           o == <<>>
           type == video_control
<1>1. type.objects = objects /\ type.reads = reads /\ type.fixed = 16
  BY DEF video_control, Format
<1>2. DOMAIN objects = 1 .. 0 /\ DOMAIN o = 1 .. 0
  OBVIOUS
<1>5. \A j \in DOMAIN o : o[j] \in 1 .. 8 /\ objects[j] = reads[o[j]]
  BY <1>2
<1>6. /\ parts[1].kind \in {"integer", "signed", "bytes"} /\ parts[1].size = 2
      /\ parts[2].kind \in {"integer", "signed", "bytes"} /\ parts[2].size = 2
      /\ parts[3].kind \in {"integer", "signed", "bytes"} /\ parts[3].size = 2
      /\ parts[4].kind \in {"integer", "signed", "bytes"} /\ parts[4].size = 2
      /\ parts[5].kind \in {"integer", "signed", "bytes"} /\ parts[5].size = 2
      /\ parts[6].kind \in {"integer", "signed", "bytes"} /\ parts[6].size = 2
      /\ parts[7].kind \in {"integer", "signed", "bytes"} /\ parts[7].size = 2
      /\ parts[8].kind \in {"integer", "signed", "bytes"} /\ parts[8].size = 2
  BY DEF Integer, Signed, Floating, Key
<1> HIDE DEF parts, reads, objects, o, type
<1>7. ASSUME NEW l, l \in [1 .. 8 -> Nat],
             \A i \in 1 .. 8 : parts[i].kind \in {"integer", "signed", "bytes"} => l[i] = parts[i].size
      PROVE  Total(l) = 16 + Total([j \in DOMAIN o |-> l[o[j]]])
  <2> DEFINE s == [j \in DOMAIN o |-> l[o[j]]]
  <2>1. s = [j \in 1 .. 0 |-> l[o[j]]]
    BY <1>2
  <2>2. s \in [1 .. 0 -> Nat]
    BY <1>2, <1>5, <1>7
  <2> HIDE DEF s
  <2>4. Total(s) = 0
    <3>1. 0 \in Nat
      OBVIOUS
    <3> QED
      BY ONLY <2>2, <3>1, TotalOfFew
  <2>5. Total(l) = l[1] + l[2] + l[3] + l[4] + l[5] + l[6] + l[7] + l[8]
    <3>1. 8 \in Nat /\ l \in [1 .. 8 -> Nat]
      BY <1>7
    <3> QED
      BY ONLY <3>1, TotalOfFew
  <2>6. l[1] = 2 /\ l[2] = 2 /\ l[3] = 2 /\ l[4] = 2 /\ l[5] = 2 /\ l[6] = 2 /\ l[7] = 2 /\ l[8] = 2
    BY <1>6, <1>7
  <2>7. l[1] \in Nat /\ l[2] \in Nat /\ l[3] \in Nat /\ l[4] \in Nat /\ l[5] \in Nat /\ l[6] \in Nat /\ l[7] \in Nat /\ l[8] \in Nat
    BY <1>7
  <2>8. Total(l) = 16 + Total(s)
    BY ONLY <2>4, <2>5, <2>6, <2>7
  <2> QED
    BY <2>8 DEF s
<1>8. Adds(type, 8, parts, o)
  BY <1>1, <1>2, <1>5, <1>7 DEF Adds
<1> QED
  BY <1>8 DEF type, parts, o

LEMMA InsertLayerHas ==
    HasFields(insert_layer, 7, <<Integer(1), NetString, NetString, Signed(2), Signed(2), Integer(2), Integer(2)>>)
<1> DEFINE parts == <<Integer(1), NetString, NetString, Signed(2), Signed(2), Integer(2), Integer(2)>>
           reads == <<"is_media", "name", "filename", "x", "y", "width", "z">>
           fields == <<<<"is_media", Integer(1)>>, <<"name", NetString>>, <<"filename", NetString>>, <<"x", Signed(2)>>, <<"y", Signed(2)>>, <<"width", Integer(2)>>, <<"z", Integer(2)>>>>
           type == insert_layer
<1>1. type.kind = "struct" /\ type.fields = fields /\ type.reads = reads
  BY DEF insert_layer, Format
<1>2. DOMAIN fields = 1 .. 7 /\ DOMAIN reads = 1 .. 7 /\ Len(reads) = 7 /\ 7 \in Nat
  OBVIOUS
<1>3. \A i \in 1 .. 7 : i = 1 \/ i = 2 \/ i = 3 \/ i = 4 \/ i = 5 \/ i = 6 \/ i = 7
  OBVIOUS
<1>4. /\ fields[1][1] = reads[1] /\ fields[1][2] = parts[1] /\ reads[1] = "is_media"
      /\ fields[2][1] = reads[2] /\ fields[2][2] = parts[2] /\ reads[2] = "name"
      /\ fields[3][1] = reads[3] /\ fields[3][2] = parts[3] /\ reads[3] = "filename"
      /\ fields[4][1] = reads[4] /\ fields[4][2] = parts[4] /\ reads[4] = "x"
      /\ fields[5][1] = reads[5] /\ fields[5][2] = parts[5] /\ reads[5] = "y"
      /\ fields[6][1] = reads[6] /\ fields[6][2] = parts[6] /\ reads[6] = "width"
      /\ fields[7][1] = reads[7] /\ fields[7][2] = parts[7] /\ reads[7] = "z"
  OBVIOUS
<1>6. \A i \in 1 .. 7 : fields[i][1] = reads[i] /\ fields[i][2] = parts[i]
  <2> HIDE DEF fields, reads, parts
  <2> QED
    BY <1>3, <1>4
<1>7. \A i, j \in 1 .. 7 : reads[i] = reads[j] => i = j
  <2> HIDE DEF fields, reads, parts
  <2> QED
    BY <1>3, <1>4
<1> HIDE DEF fields, reads, parts, type
<1>8. HasFields(type, 7, parts)
  BY <1>1, <1>2, <1>6, <1>7 DEF HasFields
<1> QED
  BY <1>8 DEF type, parts

LEMMA InsertLayerAdds ==
    Adds(insert_layer, 7, <<Integer(1), NetString, NetString, Signed(2), Signed(2), Integer(2), Integer(2)>>, <<2, 3>>)
<1> DEFINE parts == <<Integer(1), NetString, NetString, Signed(2), Signed(2), Integer(2), Integer(2)>>
           reads == <<"is_media", "name", "filename", "x", "y", "width", "z">>
           objects == <<"name", "filename">>
           o == <<2, 3>>
           type == insert_layer
<1>1. type.objects = objects /\ type.reads = reads /\ type.fixed = 9
  BY DEF insert_layer, Format
<1>2. DOMAIN objects = 1 .. 2 /\ DOMAIN o = 1 .. 2
  OBVIOUS
<1>3. \A j \in 1 .. 2 : j = 1 \/ j = 2
  OBVIOUS
<1>4. /\ o[1] = 2 /\ objects[1] = reads[2]
      /\ o[2] = 3 /\ objects[2] = reads[3]
  OBVIOUS
<1>5. \A j \in DOMAIN o : o[j] \in 1 .. 7 /\ objects[j] = reads[o[j]]
  <2> HIDE DEF o, objects, reads
  <2> QED
    BY <1>2, <1>3, <1>4
<1>6. /\ parts[1].kind \in {"integer", "signed", "bytes"} /\ parts[1].size = 1
      /\ parts[4].kind \in {"integer", "signed", "bytes"} /\ parts[4].size = 2
      /\ parts[5].kind \in {"integer", "signed", "bytes"} /\ parts[5].size = 2
      /\ parts[6].kind \in {"integer", "signed", "bytes"} /\ parts[6].size = 2
      /\ parts[7].kind \in {"integer", "signed", "bytes"} /\ parts[7].size = 2
  BY DEF Integer, Signed, Floating, Key
<1> HIDE DEF parts, reads, objects, o, type
<1>7. ASSUME NEW l, l \in [1 .. 7 -> Nat],
             \A i \in 1 .. 7 : parts[i].kind \in {"integer", "signed", "bytes"} => l[i] = parts[i].size
      PROVE  Total(l) = 9 + Total([j \in DOMAIN o |-> l[o[j]]])
  <2> DEFINE s == [j \in DOMAIN o |-> l[o[j]]]
  <2>1. s = [j \in 1 .. 2 |-> l[o[j]]]
    BY <1>2
  <2>2. s \in [1 .. 2 -> Nat]
    BY <1>2, <1>5, <1>7
  <2>3. s[1] = l[2] /\ s[2] = l[3]
    BY <1>2, <1>3, <1>4
  <2> HIDE DEF s
  <2>4. Total(s) = s[1] + s[2]
    <3>1. 2 \in Nat
      OBVIOUS
    <3> QED
      BY ONLY <2>2, <3>1, TotalOfFew
  <2>5. Total(l) = l[1] + l[2] + l[3] + l[4] + l[5] + l[6] + l[7]
    <3>1. 7 \in Nat /\ l \in [1 .. 7 -> Nat]
      BY <1>7
    <3> QED
      BY ONLY <3>1, TotalOfFew
  <2>6. l[1] = 1 /\ l[4] = 2 /\ l[5] = 2 /\ l[6] = 2 /\ l[7] = 2
    BY <1>6, <1>7
  <2>7. l[1] \in Nat /\ l[2] \in Nat /\ l[3] \in Nat /\ l[4] \in Nat /\ l[5] \in Nat /\ l[6] \in Nat /\ l[7] \in Nat
    BY <1>7
  <2>8. Total(l) = 9 + Total(s)
    BY ONLY <2>4, <2>5, <2>3, <2>6, <2>7
  <2> QED
    BY <2>8 DEF s
<1>8. Adds(type, 7, parts, o)
  BY <1>1, <1>2, <1>5, <1>7 DEF Adds
<1> QED
  BY <1>8 DEF type, parts, o

LEMMA RemoveLayerHas ==
    HasFields(remove_layer, 1, <<NetString>>)
<1> DEFINE parts == <<NetString>>
           reads == <<"name">>
           fields == <<<<"name", NetString>>>>
           type == remove_layer
<1>1. type.kind = "struct" /\ type.fields = fields /\ type.reads = reads
  BY DEF remove_layer, Format
<1>2. DOMAIN fields = 1 .. 1 /\ DOMAIN reads = 1 .. 1 /\ Len(reads) = 1 /\ 1 \in Nat
  OBVIOUS
<1>3. \A i \in 1 .. 1 : i = 1
  OBVIOUS
<1>4. /\ fields[1][1] = reads[1] /\ fields[1][2] = parts[1] /\ reads[1] = "name"
  OBVIOUS
<1>6. \A i \in 1 .. 1 : fields[i][1] = reads[i] /\ fields[i][2] = parts[i]
  <2> HIDE DEF fields, reads, parts
  <2> QED
    BY <1>3, <1>4
<1>7. \A i, j \in 1 .. 1 : reads[i] = reads[j] => i = j
  <2> HIDE DEF fields, reads, parts
  <2> QED
    BY <1>3, <1>4
<1> HIDE DEF fields, reads, parts, type
<1>8. HasFields(type, 1, parts)
  BY <1>1, <1>2, <1>6, <1>7 DEF HasFields
<1> QED
  BY <1>8 DEF type, parts

LEMMA RemoveLayerAdds ==
    Adds(remove_layer, 1, <<NetString>>, <<1>>)
<1> DEFINE parts == <<NetString>>
           reads == <<"name">>
           objects == <<"name">>
           o == <<1>>
           type == remove_layer
<1>1. type.objects = objects /\ type.reads = reads /\ type.fixed = 0
  BY DEF remove_layer, Format
<1>2. DOMAIN objects = 1 .. 1 /\ DOMAIN o = 1 .. 1
  OBVIOUS
<1>3. \A j \in 1 .. 1 : j = 1
  OBVIOUS
<1>4. /\ o[1] = 1 /\ objects[1] = reads[1]
  OBVIOUS
<1>5. \A j \in DOMAIN o : o[j] \in 1 .. 1 /\ objects[j] = reads[o[j]]
  <2> HIDE DEF o, objects, reads
  <2> QED
    BY <1>2, <1>3, <1>4
<1> HIDE DEF parts, reads, objects, o, type
<1>7. ASSUME NEW l, l \in [1 .. 1 -> Nat],
             \A i \in 1 .. 1 : parts[i].kind \in {"integer", "signed", "bytes"} => l[i] = parts[i].size
      PROVE  Total(l) = 0 + Total([j \in DOMAIN o |-> l[o[j]]])
  <2> DEFINE s == [j \in DOMAIN o |-> l[o[j]]]
  <2>1. s = [j \in 1 .. 1 |-> l[o[j]]]
    BY <1>2
  <2>2. s \in [1 .. 1 -> Nat]
    BY <1>2, <1>5, <1>7
  <2>3. s[1] = l[1]
    BY <1>2, <1>3, <1>4
  <2> HIDE DEF s
  <2>4. Total(s) = s[1]
    <3>1. 1 \in Nat
      OBVIOUS
    <3> QED
      BY ONLY <2>2, <3>1, TotalOfFew
  <2>5. Total(l) = l[1]
    <3>1. 1 \in Nat /\ l \in [1 .. 1 -> Nat]
      BY <1>7
    <3> QED
      BY ONLY <3>1, TotalOfFew
  <2>7. l[1] \in Nat
    BY <1>7
  <2>8. Total(l) = 0 + Total(s)
    BY ONLY <2>4, <2>5, <2>3, <2>7
  <2> QED
    BY <2>8 DEF s
<1>8. Adds(type, 1, parts, o)
  BY <1>1, <1>2, <1>5, <1>7 DEF Adds
<1> QED
  BY <1>8 DEF type, parts, o

LEMMA SceneUpdateHas ==
    HasFields(atomic_scene_update, 2, <<NetArray(remove_layer, Byte - 1), NetArray(insert_layer, Byte - 1)>>)
<1> DEFINE parts == <<NetArray(remove_layer, Byte - 1), NetArray(insert_layer, Byte - 1)>>
           reads == <<"removals", "insertions">>
           fields == <<<<"removals", NetArray(remove_layer, Byte - 1)>>, <<"insertions", NetArray(insert_layer, Byte - 1)>>>>
           type == atomic_scene_update
<1>1. type.kind = "struct" /\ type.fields = fields /\ type.reads = reads
  BY DEF atomic_scene_update, Format
<1>2. DOMAIN fields = 1 .. 2 /\ DOMAIN reads = 1 .. 2 /\ Len(reads) = 2 /\ 2 \in Nat
  OBVIOUS
<1>3. \A i \in 1 .. 2 : i = 1 \/ i = 2
  OBVIOUS
<1>4. /\ fields[1][1] = reads[1] /\ fields[1][2] = parts[1] /\ reads[1] = "removals"
      /\ fields[2][1] = reads[2] /\ fields[2][2] = parts[2] /\ reads[2] = "insertions"
  OBVIOUS
<1>6. \A i \in 1 .. 2 : fields[i][1] = reads[i] /\ fields[i][2] = parts[i]
  <2> HIDE DEF fields, reads, parts
  <2> QED
    BY <1>3, <1>4
<1>7. \A i, j \in 1 .. 2 : reads[i] = reads[j] => i = j
  <2> HIDE DEF fields, reads, parts
  <2> QED
    BY <1>3, <1>4
<1> HIDE DEF fields, reads, parts, type
<1>8. HasFields(type, 2, parts)
  BY <1>1, <1>2, <1>6, <1>7 DEF HasFields
<1> QED
  BY <1>8 DEF type, parts

LEMMA SceneUpdateAdds ==
    Adds(atomic_scene_update, 2, <<NetArray(remove_layer, Byte - 1), NetArray(insert_layer, Byte - 1)>>, <<1, 2>>)
<1> DEFINE parts == <<NetArray(remove_layer, Byte - 1), NetArray(insert_layer, Byte - 1)>>
           reads == <<"removals", "insertions">>
           objects == <<"removals", "insertions">>
           o == <<1, 2>>
           type == atomic_scene_update
<1>1. type.objects = objects /\ type.reads = reads /\ type.fixed = 0
  BY DEF atomic_scene_update, Format
<1>2. DOMAIN objects = 1 .. 2 /\ DOMAIN o = 1 .. 2
  OBVIOUS
<1>3. \A j \in 1 .. 2 : j = 1 \/ j = 2
  OBVIOUS
<1>4. /\ o[1] = 1 /\ objects[1] = reads[1]
      /\ o[2] = 2 /\ objects[2] = reads[2]
  OBVIOUS
<1>5. \A j \in DOMAIN o : o[j] \in 1 .. 2 /\ objects[j] = reads[o[j]]
  <2> HIDE DEF o, objects, reads
  <2> QED
    BY <1>2, <1>3, <1>4
<1> HIDE DEF parts, reads, objects, o, type
<1>7. ASSUME NEW l, l \in [1 .. 2 -> Nat],
             \A i \in 1 .. 2 : parts[i].kind \in {"integer", "signed", "bytes"} => l[i] = parts[i].size
      PROVE  Total(l) = 0 + Total([j \in DOMAIN o |-> l[o[j]]])
  <2> DEFINE s == [j \in DOMAIN o |-> l[o[j]]]
  <2>1. s = [j \in 1 .. 2 |-> l[o[j]]]
    BY <1>2
  <2>2. s \in [1 .. 2 -> Nat]
    BY <1>2, <1>5, <1>7
  <2>3. s[1] = l[1] /\ s[2] = l[2]
    BY <1>2, <1>3, <1>4
  <2> HIDE DEF s
  <2>4. Total(s) = s[1] + s[2]
    <3>1. 2 \in Nat
      OBVIOUS
    <3> QED
      BY ONLY <2>2, <3>1, TotalOfFew
  <2>5. Total(l) = l[1] + l[2]
    <3>1. 2 \in Nat /\ l \in [1 .. 2 -> Nat]
      BY <1>7
    <3> QED
      BY ONLY <3>1, TotalOfFew
  <2>7. l[1] \in Nat /\ l[2] \in Nat
    BY <1>7
  <2>8. Total(l) = 0 + Total(s)
    BY ONLY <2>4, <2>5, <2>3, <2>7
  <2> QED
    BY <2>8 DEF s
<1>8. Adds(type, 2, parts, o)
  BY <1>1, <1>2, <1>5, <1>7 DEF Adds
<1> QED
  BY <1>8 DEF type, parts, o

LEMMA PacketHas ==
    ASSUME NEW frame
    PROVE  HasFields(Packet(frame), 5, <<Integer(4), NetArray(frame, FramesPerPacket), Integer(4), NetArray(Integer(4), Byte - 2), NetString>>)
<1> DEFINE parts == <<Integer(4), NetArray(frame, FramesPerPacket), Integer(4), NetArray(Integer(4), Byte - 2), NetString>>
           reads == <<"sequence_number", "frames", "next_frame_needed", "packets_received", "unreliable_data">>
           fields == <<<<"sequence_number", Integer(4)>>, <<"frames", NetArray(frame, FramesPerPacket)>>, <<"next_frame_needed", Integer(4)>>, <<"packets_received", NetArray(Integer(4), Byte - 2)>>, <<"unreliable_data", NetString>>>>
           type == Packet(frame)
<1>1. type.kind = "struct" /\ type.fields = fields /\ type.reads = reads
  BY DEF Packet, Format
<1>2. DOMAIN fields = 1 .. 5 /\ DOMAIN reads = 1 .. 5 /\ Len(reads) = 5 /\ 5 \in Nat
  OBVIOUS
<1>3. \A i \in 1 .. 5 : i = 1 \/ i = 2 \/ i = 3 \/ i = 4 \/ i = 5
  OBVIOUS
<1>4. /\ fields[1][1] = reads[1] /\ fields[1][2] = parts[1] /\ reads[1] = "sequence_number"
      /\ fields[2][1] = reads[2] /\ fields[2][2] = parts[2] /\ reads[2] = "frames"
      /\ fields[3][1] = reads[3] /\ fields[3][2] = parts[3] /\ reads[3] = "next_frame_needed"
      /\ fields[4][1] = reads[4] /\ fields[4][2] = parts[4] /\ reads[4] = "packets_received"
      /\ fields[5][1] = reads[5] /\ fields[5][2] = parts[5] /\ reads[5] = "unreliable_data"
  OBVIOUS
<1>6. \A i \in 1 .. 5 : fields[i][1] = reads[i] /\ fields[i][2] = parts[i]
  <2> HIDE DEF fields, reads, parts
  <2> QED
    BY <1>3, <1>4
<1>7. \A i, j \in 1 .. 5 : reads[i] = reads[j] => i = j
  <2> HIDE DEF fields, reads, parts
  <2> QED
    BY <1>3, <1>4
<1> HIDE DEF fields, reads, parts, type
<1>8. HasFields(type, 5, parts)
  BY <1>1, <1>2, <1>6, <1>7 DEF HasFields
<1> QED
  BY <1>8 DEF type, parts

LEMMA PacketAdds ==
    ASSUME NEW frame
    PROVE  Adds(Packet(frame), 5, <<Integer(4), NetArray(frame, FramesPerPacket), Integer(4), NetArray(Integer(4), Byte - 2), NetString>>, <<2, 4, 5>>)
<1> DEFINE parts == <<Integer(4), NetArray(frame, FramesPerPacket), Integer(4), NetArray(Integer(4), Byte - 2), NetString>>
           reads == <<"sequence_number", "frames", "next_frame_needed", "packets_received", "unreliable_data">>
           objects == <<"frames", "packets_received", "unreliable_data">>
           o == <<2, 4, 5>>
           type == Packet(frame)
<1>1. type.objects = objects /\ type.reads = reads /\ type.fixed = 8
  BY DEF Packet, Format
<1>2. DOMAIN objects = 1 .. 3 /\ DOMAIN o = 1 .. 3
  OBVIOUS
<1>3. \A j \in 1 .. 3 : j = 1 \/ j = 2 \/ j = 3
  OBVIOUS
<1>4. /\ o[1] = 2 /\ objects[1] = reads[2]
      /\ o[2] = 4 /\ objects[2] = reads[4]
      /\ o[3] = 5 /\ objects[3] = reads[5]
  OBVIOUS
<1>5. \A j \in DOMAIN o : o[j] \in 1 .. 5 /\ objects[j] = reads[o[j]]
  <2> HIDE DEF o, objects, reads
  <2> QED
    BY <1>2, <1>3, <1>4
<1>6. /\ parts[1].kind \in {"integer", "signed", "bytes"} /\ parts[1].size = 4
      /\ parts[3].kind \in {"integer", "signed", "bytes"} /\ parts[3].size = 4
  BY DEF Integer, Signed, Floating, Key
<1> HIDE DEF parts, reads, objects, o, type
<1>7. ASSUME NEW l, l \in [1 .. 5 -> Nat],
             \A i \in 1 .. 5 : parts[i].kind \in {"integer", "signed", "bytes"} => l[i] = parts[i].size
      PROVE  Total(l) = 8 + Total([j \in DOMAIN o |-> l[o[j]]])
  <2> DEFINE s == [j \in DOMAIN o |-> l[o[j]]]
  <2>1. s = [j \in 1 .. 3 |-> l[o[j]]]
    BY <1>2
  <2>2. s \in [1 .. 3 -> Nat]
    BY <1>2, <1>5, <1>7
  <2>3. s[1] = l[2] /\ s[2] = l[4] /\ s[3] = l[5]
    BY <1>2, <1>3, <1>4
  <2> HIDE DEF s
  <2>4. Total(s) = s[1] + s[2] + s[3]
    <3>1. 3 \in Nat
      OBVIOUS
    <3> QED
      BY ONLY <2>2, <3>1, TotalOfFew
  <2>5. Total(l) = l[1] + l[2] + l[3] + l[4] + l[5]
    <3>1. 5 \in Nat /\ l \in [1 .. 5 -> Nat]
      BY <1>7
    <3> QED
      BY ONLY <3>1, TotalOfFew
  <2>6. l[1] = 4 /\ l[3] = 4
    BY <1>6, <1>7
  <2>7. l[1] \in Nat /\ l[2] \in Nat /\ l[3] \in Nat /\ l[4] \in Nat /\ l[5] \in Nat
    BY <1>7
  <2>8. Total(l) = 8 + Total(s)
    BY ONLY <2>4, <2>5, <2>3, <2>6, <2>7
  <2> QED
    BY <2>8 DEF s
<1>8. Adds(type, 5, parts, o)
  BY <1>1, <1>2, <1>5, <1>7 DEF Adds
<1> QED
  BY <1>8 DEF type, parts, o

LEMMA KeyPairHas ==
    HasFields(KeyPair, 2, <<Key, Key>>)
<1> DEFINE parts == <<Key, Key>>
           reads == <<"downlink", "uplink">>
           fields == <<<<"downlink", Key>>, <<"uplink", Key>>>>
           type == KeyPair
<1>1. type.kind = "struct" /\ type.fields = fields /\ type.reads = reads
  BY DEF KeyPair, Format
<1>2. DOMAIN fields = 1 .. 2 /\ DOMAIN reads = 1 .. 2 /\ Len(reads) = 2 /\ 2 \in Nat
  OBVIOUS
<1>3. \A i \in 1 .. 2 : i = 1 \/ i = 2
  OBVIOUS
<1>4. /\ fields[1][1] = reads[1] /\ fields[1][2] = parts[1] /\ reads[1] = "downlink"
      /\ fields[2][1] = reads[2] /\ fields[2][2] = parts[2] /\ reads[2] = "uplink"
  OBVIOUS
<1>6. \A i \in 1 .. 2 : fields[i][1] = reads[i] /\ fields[i][2] = parts[i]
  <2> HIDE DEF fields, reads, parts
  <2> QED
    BY <1>3, <1>4
<1>7. \A i, j \in 1 .. 2 : reads[i] = reads[j] => i = j
  <2> HIDE DEF fields, reads, parts
  <2> QED
    BY <1>3, <1>4
<1> HIDE DEF fields, reads, parts, type
<1>8. HasFields(type, 2, parts)
  BY <1>1, <1>2, <1>6, <1>7 DEF HasFields
<1> QED
  BY <1>8 DEF type, parts

LEMMA KeyPairAdds ==
    Adds(KeyPair, 2, <<Key, Key>>, <<>>)
<1> DEFINE parts == <<Key, Key>>
           reads == <<"downlink", "uplink">>
           objects == <<>>
           o == <<>>
           type == KeyPair
<1>1. type.objects = objects /\ type.reads = reads /\ type.fixed = 4
  BY DEF KeyPair, Format, Key
<1>2. DOMAIN objects = 1 .. 0 /\ DOMAIN o = 1 .. 0
  OBVIOUS
<1>5. \A j \in DOMAIN o : o[j] \in 1 .. 2 /\ objects[j] = reads[o[j]]
  BY <1>2
<1>6. /\ parts[1].kind \in {"integer", "signed", "bytes"} /\ parts[1].size = 2
      /\ parts[2].kind \in {"integer", "signed", "bytes"} /\ parts[2].size = 2
  BY DEF Integer, Signed, Floating, Key
<1> HIDE DEF parts, reads, objects, o, type
<1>7. ASSUME NEW l, l \in [1 .. 2 -> Nat],
             \A i \in 1 .. 2 : parts[i].kind \in {"integer", "signed", "bytes"} => l[i] = parts[i].size
      PROVE  Total(l) = 4 + Total([j \in DOMAIN o |-> l[o[j]]])
  <2> DEFINE s == [j \in DOMAIN o |-> l[o[j]]]
  <2>1. s = [j \in 1 .. 0 |-> l[o[j]]]
    BY <1>2
  <2>2. s \in [1 .. 0 -> Nat]
    BY <1>2, <1>5, <1>7
  <2> HIDE DEF s
  <2>4. Total(s) = 0
    <3>1. 0 \in Nat
      OBVIOUS
    <3> QED
      BY ONLY <2>2, <3>1, TotalOfFew
  <2>5. Total(l) = l[1] + l[2]
    <3>1. 2 \in Nat /\ l \in [1 .. 2 -> Nat]
      BY <1>7
    <3> QED
      BY ONLY <3>1, TotalOfFew
  <2>6. l[1] = 2 /\ l[2] = 2
    BY <1>6, <1>7
  <2>7. l[1] \in Nat /\ l[2] \in Nat
    BY <1>7
  <2>8. Total(l) = 4 + Total(s)
    BY ONLY <2>4, <2>5, <2>6, <2>7
  <2> QED
    BY <2>8 DEF s
<1>8. Adds(type, 2, parts, o)
  BY <1>1, <1>2, <1>5, <1>7 DEF Adds
<1> QED
  BY <1>8 DEF type, parts, o

LEMMA KeyMessageHas ==
    HasFields(KeyMessage, 2, <<Integer(1), KeyPair>>)
<1> DEFINE parts == <<Integer(1), KeyPair>>
           reads == <<"id", "key_pair">>
           fields == <<<<"id", Integer(1)>>, <<"key_pair", KeyPair>>>>
           type == KeyMessage
<1>1. type.kind = "struct" /\ type.fields = fields /\ type.reads = reads
  BY DEF KeyMessage, Format
<1>2. DOMAIN fields = 1 .. 2 /\ DOMAIN reads = 1 .. 2 /\ Len(reads) = 2 /\ 2 \in Nat
  OBVIOUS
<1>3. \A i \in 1 .. 2 : i = 1 \/ i = 2
  OBVIOUS
<1>4. /\ fields[1][1] = reads[1] /\ fields[1][2] = parts[1] /\ reads[1] = "id"
      /\ fields[2][1] = reads[2] /\ fields[2][2] = parts[2] /\ reads[2] = "key_pair"
  OBVIOUS
<1>6. \A i \in 1 .. 2 : fields[i][1] = reads[i] /\ fields[i][2] = parts[i]
  <2> HIDE DEF fields, reads, parts
  <2> QED
    BY <1>3, <1>4
<1>7. \A i, j \in 1 .. 2 : reads[i] = reads[j] => i = j
  <2> HIDE DEF fields, reads, parts
  <2> QED
    BY <1>3, <1>4
<1> HIDE DEF fields, reads, parts, type
<1>8. HasFields(type, 2, parts)
  BY <1>1, <1>2, <1>6, <1>7 DEF HasFields
<1> QED
  BY <1>8 DEF type, parts

LEMMA KeyMessageAdds ==
    Adds(KeyMessage, 2, <<Integer(1), KeyPair>>, <<2>>)
<1> DEFINE parts == <<Integer(1), KeyPair>>
           reads == <<"id", "key_pair">>
           objects == <<"key_pair">>
           o == <<2>>
           type == KeyMessage
<1>1. type.objects = objects /\ type.reads = reads /\ type.fixed = 1
  BY DEF KeyMessage, Format
<1>2. DOMAIN objects = 1 .. 1 /\ DOMAIN o = 1 .. 1
  OBVIOUS
<1>3. \A j \in 1 .. 1 : j = 1
  OBVIOUS
<1>4. /\ o[1] = 2 /\ objects[1] = reads[2]
  OBVIOUS
<1>5. \A j \in DOMAIN o : o[j] \in 1 .. 2 /\ objects[j] = reads[o[j]]
  <2> HIDE DEF o, objects, reads
  <2> QED
    BY <1>2, <1>3, <1>4
<1>6. /\ parts[1].kind \in {"integer", "signed", "bytes"} /\ parts[1].size = 1
  BY DEF Integer, Signed, Floating, Key
<1> HIDE DEF parts, reads, objects, o, type
<1>7. ASSUME NEW l, l \in [1 .. 2 -> Nat],
             \A i \in 1 .. 2 : parts[i].kind \in {"integer", "signed", "bytes"} => l[i] = parts[i].size
      PROVE  Total(l) = 1 + Total([j \in DOMAIN o |-> l[o[j]]])
  <2> DEFINE s == [j \in DOMAIN o |-> l[o[j]]]
  <2>1. s = [j \in 1 .. 1 |-> l[o[j]]]
    BY <1>2
  <2>2. s \in [1 .. 1 -> Nat]
    BY <1>2, <1>5, <1>7
  <2>3. s[1] = l[2]
    BY <1>2, <1>3, <1>4
  <2> HIDE DEF s
  <2>4. Total(s) = s[1]
    <3>1. 1 \in Nat
      OBVIOUS
    <3> QED
      BY ONLY <2>2, <3>1, TotalOfFew
  <2>5. Total(l) = l[1] + l[2]
    <3>1. 2 \in Nat /\ l \in [1 .. 2 -> Nat]
      BY <1>7
    <3> QED
      BY ONLY <3>1, TotalOfFew
  <2>6. l[1] = 1
    BY <1>6, <1>7
  <2>7. l[1] \in Nat /\ l[2] \in Nat
    BY <1>7
  <2>8. Total(l) = 1 + Total(s)
    BY ONLY <2>4, <2>5, <2>3, <2>6, <2>7
  <2> QED
    BY <2>8 DEF s
<1>8. Adds(type, 2, parts, o)
  BY <1>1, <1>2, <1>5, <1>7 DEF Adds
<1> QED
  BY <1>8 DEF type, parts, o

LEMMA LongLivedKeyHas ==
    HasFields(LongLivedKey, 2, <<KeyPair, NetString>>)
<1> DEFINE parts == <<KeyPair, NetString>>
           reads == <<"key_pair", "name">>
           fields == <<<<"key_pair", KeyPair>>, <<"name", NetString>>>>
           type == LongLivedKey
<1>1. type.kind = "struct" /\ type.fields = fields /\ type.reads = reads
  BY DEF LongLivedKey, Format
<1>2. DOMAIN fields = 1 .. 2 /\ DOMAIN reads = 1 .. 2 /\ Len(reads) = 2 /\ 2 \in Nat
  OBVIOUS
<1>3. \A i \in 1 .. 2 : i = 1 \/ i = 2
  OBVIOUS
<1>4. /\ fields[1][1] = reads[1] /\ fields[1][2] = parts[1] /\ reads[1] = "key_pair"
      /\ fields[2][1] = reads[2] /\ fields[2][2] = parts[2] /\ reads[2] = "name"
  OBVIOUS
<1>6. \A i \in 1 .. 2 : fields[i][1] = reads[i] /\ fields[i][2] = parts[i]
  <2> HIDE DEF fields, reads, parts
  <2> QED
    BY <1>3, <1>4
<1>7. \A i, j \in 1 .. 2 : reads[i] = reads[j] => i = j
  <2> HIDE DEF fields, reads, parts
  <2> QED
    BY <1>3, <1>4
<1> HIDE DEF fields, reads, parts, type
<1>8. HasFields(type, 2, parts)
  BY <1>1, <1>2, <1>6, <1>7 DEF HasFields
<1> QED
  BY <1>8 DEF type, parts

LEMMA LongLivedKeyAdds ==
    Adds(LongLivedKey, 2, <<KeyPair, NetString>>, <<1, 2>>)
<1> DEFINE parts == <<KeyPair, NetString>>
           reads == <<"key_pair", "name">>
           objects == <<"key_pair", "name">>
           o == <<1, 2>>
           type == LongLivedKey
<1>1. type.objects = objects /\ type.reads = reads /\ type.fixed = 0
  BY DEF LongLivedKey, Format
<1>2. DOMAIN objects = 1 .. 2 /\ DOMAIN o = 1 .. 2
  OBVIOUS
<1>3. \A j \in 1 .. 2 : j = 1 \/ j = 2
  OBVIOUS
<1>4. /\ o[1] = 1 /\ objects[1] = reads[1]
      /\ o[2] = 2 /\ objects[2] = reads[2]
  OBVIOUS
<1>5. \A j \in DOMAIN o : o[j] \in 1 .. 2 /\ objects[j] = reads[o[j]]
  <2> HIDE DEF o, objects, reads
  <2> QED
    BY <1>2, <1>3, <1>4
<1> HIDE DEF parts, reads, objects, o, type
<1>7. ASSUME NEW l, l \in [1 .. 2 -> Nat],
             \A i \in 1 .. 2 : parts[i].kind \in {"integer", "signed", "bytes"} => l[i] = parts[i].size
      PROVE  Total(l) = 0 + Total([j \in DOMAIN o |-> l[o[j]]])
  <2> DEFINE s == [j \in DOMAIN o |-> l[o[j]]]
  <2>1. s = [j \in 1 .. 2 |-> l[o[j]]]
    BY <1>2
  <2>2. s \in [1 .. 2 -> Nat]
    BY <1>2, <1>5, <1>7
  <2>3. s[1] = l[1] /\ s[2] = l[2]
    BY <1>2, <1>3, <1>4
  <2> HIDE DEF s
  <2>4. Total(s) = s[1] + s[2]
    <3>1. 2 \in Nat
      OBVIOUS
    <3> QED
      BY ONLY <2>2, <3>1, TotalOfFew
  <2>5. Total(l) = l[1] + l[2]
    <3>1. 2 \in Nat /\ l \in [1 .. 2 -> Nat]
      BY <1>7
    <3> QED
      BY ONLY <3>1, TotalOfFew
  <2>7. l[1] \in Nat /\ l[2] \in Nat
    BY <1>7
  <2>8. Total(l) = 0 + Total(s)
    BY ONLY <2>4, <2>5, <2>3, <2>7
  <2> QED
    BY <2>8 DEF s
<1>8. Adds(type, 2, parts, o)
  BY <1>1, <1>2, <1>5, <1>7 DEF Adds
<1> QED
  BY <1>8 DEF type, parts, o

LEMMA OpusFrameHas ==
    ASSUME NEW name
    PROVE  HasFields(opus_frame(name), 1, <<Buffer(OpusCapacity, 1)>>)
<1> DEFINE parts == <<Buffer(OpusCapacity, 1)>>
           reads == <<name>>
           fields == <<<<name, Buffer(OpusCapacity, 1)>>>>
           type == opus_frame(name)
<1>1. type.kind = "struct" /\ type.fields = fields /\ type.reads = reads
  BY DEF opus_frame, Format
<1>2. DOMAIN fields = 1 .. 1 /\ DOMAIN reads = 1 .. 1 /\ Len(reads) = 1 /\ 1 \in Nat
  OBVIOUS
<1>3. \A i \in 1 .. 1 : i = 1
  OBVIOUS
<1>4. /\ fields[1][1] = reads[1] /\ fields[1][2] = parts[1] /\ reads[1] = name
  OBVIOUS
<1>6. \A i \in 1 .. 1 : fields[i][1] = reads[i] /\ fields[i][2] = parts[i]
  <2> HIDE DEF fields, reads, parts
  <2> QED
    BY <1>3, <1>4
<1>7. \A i, j \in 1 .. 1 : reads[i] = reads[j] => i = j
  <2> HIDE DEF fields, reads, parts
  <2> QED
    BY <1>3, <1>4
<1> HIDE DEF fields, reads, parts, type
<1>8. HasFields(type, 1, parts)
  BY <1>1, <1>2, <1>6, <1>7 DEF HasFields
<1> QED
  BY <1>8 DEF type, parts

LEMMA OpusFrameAdds ==
    ASSUME NEW name
    PROVE  Adds(opus_frame(name), 1, <<Buffer(OpusCapacity, 1)>>, <<1>>)
<1> DEFINE parts == <<Buffer(OpusCapacity, 1)>>
           reads == <<name>>
           objects == <<name>>
           o == <<1>>
           type == opus_frame(name)
<1>1. type.objects = objects /\ type.reads = reads /\ type.fixed = 0
  BY DEF opus_frame, Format
<1>2. DOMAIN objects = 1 .. 1 /\ DOMAIN o = 1 .. 1
  OBVIOUS
<1>3. \A j \in 1 .. 1 : j = 1
  OBVIOUS
<1>4. /\ o[1] = 1 /\ objects[1] = reads[1]
  OBVIOUS
<1>5. \A j \in DOMAIN o : o[j] \in 1 .. 1 /\ objects[j] = reads[o[j]]
  <2> HIDE DEF o, objects, reads
  <2> QED
    BY <1>2, <1>3, <1>4
<1> HIDE DEF parts, reads, objects, o, type
<1>7. ASSUME NEW l, l \in [1 .. 1 -> Nat],
             \A i \in 1 .. 1 : parts[i].kind \in {"integer", "signed", "bytes"} => l[i] = parts[i].size
      PROVE  Total(l) = 0 + Total([j \in DOMAIN o |-> l[o[j]]])
  <2> DEFINE s == [j \in DOMAIN o |-> l[o[j]]]
  <2>1. s = [j \in 1 .. 1 |-> l[o[j]]]
    BY <1>2
  <2>2. s \in [1 .. 1 -> Nat]
    BY <1>2, <1>5, <1>7
  <2>3. s[1] = l[1]
    BY <1>2, <1>3, <1>4
  <2> HIDE DEF s
  <2>4. Total(s) = s[1]
    <3>1. 1 \in Nat
      OBVIOUS
    <3> QED
      BY ONLY <2>2, <3>1, TotalOfFew
  <2>5. Total(l) = l[1]
    <3>1. 1 \in Nat /\ l \in [1 .. 1 -> Nat]
      BY <1>7
    <3> QED
      BY ONLY <3>1, TotalOfFew
  <2>7. l[1] \in Nat
    BY <1>7
  <2>8. Total(l) = 0 + Total(s)
    BY ONLY <2>4, <2>5, <2>3, <2>7
  <2> QED
    BY <2>8 DEF s
<1>8. Adds(type, 1, parts, o)
  BY <1>1, <1>2, <1>5, <1>7 DEF Adds
<1> QED
  BY <1>8 DEF type, parts, o

LEMMA ChunkHas ==
    HasFields(ChunkFormat, 2, <<Integer(4), Buffer(Byte + 1, 2)>>)
<1> DEFINE parts == <<Integer(4), Buffer(Byte + 1, 2)>>
           reads == <<"nal_index", "data">>
           fields == <<<<"nal_index", Integer(4)>>, <<"data", Buffer(Byte + 1, 2)>>>>
           type == ChunkFormat
<1>1. type.kind = "struct" /\ type.fields = fields /\ type.reads = reads
  BY DEF ChunkFormat, Format
<1>2. DOMAIN fields = 1 .. 2 /\ DOMAIN reads = 1 .. 2 /\ Len(reads) = 2 /\ 2 \in Nat
  OBVIOUS
<1>3. \A i \in 1 .. 2 : i = 1 \/ i = 2
  OBVIOUS
<1>4. /\ fields[1][1] = reads[1] /\ fields[1][2] = parts[1] /\ reads[1] = "nal_index"
      /\ fields[2][1] = reads[2] /\ fields[2][2] = parts[2] /\ reads[2] = "data"
  OBVIOUS
<1>6. \A i \in 1 .. 2 : fields[i][1] = reads[i] /\ fields[i][2] = parts[i]
  <2> HIDE DEF fields, reads, parts
  <2> QED
    BY <1>3, <1>4
<1>7. \A i, j \in 1 .. 2 : reads[i] = reads[j] => i = j
  <2> HIDE DEF fields, reads, parts
  <2> QED
    BY <1>3, <1>4
<1> HIDE DEF fields, reads, parts, type
<1>8. HasFields(type, 2, parts)
  BY <1>1, <1>2, <1>6, <1>7 DEF HasFields
<1> QED
  BY <1>8 DEF type, parts

LEMMA ChunkAdds ==
    Adds(ChunkFormat, 2, <<Integer(4), Buffer(Byte + 1, 2)>>, <<2>>)
<1> DEFINE parts == <<Integer(4), Buffer(Byte + 1, 2)>>
           reads == <<"nal_index", "data">>
           objects == <<"data">>
           o == <<2>>
           type == ChunkFormat
<1>1. type.objects = objects /\ type.reads = reads /\ type.fixed = 4
  BY DEF ChunkFormat, Format
<1>2. DOMAIN objects = 1 .. 1 /\ DOMAIN o = 1 .. 1
  OBVIOUS
<1>3. \A j \in 1 .. 1 : j = 1
  OBVIOUS
<1>4. /\ o[1] = 2 /\ objects[1] = reads[2]
  OBVIOUS
<1>5. \A j \in DOMAIN o : o[j] \in 1 .. 2 /\ objects[j] = reads[o[j]]
  <2> HIDE DEF o, objects, reads
  <2> QED
    BY <1>2, <1>3, <1>4
<1>6. /\ parts[1].kind \in {"integer", "signed", "bytes"} /\ parts[1].size = 4
  BY DEF Integer, Signed, Floating, Key
<1> HIDE DEF parts, reads, objects, o, type
<1>7. ASSUME NEW l, l \in [1 .. 2 -> Nat],
             \A i \in 1 .. 2 : parts[i].kind \in {"integer", "signed", "bytes"} => l[i] = parts[i].size
      PROVE  Total(l) = 4 + Total([j \in DOMAIN o |-> l[o[j]]])
  <2> DEFINE s == [j \in DOMAIN o |-> l[o[j]]]
  <2>1. s = [j \in 1 .. 1 |-> l[o[j]]]
    BY <1>2
  <2>2. s \in [1 .. 1 -> Nat]
    BY <1>2, <1>5, <1>7
  <2>3. s[1] = l[2]
    BY <1>2, <1>3, <1>4
  <2> HIDE DEF s
  <2>4. Total(s) = s[1]
    <3>1. 1 \in Nat
      OBVIOUS
    <3> QED
      BY ONLY <2>2, <3>1, TotalOfFew
  <2>5. Total(l) = l[1] + l[2]
    <3>1. 2 \in Nat /\ l \in [1 .. 2 -> Nat]
      BY <1>7
    <3> QED
      BY ONLY <3>1, TotalOfFew
  <2>6. l[1] = 4
    BY <1>6, <1>7
  <2>7. l[1] \in Nat /\ l[2] \in Nat
    BY <1>7
  <2>8. Total(l) = 4 + Total(s)
    BY ONLY <2>4, <2>5, <2>3, <2>6, <2>7
  <2> QED
    BY <2>8 DEF s
<1>8. Adds(type, 2, parts, o)
  BY <1>1, <1>2, <1>5, <1>7 DEF Adds
<1> QED
  BY <1>8 DEF type, parts, o

LEMMA NothingHas ==
    HasFields(NoFormat, 0, <<>>)
<1> DEFINE parts == <<>>
           reads == <<>>
           fields == <<>>
           type == NoFormat
<1>1. type.kind = "struct" /\ type.fields = fields /\ type.reads = reads
  BY DEF NoFormat, Format
<1>2. DOMAIN fields = 1 .. 0 /\ DOMAIN reads = 1 .. 0 /\ Len(reads) = 0 /\ 0 \in Nat
  OBVIOUS
<1>3. \A i \in 1 .. 0 : FALSE
  OBVIOUS
<1>6. \A i \in 1 .. 0 : fields[i][1] = reads[i] /\ fields[i][2] = parts[i]
  <2> HIDE DEF fields, reads, parts
  <2> QED
    BY <1>3
<1>7. \A i, j \in 1 .. 0 : reads[i] = reads[j] => i = j
  <2> HIDE DEF fields, reads, parts
  <2> QED
    BY <1>3
<1> HIDE DEF fields, reads, parts, type
<1>8. HasFields(type, 0, parts)
  BY <1>1, <1>2, <1>6, <1>7 DEF HasFields
<1> QED
  BY <1>8 DEF type, parts

LEMMA NothingAdds ==
    Adds(NoFormat, 0, <<>>, <<>>)
<1> DEFINE parts == <<>>
           reads == <<>>
           objects == <<>>
           o == <<>>
           type == NoFormat
<1>1. type.objects = objects /\ type.reads = reads /\ type.fixed = 0
  BY DEF NoFormat, Format
<1>2. DOMAIN objects = 1 .. 0 /\ DOMAIN o = 1 .. 0
  OBVIOUS
<1>5. \A j \in DOMAIN o : o[j] \in 1 .. 0 /\ objects[j] = reads[o[j]]
  BY <1>2
<1> HIDE DEF parts, reads, objects, o, type
<1>7. ASSUME NEW l, l \in [1 .. 0 -> Nat],
             \A i \in 1 .. 0 : parts[i].kind \in {"integer", "signed", "bytes"} => l[i] = parts[i].size
      PROVE  Total(l) = 0 + Total([j \in DOMAIN o |-> l[o[j]]])
  <2> DEFINE s == [j \in DOMAIN o |-> l[o[j]]]
  <2>1. s = [j \in 1 .. 0 |-> l[o[j]]]
    BY <1>2
  <2>2. s \in [1 .. 0 -> Nat]
    BY <1>2, <1>5, <1>7
  <2> HIDE DEF s
  <2>4. Total(s) = 0
    <3>1. 0 \in Nat
      OBVIOUS
    <3> QED
      BY ONLY <2>2, <3>1, TotalOfFew
  <2>5. Total(l) = 0
    <3>1. 0 \in Nat /\ l \in [1 .. 0 -> Nat]
      BY <1>7
    <3> QED
      BY ONLY <3>1, TotalOfFew
  <2>8. Total(l) = 0 + Total(s)
    BY ONLY <2>4, <2>5
  <2> QED
    BY <2>8 DEF s
<1>8. Adds(type, 0, parts, o)
  BY <1>1, <1>2, <1>5, <1>7 DEF Adds
<1> QED
  BY <1>8 DEF type, parts, o

------------------------------------------------------------------------------
(* And that its samples are read as they were.                             *)

LEMMA FlatTypes ==
    /\ \A size \in Nat \ {0} : IsFlat(Integer(size)) /\ IsFlat(Signed(size))
    /\ IsFlat(Floating) /\ IsFlat(Key) /\ IsFlat(NetString)
    /\ IsFlat(Buffer(OpusCapacity, 1)) /\ IsFlat(Buffer(Byte + 1, 2))
<1>1. \A size \in Nat \ {0} : IsFlat(Integer(size)) /\ IsFlat(Signed(size))
  BY DEF IsFlat
<1>2. IsFlat(Floating) /\ IsFlat(Key)
  <2>1. Floating = Bytes(4) /\ Key = Bytes(2) /\ 4 \in Nat \ {0} /\ 2 \in Nat \ {0}
    BY DEF Floating, Key, Bytes
  <2> QED
    BY <2>1 DEF IsFlat
<1>3. /\ Values(1) = Byte /\ Values(2) = Byte * Byte /\ Byte \in Nat /\ Byte >= 3
      /\ OpusCapacity \in 1 .. Byte - 2
  <2>1. 1 \in Nat \ {0}
    OBVIOUS
  <2> QED
    BY <2>1, ByteIs, ValuesAre
<1>4. Byte * Byte >= 3 * Byte
  BY <1>3
<1>5. IsFlat(NetString)
  <2>1. Byte - 1 \in Nat /\ Byte - 1 < Values(1) /\ 1 \in Nat \ {0}
    BY <1>3
  <2>2. NetString = Buffer(Byte - 1, 1)
    BY DEF NetString
  <2> QED
    BY <2>1, <2>2 DEF IsFlat
<1>6. IsFlat(Buffer(OpusCapacity, 1))
  <2>1. OpusCapacity \in Nat /\ OpusCapacity < Values(1) /\ 1 \in Nat \ {0}
    BY <1>3
  <2> QED
    BY <2>1 DEF IsFlat
<1>7. IsFlat(Buffer(Byte + 1, 2))
  <2>1. Byte + 1 \in Nat /\ Byte + 1 < Values(2) /\ 2 \in Nat \ {0}
    BY <1>3, <1>4
  <2> QED
    BY <2>1 DEF IsFlat
<1> QED
  BY <1>1, <1>2, <1>5, <1>6, <1>7

LEMMA OpusFrameFits ==
    ASSUME NEW name
    PROVE  Fits1(opus_frame(name))
<1> DEFINE parts == <<Buffer(OpusCapacity, 1)>>
           o == <<1>>
           type == opus_frame(name)
<1>1. Fits0(Buffer(OpusCapacity, 1))
  <2>1. IsFlat(Buffer(OpusCapacity, 1))
    BY FlatTypes
  <2> QED
    BY <2>1, FlatFits0
<1>2. \A i \in 1 .. 1 : i = 1
  OBVIOUS
<1>3. parts[1] = Buffer(OpusCapacity, 1)
  OBVIOUS
<1>4. HasFields(type, 1, parts) /\ Adds(type, 1, parts, o)
  BY OpusFrameHas, OpusFrameAdds
<1> HIDE DEF parts, o, type
<1>5. \A i \in 1 .. 1 : Fits0(parts[i])
  BY <1>1, <1>2, <1>3
<1>7. Fits1(type)
  BY <1>4, <1>5, StructFits1
<1> QED
  BY <1>7 DEF type

LEMMA ChunkFits ==
    Fits1(ChunkFormat)
<1> DEFINE parts == <<Integer(4), Buffer(Byte + 1, 2)>>
           o == <<2>>
           type == ChunkFormat
<1>1. Fits0(Integer(4))
  <2>1. IsFlat(Integer(4))
    <3>1. 4 \in Nat \ {0}
      OBVIOUS
    <3> QED
      BY <3>1, FlatTypes
  <2> QED
    BY <2>1, FlatFits0
<1>2. Fits0(Buffer(Byte + 1, 2))
  <2>1. IsFlat(Buffer(Byte + 1, 2))
    BY FlatTypes
  <2> QED
    BY <2>1, FlatFits0
<1>3. \A i \in 1 .. 2 : i = 1 \/ i = 2
  OBVIOUS
<1>4. parts[1] = Integer(4) /\ parts[2] = Buffer(Byte + 1, 2)
  OBVIOUS
<1>5. HasFields(type, 2, parts) /\ Adds(type, 2, parts, o)
  BY ChunkHas, ChunkAdds
<1> HIDE DEF parts, o, type
<1>6. \A i \in 1 .. 2 : Fits0(parts[i])
  BY <1>1, <1>2, <1>3, <1>4
<1>8. Fits1(type)
  BY <1>5, <1>6, StructFits1
<1> QED
  BY <1>8 DEF type

LEMMA NothingFits ==
    Fits1(NoFormat)
<1> DEFINE parts == <<>>
           o == <<>>
           type == NoFormat
<1>3. HasFields(type, 0, parts) /\ Adds(type, 0, parts, o)
  BY NothingHas, NothingAdds
<1> HIDE DEF parts, o, type
<1>4. \A i \in 1 .. 0 : Fits0(parts[i])
  OBVIOUS
<1>6. Fits1(type)
  BY <1>3, <1>4, StructFits1
<1> QED
  BY <1>6 DEF type

LEMMA FlaggedFit ==
    Fits2(AudioFrame) /\ Fits2(VideoChunk)
<1>1. Fits2(AudioFrame)
  <2>1. Fits1(opus_frame("frame1")) /\ Fits1(opus_frame("frame2"))
    BY OpusFrameFits
  <2>2. AudioFrame = Flagged(opus_frame("frame1"), opus_frame("frame2"))
    BY DEF AudioFrame
  <2> QED
    BY <2>1, <2>2, FlaggedFits2
<1>2. Fits2(VideoChunk)
  <2>1. VideoChunk = Flagged(ChunkFormat, NoFormat)
    BY DEF VideoChunk, ChunkFormat, NoFormat
  <2> QED
    BY <2>1, ChunkFits, NothingFits, FlaggedFits2
<1> QED
  BY <1>1, <1>2

LEMMA KeyPairFits ==
    Fits3(KeyPair)
<1> DEFINE parts == <<Key, Key>>
           o == <<>>
           type == KeyPair
<1>1. Fits2(Key)
  <2>1. IsFlat(Key)
    BY FlatTypes
  <2> QED
    BY <2>1, FlatFits2
<1>2. \A i \in 1 .. 2 : i = 1 \/ i = 2
  OBVIOUS
<1>3. parts[1] = Key /\ parts[2] = Key
  OBVIOUS
<1>4. HasFields(type, 2, parts) /\ Adds(type, 2, parts, o)
  BY KeyPairHas, KeyPairAdds
<1> HIDE DEF parts, o, type
<1>5. \A i \in 1 .. 2 : Fits2(parts[i])
  BY <1>1, <1>2, <1>3
<1>7. Fits3(type)
  BY <1>4, <1>5, StructFits3
<1> QED
  BY <1>7 DEF type

LEMMA InsertLayerFitsInside ==
    Fits2(insert_layer)
<1> DEFINE parts == <<Integer(1), NetString, NetString, Signed(2), Signed(2), Integer(2), Integer(2)>>
           o == <<2, 3>>
           type == insert_layer
<1>1. Fits1(Integer(1))
  <2>1. IsFlat(Integer(1))
    <3>1. 1 \in Nat \ {0}
      OBVIOUS
    <3> QED
      BY <3>1, FlatTypes
  <2> QED
    BY <2>1, FlatFits1
<1>2. Fits1(NetString)
  <2>1. IsFlat(NetString)
    BY FlatTypes
  <2> QED
    BY <2>1, FlatFits1
<1>3. Fits1(Signed(2))
  <2>1. IsFlat(Signed(2))
    <3>1. 2 \in Nat \ {0}
      OBVIOUS
    <3> QED
      BY <3>1, FlatTypes
  <2> QED
    BY <2>1, FlatFits1
<1>4. Fits1(Integer(2))
  <2>1. IsFlat(Integer(2))
    <3>1. 2 \in Nat \ {0}
      OBVIOUS
    <3> QED
      BY <3>1, FlatTypes
  <2> QED
    BY <2>1, FlatFits1
<1>5. \A i \in 1 .. 7 : i = 1 \/ i = 2 \/ i = 3 \/ i = 4 \/ i = 5 \/ i = 6 \/ i = 7
  OBVIOUS
<1>6. parts[1] = Integer(1) /\ parts[2] = NetString /\ parts[3] = NetString /\ parts[4] = Signed(2) /\ parts[5] = Signed(2) /\ parts[6] = Integer(2) /\ parts[7] = Integer(2)
  OBVIOUS
<1>7. HasFields(type, 7, parts) /\ Adds(type, 7, parts, o)
  BY InsertLayerHas, InsertLayerAdds
<1> HIDE DEF parts, o, type
<1>8. \A i \in 1 .. 7 : Fits1(parts[i])
  BY <1>1, <1>2, <1>3, <1>4, <1>5, <1>6
<1>10. Fits2(type)
  BY <1>7, <1>8, StructFits2
<1> QED
  BY <1>10 DEF type

LEMMA RemoveLayerFitsInside ==
    Fits2(remove_layer)
<1> DEFINE parts == <<NetString>>
           o == <<1>>
           type == remove_layer
<1>1. Fits1(NetString)
  <2>1. IsFlat(NetString)
    BY FlatTypes
  <2> QED
    BY <2>1, FlatFits1
<1>2. \A i \in 1 .. 1 : i = 1
  OBVIOUS
<1>3. parts[1] = NetString
  OBVIOUS
<1>4. HasFields(type, 1, parts) /\ Adds(type, 1, parts, o)
  BY RemoveLayerHas, RemoveLayerAdds
<1> HIDE DEF parts, o, type
<1>5. \A i \in 1 .. 1 : Fits1(parts[i])
  BY <1>1, <1>2, <1>3
<1>7. Fits2(type)
  BY <1>4, <1>5, StructFits2
<1> QED
  BY <1>7 DEF type

LEMMA CursorLagFits ==
    Fits4(set_cursor_lag)
<1> DEFINE parts == <<NetString, NetString, Integer(2), Integer(2), Integer(2)>>
           o == <<2, 1>>
           type == set_cursor_lag
<1>1. Fits3(NetString)
  <2>1. IsFlat(NetString)
    BY FlatTypes
  <2> QED
    BY <2>1, FlatFits3
<1>2. Fits3(Integer(2))
  <2>1. IsFlat(Integer(2))
    <3>1. 2 \in Nat \ {0}
      OBVIOUS
    <3> QED
      BY <3>1, FlatTypes
  <2> QED
    BY <2>1, FlatFits3
<1>3. \A i \in 1 .. 5 : i = 1 \/ i = 2 \/ i = 3 \/ i = 4 \/ i = 5
  OBVIOUS
<1>4. parts[1] = NetString /\ parts[2] = NetString /\ parts[3] = Integer(2) /\ parts[4] = Integer(2) /\ parts[5] = Integer(2)
  OBVIOUS
<1>5. HasFields(type, 5, parts) /\ Adds(type, 5, parts, o)
  BY CursorLagHas, CursorLagAdds
<1> HIDE DEF parts, o, type
<1>6. \A i \in 1 .. 5 : Fits3(parts[i])
  BY <1>1, <1>2, <1>3, <1>4
<1>8. Fits4(type)
  BY <1>5, <1>6, StructFits4
<1> QED
  BY <1>8 DEF type

LEMMA GainFits ==
    Fits4(set_gain)
<1> DEFINE parts == <<NetString, NetString, Floating, Floating>>
           o == <<1, 2>>
           type == set_gain
<1>1. Fits3(NetString)
  <2>1. IsFlat(NetString)
    BY FlatTypes
  <2> QED
    BY <2>1, FlatFits3
<1>2. Fits3(Floating)
  <2>1. IsFlat(Floating)
    BY FlatTypes
  <2> QED
    BY <2>1, FlatFits3
<1>3. \A i \in 1 .. 4 : i = 1 \/ i = 2 \/ i = 3 \/ i = 4
  OBVIOUS
<1>4. parts[1] = NetString /\ parts[2] = NetString /\ parts[3] = Floating /\ parts[4] = Floating
  OBVIOUS
<1>5. HasFields(type, 4, parts) /\ Adds(type, 4, parts, o)
  BY GainHas, GainAdds
<1> HIDE DEF parts, o, type
<1>6. \A i \in 1 .. 4 : Fits3(parts[i])
  BY <1>1, <1>2, <1>3, <1>4
<1>8. Fits4(type)
  BY <1>5, <1>6, StructFits4
<1> QED
  BY <1>8 DEF type

LEMMA LiveFits ==
    Fits4(set_live_message)
<1> DEFINE parts == <<NetString>>
           o == <<1>>
           type == set_live_message
<1>1. Fits3(NetString)
  <2>1. IsFlat(NetString)
    BY FlatTypes
  <2> QED
    BY <2>1, FlatFits3
<1>2. \A i \in 1 .. 1 : i = 1
  OBVIOUS
<1>3. parts[1] = NetString
  OBVIOUS
<1>4. HasFields(type, 1, parts) /\ Adds(type, 1, parts, o)
  BY LiveHas, LiveAdds
<1> HIDE DEF parts, o, type
<1>5. \A i \in 1 .. 1 : Fits3(parts[i])
  BY <1>1, <1>2, <1>3
<1>7. Fits4(type)
  BY <1>4, <1>5, StructFits4
<1> QED
  BY <1>7 DEF type

LEMMA ReportFits ==
    Reads4(client_report)
<1> DEFINE parts == <<Integer(4), Integer(2), Integer(2), Integer(2), Floating, Floating, Floating>>
           o == <<>>
           type == client_report
<1>1. Fits3(Integer(4))
  <2>1. IsFlat(Integer(4))
    <3>1. 4 \in Nat \ {0}
      OBVIOUS
    <3> QED
      BY <3>1, FlatTypes
  <2> QED
    BY <2>1, FlatFits3
<1>2. Fits3(Integer(2))
  <2>1. IsFlat(Integer(2))
    <3>1. 2 \in Nat \ {0}
      OBVIOUS
    <3> QED
      BY <3>1, FlatTypes
  <2> QED
    BY <2>1, FlatFits3
<1>3. Fits3(Floating)
  <2>1. IsFlat(Floating)
    BY FlatTypes
  <2> QED
    BY <2>1, FlatFits3
<1>4. \A i \in 1 .. 7 : i = 1 \/ i = 2 \/ i = 3 \/ i = 4 \/ i = 5 \/ i = 6 \/ i = 7
  OBVIOUS
<1>5. parts[1] = Integer(4) /\ parts[2] = Integer(2) /\ parts[3] = Integer(2) /\ parts[4] = Integer(2) /\ parts[5] = Floating /\ parts[6] = Floating /\ parts[7] = Floating
  OBVIOUS
<1>6. HasFields(type, 7, parts)
  BY ReportHas
<1> HIDE DEF parts, o, type
<1>7. \A i \in 1 .. 7 : Fits3(parts[i])
  BY <1>1, <1>2, <1>3, <1>4, <1>5
<1>8. \A i \in 1 .. 7 : Reads3(parts[i])
  BY <1>7 DEF Fits3
<1>9. Reads4(type)
  BY <1>6, <1>8, StructAt4
<1> QED
  BY <1>9 DEF type

LEMMA VideoControlFits ==
    Fits4(video_control)
<1> DEFINE parts == <<Integer(2), Integer(2), Integer(2), Integer(2), Integer(2), Integer(2), Integer(2), Integer(2)>>
           o == <<>>
           type == video_control
<1>1. Fits3(Integer(2))
  <2>1. IsFlat(Integer(2))
    <3>1. 2 \in Nat \ {0}
      OBVIOUS
    <3> QED
      BY <3>1, FlatTypes
  <2> QED
    BY <2>1, FlatFits3
<1>2. \A i \in 1 .. 8 : i = 1 \/ i = 2 \/ i = 3 \/ i = 4 \/ i = 5 \/ i = 6 \/ i = 7 \/ i = 8
  OBVIOUS
<1>3. parts[1] = Integer(2) /\ parts[2] = Integer(2) /\ parts[3] = Integer(2) /\ parts[4] = Integer(2) /\ parts[5] = Integer(2) /\ parts[6] = Integer(2) /\ parts[7] = Integer(2) /\ parts[8] = Integer(2)
  OBVIOUS
<1>4. HasFields(type, 8, parts) /\ Adds(type, 8, parts, o)
  BY VideoControlHas, VideoControlAdds
<1> HIDE DEF parts, o, type
<1>5. \A i \in 1 .. 8 : Fits3(parts[i])
  BY <1>1, <1>2, <1>3
<1>7. Fits4(type)
  BY <1>4, <1>5, StructFits4
<1> QED
  BY <1>7 DEF type

LEMMA InsertLayerFits ==
    Fits4(insert_layer)
<1> DEFINE parts == <<Integer(1), NetString, NetString, Signed(2), Signed(2), Integer(2), Integer(2)>>
           o == <<2, 3>>
           type == insert_layer
<1>1. Fits3(Integer(1))
  <2>1. IsFlat(Integer(1))
    <3>1. 1 \in Nat \ {0}
      OBVIOUS
    <3> QED
      BY <3>1, FlatTypes
  <2> QED
    BY <2>1, FlatFits3
<1>2. Fits3(NetString)
  <2>1. IsFlat(NetString)
    BY FlatTypes
  <2> QED
    BY <2>1, FlatFits3
<1>3. Fits3(Signed(2))
  <2>1. IsFlat(Signed(2))
    <3>1. 2 \in Nat \ {0}
      OBVIOUS
    <3> QED
      BY <3>1, FlatTypes
  <2> QED
    BY <2>1, FlatFits3
<1>4. Fits3(Integer(2))
  <2>1. IsFlat(Integer(2))
    <3>1. 2 \in Nat \ {0}
      OBVIOUS
    <3> QED
      BY <3>1, FlatTypes
  <2> QED
    BY <2>1, FlatFits3
<1>5. \A i \in 1 .. 7 : i = 1 \/ i = 2 \/ i = 3 \/ i = 4 \/ i = 5 \/ i = 6 \/ i = 7
  OBVIOUS
<1>6. parts[1] = Integer(1) /\ parts[2] = NetString /\ parts[3] = NetString /\ parts[4] = Signed(2) /\ parts[5] = Signed(2) /\ parts[6] = Integer(2) /\ parts[7] = Integer(2)
  OBVIOUS
<1>7. HasFields(type, 7, parts) /\ Adds(type, 7, parts, o)
  BY InsertLayerHas, InsertLayerAdds
<1> HIDE DEF parts, o, type
<1>8. \A i \in 1 .. 7 : Fits3(parts[i])
  BY <1>1, <1>2, <1>3, <1>4, <1>5, <1>6
<1>10. Fits4(type)
  BY <1>7, <1>8, StructFits4
<1> QED
  BY <1>10 DEF type

LEMMA RemoveLayerFits ==
    Fits4(remove_layer)
<1> DEFINE parts == <<NetString>>
           o == <<1>>
           type == remove_layer
<1>1. Fits3(NetString)
  <2>1. IsFlat(NetString)
    BY FlatTypes
  <2> QED
    BY <2>1, FlatFits3
<1>2. \A i \in 1 .. 1 : i = 1
  OBVIOUS
<1>3. parts[1] = NetString
  OBVIOUS
<1>4. HasFields(type, 1, parts) /\ Adds(type, 1, parts, o)
  BY RemoveLayerHas, RemoveLayerAdds
<1> HIDE DEF parts, o, type
<1>5. \A i \in 1 .. 1 : Fits3(parts[i])
  BY <1>1, <1>2, <1>3
<1>7. Fits4(type)
  BY <1>4, <1>5, StructFits4
<1> QED
  BY <1>7 DEF type

LEMMA SceneUpdateFits ==
    Fits4(atomic_scene_update)
<1> DEFINE parts == <<NetArray(remove_layer, Byte - 1), NetArray(insert_layer, Byte - 1)>>
           o == <<1, 2>>
           type == atomic_scene_update
<1>1. Fits3(NetArray(remove_layer, Byte - 1))
  <2>1. Fits2(remove_layer)
    BY RemoveLayerFitsInside
  <2>2. Byte - 1 \in 0 .. Byte - 1
    BY ByteIs
  <2> QED
    BY <2>1, <2>2, ArrayFits3
<1>2. Fits3(NetArray(insert_layer, Byte - 1))
  <2>1. Fits2(insert_layer)
    BY InsertLayerFitsInside
  <2>2. Byte - 1 \in 0 .. Byte - 1
    BY ByteIs
  <2> QED
    BY <2>1, <2>2, ArrayFits3
<1>3. \A i \in 1 .. 2 : i = 1 \/ i = 2
  OBVIOUS
<1>4. parts[1] = NetArray(remove_layer, Byte - 1) /\ parts[2] = NetArray(insert_layer, Byte - 1)
  OBVIOUS
<1>5. HasFields(type, 2, parts) /\ Adds(type, 2, parts, o)
  BY SceneUpdateHas, SceneUpdateAdds
<1> HIDE DEF parts, o, type
<1>6. \A i \in 1 .. 2 : Fits3(parts[i])
  BY <1>1, <1>2, <1>3, <1>4
<1>8. Fits4(type)
  BY <1>5, <1>6, StructFits4
<1> QED
  BY <1>8 DEF type

LEMMA PacketFits ==
    ASSUME NEW frame, Fits2(frame)
    PROVE  Fits4(Packet(frame))
<1> DEFINE parts == <<Integer(4), NetArray(frame, FramesPerPacket), Integer(4), NetArray(Integer(4), Byte - 2), NetString>>
           o == <<2, 4, 5>>
           type == Packet(frame)
<1>1. Fits3(Integer(4))
  <2>1. IsFlat(Integer(4))
    <3>1. 4 \in Nat \ {0}
      OBVIOUS
    <3> QED
      BY <3>1, FlatTypes
  <2> QED
    BY <2>1, FlatFits3
<1>2. Fits3(NetArray(frame, FramesPerPacket))
  <2>1. Fits2(frame)
    OBVIOUS
  <2>2. FramesPerPacket \in 0 .. Byte - 1
    BY ByteIs
  <2> QED
    BY <2>1, <2>2, ArrayFits3
<1>3. Fits3(NetArray(Integer(4), Byte - 2))
  <2>1. Fits2(Integer(4))
    <3>1. IsFlat(Integer(4))
      <4>1. 4 \in Nat \ {0}
        OBVIOUS
      <4> QED
        BY <4>1, FlatTypes
    <3> QED
      BY <3>1, FlatFits2
  <2>2. Byte - 2 \in 0 .. Byte - 1
    BY ByteIs
  <2> QED
    BY <2>1, <2>2, ArrayFits3
<1>4. Fits3(NetString)
  <2>1. IsFlat(NetString)
    BY FlatTypes
  <2> QED
    BY <2>1, FlatFits3
<1>5. \A i \in 1 .. 5 : i = 1 \/ i = 2 \/ i = 3 \/ i = 4 \/ i = 5
  OBVIOUS
<1>6. parts[1] = Integer(4) /\ parts[2] = NetArray(frame, FramesPerPacket) /\ parts[3] = Integer(4) /\ parts[4] = NetArray(Integer(4), Byte - 2) /\ parts[5] = NetString
  OBVIOUS
<1>7. HasFields(type, 5, parts) /\ Adds(type, 5, parts, o)
  BY PacketHas, PacketAdds
<1> HIDE DEF parts, o, type
<1>8. \A i \in 1 .. 5 : Fits3(parts[i])
  BY <1>1, <1>2, <1>3, <1>4, <1>5, <1>6
<1>10. Fits4(type)
  BY <1>7, <1>8, StructFits4
<1> QED
  BY <1>10 DEF type

LEMMA KeyMessageFits ==
    Fits4(KeyMessage)
<1> DEFINE parts == <<Integer(1), KeyPair>>
           o == <<2>>
           type == KeyMessage
<1>1. Fits3(Integer(1))
  <2>1. IsFlat(Integer(1))
    <3>1. 1 \in Nat \ {0}
      OBVIOUS
    <3> QED
      BY <3>1, FlatTypes
  <2> QED
    BY <2>1, FlatFits3
<1>2. Fits3(KeyPair)
  BY KeyPairFits
<1>3. \A i \in 1 .. 2 : i = 1 \/ i = 2
  OBVIOUS
<1>4. parts[1] = Integer(1) /\ parts[2] = KeyPair
  OBVIOUS
<1>5. HasFields(type, 2, parts) /\ Adds(type, 2, parts, o)
  BY KeyMessageHas, KeyMessageAdds
<1> HIDE DEF parts, o, type
<1>6. \A i \in 1 .. 2 : Fits3(parts[i])
  BY <1>1, <1>2, <1>3, <1>4
<1>8. Fits4(type)
  BY <1>5, <1>6, StructFits4
<1> QED
  BY <1>8 DEF type

LEMMA LongLivedKeyFits ==
    Fits4(LongLivedKey)
<1> DEFINE parts == <<KeyPair, NetString>>
           o == <<1, 2>>
           type == LongLivedKey
<1>1. Fits3(KeyPair)
  BY KeyPairFits
<1>2. Fits3(NetString)
  <2>1. IsFlat(NetString)
    BY FlatTypes
  <2> QED
    BY <2>1, FlatFits3
<1>3. \A i \in 1 .. 2 : i = 1 \/ i = 2
  OBVIOUS
<1>4. parts[1] = KeyPair /\ parts[2] = NetString
  OBVIOUS
<1>5. HasFields(type, 2, parts) /\ Adds(type, 2, parts, o)
  BY LongLivedKeyHas, LongLivedKeyAdds
<1> HIDE DEF parts, o, type
<1>6. \A i \in 1 .. 2 : Fits3(parts[i])
  BY <1>1, <1>2, <1>3, <1>4
<1>8. Fits4(type)
  BY <1>5, <1>6, StructFits4
<1> QED
  BY <1>8 DEF type

------------------------------------------------------------------------------
(* Keys as text: what is encoded is decoded, three bytes from four         *)
(* letters.                                                                *)

RunIn(f, n, S) == n \in Nat /\ f = [i \in 1 .. n |-> f[i]] /\ \A i \in 1 .. n : f[i] \in S

LEMMA RunIs ==
    ASSUME NEW S, NEW n, NEW f, RunIn(f, n, S)
    PROVE  f \in Seq(S) /\ Len(f) = n
<1>1. n \in Nat /\ f = [i \in 1 .. n |-> f[i]] /\ \A i \in 1 .. n : f[i] \in S
  BY DEF RunIn
<1>2. f \in [1 .. n -> S]
  BY <1>1
<1> QED
  BY <1>1, <1>2

(* What is behind one sequence and the next.                               *)
Follows(c, a, m, b, n) ==
    /\ m \in Nat /\ n \in Nat /\ Len(c) = m + n
    /\ \A j \in 1 .. m : c[j] = a[j]
    /\ \A j \in 1 .. n : c[m + j] = b[j]

LEMMA JoinOf ==
    ASSUME NEW X, NEW a, a \in Seq(X), NEW b, b \in Seq(X), NEW m, Len(a) = m, NEW n, Len(b) = n
    PROVE  a \o b \in Seq(X) /\ Follows(a \o b, a, m, b, n)
<1>1. /\ a \o b \in Seq(X) /\ Len(a \o b) = Len(a) + Len(b)
      /\ Len(a) \in Nat /\ Len(b) \in Nat
      /\ \A j \in 1 .. Len(a) : (a \o b)[j] = a[j]
      /\ \A j \in 1 .. Len(b) : (a \o b)[Len(a) + j] = b[j]
  <2>1. \A x, y \in Seq(X) :
           /\ x \o y \in Seq(X) /\ Len(x \o y) = Len(x) + Len(y)
           /\ Len(x) \in Nat /\ Len(y) \in Nat
           /\ \A j \in 1 .. Len(x) : (x \o y)[j] = x[j]
           /\ \A j \in 1 .. Len(y) : (x \o y)[Len(x) + j] = y[j]
    BY ConcatAt
  <2> QED
    BY <2>1
<1> QED
  BY <1>1 DEF Follows

LEMMA ElementIn ==
    ASSUME NEW X, NEW s, s \in Seq(X), NEW n, Len(s) = n
    PROVE  \A k \in 1 .. n : s[k] \in X
  OBVIOUS

(* Five parts of one length.                                               *)
Even(w, n, X) == n \in Nat /\ RunIn(w, 5, Seq(X)) /\ \A i \in 1 .. 5 : Len(w[i]) = n
Lined(all, w, n) ==
    /\ Len(all) = 5 * n
    /\ \A i \in 1 .. 5 : \A j \in 1 .. n : all[n * (i - 1) + j] = w[i][j]

LEMMA FlattenFive ==
    ASSUME NEW X, NEW w, NEW n, Even(w, n, X)
    PROVE  FlattenSeq(w) \in Seq(X) /\ Lined(FlattenSeq(w), w, n)
<1> DEFINE all == FlattenSeq(w)
<1>0. w \in Seq(Seq(X)) /\ Len(w) = 5 /\ n \in Nat /\ \A i \in 1 .. 5 : Len(w[i]) = n
  <2>1. RunIn(w, 5, Seq(X))
    BY DEF Even
  <2> QED
    BY <2>1, RunIs DEF Even
<1>1. all \in Seq(X)
  BY <1>0, FlattenLength
<1>2. PICK pos : Placed(w, pos, Len(w), all) /\ pos[Len(w)] = Len(all)
  BY <1>0, PlacesOf
<1> HIDE DEF all
<1>3. /\ pos[0] = 0 /\ \A i \in 0 .. 5 : pos[i] \in Nat
      /\ \A i \in 1 .. 5 : pos[i] = pos[i - 1] + n
      /\ \A i \in 1 .. 5 : \A j \in 1 .. n : all[pos[i - 1] + j] = w[i][j]
      /\ pos[5] = Len(all)
  BY <1>0, <1>2 DEF Placed
<1>4. pos[1] = n /\ pos[2] = 2 * n /\ pos[3] = 3 * n /\ pos[4] = 4 * n /\ pos[5] = 5 * n
  <2>1. pos[1] = pos[0] + n /\ pos[2] = pos[1] + n /\ pos[3] = pos[2] + n
        /\ pos[4] = pos[3] + n /\ pos[5] = pos[4] + n
    <3>1. 1 - 1 = 0 /\ 2 - 1 = 1 /\ 3 - 1 = 2 /\ 4 - 1 = 3 /\ 5 - 1 = 4
      OBVIOUS
    <3>2. 1 \in 1 .. 5 /\ 2 \in 1 .. 5 /\ 3 \in 1 .. 5 /\ 4 \in 1 .. 5 /\ 5 \in 1 .. 5
      OBVIOUS
    <3> QED
      BY <1>3, <3>1, <3>2
  <2> QED
    BY <1>0, <1>3, <2>1
<1>5. \A i \in 1 .. 5 : pos[i - 1] = n * (i - 1)
  <2>1. \A i \in 1 .. 5 : i = 1 \/ i = 2 \/ i = 3 \/ i = 4 \/ i = 5
    OBVIOUS
  <2>2. n * 0 = 0 /\ n * 1 = n /\ n * 2 = 2 * n /\ n * 3 = 3 * n /\ n * 4 = 4 * n
    BY <1>0
  <2>3. 1 - 1 = 0 /\ 2 - 1 = 1 /\ 3 - 1 = 2 /\ 4 - 1 = 3 /\ 5 - 1 = 4
    OBVIOUS
  <2> QED
    BY <1>3, <1>4, <2>1, <2>2, <2>3
<1>6. Len(all) = 5 * n
  BY <1>3, <1>4
<1>7. \A i \in 1 .. 5 : \A j \in 1 .. n : all[n * (i - 1) + j] = w[i][j]
  BY <1>3, <1>5
<1> QED
  BY <1>1, <1>6, <1>7 DEF all, Lined

Bytes256 == 0 .. 255
Keys16 == [1 .. 16 -> Bytes256]
Group(raw, i) == (raw[3 * i - 2] * 256 + raw[3 * i - 1]) * 256 + raw[3 * i]

LEMMA GroupIs ==
    ASSUME NEW a \in Bytes256, NEW b \in Bytes256, NEW c \in Bytes256,
           NEW v, v = (a * 256 + b) * 256 + c
    PROVE  v \in Nat /\ v < 16777216 /\ Digits(256, v, 3) = <<a, b, c>>
<1>1. v \in Nat /\ v < 16777216 /\ a \in 0 .. 255 /\ b \in 0 .. 255 /\ c \in 0 .. 255
  BY DEF Bytes256
<1>2. Power(256, 0) = 1 /\ Power(256, 1) = 256 /\ Power(256, 2) = 65536
  <2>1. Power(256, 0) = 1 /\ Power(256, 0 + 1) = 256 * Power(256, 0)
        /\ Power(256, 1 + 1) = 256 * Power(256, 1)
    <3>1. 256 \in Nat \ {0} /\ 0 \in Nat /\ 1 \in Nat
      OBVIOUS
    <3> QED
      BY <3>1, PowerIs
  <2>2. 0 + 1 = 1 /\ 1 + 1 = 2
    OBVIOUS
  <2> QED
    BY <2>1, <2>2
<1>3. (v \div 65536) % 256 = a /\ (v \div 256) % 256 = b /\ (v \div 1) % 256 = c
  <2>1. v \div 65536 = a
    BY <1>1
  <2>2. v \div 256 = a * 256 + b
    BY <1>1
  <2>3. v \div 1 = v
    BY <1>1
  <2>4. a % 256 = a /\ (a * 256 + b) % 256 = b
    BY <1>1
  <2>5. v % 256 = c
    BY <1>1
  <2> QED
    BY <2>1, <2>2, <2>3, <2>4, <2>5
<1> DEFINE d == [i \in 1 .. 3 |-> (v \div Power(256, 3 - i)) % 256]
<1>4. Digits(256, v, 3) = d
  BY DEF Digits
<1>5. d[1] = a /\ d[2] = b /\ d[3] = c
  <2>1. 3 - 1 = 2 /\ 3 - 2 = 1 /\ 3 - 3 = 0
    OBVIOUS
  <2>2. d[1] = (v \div Power(256, 2)) % 256 /\ d[2] = (v \div Power(256, 1)) % 256
        /\ d[3] = (v \div Power(256, 0)) % 256
    BY <2>1
  <2> QED
    BY <1>2, <1>3, <2>2
<1>6. DOMAIN d = 1 .. 3 /\ d = [i \in 1 .. 3 |-> d[i]]
  OBVIOUS
<1> HIDE DEF d
<1>7. d = <<a, b, c>>
  BY <1>5, <1>6
<1> QED
  BY <1>1, <1>4, <1>7

LEMMA GroupsOfKey ==
    ASSUME NEW raw \in Keys16, NEW i \in 1 .. 5
    PROVE  /\ Group(raw, i) \in Nat
           /\ ValueOf(64, Digits(64, Group(raw, i), 4)) = Group(raw, i)
           /\ Digits(256, Group(raw, i), 3) = <<raw[3 * i - 2], raw[3 * i - 1], raw[3 * i]>>
<1> DEFINE v == Group(raw, i)
<1>1. raw[3 * i - 2] \in Bytes256 /\ raw[3 * i - 1] \in Bytes256 /\ raw[3 * i] \in Bytes256
  BY DEF Keys16
<1>2. v = (raw[3 * i - 2] * 256 + raw[3 * i - 1]) * 256 + raw[3 * i]
  BY DEF Group
<1> HIDE DEF v
<1>3. /\ v \in Nat /\ v < 16777216
      /\ Digits(256, v, 3) = <<raw[3 * i - 2], raw[3 * i - 1], raw[3 * i]>>
  BY <1>1, <1>2, GroupIs
<1>4. Power(64, 4) = 16777216
  <2>1. /\ Power(64, 0) = 1 /\ Power(64, 0 + 1) = 64 * Power(64, 0)
        /\ Power(64, 1 + 1) = 64 * Power(64, 1) /\ Power(64, 2 + 1) = 64 * Power(64, 2)
        /\ Power(64, 3 + 1) = 64 * Power(64, 3)
    <3>1. 64 \in Nat \ {0} /\ 0 \in Nat /\ 1 \in Nat /\ 2 \in Nat /\ 3 \in Nat
      OBVIOUS
    <3> QED
      BY <3>1, PowerIs
  <2>2. 0 + 1 = 1 /\ 1 + 1 = 2 /\ 2 + 1 = 3 /\ 3 + 1 = 4
    OBVIOUS
  <2> QED
    BY <2>1, <2>2
<1>5. ValueOf(64, Digits(64, v, 4)) = v
  <2>1. 64 \in Nat \ {0} /\ 4 \in Nat /\ v < Power(64, 4)
    BY <1>3, <1>4
  <2> QED
    BY <1>3, <2>1, DigitsRead
<1> QED
  BY <1>3, <1>5 DEF v

LEMMA KeyAsText ==
    ASSUME NEW raw \in Keys16
    PROVE  /\ printable_key(raw) \in Seq(Letters) /\ Len(printable_key(raw)) = PrintableLength
           /\ base64_decode(printable_key(raw)) = raw
<1> DEFINE w == [i \in 1 .. 5 |-> Digits(64, Group(raw, i), 4)]
           all == FlattenSeq(w)
           tail == <<raw[16] \div 4, (raw[16] * 16) % 64>>
           text == all \o tail
<1>1. printable_key(raw) = text
  BY DEF printable_key, base64_encode, Group, KeyLength
<1>2. \A i \in 1 .. 5 : Group(raw, i) \in Nat /\ w[i] \in Seq(Letters) /\ Len(w[i]) = 4
  <2> TAKE i \in 1 .. 5
  <2>1. Group(raw, i) \in Nat
    BY GroupsOfKey
  <2>2. Digits(64, Group(raw, i), 4) \in Seq(0 .. 64 - 1) /\ Len(Digits(64, Group(raw, i), 4)) = 4
    <3>1. 64 \in Nat \ {0} /\ 4 \in Nat /\ Group(raw, i) \in Int
      BY <2>1
    <3> QED
      BY <3>1, DigitsAre
  <2>3. Letters = 0 .. 64 - 1
    BY DEF Letters
  <2> QED
    BY <2>1, <2>2, <2>3
<1>3. Even(w, 4, Letters)
  <2>1. w = [i \in 1 .. 5 |-> w[i]] /\ 5 \in Nat /\ 4 \in Nat
    OBVIOUS
  <2> HIDE DEF w
  <2> QED
    BY <1>2, <2>1 DEF RunIn, Even
<1>4. \A i \in 1 .. 5 : w[i] = Digits(64, Group(raw, i), 4)
  OBVIOUS
<1> HIDE DEF w
<1>5. /\ all \in Seq(Letters) /\ Len(all) = 20
      /\ \A i \in 1 .. 5 : \A j \in 1 .. 4 : all[4 * (i - 1) + j] = w[i][j]
  <2>1. all \in Seq(Letters) /\ Lined(all, w, 4)
    BY <1>3, FlattenFive
  <2> HIDE DEF all
  <2> QED
    BY <2>1 DEF Lined
<1>6. raw[16] \in 0 .. 255
  BY DEF Keys16, Bytes256
<1>7. /\ tail \in Seq(Letters) /\ Len(tail) = 2
      /\ tail[1] = raw[16] \div 4 /\ tail[2] = (raw[16] * 16) % 64
  <2>1. raw[16] \div 4 \in 0 .. 63 /\ (raw[16] * 16) % 64 \in 0 .. 63
    BY <1>6
  <2> QED
    BY <2>1 DEF Letters
<1> HIDE DEF all, tail
<1>8. /\ text \in Seq(Letters) /\ Len(text) = 22
      /\ \A j \in 1 .. 20 : text[j] = all[j]
      /\ text[21] = tail[1] /\ text[22] = tail[2]
  <2>1. text \in Seq(Letters) /\ Follows(text, all, 20, tail, 2)
    BY <1>5, <1>7, JoinOf
  <2> HIDE DEF text
  <2>2. 1 \in 1 .. 2 /\ 2 \in 1 .. 2 /\ 20 + 1 = 21 /\ 20 + 2 = 22
    OBVIOUS
  <2> QED
    BY <2>1, <2>2 DEF Follows
<1> HIDE DEF text
<1>9. ASSUME NEW i \in 1 .. 5
      PROVE  SubSeq(text, 4 * i - 3, 4 * i) = w[i]
  <2> DEFINE s == SubSeq(text, 4 * i - 3, 4 * i)
  <2>1. 4 * i - 3 \in 1 .. 22 /\ 4 * i \in 1 .. 22 /\ 4 * i - (4 * i - 3) + 1 = 4
    OBVIOUS
  <2>2. s = [j \in 1 .. 4 |-> text[(4 * i - 3) + j - 1]]
    BY <1>8, <2>1
  <2>3. s \in Seq(Letters) /\ Len(s) = 4
    <3>1. \A j \in 1 .. 4 : (4 * i - 3) + j - 1 \in 1 .. 22
      OBVIOUS
    <3>2. \A k \in 1 .. 22 : text[k] \in Letters
      <4>1. text \in Seq(Letters) /\ Len(text) = 22
        BY <1>8
      <4> QED
        BY <4>1, ElementIn
    <3>3. s = [j \in 1 .. 4 |-> s[j]] /\ 4 \in Nat /\ \A j \in 1 .. 4 : s[j] \in Letters
      BY <2>2, <3>1, <3>2
    <3> HIDE DEF s
    <3>4. RunIn(s, 4, Letters)
      BY <3>3 DEF RunIn
    <3> QED
      BY <3>4, RunIs
  <2>4. ASSUME NEW j \in 1 .. 4 PROVE s[j] = w[i][j]
    <3>1. (4 * i - 3) + j - 1 = 4 * (i - 1) + j /\ 4 * (i - 1) + j \in 1 .. 20
      OBVIOUS
    <3>2. s[j] = text[4 * (i - 1) + j]
      BY <2>2, <3>1
    <3> QED
      BY <1>5, <1>8, <3>1, <3>2
  <2> HIDE DEF s
  <2>5. s = w[i]
    <3>1. w[i] \in Seq(Letters) /\ Len(w[i]) = 4
      BY <1>2
    <3> QED
      BY <2>3, <2>4, <3>1, SameSequence
  <2> QED
    BY <2>5 DEF s
<1> DEFINE w3 == [i \in 1 .. 5 |-> Digits(256, ValueOf(64, SubSeq(text, 4 * i - 3, 4 * i)), 3)]
           last == ((text[21] * 64 + text[22]) \div 16) % 256
           all3 == FlattenSeq(w3)
<1>10. base64_decode(text) = all3 \o <<last>>
  BY DEF base64_decode
<1>11. last = raw[16]
  <2>1. text[21] = raw[16] \div 4 /\ text[22] = (raw[16] * 16) % 64
    BY <1>7, <1>8
  <2> DEFINE r == raw[16]
             q == r \div 4
             x == r % 4
  <2>2. r \in Nat /\ 4 \in Nat \ {0} /\ r \in 0 .. 255
    BY <1>6
  <2> HIDE DEF r
  <2>3. q \in 0 .. 63 /\ x \in 0 .. 3 /\ r = 4 * q + x
    BY <2>2
  <2> HIDE DEF q, x
  <2>4. (r * 16) % 64 = 16 * x
    BY <2>2, <2>3
  <2>5. ((q * 64 + 16 * x) \div 16) % 256 = r
    BY <2>2, <2>3
  <2> QED
    BY <2>1, <2>4, <2>5 DEF q, r
<1>12. \A i \in 1 .. 5 : w3[i] = <<raw[3 * i - 2], raw[3 * i - 1], raw[3 * i]>>
  <2> TAKE i \in 1 .. 5
  <2>1. w3[i] = Digits(256, ValueOf(64, SubSeq(text, 4 * i - 3, 4 * i)), 3)
    OBVIOUS
  <2>2. SubSeq(text, 4 * i - 3, 4 * i) = Digits(64, Group(raw, i), 4)
    BY <1>4, <1>9
  <2>3. /\ ValueOf(64, Digits(64, Group(raw, i), 4)) = Group(raw, i)
        /\ Digits(256, Group(raw, i), 3) = <<raw[3 * i - 2], raw[3 * i - 1], raw[3 * i]>>
    BY GroupsOfKey
  <2> HIDE DEF w3
  <2> QED
    BY <2>1, <2>2, <2>3
<1>13. w3 = [i \in 1 .. 5 |-> w3[i]] /\ 5 \in Nat /\ 3 \in Nat
  OBVIOUS
<1> HIDE DEF w3, last
<1>14. \A i \in 1 .. 5 : w3[i] \in Seq(Bytes256) /\ Len(w3[i]) = 3
  <2> TAKE i \in 1 .. 5
  <2> DEFINE a == raw[3 * i - 2]
             b == raw[3 * i - 1]
             c == raw[3 * i]
  <2>1. a \in Bytes256 /\ b \in Bytes256 /\ c \in Bytes256
    BY DEF Keys16
  <2>2. w3[i] = <<a, b, c>>
    BY <1>12
  <2> HIDE DEF a, b, c
  <2>3. <<a, b, c>> \in Seq(Bytes256) /\ Len(<<a, b, c>>) = 3
    BY <2>1
  <2> QED
    BY <2>2, <2>3
<1>15. Even(w3, 3, Bytes256)
  BY <1>13, <1>14 DEF RunIn, Even
<1>16. /\ all3 \in Seq(Bytes256) /\ Len(all3) = 15
       /\ \A i \in 1 .. 5 : \A j \in 1 .. 3 : all3[3 * (i - 1) + j] = w3[i][j]
  <2>1. all3 \in Seq(Bytes256) /\ Lined(all3, w3, 3)
    BY <1>15, FlattenFive
  <2> HIDE DEF all3
  <2> QED
    BY <2>1 DEF Lined
<1> HIDE DEF all3
<1>17. \A j \in 1 .. 15 : all3[j] = raw[j]
  <2> TAKE k \in 1 .. 15
  <2> DEFINE i == (k + 2) \div 3
             j == k - 3 * (i - 1)
  <2>1. i \in 1 .. 5 /\ j \in 1 .. 3 /\ k = 3 * (i - 1) + j
    OBVIOUS
  <2> HIDE DEF i, j
  <2>2. all3[k] = w3[i][j]
    BY <1>16, <2>1
  <2>3. w3[i][1] = raw[3 * i - 2] /\ w3[i][2] = raw[3 * i - 1] /\ w3[i][3] = raw[3 * i]
    BY <1>12, <2>1
  <2>4. j = 1 \/ j = 2 \/ j = 3
    BY <2>1
  <2>5. (j = 1 => k = 3 * i - 2) /\ (j = 2 => k = 3 * i - 1) /\ (j = 3 => k = 3 * i)
    BY <2>1
  <2> QED
    BY <2>2, <2>3, <2>4, <2>5
<1>18. raw \in Seq(Bytes256) /\ Len(raw) = 16
  <2>1. RunIn(raw, 16, Bytes256)
    BY DEF RunIn, Keys16
  <2> QED
    BY <2>1, RunIs
<1>19. all3 \o <<last>> = raw
  <2>1. <<last>> \in Seq(Bytes256) /\ Len(<<last>>) = 1 /\ <<last>>[1] = raw[16]
    <3>1. last \in Bytes256
      BY <1>11 DEF Keys16
    <3> QED
      BY <1>11, <3>1
  <2> DEFINE t == <<last>>
  <2> HIDE DEF t
  <2>2. t \in Seq(Bytes256) /\ Len(t) = 1 /\ t[1] = raw[16]
    BY <2>1 DEF t
  <2>3. /\ all3 \o t \in Seq(Bytes256) /\ Len(all3 \o t) = 16
        /\ \A j \in 1 .. 15 : (all3 \o t)[j] = all3[j]
        /\ \A j \in 1 .. 1 : (all3 \o t)[15 + j] = t[j]
    <3>1. all3 \o t \in Seq(Bytes256) /\ Follows(all3 \o t, all3, 15, t, 1)
      BY <1>16, <2>2, JoinOf
    <3> DEFINE c == all3 \o t
    <3> HIDE DEF c
    <3>2. Follows(c, all3, 15, t, 1)
      BY <3>1 DEF c
    <3>3. Len(c) = 16 /\ (\A j \in 1 .. 15 : c[j] = all3[j]) /\ \A j \in 1 .. 1 : c[15 + j] = t[j]
      BY <3>2 DEF Follows
    <3> QED
      BY <3>1, <3>3 DEF c
  <2>4. (all3 \o t)[16] = raw[16]
    <3>1. 1 \in 1 .. 1 /\ 15 + 1 = 16
      OBVIOUS
    <3> QED
      BY <2>2, <2>3, <3>1
  <2>5. \A j \in 1 .. 16 : (all3 \o t)[j] = raw[j]
    <3>1. \A j \in 1 .. 16 : j \in 1 .. 15 \/ j = 16
      OBVIOUS
    <3> QED
      BY <1>17, <2>3, <2>4, <3>1
  <2>6. all3 \o t = raw
    BY <1>18, <2>3, <2>5, SameSequence
  <2> QED
    BY <2>6 DEF t
<1> QED
  BY <1>1, <1>8, <1>10, <1>19 DEF PrintableLength

------------------------------------------------------------------------------
(* Sealed messages: where decrypt finds the parts of what encrypt wrote.   *)

Elements1 == {<<b>> : b \in Int}

LEMMA ElementsAre ==
    ASSUME NEW s, s \in Seq(Int), NEW n, Len(s) = n
    PROVE  /\ AsElements(s) \in Seq(Elements1) /\ Len(AsElements(s)) = n /\ n \in Nat
           /\ \A j \in 1 .. n : AsElements(s)[j] = <<s[j]>>
<1> DEFINE e == AsElements(s)
<1>1. n \in Nat /\ DOMAIN s = 1 .. n /\ \A j \in 1 .. n : s[j] \in Int
  OBVIOUS
<1>2. e = [j \in 1 .. n |-> <<s[j]>>]
  BY <1>1 DEF AsElements
<1>3. \A j \in 1 .. n : e[j] = <<s[j]>> /\ e[j] \in Elements1
  BY <1>1, <1>2 DEF Elements1
<1>4. e = [j \in 1 .. n |-> e[j]]
  BY <1>2
<1> HIDE DEF e
<1>5. RunIn(e, n, Elements1)
  BY <1>1, <1>3, <1>4 DEF RunIn
<1>6. e \in Seq(Elements1) /\ Len(e) = n
  BY <1>5, RunIs
<1> QED
  BY <1>1, <1>3, <1>6 DEF e

SealedText(bytes, tag, nonce) == AsElements(bytes) \o <<tag>> \o nonce \o AsElements(Label)

(* A sealed message: its bytes, the tag, the nonce, and the label.         *)
IsSealed(c, bytes, tag, nonce, n) ==
    /\ n \in Nat /\ Len(c) = n + NonceLength + 2
    /\ \A j \in 1 .. n : c[j] = <<bytes[j]>>
    /\ c[n + 1] = tag
    /\ \A j \in 1 .. NonceLength : c[n + 1 + j] = nonce[j]
    /\ c[n + NonceLength + 2] = <<1>>
    /\ c = [j \in 1 .. Len(c) |-> c[j]]

LEMMA SealedIs ==
    ASSUME NEW bytes, bytes \in Seq(Int), NEW n, Len(bytes) = n, NEW tag,
           NEW nonce, nonce \in Seq(Elements1), Len(nonce) = NonceLength
    PROVE  IsSealed(SealedText(bytes, tag, nonce), bytes, tag, nonce, n)
<1> DEFINE X == Elements1 \cup {tag}
           e == AsElements(bytes)
           l == AsElements(Label)
           t == <<tag>>
           a == e \o t
           b == a \o nonce
           c == b \o l
<1>1. NonceLength \in Nat
  BY SealingConstants
<1>2. e \in Seq(Elements1) /\ Len(e) = n /\ n \in Nat /\ \A j \in 1 .. n : e[j] = <<bytes[j]>>
  BY ElementsAre
<1>3. l \in Seq(Elements1) /\ Len(l) = 1 /\ l[1] = <<1>>
  <2>1. Label \in Seq(Int) /\ Len(Label) = 1 /\ Label[1] = 1
    BY DEF Label
  <2>2. l \in Seq(Elements1) /\ Len(l) = 1 /\ \A j \in 1 .. 1 : l[j] = <<Label[j]>>
    BY <2>1, ElementsAre
  <2> QED
    BY <2>1, <2>2
<1> HIDE DEF e, l
<1>4. \A s : s \in Seq(Elements1) => s \in Seq(X)
  OBVIOUS
<1>5. t \in Seq(X) /\ Len(t) = 1 /\ t[1] = tag
  OBVIOUS
<1> HIDE DEF t, X
<1>6. a \in Seq(X) /\ Follows(a, e, n, t, 1)
  BY <1>2, <1>4, <1>5, JoinOf
<1> HIDE DEF a
<1>7. b \in Seq(X) /\ Follows(b, a, n + 1, nonce, NonceLength)
  <2>1. Len(a) = n + 1
    BY <1>6 DEF Follows
  <2> QED
    BY <1>4, <1>6, <2>1, JoinOf
<1> HIDE DEF b
<1>8. c \in Seq(X) /\ Follows(c, b, n + 1 + NonceLength, l, 1)
  <2>1. Len(b) = n + 1 + NonceLength
    BY <1>7 DEF Follows
  <2> QED
    BY <1>3, <1>4, <1>7, <2>1, JoinOf
<1> HIDE DEF c
<1>9. Len(c) = n + NonceLength + 2
  BY <1>1, <1>2, <1>8 DEF Follows
<1>10. \A j \in 1 .. n + 1 + NonceLength : c[j] = b[j]
  BY <1>8 DEF Follows
<1>11. \A j \in 1 .. n + 1 : b[j] = a[j] /\ c[j] = a[j]
  <2>1. \A j \in 1 .. n + 1 : j \in 1 .. n + 1 + NonceLength
    BY <1>1, <1>2
  <2> QED
    BY <1>7, <1>10, <2>1 DEF Follows
<1>12. \A j \in 1 .. n : c[j] = <<bytes[j]>>
  <2>1. \A j \in 1 .. n : j \in 1 .. n + 1
    BY <1>2
  <2>2. \A j \in 1 .. n : a[j] = e[j]
    BY <1>6 DEF Follows
  <2> QED
    BY <1>2, <1>11, <2>1, <2>2
<1>13. c[n + 1] = tag
  <2>1. n + 1 \in 1 .. n + 1 /\ 1 \in 1 .. 1
    BY <1>2
  <2>2. a[n + 1] = t[1]
    BY <1>6, <2>1 DEF Follows
  <2> QED
    BY <1>5, <1>11, <2>1, <2>2
<1>14. \A j \in 1 .. NonceLength : c[n + 1 + j] = nonce[j]
  <2>1. \A j \in 1 .. NonceLength : n + 1 + j \in 1 .. n + 1 + NonceLength
    BY <1>1, <1>2
  <2>2. \A j \in 1 .. NonceLength : b[n + 1 + j] = nonce[j]
    BY <1>7 DEF Follows
  <2> QED
    BY <1>10, <2>1, <2>2
<1>15. c[n + NonceLength + 2] = <<1>>
  <2>1. 1 \in 1 .. 1 /\ (n + 1 + NonceLength) + 1 = n + NonceLength + 2
    BY <1>1, <1>2
  <2>2. c[(n + 1 + NonceLength) + 1] = l[1]
    BY <1>8, <2>1 DEF Follows
  <2> QED
    BY <1>3, <2>1, <2>2
<1>17. c = [j \in 1 .. Len(c) |-> c[j]]
  BY <1>8
<1>16. SealedText(bytes, tag, nonce) = c
  BY DEF SealedText, a, b, c, e, l, t
<1> QED
  BY <1>2, <1>9, <1>12, <1>13, <1>14, <1>15, <1>16, <1>17 DEF IsSealed

LEMMA TagsDiffer ==
    ASSUME NEW k, NEW n, NEW a, NEW t, NEW k2, NEW n2, NEW a2, NEW t2
    PROVE  /\ Tag(k, n, a, t) = Tag(k2, n2, a2, t2) => k = k2
           /\ \A b : <<b>> # Tag(k, n, a, t)
<1>1. Tag(k, n, a, t) = Tag(k2, n2, a2, t2) => k = k2
  BY DEF Tag
<1>2. \A b : <<b>> # Tag(k, n, a, t)
  BY DEF Tag
<1> QED
  BY <1>1, <1>2

(* What is in a sealed message, where decrypt looks for it.                *)
LEMMA OpensWhole ==
    ASSUME NEW bytes, bytes \in Seq(Int), NEW n, Len(bytes) = n, NEW key, NEW session,
           NEW nonce, nonce \in Seq(Elements1), Len(nonce) = NonceLength,
           NEW c, c = SealedText(bytes, Tag(key, nonce, AsElements(Label), AsElements(bytes)), nonce)
    PROVE  /\ session.decrypt_key = key => decrypt(session, c, Label) = Result(bytes, <<>>)
           /\ session.decrypt_key # key => decrypt(session, c, Label).error
<1> DEFINE tag == Tag(key, nonce, AsElements(Label), AsElements(bytes))
           m == Len(c) - NonceLength - Len(Label)
           text == SubSeq(c, 1, m - 1)
           found == SubSeq(c, m + 1, m + NonceLength)
           label == SubSeq(c, m + NonceLength + 1, Len(c))
<1>1. IsSealed(c, bytes, tag, nonce, n)
  BY SealedIs
<1>2. /\ n \in Nat /\ NonceLength \in Nat /\ Len(c) = n + NonceLength + 2
      /\ \A j \in 1 .. n : c[j] = <<bytes[j]>>
      /\ c[n + 1] = tag
      /\ \A j \in 1 .. NonceLength : c[n + 1 + j] = nonce[j]
      /\ c[n + NonceLength + 2] = <<1>>
  BY <1>1, SealingConstants DEF IsSealed
<1>3. Len(Label) = 1 /\ m = n + 1
  BY <1>2 DEF Label
<1> HIDE DEF m, tag
<1>4. AsElements(Label) = <<<<1>>>>
  BY DEF AsElements, Label
<1>5. /\ AsElements(bytes) = [j \in 1 .. n |-> <<bytes[j]>>]
      /\ bytes = [j \in 1 .. n |-> bytes[j]]
  BY DEF AsElements
<1>6. text = AsElements(bytes)
  <2>1. text = [j \in 1 .. n |-> c[j]]
    BY <1>2, <1>3
  <2> QED
    BY <1>2, <1>5, <2>1
<1>7. found = nonce
  <2>1. found = [j \in 1 .. NonceLength |-> c[n + 1 + j]]
    BY <1>2, <1>3
  <2>2. nonce = [j \in 1 .. NonceLength |-> nonce[j]]
    BY <1>2
  <2> HIDE DEF found
  <2> QED
    BY <1>2, <2>1, <2>2
<1>8. label = AsElements(Label)
  <2>1. label = [j \in 1 .. 1 |-> c[n + NonceLength + 1 + j]]
    BY <1>2, <1>3
  <2>2. label = <<c[n + NonceLength + 2]>>
    <3>1. \A j \in 1 .. 1 : n + NonceLength + 1 + j = n + NonceLength + 2
      BY <1>2
    <3>2. label = [j \in 1 .. 1 |-> c[n + NonceLength + 2]]
      BY <2>1, <3>1
    <3>3. \A e : [j \in 1 .. 1 |-> e] = <<e>>
      OBVIOUS
    <3> HIDE DEF label
    <3> QED
      BY <3>2, <3>3
  <2> QED
    BY <1>2, <1>4, <2>2
<1> DEFINE wanted == Tag(session.decrypt_key, found, AsElements(Label), text)
<1>9. decrypt(session, c, Label) =
          IF m < 1 \/ c[m] # wanted \/ label # AsElements(Label) THEN set_error(<<>>)
          ELSE Result([i \in DOMAIN text |-> text[i][1]], <<>>)
  BY DEF decrypt, m
<1>10. [i \in DOMAIN text |-> text[i][1]] = bytes
  <2>1. DOMAIN text = 1 .. n /\ \A i \in 1 .. n : text[i] = <<bytes[i]>>
    BY <1>5, <1>6
  <2> HIDE DEF text
  <2>2. \A i \in 1 .. n : text[i][1] = bytes[i]
    <3>1. \A b : <<b>>[1] = b
      OBVIOUS
    <3> QED
      BY <2>1, <3>1
  <2> QED
    BY <1>5, <2>1, <2>2
<1>11. m >= 1 /\ c[m] = tag
  BY <1>2, <1>3
<1>12. session.decrypt_key = key => wanted = tag
  BY <1>6, <1>7 DEF tag
<1>13. session.decrypt_key # key => wanted # tag
  BY TagsDiffer DEF tag
<1> HIDE DEF wanted, text, found, label
<1>14. m \in Int /\ ~(m < 1)
  BY <1>2, <1>3, <1>11
<1>15. ASSUME session.decrypt_key = key PROVE decrypt(session, c, Label) = Result(bytes, <<>>)
  BY <1>8, <1>9, <1>10, <1>11, <1>12, <1>14, <1>15
<1>16. ASSUME session.decrypt_key # key PROVE decrypt(session, c, Label).error
  <2>1. decrypt(session, c, Label) = set_error(<<>>)
    BY <1>9, <1>11, <1>13, <1>16
  <2> QED
    BY <2>1 DEF set_error
<1> QED
  BY <1>15, <1>16

LEMMA OpensNoCut ==
    ASSUME NEW bytes, bytes \in Seq(Int), NEW n, Len(bytes) = n, NEW tag, NEW session,
           NEW nonce, nonce \in Seq(Elements1), Len(nonce) = NonceLength,
           NEW c, c = SealedText(bytes, tag, nonce), NEW cut \in 0 .. Len(c) - 1
    PROVE  decrypt(session, SubSeq(c, 1, cut), Label).error
<1> DEFINE s == SubSeq(c, 1, cut)
           m == Len(s) - NonceLength - Len(Label)
           text == SubSeq(s, 1, m - 1)
           found == SubSeq(s, m + 1, m + NonceLength)
           label == SubSeq(s, m + NonceLength + 1, Len(s))
           wanted == Tag(session.decrypt_key, found, AsElements(Label), text)
<1>1. IsSealed(c, bytes, tag, nonce, n)
  BY SealedIs
<1>2. /\ n \in Nat /\ NonceLength \in Nat /\ Len(c) = n + NonceLength + 2
      /\ \A j \in 1 .. n : c[j] = <<bytes[j]>>
  BY <1>1, SealingConstants DEF IsSealed
<1>3. s = [j \in 1 .. cut |-> c[j]] /\ Len(s) = cut
  BY <1>2
<1>4. Len(Label) = 1
  BY DEF Label
<1> HIDE DEF s
<1>5. m \in Int /\ m < n + 1 /\ m <= cut
  BY <1>2, <1>3, <1>4
<1>6. decrypt(session, s, Label) =
          IF m < 1 \/ s[m] # wanted \/ label # AsElements(Label) THEN set_error(<<>>)
          ELSE Result([i \in DOMAIN text |-> text[i][1]], <<>>)
  BY DEF decrypt
<1> HIDE DEF m
<1>7. m >= 1 => s[m] = <<bytes[m]>>
  BY <1>2, <1>3, <1>5
<1>8. \A b : <<b>> # wanted
  BY TagsDiffer
<1> HIDE DEF wanted, text, found, label
<1>9. decrypt(session, s, Label) = set_error(<<>>)
  <2>1. m < 1 \/ s[m] # wanted
    <3>1. ~(m < 1) => m >= 1
      BY <1>5
    <3>2. ~(m < 1) => s[m] = <<bytes[m]>>
      BY ONLY <1>7, <3>1
    <3>3. <<bytes[m]>> # wanted
      BY ONLY <1>8
    <3> QED
      BY ONLY <3>2, <3>3
  <2> QED
    BY ONLY <1>6, <2>1
<1> QED
  BY <1>9 DEF set_error, s

------------------------------------------------------------------------------
(* Datagrams.                                                              *)

AllFormats == AudioControls \cup VideoControls \cup OtherFormats
WrittenFormats == AllFormats \ {"printed key"}

Fits(format) ==
    Reads4(FormatOf(format)) /\ (format # "client_report" => Lasts4(FormatOf(format)))

LEMMA FitsIf ==
    ASSUME NEW format, Fits4(FormatOf(format))
    PROVE  Fits(format)
  BY DEF Fits, Fits4

LEMMA FormatsFit ==
    ASSUME NEW format \in WrittenFormats
    PROVE  Fits(format)
<1>1. \/ format = "set_cursor_lag" \/ format = "set_gain" \/ format = "set_live"
      \/ format = "client_report" \/ format = "video_control" \/ format = "insert_layer"
      \/ format = "remove_layer" \/ format = "atomic_scene_update"
      \/ format = "Packet of audio" \/ format = "Packet of video" \/ format = "KeyMessage"
      \/ format = "LongLivedKey" \/ format = "sealed Packet" \/ format = "sealed KeyMessage"
  BY DEF WrittenFormats, AllFormats, AudioControls, VideoControls, SceneControls, OtherFormats,
         SealedFormats
<1>2. CASE format = "set_cursor_lag"
  <2>1. FormatOf(format) = set_cursor_lag
    BY <1>2 DEF FormatOf
  <2> QED
    BY <2>1, CursorLagFits, FitsIf
<1>3. CASE format = "set_gain"
  <2>1. FormatOf(format) = set_gain
    BY <1>3 DEF FormatOf
  <2> QED
    BY <2>1, GainFits, FitsIf
<1>4. CASE format = "set_live"
  <2>1. FormatOf(format) = set_live_message
    BY <1>4 DEF FormatOf
  <2> QED
    BY <2>1, LiveFits, FitsIf
<1>5. CASE format = "client_report"
  <2>1. FormatOf(format) = client_report
    BY <1>5 DEF FormatOf
  <2> QED
    BY <1>5, <2>1, ReportFits DEF Fits
<1>6. CASE format = "video_control"
  <2>1. FormatOf(format) = video_control
    BY <1>6 DEF FormatOf
  <2> QED
    BY <2>1, VideoControlFits, FitsIf
<1>7. CASE format = "insert_layer"
  <2>1. FormatOf(format) = insert_layer
    BY <1>7 DEF FormatOf
  <2> QED
    BY <2>1, InsertLayerFits, FitsIf
<1>8. CASE format = "remove_layer"
  <2>1. FormatOf(format) = remove_layer
    BY <1>8 DEF FormatOf
  <2> QED
    BY <2>1, RemoveLayerFits, FitsIf
<1>9. CASE format = "atomic_scene_update"
  <2>1. FormatOf(format) = atomic_scene_update
    BY <1>9 DEF FormatOf
  <2> QED
    BY <2>1, SceneUpdateFits, FitsIf
<1>10. CASE format \in {"Packet of audio", "sealed Packet"}
  <2>1. FormatOf(format) = Packet(AudioFrame)
    BY <1>10 DEF FormatOf
  <2>2. Fits4(Packet(AudioFrame))
    BY FlaggedFit, PacketFits
  <2> QED
    BY <2>1, <2>2, FitsIf
<1>11. CASE format = "Packet of video"
  <2>1. FormatOf(format) = Packet(VideoChunk)
    BY <1>11 DEF FormatOf
  <2>2. Fits4(Packet(VideoChunk))
    BY FlaggedFit, PacketFits
  <2> QED
    BY <2>1, <2>2, FitsIf
<1>12. CASE format \in {"KeyMessage", "sealed KeyMessage"}
  <2>1. FormatOf(format) = KeyMessage
    BY <1>12 DEF FormatOf
  <2> QED
    BY <2>1, KeyMessageFits, FitsIf
<1>13. CASE format = "LongLivedKey"
  <2>1. FormatOf(format) = LongLivedKey
    BY <1>13 DEF FormatOf
  <2> QED
    BY <2>1, LongLivedKeyFits, FitsIf
<1> QED
  BY <1>1, <1>2, <1>3, <1>4, <1>5, <1>6, <1>7, <1>8, <1>9, <1>10, <1>11, <1>12, <1>13

LEMMA SeedsAre ==
    ASSUME NEW seed \in Seeds
    PROVE  seed \in 0 .. 255 /\ seed \in Nat
  BY ControlConstants

LEMMA KeysAre ==
    ASSUME NEW seed \in Nat
    PROVE  KeyOf(seed) \in Keys16 /\ KeyOf(seed)[1] = (37 + 101 * seed) % 256
<1>1. \A i \in 1 .. 16 : (37 * i + 101 * seed) % 256 \in 0 .. 255
  OBVIOUS
<1>2. KeyOf(seed) = [i \in 1 .. 16 |-> (37 * i + 101 * seed) % 256]
  BY DEF KeyOf, KeyLength
<1>3. 1 \in 1 .. 16 /\ 37 * 1 = 37
  OBVIOUS
<1> QED
  BY <1>1, <1>2, <1>3 DEF Keys16, Bytes256

LEMMA KeysDiffer ==
    ASSUME NEW s \in 0 .. 256, NEW t \in 0 .. 256, s # t, s - t < 256, t - s < 256
    PROVE  KeyOf(s) # KeyOf(t)
<1> SUFFICES ASSUME KeyOf(s) = KeyOf(t) PROVE FALSE
  OBVIOUS
<1>1. (37 + 101 * s) % 256 = (37 + 101 * t) % 256
  <2>1. s \in Nat /\ t \in Nat
    OBVIOUS
  <2> QED
    BY <2>1, KeysAre
<1> DEFINE a == (37 + 101 * s) \div 256
           b == (37 + 101 * t) \div 256
<1>2. 101 * s - 101 * t = 256 * (a - b) /\ a \in Int /\ b \in Int
  BY <1>1
<1> HIDE DEF a, b
<1>3. s - t = 256 * (109 * (a - b) - 43 * (s - t))
  BY <1>2
<1> DEFINE c == 109 * (a - b) - 43 * (s - t)
<1>4. c \in Int
  BY <1>2
<1> HIDE DEF c
<1>5. s - t = 256 * c
  BY <1>3 DEF c
<1> QED
  BY <1>4, <1>5

------------------------------------------------------------------------------
Agrees(d) ==
    \A whole \in {BytesOf(d)}, got \in {Received(d)} :
        /\ got.error <=> d.cut < Len(whole)
        /\ d.format # "client_report" => Announced(d) = Len(whole)
        /\ ~got.error =>
              /\ got.value = MessageOf(d) /\ got.input = <<>>
              /\ OpensOnlyForItsPeer(d, whole) /\ HasOneText(d, whole)

(* A text is opened whole or not at all, and then read.                    *)
LEMMA WordsAreRead ==
    ASSUME NEW format \in WrittenFormats, NEW k \in Nat, NEW w, w = Word4(FormatOf(format), k)
    PROVE  /\ w \in Inputs /\ w \in Seq(Int) /\ Len(w) \in Nat
           /\ Parsed(FormatOf(format), w) = Result(<<>>, Sample(FormatOf(format), k))
           /\ \A cut \in 0 .. Len(w) - 1 : Parsed(FormatOf(format), SubSeq(w, 1, cut)).error
           /\ format # "client_report" =>
                 Len(w) = serialized_length(FormatOf(format), Sample(FormatOf(format), k))
<1> DEFINE type == FormatOf(format)
           v == Sample(type, k)
<1>1. Fits(format)
  BY FormatsFit
<1>2. Reads(Reader4(type), w, v)
  BY <1>1 DEF Fits, Reads4
<1>3. format # "client_report" => Len(w) = serialized_length(type, v)
  BY <1>1 DEF Fits, Lasts4
<1> HIDE DEF v, type
<1>4. /\ w \in Inputs
      /\ \A rest \in Inputs : Reader4(type)[w \o rest] = Result(rest, v)
      /\ \A cut \in 0 .. Len(w) - 1 : Reader4(type)[SubSeq(w, 1, cut)].error
  BY <1>2 DEF Reads
<1>5. \A s \in Inputs : Reader4(type)[s] = Parsed(type, s)
  BY DEF Reader4
<1>6. Len(w) \in Nat /\ \A cut \in 0 .. Len(w) - 1 : SubSeq(w, 1, cut) \in Inputs
  BY <1>4, InputsAre
<1>7. <<>> \in Inputs /\ w \o <<>> = w /\ w \in Seq(Int)
  <2>1. w \in Seq(0 .. Byte - 1)
    BY <1>4 DEF Inputs
  <2>2. w \o <<>> = w
    BY <2>1, WholeIs
  <2>3. w \in Seq(Int)
    BY <2>1, ByteIs
  <2> QED
    BY <2>2, <2>3 DEF Inputs
<1>8. Parsed(type, w) = Result(<<>>, v)
  BY <1>4, <1>5, <1>7
<1>9. \A cut \in 0 .. Len(w) - 1 : Parsed(type, SubSeq(w, 1, cut)).error
  BY <1>4, <1>5, <1>6
<1> QED
  BY <1>3, <1>4, <1>6, <1>7, <1>8, <1>9 DEF type, v

LEMMA PlainAgrees ==
    ASSUME NEW d, d.format \in WrittenFormats, d.format \notin SealedFormats, d.seed \in Nat,
           d.cut \in 0 .. Len(BytesOf(d))
    PROVE  Agrees(d)
<1> DEFINE type == FormatOf(d.format)
           w == Word4(type, d.seed)
           v == Sample(type, d.seed)
<1>1. d.format # "printed key"
  BY DEF WrittenFormats
<1>2. MessageOf(d) = v
  BY <1>1 DEF MessageOf
<1>3. BytesOf(d) = w
  BY <1>1, <1>2 DEF BytesOf, Sealed, Word4
<1>4. Received(d) = Parsed(type, SubSeq(w, 1, d.cut))
  <2>1. Received(d) = ReadBy(d.format, Result(SubSeq(w, 1, d.cut), <<>>))
    BY <1>1, <1>3 DEF Received, Reading
  <2> QED
    BY <2>1 DEF ReadBy, Result
<1>5. Announced(d) = serialized_length(type, v)
  BY <1>1, <1>2 DEF Announced
<1>6. /\ w \in Inputs /\ w \in Seq(Int) /\ Len(w) \in Nat
      /\ Parsed(type, w) = Result(<<>>, v)
      /\ \A cut \in 0 .. Len(w) - 1 : Parsed(type, SubSeq(w, 1, cut)).error
      /\ d.format # "client_report" => Len(w) = serialized_length(type, v)
  BY WordsAreRead
<1>7. OpensOnlyForItsPeer(d, w) /\ HasOneText(d, w)
  BY <1>1 DEF OpensOnlyForItsPeer, HasOneText
<1> HIDE DEF w, v, type
<1>8. d.cut \in 0 .. Len(w) /\ SubSeq(w, 1, Len(w)) = w
  <2>1. w \in Seq(0 .. Byte - 1)
    BY <1>6 DEF Inputs
  <2> QED
    BY <1>3, <2>1, WholeIs
<1> DEFINE got == Received(d)
<1>9. (d.cut < Len(w) => got.error) /\ (~(d.cut < Len(w)) => got = Result(<<>>, v))
  <2>1. d.cut < Len(w) => d.cut \in 0 .. Len(w) - 1
    BY <1>6, <1>8
  <2>2. ~(d.cut < Len(w)) => d.cut = Len(w)
    BY <1>6, <1>8
  <2> HIDE DEF got
  <2>3. got = Parsed(type, SubSeq(w, 1, d.cut))
    BY <1>4 DEF got
  <2> QED
    BY <1>6, <1>8, <2>1, <2>2, <2>3
<1> HIDE DEF got
<1>10. /\ got.error <=> d.cut < Len(w)
       /\ ~got.error => got.value = v /\ got.input = <<>>
  BY <1>9 DEF Result
<1>11. d.format # "client_report" => Announced(d) = Len(w)
  BY <1>5, <1>6
<1> QED
  BY <1>2, <1>3, <1>7, <1>10, <1>11 DEF Agrees, got

------------------------------------------------------------------------------
LEMMA SessionsAre ==
    ASSUME NEW d
    PROVE  /\ SessionOf(d).encrypt_key = KeyOf(d.seed)
           /\ SessionOf(d).decrypt_key = KeyOf(d.seed + 1)
           /\ SessionOf(d).nonce_val = Values(NonceLength) - 1
           /\ SessionOf(d).entropy = d.seed
           /\ PeerOf(d).decrypt_key = KeyOf(d.seed)
<1> DEFINE random == d.format = "sealed KeyMessage"
           made == CryptoSession(KeyOf(d.seed), KeyOf(d.seed + 1), random,
                                 <<Values(NonceLength) - 1, d.seed>>)
<1>1. /\ made.encrypt_key = KeyOf(d.seed) /\ made.decrypt_key = KeyOf(d.seed + 1)
      /\ made.nonce_val = Values(NonceLength) - 1 /\ made.entropy = d.seed
  BY DEF CryptoSession
<1>2. \A r : /\ Moved(made).encrypt_key = made.encrypt_key
             /\ Moved(made).decrypt_key = made.decrypt_key
             /\ Moved(made).nonce_val = made.nonce_val
             /\ Moved(made).entropy = made.entropy
  BY DEF Moved, CryptoSession
<1>3. SessionOf(d) = IF d.format = "sealed Packet" THEN Moved(made) ELSE made
  BY DEF SessionOf
<1>4. PeerOf(d).decrypt_key = KeyOf(d.seed)
  BY DEF PeerOf, CryptoSession
<1> HIDE DEF made
<1> QED
  BY <1>1, <1>2, <1>3, <1>4

LEMMA SealedBytes ==
    ASSUME NEW d, d.format \in SealedFormats, d.seed \in Nat,
           NEW w, w = Word4(FormatOf(d.format), d.seed)
    PROVE  \E nonce : /\ nonce \in Seq(Elements1) /\ Len(nonce) = NonceLength
                      /\ BytesOf(d) = SealedText(w, Tag(KeyOf(d.seed), nonce, AsElements(Label),
                                                        AsElements(w)), nonce)
<1> DEFINE session == SessionOf(d)
           nonce_val == IF session.randomize_nonce THEN session.entropy
                        ELSE (session.nonce_val + 1) % Values(NonceLength)
           nonce == AsElements(Nonce(nonce_val))
<1>1. d.format # "printed key"
  BY DEF SealedFormats
<1>2. BytesOf(d) = encrypt(session, Label, w).ciphertext
  BY <1>1 DEF BytesOf, Sealed, MessageOf, Word4
<1>3. nonce_val \in Int
  <2>1. Values(NonceLength) \in Nat \ {0}
    BY SealingConstants, ValuesAre
  <2>2. session.entropy \in Int /\ session.nonce_val \in Int
    <3>1. SessionOf(d).nonce_val = Values(NonceLength) - 1 /\ SessionOf(d).entropy = d.seed
      BY SessionsAre
    <3> QED
      BY <2>1, <3>1
  <2>3. (session.nonce_val + 1) % Values(NonceLength) \in Int
    BY <2>1, <2>2
  <2> QED
    BY <2>2, <2>3
<1> HIDE DEF session
<1>4. encrypt(session, Label, w).ciphertext =
          SealedText(w, Tag(session.encrypt_key, nonce, AsElements(Label), AsElements(w)), nonce)
  BY DEF encrypt, SealedText
<1> HIDE DEF nonce_val
<1>5. Nonce(nonce_val) \in Seq(Int) /\ Len(Nonce(nonce_val)) = NonceLength
  <2>1. Byte \in Nat \ {0} /\ NonceLength \in Nat
    BY ByteIs, SealingConstants
  <2>2. /\ Digits(Byte, nonce_val, NonceLength) \in Seq(0 .. Byte - 1)
        /\ Len(Digits(Byte, nonce_val, NonceLength)) = NonceLength
    BY <1>3, <2>1, DigitsAre
  <2> DEFINE n == Digits(Byte, nonce_val, NonceLength)
  <2> HIDE DEF n
  <2>3. n \in Seq(0 .. Byte - 1) /\ Len(n) = NonceLength
    BY <2>2 DEF n
  <2>4. n \in Seq(Int)
    BY <2>1, <2>3
  <2> QED
    BY <2>3, <2>4 DEF n, Nonce
<1>6. nonce \in Seq(Elements1) /\ Len(nonce) = NonceLength
  BY <1>5, ElementsAre
<1>7. session.encrypt_key = KeyOf(d.seed)
  BY SessionsAre DEF session
<1> QED
  BY <1>2, <1>4, <1>6, <1>7

LEMMA SealedAgrees ==
    ASSUME NEW format \in SealedFormats, NEW seed \in Seeds, NEW cut,
           NEW d, d = [format |-> format, seed |-> seed, cut |-> cut],
           d.cut \in 0 .. Len(BytesOf(d))
    PROVE  Agrees(d)
<1> DEFINE type == FormatOf(format)
           w == Word4(type, seed)
           v == Sample(type, seed)
           c == BytesOf(d)
<1>1. /\ d.format = format /\ d.seed = seed /\ d.cut = cut
      /\ format # "printed key" /\ format \in WrittenFormats /\ format # "client_report"
  BY DEF SealedFormats, WrittenFormats, AllFormats, OtherFormats
<1>2. MessageOf(d) = v
  BY <1>1 DEF MessageOf
<1>3. seed \in Nat /\ seed \in 0 .. 255
  BY SeedsAre
<1>4. /\ w \in Inputs /\ w \in Seq(Int) /\ Len(w) \in Nat
      /\ Parsed(type, w) = Result(<<>>, v)
      /\ Len(w) = serialized_length(type, v)
  BY <1>1, <1>3, WordsAreRead
<1>5. PICK nonce : /\ nonce \in Seq(Elements1) /\ Len(nonce) = NonceLength
                   /\ c = SealedText(w, Tag(KeyOf(seed), nonce, AsElements(Label),
                                            AsElements(w)), nonce)
  BY <1>1, <1>3, SealedBytes
<1>6. Announced(d) = serialized_length(type, v) + 1 + NonceLength + Len(Label)
  BY <1>1, <1>2 DEF Announced
<1>7. HasOneText(d, c)
  BY <1>1 DEF HasOneText
<1>8. \A bytes, session : Reading(d, bytes, session) = ReadBy(format, decrypt(session, bytes, Label))
  BY <1>1 DEF Reading
<1>9. Received(d) = ReadBy(format, decrypt(PeerOf(d), SubSeq(c, 1, cut), Label))
  BY <1>1, <1>8 DEF Received
<1> HIDE DEF w, v, c, type
<1>10. \A session : /\ session.decrypt_key = KeyOf(seed)
                          => decrypt(session, c, Label) = Result(w, <<>>)
                    /\ session.decrypt_key # KeyOf(seed) => decrypt(session, c, Label).error
  BY <1>4, <1>5, OpensWhole
<1>11. /\ Len(c) = Len(w) + NonceLength + 2 /\ Len(c) \in Nat
       /\ SubSeq(c, 1, Len(c)) = c
  <2>1. IsSealed(c, w, Tag(KeyOf(seed), nonce, AsElements(Label), AsElements(w)), nonce, Len(w))
    BY <1>4, <1>5, SealedIs
  <2>2. /\ Len(c) = Len(w) + NonceLength + 2 /\ Len(c) \in Nat
        /\ c = [j \in 1 .. Len(c) |-> c[j]]
    BY <1>4, <2>1, SealingConstants DEF IsSealed
  <2>3. SubSeq(c, 1, Len(c)) = [j \in 1 .. Len(c) |-> c[j]]
    BY <2>2
  <2> QED
    BY <2>2, <2>3
<1>12. cut \in 0 .. Len(c)
  BY <1>1 DEF c
<1>13. ASSUME cut < Len(c) PROVE Received(d).error
  <2>1. cut \in 0 .. Len(c) - 1
    BY <1>11, <1>12, <1>13
  <2>2. decrypt(PeerOf(d), SubSeq(c, 1, cut), Label).error
    BY <1>4, <1>5, <2>1, OpensNoCut
  <2> QED
    BY <1>9, <2>2 DEF ReadBy
<1>14. ASSUME ~(cut < Len(c)) PROVE Received(d) = Result(<<>>, v)
  <2>1. cut = Len(c)
    BY <1>11, <1>12, <1>14
  <2>2. PeerOf(d).decrypt_key = KeyOf(seed)
    BY <1>1, SessionsAre
  <2>3. decrypt(PeerOf(d), SubSeq(c, 1, cut), Label) = Result(w, <<>>)
    BY <1>10, <1>11, <2>1, <2>2
  <2>4. ReadBy(format, Result(w, <<>>)) = Parsed(type, w)
    BY DEF ReadBy, Result, type
  <2> QED
    BY <1>4, <1>9, <2>3, <2>4
<1>15. OpensOnlyForItsPeer(d, c)
  <2>1. ASSUME NEW session, session.decrypt_key # KeyOf(seed)
        PROVE  Reading(d, c, session).error
    BY <1>8, <1>10, <2>1 DEF ReadBy
  <2>2. SessionOf(d).decrypt_key # KeyOf(seed)
    <3>1. seed + 1 \in 0 .. 256 /\ seed \in 0 .. 256 /\ seed + 1 # seed
          /\ (seed + 1) - seed < 256 /\ seed - (seed + 1) < 256
      BY <1>3
    <3>2. KeyOf(seed + 1) # KeyOf(seed)
      BY <3>1, KeysDiffer
    <3> QED
      BY <1>1, <3>2, SessionsAre
  <2>3. ASSUME NEW other \in Seeds \ {d.seed}
        PROVE  PeerOf([d EXCEPT !.seed = other]).decrypt_key # KeyOf(seed)
    <3>1. [d EXCEPT !.seed = other].seed = other
      OBVIOUS
    <3>2. PeerOf([d EXCEPT !.seed = other]).decrypt_key = KeyOf(other)
      BY <3>1, SessionsAre
    <3>3. other \in 0 .. 256 /\ seed \in 0 .. 256 /\ other # seed
          /\ other - seed < 256 /\ seed - other < 256
      <4>1. other \in Seeds /\ other # seed
        BY <1>1
      <4>2. other \in 0 .. 255
        BY <4>1, SeedsAre
      <4> QED
        BY ONLY <1>3, <4>1, <4>2
    <3> QED
      BY <3>2, <3>3, KeysDiffer
  <2> QED
    BY <2>1, <2>2, <2>3 DEF OpensOnlyForItsPeer
<1>16. Announced(d) = Len(c)
  <2>1. Len(Label) = 1 /\ NonceLength \in Nat
    BY SealingConstants DEF Label
  <2> QED
    BY <1>4, <1>6, <1>11, <2>1
<1> DEFINE got == Received(d)
<1> HIDE DEF got
<1>17. /\ got.error <=> cut < Len(c)
       /\ ~got.error => got.value = v /\ got.input = <<>>
  BY <1>13, <1>14 DEF Result, got
<1> QED
  BY <1>1, <1>2, <1>7, <1>15, <1>16, <1>17 DEF Agrees, got, c

------------------------------------------------------------------------------
IsPrinted(d) == d.format = "printed key"

LEMMA PrintedAgrees ==
    ASSUME NEW d, IsPrinted(d), d.seed \in Nat, d.cut \in 0 .. Len(BytesOf(d))
    PROVE  Agrees(d)
<1> DEFINE key == KeyOf(d.seed)
           text == printable_key(key)
<1>1. BytesOf(d) = text /\ MessageOf(d) = key /\ Announced(d) = PrintableLength
  <2>1. BytesOf(d) = text
    BY DEF BytesOf, IsPrinted
  <2>2. MessageOf(d) = key
    BY DEF MessageOf, IsPrinted
  <2>3. Announced(d) = PrintableLength
    <3>1. d.format \notin SealedFormats
      BY DEF SealedFormats, IsPrinted
    <3> QED
      BY <3>1 DEF Announced, IsPrinted
  <2> QED
    BY <2>1, <2>2, <2>3
<1>2. key \in Keys16
  BY KeysAre
<1> HIDE DEF key
<1>3. text \in Seq(Letters) /\ Len(text) = PrintableLength /\ base64_decode(text) = key
  BY <1>2, KeyAsText
<1>4. \A s : Reading(d, s, PeerOf(d)) = Base64Key(s)
  BY DEF Reading, IsPrinted
<1>5. Received(d) = Base64Key(SubSeq(text, 1, d.cut))
  BY <1>1, <1>4 DEF Received
<1>6. printable_key(base64_decode(text)) = text
  BY <1>3 DEF text
<1> HIDE DEF text
<1>7. PrintableLength \in Nat /\ PrintableLength = 22
  BY DEF PrintableLength
<1>8. /\ SubSeq(text, 1, Len(text)) = text
      /\ \A k \in 0 .. Len(text) : Len(SubSeq(text, 1, k)) = k
      /\ ToSet(text) \ Letters = {}
  <2>1. SubSeq(text, 1, Len(text)) = text
    BY <1>3, WholeIs
  <2>2. \A k \in 0 .. Len(text) : Len(SubSeq(text, 1, k)) = k
    BY <1>3, PrefixIs
  <2>3. ToSet(text) \ Letters = {}
    <3>1. \A k \in 1 .. PrintableLength : text[k] \in Letters
      BY <1>3, ElementIn
    <3>2. DOMAIN text = 1 .. PrintableLength
      BY <1>3
    <3> QED
      BY <3>1, <3>2 DEF ToSet
  <2> QED
    BY <2>1, <2>2, <2>3
<1>9. d.cut \in 0 .. Len(text)
  BY <1>1
<1>10. ASSUME d.cut < Len(text) PROVE Received(d).error
  <2> DEFINE s == SubSeq(text, 1, d.cut)
  <2>1. Len(s) = d.cut
    BY <1>8, <1>9
  <2> HIDE DEF s
  <2>2. Len(s) # PrintableLength
    BY <1>3, <1>7, <1>9, <1>10, <2>1
  <2>3. Base64Key(s) = set_error(<<>>)
    BY <2>2 DEF Base64Key
  <2> QED
    BY <1>5, <2>3 DEF set_error, s
<1>11. ASSUME ~(d.cut < Len(text)) PROVE Received(d) = Result(<<>>, key)
  <2>1. SubSeq(text, 1, d.cut) = text
    <3>1. d.cut = Len(text)
      <4>1. Len(text) = PrintableLength
        BY <1>3
      <4> QED
        BY ONLY <1>7, <1>9, <1>11, <4>1
    <3> QED
      BY <1>8, <3>1
  <2>2. Base64Key(text) = Result(<<>>, base64_decode(text))
    BY <1>3, <1>6, <1>8 DEF Base64Key
  <2> QED
    BY <1>3, <1>5, <2>1, <2>2
<1>12. OpensOnlyForItsPeer(d, text)
  BY DEF OpensOnlyForItsPeer, SealedFormats, IsPrinted
<1>15. ASSUME NEW i \in 1 .. PrintableLength, NEW letter, letter # text[i],
             NEW got, got = Base64Key([text EXCEPT ![i] = letter])
      PROVE  got.error \/ got.value # key
  <2> DEFINE other == [text EXCEPT ![i] = letter]
  <2>1. other[i] = letter
    <3>1. i \in DOMAIN text
      BY <1>3
    <3> QED
      BY <3>1
  <2>2. other # text
    BY <1>15, <2>1
  <2> HIDE DEF other
  <2>3. got = Base64Key(other)
    BY <1>15 DEF other
  <2>4. printable_key(key) = text
    BY DEF text
  <2>5. CASE printable_key(base64_decode(other)) # other
    <3>1. Base64Key(other) = set_error(<<>>)
      BY <2>5 DEF Base64Key
    <3> QED
      BY <2>3, <3>1 DEF set_error
  <2>6. CASE printable_key(base64_decode(other)) = other
    <3>1. base64_decode(other) # key
      BY <2>2, <2>4, <2>6
    <3>2. got = set_error(<<>>) \/ got = Result(<<>>, base64_decode(other))
      BY <2>3 DEF Base64Key
    <3>3. CASE got = set_error(<<>>)
      BY <3>3 DEF set_error
    <3>4. CASE got = Result(<<>>, base64_decode(other))
      BY <3>1, <3>4 DEF Result
    <3> QED
      BY <3>2, <3>3, <3>4
  <2> QED
    BY <2>5, <2>6
<1>13. HasOneText(d, text)
  <2>1. \A i \in 1 .. PrintableLength, letter \in Letters \cup {64} :
           letter # text[i] =>
              \A k \in {Base64Key([text EXCEPT ![i] = letter])} : k.error \/ k.value # KeyOf(d.seed)
    <3> TAKE i \in 1 .. PrintableLength, letter \in Letters \cup {64}
    <3> HAVE letter # text[i]
    <3> TAKE k \in {Base64Key([text EXCEPT ![i] = letter])}
    <3>1. k = Base64Key([text EXCEPT ![i] = letter])
      OBVIOUS
    <3> QED
      BY <1>15, <3>1 DEF key
  <2> QED
    BY <2>1 DEF HasOneText
<1> DEFINE got == Received(d)
<1> HIDE DEF got
<1>14. /\ got.error <=> d.cut < Len(text)
       /\ ~got.error => got.value = key /\ got.input = <<>>
  BY <1>10, <1>11 DEF Result, got
<1> QED
  BY <1>1, <1>3, <1>12, <1>13, <1>14 DEF Agrees, got

------------------------------------------------------------------------------
IsDatagram(d) ==
    \/ d = None
    \/ \E format \in AllFormats, seed \in Seeds : \E cut \in Int :
          /\ d = [format |-> format, seed |-> seed, cut |-> cut]
          /\ cut \in -1 .. Len(BytesOf(d))

LEMMA OnlyFormatAndSeed ==
    ASSUME NEW format, NEW seed, NEW cut
    PROVE  BytesOf([format |-> format, seed |-> seed, cut |-> cut])
           = BytesOf([format |-> format, seed |-> seed])
<1> DEFINE d == [format |-> format, seed |-> seed, cut |-> cut]
           e == [format |-> format, seed |-> seed]
<1>1. d.format = e.format /\ d.seed = e.seed
  OBVIOUS
<1> HIDE DEF d, e
<1>2. SessionOf(d) = SessionOf(e) /\ MessageOf(d) = MessageOf(e)
  BY <1>1 DEF SessionOf, MessageOf
<1>3. BytesOf(d) = BytesOf(e)
  BY <1>1, <1>2 DEF BytesOf, Sealed
<1> QED
  BY <1>3 DEF d, e

LEMMA WholeLength ==
    ASSUME NEW format \in AllFormats, NEW seed \in Seeds
    PROVE  Len(BytesOf([format |-> format, seed |-> seed])) \in Nat
<1> DEFINE d == [format |-> format, seed |-> seed]
           w == Word4(FormatOf(format), seed)
<1>1. d.format = format /\ d.seed = seed /\ seed \in Nat
  BY SeedsAre
<1> HIDE DEF d
<1>2. CASE format = "printed key"
  <2>1. BytesOf(d) = printable_key(KeyOf(seed))
    BY <1>1, <1>2 DEF BytesOf
  <2>2. KeyOf(seed) \in Keys16
    BY <1>1, KeysAre
  <2>3. Len(BytesOf(d)) = PrintableLength
    BY <2>1, <2>2, KeyAsText
  <2> QED
    BY <2>3 DEF PrintableLength, d
<1>3. CASE format # "printed key"
  <2>1. format \in WrittenFormats
    BY <1>3 DEF WrittenFormats
  <2>2. w \in Seq(Int) /\ Len(w) \in Nat
    BY <1>1, <2>1, WordsAreRead
  <2>3. CASE format \in SealedFormats
    <3>1. PICK nonce : /\ nonce \in Seq(Elements1) /\ Len(nonce) = NonceLength
                       /\ BytesOf(d) = SealedText(w, Tag(KeyOf(d.seed), nonce, AsElements(Label),
                                                         AsElements(w)), nonce)
      BY <1>1, <2>3, SealedBytes
    <3>2. IsSealed(BytesOf(d), w, Tag(KeyOf(d.seed), nonce, AsElements(Label), AsElements(w)),
                   nonce, Len(w))
      BY <2>2, <3>1, SealedIs
    <3> QED
      BY <2>2, <3>2, SealingConstants DEF IsSealed, d
  <2>4. CASE format \notin SealedFormats
    <3>1. BytesOf(d) = w
      BY <1>1, <1>3, <2>4 DEF BytesOf, Sealed, MessageOf, Word4
    <3> QED
      BY <2>2, <3>1 DEF d
  <2> QED
    BY <2>3, <2>4
<1> QED
  BY <1>2, <1>3

LEMMA DatagramKept ==
    IsDatagram(datagram) /\ [ControlNext]_control_vars => IsDatagram(datagram)'
<1> SUFFICES ASSUME IsDatagram(datagram), [ControlNext]_control_vars PROVE IsDatagram(datagram)'
  OBVIOUS
<1>1. ASSUME NEW format \in AudioControls \cup VideoControls \cup OtherFormats,
             NEW seed \in Seeds, Say(format, seed)
      PROVE  IsDatagram(datagram)'
  <2> DEFINE whole == Len(BytesOf([format |-> format, seed |-> seed]))
  <2>1. PICK cut \in IF edits = 0 THEN -1 .. whole ELSE {whole} :
           datagram' = [format |-> format, seed |-> seed, cut |-> cut]
    BY <1>1 DEF Say
  <2> DEFINE d == [format |-> format, seed |-> seed, cut |-> cut]
  <2>2. BytesOf(d) = BytesOf([format |-> format, seed |-> seed])
    BY OnlyFormatAndSeed
  <2>3. whole \in Nat
    BY WholeLength
  <2>4. cut \in -1 .. whole
    BY <2>1, <2>3
  <2> HIDE DEF whole
  <2>5. IsDatagram(d)
    BY <2>2, <2>3, <2>4 DEF IsDatagram, AllFormats, whole
  <2> QED
    BY <2>1, <2>5 DEF IsDatagram
<1>2. CASE Hear
  BY <1>2 DEF Hear, IsDatagram
<1>3. CASE OtherRead
  BY <1>3 DEF OtherRead, IsDatagram
<1>4. CASE UNCHANGED control_vars
  BY <1>4 DEF control_vars, IsDatagram
<1> QED
  BY <1>1, <1>2, <1>3, <1>4 DEF ControlNext

LEMMA DatagramsAgree == IsDatagram(datagram) => FormatsAgree
<1> SUFFICES ASSUME IsDatagram(datagram), datagram.cut >= 0, datagram # None
             PROVE  Agrees(datagram)
  BY DEF FormatsAgree, Agrees
<1>1. PICK format \in AllFormats, seed \in Seeds, cut \in Int :
         /\ datagram = [format |-> format, seed |-> seed, cut |-> cut]
         /\ cut \in -1 .. Len(BytesOf(datagram))
  BY DEF IsDatagram
<1>2. datagram.format = format /\ datagram.seed = seed /\ datagram.cut = cut /\ seed \in Nat
  BY <1>1, SeedsAre
<1>3. datagram.cut \in 0 .. Len(BytesOf(datagram))
  BY <1>1, <1>2
<1>4. CASE format = "printed key"
  BY <1>2, <1>3, <1>4, PrintedAgrees DEF IsPrinted
<1>5. CASE format \in SealedFormats
  BY <1>1, <1>3, <1>5, SealedAgrees
<1>6. CASE format \notin SealedFormats /\ format # "printed key"
  BY <1>2, <1>3, <1>6, PlainAgrees DEF WrittenFormats
<1> QED
  BY <1>4, <1>5, <1>6

(* What is written is read as it was, by parsers that take the fields in   *)
(* an order of their own, and of less nothing: Serializer and Parser       *)
(* (util/parser.hh) for every format, keys as text (crypto/base64.cc) and  *)
(* sealed messages (crypto/crypto.cc); for every sample and every cut.     *)
THEOREM MessagesReadBack == ControlSpec => []FormatsAgree
<1>1. ControlInit => IsDatagram(datagram)
  BY DEF ControlInit, IsDatagram
<1> QED
  BY <1>1, DatagramKept, DatagramsAgree, PTL DEF ControlSpec

------------------------------------------------------------------------------
(* What is read of a message about the scene are edits of the scene.       *)

LEMMA PartAt2 ==
    ASSUME NEW type, NEW m, NEW parts, HasFields(type, m, parts),
           \A i \in 1 .. m : Reads1(parts[i])
    PROVE  \A k \in Nat : \A i \in 1 .. m : Sample2(type, k)[type.reads[i]] = Sample1(parts[i], k + i)
<1>1. /\ Reads2(type)
      /\ \A k \in Nat :
            /\ Word2(type, k) = FlattenSeq([i \in 1 .. m |-> Word1(parts[i], k + i)])
            /\ \A i \in 1 .. m : Sample2(type, k)[type.reads[i]] = Sample1(parts[i], k + i)
  BY StructAt2
<1> QED
  BY <1>1

LEMMA PartAt4 ==
    ASSUME NEW type, NEW m, NEW parts, HasFields(type, m, parts),
           \A i \in 1 .. m : Reads3(parts[i])
    PROVE  \A k \in Nat : \A i \in 1 .. m : Sample(type, k)[type.reads[i]] = Sample3(parts[i], k + i)
<1>1. /\ Reads4(type)
      /\ \A k \in Nat :
            /\ Word4(type, k) = FlattenSeq([i \in 1 .. m |-> Word3(parts[i], k + i)])
            /\ \A i \in 1 .. m : Sample(type, k)[type.reads[i]] = Sample3(parts[i], k + i)
  BY StructAt4
<1> QED
  BY <1>1

LEMMA FlatSamples ==
    ASSUME NEW type, type.kind \in {"integer", "signed", "buffer"}, NEW k
    PROVE  Sample1(type, k) = FlatSample(type, k) /\ Sample3(type, k) = FlatSample(type, k)
<1>1. type.kind \notin {"array", "struct", "flagged"}
  OBVIOUS
<1>2. Sample1(type, k) = FlatSample(type, k)
  BY <1>1 DEF Sample1, SampleBy
<1>3. Sample2(type, k) = FlatSample(type, k)
  BY <1>1 DEF Sample2, SampleBy
<1>4. Sample3(type, k) = FlatSample(type, k)
  BY <1>1 DEF Sample3, SampleBy
<1> QED
  BY <1>2, <1>4

LEMMA FieldValues ==
    ASSUME NEW k \in Nat
    PROVE  /\ \A size \in Nat \ {0} : /\ FlatSample(Integer(size), k) \in Nat
                                      /\ FlatSample(Signed(size), k) \in Int
           /\ FlatSample(NetString, k) \in Texts
<1>1. ASSUME NEW size \in Nat \ {0}
      PROVE  FlatSample(Integer(size), k) \in Nat /\ FlatSample(Signed(size), k) \in Int
  <2>1. Values(size) \in Nat \ {0} /\ Half(size) \in Nat \ {0}
    BY ValuesAre
  <2>2. /\ FlatSample(Integer(size), k) = <<1, Values(size) - 1, Half(size)>>[(k % 3) + 1]
        /\ FlatSample(Signed(size), k) = <<-1, Half(size) - 1, -Half(size)>>[(k % 3) + 1]
    BY DEF FlatSample, Integer, Signed
  <2>3. /\ FlatSample(Integer(size), k) \in {1, Values(size) - 1, Half(size)}
        /\ FlatSample(Signed(size), k) \in {-1, Half(size) - 1, -Half(size)}
    BY <2>2, OneOfThree
  <2> QED
    BY <2>1, <2>3
<1>2. FlatSample(NetString, k) \in Texts
  <2> DEFINE n == k % ((Byte - 1) + 1)
  <2>1. FlatSample(NetString, k) = [i \in 1 .. n |-> (i + k) % Byte]
    BY DEF FlatSample, NetString, Buffer
  <2>2. n \in Nat
    BY ByteIs
  <2> HIDE DEF n
  <2>3. [i \in 1 .. n |-> (i + k) % Byte] \in Inputs
    BY <2>2, RunOfBytes
  <2>4. Inputs \subseteq Texts
    BY ByteIs DEF Inputs, Texts
  <2> QED
    BY <2>1, <2>3, <2>4
<1> QED
  BY <1>1, <1>2

LEMMA LayerIs ==
    ASSUME NEW v, NEW k \in Nat, v = [name \in ToSet(insert_layer.reads) |-> v[name]],
           v.is_media = FlatSample(Integer(1), k + 1), v.name = FlatSample(NetString, k + 2),
           v.filename = FlatSample(NetString, k + 3), v.x = FlatSample(Signed(2), k + 4),
           v.y = FlatSample(Signed(2), k + 5), v.width = FlatSample(Integer(2), k + 6),
           v.z = FlatSample(Integer(2), k + 7)
    PROVE  v \in LayerMessages
<1> DEFINE reads == <<"is_media", "name", "filename", "x", "y", "width", "z">>
<1>1. insert_layer.reads = reads
  BY DEF insert_layer, Format
<1>2. ToSet(reads) = {"is_media", "name", "filename", "x", "y", "width", "z"}
  <2>1. DOMAIN reads = 1 .. 7
    OBVIOUS
  <2>2. \A i \in 1 .. 7 : i = 1 \/ i = 2 \/ i = 3 \/ i = 4 \/ i = 5 \/ i = 6 \/ i = 7
    OBVIOUS
  <2>3. /\ reads[1] = "is_media" /\ reads[2] = "name" /\ reads[3] = "filename" /\ reads[4] = "x"
        /\ reads[5] = "y" /\ reads[6] = "width" /\ reads[7] = "z"
    OBVIOUS
  <2> HIDE DEF reads
  <2>4. ToSet(reads) = {reads[i] : i \in 1 .. 7}
    BY <2>1 DEF ToSet
  <2> QED
    BY <2>2, <2>3, <2>4
<1> HIDE DEF reads
<1>3. v = [name \in {"is_media", "name", "filename", "x", "y", "width", "z"} |-> v[name]]
  BY <1>1, <1>2
<1>4. \A i \in 1 .. 7 : k + i \in Nat
  OBVIOUS
<1>5. k + 1 \in Nat /\ k + 2 \in Nat /\ k + 3 \in Nat /\ k + 4 \in Nat /\ k + 5 \in Nat
      /\ k + 6 \in Nat /\ k + 7 \in Nat /\ 1 \in Nat \ {0} /\ 2 \in Nat \ {0}
  OBVIOUS
<1>6. /\ v.is_media \in Nat /\ v.name \in Texts /\ v.filename \in Texts /\ v.x \in Int
      /\ v.y \in Int /\ v.width \in Nat /\ v.z \in Nat
  BY <1>5, FieldValues
<1> QED
  BY <1>3, <1>6 DEF LayerMessages

LEMMA RemovalIs ==
    ASSUME NEW v, NEW k \in Nat, v = [name \in ToSet(remove_layer.reads) |-> v[name]],
           v.name = FlatSample(NetString, k + 1)
    PROVE  v \in RemovalMessages
<1>1. remove_layer.reads = <<"name">>
  BY DEF remove_layer, Format
<1>2. ToSet(<<"name">>) = {"name"}
  BY DEF ToSet
<1>3. v = [name \in {"name"} |-> v[name]]
  BY <1>1, <1>2
<1>4. v.name \in Texts
  <2>1. k + 1 \in Nat
    OBVIOUS
  <2> QED
    BY <2>1, FieldValues
<1> QED
  BY <1>3, <1>4 DEF RemovalMessages

(* The samples at both depths at which they occur.                         *)
LEMMA LayerAt2 ==
    ASSUME NEW k \in Nat
    PROVE  Sample2(insert_layer, k) \in LayerMessages
<1> DEFINE parts == <<Integer(1), NetString, NetString, Signed(2), Signed(2), Integer(2), Integer(2)>>
           reads == <<"is_media", "name", "filename", "x", "y", "width", "z">>
           type == insert_layer
           v == Sample2(type, k)
<1>1. type.kind = "struct" /\ type.reads = reads
  BY DEF insert_layer, Format
<1>2. v = [name \in ToSet(type.reads) |-> v[name]]
  BY <1>1 DEF Sample2, SampleBy
<1>3. HasFields(type, 7, parts)
  BY InsertLayerHas
<1>4. /\ parts[1] = Integer(1) /\ parts[2] = NetString /\ parts[3] = NetString
      /\ parts[4] = Signed(2) /\ parts[5] = Signed(2) /\ parts[6] = Integer(2)
      /\ parts[7] = Integer(2)
  OBVIOUS
<1>5. /\ reads[1] = "is_media" /\ reads[2] = "name" /\ reads[3] = "filename" /\ reads[4] = "x"
      /\ reads[5] = "y" /\ reads[6] = "width" /\ reads[7] = "z"
  OBVIOUS
<1>6. \A i \in 1 .. 7 : i = 1 \/ i = 2 \/ i = 3 \/ i = 4 \/ i = 5 \/ i = 6 \/ i = 7
  OBVIOUS
<1>7. 1 \in Nat \ {0} /\ 2 \in Nat \ {0}
  OBVIOUS
<1> HIDE DEF parts, reads, type, v
<1>8. \A i \in 1 .. 7 : IsFlat(parts[i])
  BY <1>4, <1>6, <1>7, FlatTypes
<1>9. \A i \in 1 .. 7 : parts[i].kind \in {"integer", "signed", "buffer"}
  BY <1>4, <1>6 DEF Integer, Signed, NetString, Buffer
<1>10. \A i \in 1 .. 7 : Reads1(parts[i])
  BY <1>8, FlatFits1 DEF Fits1
<1>11. \A i \in 1 .. 7 : v[type.reads[i]] = Sample1(parts[i], k + i)
  <2> DEFINE m == 7
  <2>1. HasFields(type, m, parts) /\ \A i \in 1 .. m : Reads1(parts[i])
    BY <1>3, <1>10
  <2> HIDE DEF m
  <2>2. \A i \in 1 .. m : Sample2(type, k)[type.reads[i]] = Sample1(parts[i], k + i)
    BY <2>1, PartAt2
  <2> QED
    BY <2>2 DEF v, m
<1>12. \A i \in 1 .. 7 : v[reads[i]] = FlatSample(parts[i], k + i)
  BY <1>1, <1>9, <1>11, FlatSamples
<1>13. /\ v.is_media = FlatSample(Integer(1), k + 1) /\ v.name = FlatSample(NetString, k + 2)
       /\ v.filename = FlatSample(NetString, k + 3) /\ v.x = FlatSample(Signed(2), k + 4)
       /\ v.y = FlatSample(Signed(2), k + 5) /\ v.width = FlatSample(Integer(2), k + 6)
       /\ v.z = FlatSample(Integer(2), k + 7)
  BY <1>4, <1>5, <1>12
<1>14. v \in LayerMessages
  BY <1>2, <1>13, LayerIs DEF type
<1> QED
  BY <1>14 DEF v, type

LEMMA RemovalAt2 ==
    ASSUME NEW k \in Nat
    PROVE  Sample2(remove_layer, k) \in RemovalMessages
<1> DEFINE parts == <<NetString>>
           reads == <<"name">>
           type == remove_layer
           v == Sample2(type, k)
<1>1. type.kind = "struct" /\ type.reads = reads
  BY DEF remove_layer, Format
<1>2. v = [name \in ToSet(type.reads) |-> v[name]]
  BY <1>1 DEF Sample2, SampleBy
<1>3. HasFields(type, 1, parts)
  BY RemoveLayerHas
<1>4. parts[1] = NetString /\ reads[1] = "name"
  OBVIOUS
<1> HIDE DEF parts, reads, type, v
<1>5. NetString.kind = "buffer"
  BY DEF NetString, Buffer
<1>6. \A i \in 1 .. 1 : Reads1(parts[i])
  BY <1>4, FlatTypes, FlatFits1 DEF Fits1
<1>7. \A i \in 1 .. 1 : v[type.reads[i]] = Sample1(parts[i], k + i)
  <2>1. \A i \in 1 .. 1 : Sample2(type, k)[type.reads[i]] = Sample1(parts[i], k + i)
    BY <1>3, <1>6, PartAt2
  <2> QED
    BY <2>1 DEF v
<1>8. v.name = FlatSample(NetString, k + 1)
  BY <1>1, <1>4, <1>5, <1>7, FlatSamples
<1>9. v \in RemovalMessages
  BY <1>2, <1>8, RemovalIs DEF type
<1> QED
  BY <1>9 DEF v, type

LEMMA LayerAt4 ==
    ASSUME NEW k \in Nat
    PROVE  Sample(insert_layer, k) \in LayerMessages
<1> DEFINE parts == <<Integer(1), NetString, NetString, Signed(2), Signed(2), Integer(2), Integer(2)>>
           reads == <<"is_media", "name", "filename", "x", "y", "width", "z">>
           type == insert_layer
           v == Sample(type, k)
<1>1. type.kind = "struct" /\ type.reads = reads
  BY DEF insert_layer, Format
<1>2. v = [name \in ToSet(type.reads) |-> v[name]]
  BY <1>1 DEF Sample, SampleBy
<1>3. HasFields(type, 7, parts)
  BY InsertLayerHas
<1>4. /\ parts[1] = Integer(1) /\ parts[2] = NetString /\ parts[3] = NetString
      /\ parts[4] = Signed(2) /\ parts[5] = Signed(2) /\ parts[6] = Integer(2)
      /\ parts[7] = Integer(2)
  OBVIOUS
<1>5. /\ reads[1] = "is_media" /\ reads[2] = "name" /\ reads[3] = "filename" /\ reads[4] = "x"
      /\ reads[5] = "y" /\ reads[6] = "width" /\ reads[7] = "z"
  OBVIOUS
<1>6. \A i \in 1 .. 7 : i = 1 \/ i = 2 \/ i = 3 \/ i = 4 \/ i = 5 \/ i = 6 \/ i = 7
  OBVIOUS
<1>7. 1 \in Nat \ {0} /\ 2 \in Nat \ {0}
  OBVIOUS
<1> HIDE DEF parts, reads, type, v
<1>8. \A i \in 1 .. 7 : IsFlat(parts[i])
  BY <1>4, <1>6, <1>7, FlatTypes
<1>9. \A i \in 1 .. 7 : parts[i].kind \in {"integer", "signed", "buffer"}
  BY <1>4, <1>6 DEF Integer, Signed, NetString, Buffer
<1>10. \A i \in 1 .. 7 : Reads3(parts[i])
  BY <1>8, FlatFits3 DEF Fits3
<1>11. \A i \in 1 .. 7 : v[type.reads[i]] = Sample3(parts[i], k + i)
  <2> DEFINE m == 7
  <2>1. HasFields(type, m, parts) /\ \A i \in 1 .. m : Reads3(parts[i])
    BY <1>3, <1>10
  <2> HIDE DEF m
  <2>2. \A i \in 1 .. m : Sample(type, k)[type.reads[i]] = Sample3(parts[i], k + i)
    BY <2>1, PartAt4
  <2> QED
    BY <2>2 DEF v, m
<1>12. \A i \in 1 .. 7 : v[reads[i]] = FlatSample(parts[i], k + i)
  BY <1>1, <1>9, <1>11, FlatSamples
<1>13. /\ v.is_media = FlatSample(Integer(1), k + 1) /\ v.name = FlatSample(NetString, k + 2)
       /\ v.filename = FlatSample(NetString, k + 3) /\ v.x = FlatSample(Signed(2), k + 4)
       /\ v.y = FlatSample(Signed(2), k + 5) /\ v.width = FlatSample(Integer(2), k + 6)
       /\ v.z = FlatSample(Integer(2), k + 7)
  BY <1>4, <1>5, <1>12
<1>14. v \in LayerMessages
  BY <1>2, <1>13, LayerIs DEF type
<1> QED
  BY <1>14 DEF v, type

LEMMA RemovalAt4 ==
    ASSUME NEW k \in Nat
    PROVE  Sample(remove_layer, k) \in RemovalMessages
<1> DEFINE parts == <<NetString>>
           reads == <<"name">>
           type == remove_layer
           v == Sample(type, k)
<1>1. type.kind = "struct" /\ type.reads = reads
  BY DEF remove_layer, Format
<1>2. v = [name \in ToSet(type.reads) |-> v[name]]
  BY <1>1 DEF Sample, SampleBy
<1>3. HasFields(type, 1, parts)
  BY RemoveLayerHas
<1>4. parts[1] = NetString /\ reads[1] = "name"
  OBVIOUS
<1> HIDE DEF parts, reads, type, v
<1>5. NetString.kind = "buffer"
  BY DEF NetString, Buffer
<1>6. \A i \in 1 .. 1 : Reads3(parts[i])
  BY <1>4, FlatTypes, FlatFits3 DEF Fits3
<1>7. \A i \in 1 .. 1 : v[type.reads[i]] = Sample3(parts[i], k + i)
  <2>1. \A i \in 1 .. 1 : Sample(type, k)[type.reads[i]] = Sample3(parts[i], k + i)
    BY <1>3, <1>6, PartAt4
  <2> QED
    BY <2>1 DEF v
<1>8. v.name = FlatSample(NetString, k + 1)
  BY <1>1, <1>4, <1>5, <1>7, FlatSamples
<1>9. v \in RemovalMessages
  BY <1>2, <1>8, RemovalIs DEF type
<1> QED
  BY <1>9 DEF v, type

(* A scene update has removals and insertions.                             *)
LEMMA SeveralAt3 ==
    ASSUME NEW part, NEW S, \A k \in Nat : Sample2(part, k) \in S, NEW k \in Nat
    PROVE  Sample3(NetArray(part, Byte - 1), k) \in Seq(S)
<1> DEFINE type == NetArray(part, Byte - 1)
           n == k % ((Byte - 1) + 1)
<1>1. type.kind = "array" /\ type.type = part /\ type.capacity = Byte - 1
  BY DEF NetArray
<1>2. Sample3(type, k) = [i \in 1 .. n |-> Sample2(part, k + i)]
  BY <1>1 DEF Sample3, SampleBy
<1>3. n \in Nat
  BY ByteIs
<1> HIDE DEF n, type
<1>4. \A i \in 1 .. n : k + i \in Nat
  BY <1>3
<1>5. [i \in 1 .. n |-> Sample2(part, k + i)] \in [1 .. n -> S]
  BY <1>4
<1> QED
  BY <1>2, <1>3, <1>5 DEF type

LEMMA UpdateIs ==
    ASSUME NEW k \in Nat
    PROVE  /\ Sample(atomic_scene_update, k).removals \in Seq(RemovalMessages)
           /\ Sample(atomic_scene_update, k).insertions \in Seq(LayerMessages)
<1> DEFINE parts == <<NetArray(remove_layer, Byte - 1), NetArray(insert_layer, Byte - 1)>>
           type == atomic_scene_update
           v == Sample(type, k)
<1>1. type.reads[1] = "removals" /\ type.reads[2] = "insertions"
  BY DEF atomic_scene_update, Format
<1>2. HasFields(type, 2, parts)
  BY SceneUpdateHas
<1>3. parts[1] = NetArray(remove_layer, Byte - 1) /\ parts[2] = NetArray(insert_layer, Byte - 1)
  OBVIOUS
<1> HIDE DEF parts, type, v
<1>4. Fits3(NetArray(remove_layer, Byte - 1)) /\ Fits3(NetArray(insert_layer, Byte - 1))
  BY RemoveLayerFitsInside, InsertLayerFitsInside, ByteIs, ArrayFits3
<1>5. \A i \in 1 .. 2 : i = 1 \/ i = 2
  OBVIOUS
<1>6. \A i \in 1 .. 2 : Reads3(parts[i])
  BY <1>3, <1>4, <1>5 DEF Fits3
<1>7. \A i \in 1 .. 2 : v[type.reads[i]] = Sample3(parts[i], k + i)
  <2>1. \A i \in 1 .. 2 : Sample(type, k)[type.reads[i]] = Sample3(parts[i], k + i)
    BY <1>2, <1>6, PartAt4
  <2> QED
    BY <2>1 DEF v
<1>8. /\ v.removals = Sample3(NetArray(remove_layer, Byte - 1), k + 1)
      /\ v.insertions = Sample3(NetArray(insert_layer, Byte - 1), k + 2)
  BY <1>1, <1>3, <1>7
<1>9. k + 1 \in Nat /\ k + 2 \in Nat
  OBVIOUS
<1>10. v.removals \in Seq(RemovalMessages)
  BY <1>8, <1>9, RemovalAt2, SeveralAt3
<1>11. v.insertions \in Seq(LayerMessages)
  BY <1>8, <1>9, LayerAt2, SeveralAt3
<1> QED
  BY <1>10, <1>11 DEF v, type

LEMMA ChangesAre ==
    ASSUME NEW format \in SceneControls, NEW k \in Nat
    PROVE  LET m == Changes(format, Sample(FormatOf(format), k)) IN
           m.removals \in Seq(RemovalMessages) /\ m.insertions \in Seq(LayerMessages)
<1> DEFINE m == Changes(format, Sample(FormatOf(format), k))
<1>1. CASE format = "insert_layer"
  <2> DEFINE v == Sample(insert_layer, k)
  <2>1. m = [removals |-> <<>>, insertions |-> <<v>>]
    BY <1>1 DEF Changes, FormatOf
  <2>2. v \in LayerMessages
    BY LayerAt4
  <2> HIDE DEF v
  <2> QED
    BY <2>1, <2>2
<1>2. CASE format = "remove_layer"
  <2> DEFINE v == Sample(remove_layer, k)
  <2>1. m = [removals |-> <<v>>, insertions |-> <<>>]
    BY <1>2 DEF Changes, FormatOf
  <2>2. v \in RemovalMessages
    BY RemovalAt4
  <2> HIDE DEF v
  <2> QED
    BY <2>1, <2>2
<1>3. CASE format = "atomic_scene_update"
  <2>1. m = Sample(atomic_scene_update, k)
    BY <1>3 DEF Changes, FormatOf
  <2> QED
    BY <2>1, UpdateIs
<1> QED
  BY <1>1, <1>2, <1>3 DEF SceneControls

LEMMA HearingEdits ==
    ASSUME IsDatagram(datagram), Hear
    PROVE  [SceneNext]_scene_vars
<1>1. PICK got \in {Received(datagram)} : Malformed(got) \/ Calls(got) \/ EditsScene(got)
  BY DEF Hear
<1>2. CASE Malformed(got) \/ Calls(got)
  BY <1>2 DEF Malformed, Calls
<1>3. CASE EditsScene(got)
  <2>1. datagram.format \in SceneControls /\ datagram.cut >= 0 /\ ~got.error
    BY <1>3 DEF EditsScene, Heard
  <2>2. datagram # None
    BY <2>1 DEF None, SceneControls
  <2>3. datagram.seed \in Nat
    BY <2>2, SeedsAre DEF IsDatagram
  <2>4. got.value = MessageOf(datagram)
    <3>1. Agrees(datagram)
      BY <2>1, <2>2, DatagramsAgree DEF FormatsAgree, Agrees
    <3> QED
      BY <1>1, <2>1, <3>1 DEF Agrees
  <2>5. got.value = Sample(FormatOf(datagram.format), datagram.seed)
    BY <2>1, <2>4 DEF MessageOf, SceneControls
  <2> DEFINE m == Changes(datagram.format, got.value)
  <2>6. m.removals \in Seq(RemovalMessages) /\ m.insertions \in Seq(LayerMessages)
    BY <2>1, <2>3, <2>5, ChangesAre
  <2>7. PICK failures \in SUBSET (DOMAIN m.insertions) :
           Edited(m.removals, m.insertions, failures)
    BY <1>3 DEF EditsScene
  <2> HIDE DEF m
  <2>8. DOMAIN m.insertions \subseteq Nat
    BY <2>6
  <2>9. failures \in SUBSET Nat
    BY <2>7, <2>8
  <2>10. SceneNext
    BY <2>6, <2>7, <2>9 DEF SceneNext
  <2> QED
    BY <2>10
<1> QED
  BY <1>1, <1>2, <1>3

(* The rules that hear control messages edit the scene by nothing but      *)
(* whole messages of the three kinds (video_control.cc), so what is proved *)
(* of the scene for any such edits is so of the one that they edit.        *)
THEOREM ControlEditsScene == ControlSpec => SceneSpec
<1>1. ControlInit => IsDatagram(datagram) /\ SceneInit
  BY DEF ControlInit, IsDatagram
<1>2. IsDatagram(datagram) /\ [ControlNext]_control_vars => [SceneNext]_scene_vars
  <2> SUFFICES ASSUME IsDatagram(datagram), [ControlNext]_control_vars
               PROVE  [SceneNext]_scene_vars
    OBVIOUS
  <2>1. ASSUME NEW format \in AudioControls \cup VideoControls \cup OtherFormats,
               NEW seed \in Seeds, Say(format, seed)
        PROVE  [SceneNext]_scene_vars
    BY <2>1 DEF Say
  <2>2. CASE Hear
    BY <2>2, HearingEdits
  <2>3. CASE OtherRead
    BY <2>3 DEF OtherRead
  <2>4. CASE UNCHANGED control_vars
    BY <2>4 DEF control_vars
  <2> QED
    BY <2>1, <2>2, <2>3, <2>4 DEF ControlNext
<1> QED
  BY <1>1, <1>2, DatagramKept, PTL DEF ControlSpec, SceneSpec
=============================================================================
