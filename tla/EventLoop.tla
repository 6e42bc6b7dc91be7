------------------------------ MODULE EventLoop ------------------------------
(***************************************************************************)
(* EventLoop::wait_next_event (util/eventloop.cc) with the rules of the    *)
(* viewer's camera server (frontend/ws-camera-server.cc): each connection  *)
(* adds rules that hold a pointer to it, cancels them when it is culled,   *)
(* and is deleted by a rule of the program's.                              *)
(*                                                                         *)
(* A rule of a connection is interested or not, and its callback ends with *)
(* the connection good or culled, as module Viewer has it in detail; here  *)
(* both are arbitrary.  "serve" stands for the four rules without a        *)
(* descriptor that never end a connection by themselves.                   *)
(***************************************************************************)
EXTENDS Integers, Sequences, SequencesExt

CONSTANT Connections  \* names of connections, used again after deletion

ASSUME LoopConstants == "program" \notin Connections

VARIABLES
    non_fd_rules,  \* _non_fd_rules: sequence of [owner, kind, cancelled]
    fd_rules,      \* _fd_rules, likewise
    clients,       \* the connections of the program's list
    good,          \* those of them with good_
    cull_needed,   \* *cull_needed
    eof,           \* connections whose socket has been read to its end
    phase,         \* the part of wait_next_event: "rules", "set_up", "results"
    it,            \* the next descriptor's rule in that part
    polled         \* the rules that poll was asked for: a set of indices

loop_vars == <<non_fd_rules, fd_rules, clients, good, cull_needed, eof,
               phase, it, polled>>

Rule(owner, kind) == [owner |-> owner, kind |-> kind, cancelled |-> FALSE]

(* EventLoop::add_rule, for several rules of one owner.                    *)
add_rules(rules, owner, kinds) == rules \o [i \in DOMAIN kinds |-> Rule(owner, kinds[i])]

LoopInit ==
    /\ non_fd_rules = add_rules(<<>>, "program", <<"cull_connections">>)
    /\ fd_rules = add_rules(<<>>, "program", <<"new_video_segment", "new_TCP_connection">>)
    /\ clients = {} /\ good = {} /\ cull_needed = FALSE /\ eof = {}
    /\ phase = "rules" /\ it = 1 /\ polled = {}

Cancelled(rules, owners) ==
    [i \in DOMAIN rules |->
        IF rules[i].owner \in owners THEN [rules[i] EXCEPT !.cancelled = TRUE]
        ELSE rules[i]]

X_culled(cs) ==
    /\ good' = good \ cs
    /\ cull_needed' = (cull_needed \/ cs # {})
    /\ non_fd_rules' = non_fd_rules

(* ClientConnection::cull, of several connections at once.                 *)
culled(cs) ==
    /\ good' = good \ cs
    /\ cull_needed' = (cull_needed \/ cs # {})
    /\ non_fd_rules' = Cancelled(non_fd_rules, cs)

NextPhase(p) == phase' = p /\ it' = 1

------------------------------------------------------------------------------
(* The rules without a descriptor: cancelled ones are erased on the way to *)
(* the first that is interested, which is called until it no longer is;    *)
(* then the call of wait_next_event is over.                               *)

Uncancelled(rules) ==
    LET kept[i \in 0 .. Len(rules)] ==
            IF i = 0 THEN << >>
            ELSE IF rules[i].cancelled THEN kept[i - 1]
            ELSE Append(kept[i - 1], rules[i])
    IN  kept[Len(rules)]

ErasedBefore(i) ==
    Uncancelled(SubSeq(non_fd_rules, 1, i - 1))
        \o SubSeq(non_fd_rules, i, Len(non_fd_rules))

May(r) == IF r.owner = "program" THEN cull_needed ELSE r.owner \in good

CallRule(i) ==
    /\ phase = "rules"
    /\ \A j \in 1 .. i - 1 : non_fd_rules[j].owner = "program" =>
                                ~May(non_fd_rules[j])
    /\ LET r == non_fd_rules[i] IN
       /\ ~r.cancelled /\ May(r)
       /\ IF r.kind = "cull_connections"
          THEN /\ clients' = clients \cap good /\ cull_needed' = FALSE
               /\ eof' = eof \cap good
               /\ non_fd_rules' = ErasedBefore(i)
               /\ UNCHANGED <<good, fd_rules>>
          ELSE IF r.kind = "close"
          THEN /\ good' = good \ {r.owner} /\ cull_needed' = TRUE
               /\ non_fd_rules' = Cancelled(ErasedBefore(i), {r.owner})
               /\ fd_rules' = Cancelled(fd_rules, {r.owner})
               /\ UNCHANGED <<clients, eof>>
          ELSE /\ non_fd_rules' = ErasedBefore(i)
               /\ UNCHANGED <<fd_rules, clients, good, cull_needed, eof>>
    /\ UNCHANGED <<phase, it, polled>>

NoRule ==
    /\ phase = "rules" /\ ~cull_needed
    /\ non_fd_rules' = Uncancelled(non_fd_rules)
    /\ polled' = {}
    /\ NextPhase("set_up")
    /\ UNCHANGED <<fd_rules, clients, good, cull_needed, eof>>

------------------------------------------------------------------------------
(* The rules with a descriptor, one by one: a cancelled one is erased, one *)
(* at the end of its input is erased after its cancel callback, which      *)
(* culls the connection.                                                   *)

SetUp ==
    /\ phase = "set_up" /\ it <= Len(fd_rules)
    /\ LET r == fd_rules[it] IN
       IF r.cancelled
       THEN /\ fd_rules' = RemoveAt(fd_rules, it)
            /\ UNCHANGED <<non_fd_rules, good, cull_needed, it, polled>>
       ELSE IF r.kind = "SSL_read" /\ r.owner \in eof
       THEN /\ culled({r.owner})
            /\ fd_rules' = Cancelled(RemoveAt(fd_rules, it), {r.owner})
            /\ UNCHANGED <<it, polled>>
       ELSE /\ it' = it + 1
            /\ polled' \in IF r.owner = "program" THEN {polled \cup {it}}
                           ELSE IF r.owner \in good THEN {polled, polled \cup {it}}
                           ELSE {polled}
            /\ UNCHANGED <<non_fd_rules, fd_rules, good, cull_needed>>
    /\ UNCHANGED <<clients, eof, phase>>

(* poll returns with results, or times out.                                *)
Poll ==
    /\ phase = "set_up" /\ it > Len(fd_rules)
    /\ \E p \in {"results", "rules"} : NextPhase(p)
    /\ UNCHANGED <<non_fd_rules, fd_rules, clients, good, cull_needed, eof, polled>>

(* The indices of what is behind an erased rule move up with the walk.     *)
Dropped(indices, i) == {j \in indices : j < i} \cup {j - 1 : j \in {k \in indices : k > i}}

(* A rule's descriptor has an error or was hung up: its cancel callback    *)
(* culls the connection, the rule goes, and the walk goes on.              *)
Defunct ==
    /\ phase = "results" /\ it <= Len(fd_rules)
    /\ LET r == fd_rules[it] IN
       /\ r.owner # "program"
       /\ culled({r.owner})
       /\ fd_rules' = Cancelled(RemoveAt(fd_rules, it), {r.owner})
    /\ polled' = Dropped(polled, it)
    /\ UNCHANGED <<clients, eof, phase, it>>

Pass ==
    /\ phase = "results" /\ it <= Len(fd_rules)
    /\ it' = it + 1
    /\ UNCHANGED <<non_fd_rules, fd_rules, clients, good, cull_needed, eof,
                   phase, polled>>

Done ==
    /\ phase = "results" /\ it > Len(fd_rules)
    /\ NextPhase("rules")
    /\ UNCHANGED <<non_fd_rules, fd_rules, clients, good, cull_needed, eof, polled>>

(* A new connection, with its rules.                                       *)
Accept(c) ==
    /\ c \in Connections \ clients
    /\ \A rules \in {non_fd_rules, fd_rules} :
           \A i \in DOMAIN rules : rules[i].owner # c
    /\ clients' = clients \cup {c} /\ good' = good \cup {c}
    /\ non_fd_rules' = add_rules(non_fd_rules, c, <<"close", "serve">>)
    /\ fd_rules' = add_rules(fd_rules, c, <<"SSL_read", "SSL_write">>)
    /\ UNCHANGED <<cull_needed, eof>>

(* The first rule that is ready is called, whatever has been cancelled in  *)
(* this walk: a read may reach the end of the input or fail, a write may   *)
(* fail, and a NAL may be too much for some muxers.                        *)
Ready ==
    /\ phase = "results" /\ it \in polled
    /\ LET r == fd_rules[it] IN
       \/ r.kind = "new_TCP_connection" /\ \E c \in Connections : Accept(c)
       \/ /\ r.kind = "new_video_segment"
          /\ \E cs \in SUBSET clients :
                culled(cs) /\ fd_rules' = Cancelled(fd_rules, cs)
          /\ UNCHANGED <<clients, eof>>
       \/ /\ r.kind \in {"SSL_read", "SSL_write"}
          /\ \/ culled({r.owner}) /\ fd_rules' = Cancelled(fd_rules, {r.owner})
             \/ UNCHANGED <<good, cull_needed, non_fd_rules, fd_rules>>
          /\ eof' \in {eof, eof \cup (IF r.kind = "SSL_read" THEN {r.owner} ELSE {})}
          /\ UNCHANGED clients
    /\ NextPhase("rules")
    /\ UNCHANGED polled

LoopNext ==
    \/ \E i \in DOMAIN non_fd_rules : CallRule(i)
    \/ NoRule \/ SetUp \/ Poll \/ Defunct \/ Pass \/ Done \/ Ready

LoopSpec == LoopInit /\ [][LoopNext]_loop_vars

------------------------------------------------------------------------------
(* No rule of a deleted connection is ever asked for its interest, called  *)
(* or told of its end: what the loop may still look at (a rule not yet     *)
(* cancelled, or any rule while it walks the results, where cancel_        *)
(* requested is not read) belongs to a connection in the program's list.   *)
NoCallAfterDelete ==
    \A rules \in {non_fd_rules, fd_rules} : \A i \in DOMAIN rules :
        \/ rules[i].owner \in clients \cup {"program"}
        \/ rules[i].cancelled /\ ~(phase = "results" /\ rules = fd_rules)
=============================================================================
