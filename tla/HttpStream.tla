----------------------------- MODULE HttpStream -----------------------------
(***************************************************************************)
(* HTTPClient and HTTPServer (http/http_client.hh, http_server.hh): the    *)
(* readers and the writer over two rings.                                  *)
(***************************************************************************)
EXTENDS HttpReader

CONSTANTS
    HttpCapacity,  \* capacity of the rings, in tokens
    HttpRequests   \* how many requests the client pushes

ASSUME HttpConstants == HttpCapacity \in Nat \ {0} /\ HttpRequests \in Nat

(* Requests and responses with what readers may trip over: a colon and a   *)
(* CR in a value, a body that looks like the end of a line.                *)
Ask(method, length, body) ==
    [start |-> <<<<method>>, <<"/">>, <<"HTTP/1.1">>>>,
     headers |-> [NoHeaders EXCEPT !.length = length,
                                   !.kept[1] = <<"a", ":", "b", "SP", "CR", "c">>],
     body |-> body]
Asks == {Ask("GET", {}, <<>>), Ask("HEAD", {}, <<>>), Ask("POST", {2}, <<"CR", "LF">>)}

Reply(request) ==
    [start |-> <<<<"HTTP/1.1">>, <<"200">>, <<"All", "SP", "right">>>>,
     headers |-> [NoHeaders EXCEPT !.length = {1}],
     body |-> IF request.start[1] = <<"HEAD">> THEN <<>> ELSE <<"CR">>]

VARIABLES
    asked,              \* every request pushed: a history variable
    pending_requests,   \* HTTPClient: pending_requests_
    requests_are_head,  \* HTTPClient: requests_are_head_
    request_writer, response_reader,  \* HTTPClient: a set of at most one
    up, down,           \* the rings
    request_reader, response_writer,  \* HTTPServer, likewise
    pending_responses,  \* HTTPServer: pending_responses_
    served,             \* the requests the server has read: a history variable
    answered            \* the responses the client has read: a history variable

client_http_vars == <<asked, pending_requests, requests_are_head, request_writer,
                      response_reader, answered>>
server_http_vars == <<request_reader, response_writer, pending_responses, served>>
http_vars == <<client_http_vars, server_http_vars, up, down>>

HttpInit ==
    /\ asked = <<>> /\ pending_requests = <<>> /\ requests_are_head = <<>>
    /\ request_writer = {} /\ response_reader = {} /\ up = <<>> /\ down = <<>>
    /\ request_reader = {} /\ response_writer = {} /\ pending_responses = <<>>
    /\ served = <<>> /\ answered = <<>>

push_request(request) ==
    /\ Len(asked) < HttpRequests
    /\ asked' = Append(asked, request)
    /\ pending_requests' = Append(pending_requests, request)
    /\ requests_are_head' = Append(requests_are_head, request.start[1] = <<"HEAD">>)
    /\ UNCHANGED <<request_writer, response_reader, answered, up, down, server_http_vars>>

ClientWrites ==
    /\ request_writer # {} \/ pending_requests # <<>>
    /\ \E w \in IF request_writer # {} THEN request_writer
                ELSE {[text |-> Text(Head(pending_requests)), written |-> 0]} :
       \E put \in {WriteTo(w, up, HttpCapacity)} :
          request_writer' = put.writer /\ up' = put.ring
    /\ pending_requests' = IF request_writer = {} THEN Tail(pending_requests)
                           ELSE pending_requests
    /\ UNCHANGED <<asked, requests_are_head, response_reader, answered, down,
                   server_http_vars>>

(* The server reads what has arrived, and answers each request.            *)
ServerReads ==
    /\ \E n \in 1 .. Len(up), r \in IF request_reader = {} THEN {Reader("request", FALSE)}
                                    ELSE request_reader :
       \E got \in {Read(r, Upto(up, n))} :
          /\ ~r.header.failed
          /\ up' = got.rest \o From(up, n + 1)
          /\ IF got.reader.finished
             THEN /\ request_reader' = {}
                  /\ served' = Append(served, Message(got.reader))
                  /\ pending_responses' = Append(pending_responses, Reply(Message(got.reader)))
             ELSE /\ request_reader' = {got.reader}
                  /\ UNCHANGED <<served, pending_responses>>
    /\ UNCHANGED <<client_http_vars, response_writer, down>>

ServerWrites ==
    /\ response_writer # {} \/ pending_responses # <<>>
    /\ \E w \in IF response_writer # {} THEN response_writer
                ELSE {[text |-> Text(Head(pending_responses)), written |-> 0]} :
       \E put \in {WriteTo(w, down, HttpCapacity)} :
          response_writer' = put.writer /\ down' = put.ring
    /\ pending_responses' = IF response_writer = {} THEN Tail(pending_responses)
                            ELSE pending_responses
    /\ UNCHANGED <<client_http_vars, request_reader, served, up>>

(* The reader is made for the method at the front of the queue, which      *)
(* nothing pops.                                                           *)
ClientReads ==
    /\ requests_are_head # <<>>
    /\ \E n \in 1 .. Len(down),
          r \in IF response_reader = {} THEN {Reader("response", Head(requests_are_head))}
                ELSE response_reader :
       \E got \in {Read(r, Upto(down, n))} :
          /\ ~r.header.failed
          /\ down' = got.rest \o From(down, n + 1)
          /\ IF got.reader.finished
             THEN response_reader' = {} /\ answered' = Append(answered, Message(got.reader))
             ELSE response_reader' = {got.reader} /\ UNCHANGED answered
    /\ UNCHANGED <<asked, pending_requests, requests_are_head, request_writer, up,
                   server_http_vars>>

HttpNext ==
    \/ \E request \in Asks : push_request(request)
    \/ ClientWrites \/ ServerReads \/ ServerWrites \/ ClientReads

HttpSpec == HttpInit /\ [][HttpNext]_http_vars

------------------------------------------------------------------------------
(* However the rings cut them, every request is read as it was written;    *)
(* and as long as the requests are all HEAD or none is (the queue of       *)
(* methods in http_client.hh is never popped), every response is read as   *)
(* it was written for the request it answers.                              *)
MessagesAreReadWhole ==
    /\ IsPrefix(served, asked)
    /\ \A r \in request_reader : ~r.header.failed
    /\ (\A i, j \in DOMAIN requests_are_head : requests_are_head[i] = requests_are_head[j]) =>
          /\ Len(answered) <= Len(served)
          /\ \A i \in DOMAIN answered : answered[i] = Reply(asked[i])
          /\ \A r \in response_reader : ~r.header.failed
=============================================================================
