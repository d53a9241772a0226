----------------------------- MODULE MCWireServer -----------------------------
(* Small instances of WireServer: an HTTP client, and one that may also open a *)
(* WebSocket and send frames.                                                  *)
EXTENDS WireServer

CONSTANTS c1, c2

Request(k, n) == [kind |-> k, body |-> n]

HttpRequests == {Request("plain", 1), Request("malformed", 0), Request("unreadable", 0),
                 Request("upgrade_without_key", 0)}
SocketRequests == {Request("upgrade", 0), Request("plain", 2)}

McRequests == [c \in Clients |-> IF c = c1 THEN HttpRequests ELSE SocketRequests]
McMaxFrames == [c \in Clients |-> IF c = c1 THEN 0 ELSE 2]

\* Short and extended frames: answered, ignored, and closing.
McFrames == {[op |-> "text", ext |-> 2, rest |-> 1], [op |-> "ping", ext |-> 0, rest |-> 0],
             [op |-> "ignored", ext |-> 0, rest |-> 1], [op |-> "close", ext |-> 0, rest |-> 0]}
===============================================================================
