---------------------------- MODULE MCModbusServer ----------------------------
(* Small instances of ModbusServer: a client that sends several requests, and  *)
(* another beside it.                                                          *)
EXTENDS ModbusServer

CONSTANTS c1, c2

McKinds == [c \in Clients |-> IF c = c1 THEN RequestKinds ELSE {"read"}]
McMaxRequests == [c \in Clients |-> IF c = c1 THEN 2 ELSE 1]
===============================================================================
