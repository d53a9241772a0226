---------------------------- MODULE MCAlfenClient ----------------------------
(* Small instances of AlfenClient.  A unit of time is 1/32 s, which makes the  *)
(* waits from 2 s to the 30 s cap exact: 64, 96, 144, 216, 324, 486, 729, 960. *)
EXTENDS AlfenClient

McConns == {1, 2}
McValues == {10, 20}
McPollInterval == 64
McMaxBackoff == 960
===============================================================================
