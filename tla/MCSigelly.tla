------------------------------ MODULE MCSigelly ------------------------------
(* A small instance of Sigelly: both services, and two connections.           *)
EXTENDS Sigelly
===============================================================================
