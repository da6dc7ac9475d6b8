----------------------------- MODULE MCMsgQueue -----------------------------
(* MsgQueue for TLC: two threads that send and receive, and that treat a   *)
(* message too big for their buffers differently.                          *)
EXTENDS MsgQueue

CONSTANTS t1, t2

SmallBuffers == [t \in Threads |-> IF t = t1 THEN {"large"} ELSE {"short"}]
=============================================================================
