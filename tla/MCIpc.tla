------------------------------- MODULE MCIpc --------------------------------
(***************************************************************************)
(* Small instances of IpcServer: one or two connections, a broadcast       *)
(* channel of one or two events and queues of one.                         *)
(***************************************************************************)
EXTENDS IpcServer

CONSTANTS i1, u1, w1, w2
=============================================================================
