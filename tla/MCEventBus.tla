------------------------------ MODULE MCEventBus ------------------------------
(***************************************************************************)
(* Two browsers, queues of two entries: one can fall behind while the      *)
(* other keeps up.                                                         *)
(***************************************************************************)
EXTENDS EventBus

CONSTANTS b1, b2

MCClients == {b1, b2}
=============================================================================
