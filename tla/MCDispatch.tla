----------------------------- MODULE MCDispatch -----------------------------
(***************************************************************************)
(* A user with three updates whose handlers may hang, one of them a        *)
(* /start, and another user's update, over two execution slots and a lane  *)
(* of one thread and two slots; the waiting room holds three.              *)
(***************************************************************************)
EXTENDS Dispatch

MCUpdates == {"a1", "a2", "a3", "b1"}
MCUserOf == [u \in MCUpdates |-> IF u = "b1" THEN "other" ELSE "slow"]
=============================================================================
