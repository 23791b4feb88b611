---------------------------- MODULE MCConnection ----------------------------
(***************************************************************************)
(* Instances of Connection for TLC: two calls are enough for one to lose   *)
(* its place to the other or to be answered in its stead, and one notice,  *)
(* one failure and one message of the player to come between.              *)
(***************************************************************************)
EXTENDS ConnectionProperties

Plays == [c \in Calls |-> "Play"]
=============================================================================
