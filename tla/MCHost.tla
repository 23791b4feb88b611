------------------------------- MODULE MCHost -------------------------------
(***************************************************************************)
(* Instances of Host for TLC: one seat fewer than there are clients that   *)
(* want one, so that the last seat is contended; identities that clash in  *)
(* the name or in the key only; a log of one message, so that it is full.  *)
(***************************************************************************)
EXTENDS HostProperties, TLC

(* No more than two of the first three can sit together.                   *)
FourIdentities ==
  {[id |-> 1, name |-> "x"], [id |-> 1, name |-> "y"],
   [id |-> 2, name |-> "y"], [id |-> 3, name |-> "z"]}

OneIdentity == {[id |-> 1, name |-> "x"]}

(* Nothing in the host tells two clients or two uses of a handler apart.   *)
Symmetric == Permutations(Clients) \cup Permutations(Joins)
=============================================================================
