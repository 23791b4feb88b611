------------------------------- MODULE MCHand -------------------------------
(***************************************************************************)
(* Instances of Hand for TLC: few cards, so that the deck runs out and the *)
(* discards are reshuffled, with one card of every kind the code tells     *)
(* apart.                                                                  *)
(***************************************************************************)
EXTENDS HandProperties, CardsProperties

(* A player answers with a real color, or with one that is not.            *)
MCColors == {0, ColorUnknown}

(* Red 1, red draw two, yellow 1, a wild and a wild draw four.             *)
FiveCards == {1, 23, 26, 100, 104}

(* Red 1, skip, reverse and draw two, a wild and a wild draw four.         *)
SixCards == {1, 19, 21, 23, 100, 104}
=============================================================================
