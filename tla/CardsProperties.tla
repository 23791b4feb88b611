-------------------------- MODULE CardsProperties ---------------------------
(***************************************************************************)
(* The numbers of Cards over the whole deck.  What is said here holds or   *)
(* not for the deck of 108, whatever is done with it, so it is looked at   *)
(* once, when a hand begins.                                               *)
(***************************************************************************)
EXTENDS Hand

HandBegins == pc = "Shuffle"

(* The numbering of the cards is that of the comment in game/card.go: per  *)
(* color one 0 and two of each other value, and four of each wild.  What   *)
(* Card.Score computes from the number depends on that value only, and     *)
(* every color has exactly six cards, its actions, that score 20.          *)
NumbersAreFaces ==
  HandBegins =>
    /\ \A card \in Deck108 :
         Cardinality({d \in Deck108 : Color(d) = Color(card) /\ Value(d) = Value(card)}) =
           CASE IsWild(card)    -> 4
             [] Value(card) = 0 -> 1
             [] OTHER           -> 2
    /\ \A card, face \in Deck108 : Value(card) = Value(face) => Score(card) = Score(face)
    /\ \A card \in Deck108 : ~IsWild(card) =>
         Cardinality({d \in Deck108 : Color(d) = Color(card) /\ Score(d) = 20}) = 6
=============================================================================
