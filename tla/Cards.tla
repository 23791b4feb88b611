------------------------------- MODULE Cards -------------------------------
(***************************************************************************)
(* The cards of the game (game/card.go) and a player's answer to Play      *)
(* (game/player.go).  A card is its number, 0..107: four groups of 25, one *)
(* per color, then four wilds and four wild draw fours.                    *)
(***************************************************************************)
EXTENDS Integers

Deck108 == 0..107
NoCard  == -1

ColorUnknown == -1
Colors == 0..3

Skip == 10
Reverse == 11
DrawTwo == 12
Wild == 13
WildDrawFour == 14

Color(c) == IF c >= 100 THEN ColorUnknown ELSE c \div 25

Value(c) ==
  LET value == c % 25
  IN  CASE c >= 104               -> WildDrawFour
        [] c \in 100..103         -> Wild
        [] c < 100 /\ value >= 23 -> DrawTwo
        [] c < 100 /\ value \in 21..22 -> Reverse
        [] c < 100 /\ value \in 19..20 -> Skip
        [] c < 100 /\ value \in 10..18 -> value - 9
        [] c < 100 /\ value < 10  -> value

IsWild(c) == Value(c) \in {Wild, WildDrawFour}

CanPlayOn(c, other, lastWildColor) ==
  \/ IsWild(c)
  \/ Value(c) = Value(other)
  \/ Color(c) = Color(other)
  \/ IsWild(other) /\ lastWildColor = Color(c)

(* Mutant: the face values 1..9 of the second run of a color are not       *)
(* shifted back.                                                           *)
Score_SecondRunUnshifted(c) ==
  CASE IsWild(c)                              -> 50
    [] Value(c) \in {Skip, Reverse, DrawTwo}  -> 20
    [] ~IsWild(c) /\ Value(c) < Skip          -> c % 25

Score(c) ==
  CASE IsWild(c)                              -> 50
    [] Value(c) \in {Skip, Reverse, DrawTwo}  -> 20
    [] ~IsWild(c) /\ Value(c) < Skip          -> Value(c)

(* The answer [card, wildColor] passes PlayerPlay.AssertValid: a card that *)
(* is not wild carries color 0 (unset), any other color is a real one.     *)
PlayIsValid(play) ==
  /\ play.card \in Deck108 \cup {NoCard}
  /\ play.card < 100 => play.wildColor = 0
  /\ play.wildColor \in Colors
=============================================================================
