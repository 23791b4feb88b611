----------------------------- MODULE CardTable ------------------------------
(***************************************************************************)
(* What a hand promises about the cards, whoever is asked what and in      *)
(* which order.  Every card comes from the stock, is turned up or laid on  *)
(* the face of the pile, and returns to the stock only with the whole pile *)
(* below the face once the stock is used up.  In play, cards are only laid *)
(* by a player that owns them and on a face they match.  The hand is won   *)
(* by the one player without cards; it may fail at any step, and no card   *)
(* moves afterwards.                                                       *)
(***************************************************************************)
EXTENDS Cards

CONSTANTS Seats, Pack, Answers

VARIABLES
  phase,   \* "setup", "play", "won" or "failed"
  stock,   \* the cards that can be drawn
  held,    \* the cards each player owns
  pile,    \* the discards below the face
  face,    \* the card to be matched, NoCard before there is one
  color    \* the color chosen for the face

tableVars == <<phase, stock, held, pile, face, color>>

TableInit ==
  /\ phase = "setup"
  /\ stock = Pack
  /\ held = [p \in Seats |-> {}]
  /\ pile = {}
  /\ face = NoCard
  /\ color = 0

(* A step may be the one that fails.                                       *)
OrFails == phase' \in {phase, "failed"}

Take(p, c) ==
  /\ phase \in {"setup", "play"}
  /\ c \in stock
  /\ stock' = stock \ {c}
  /\ held' = [held EXCEPT ![p] = @ \cup {c}]
  /\ UNCHANGED <<phase, pile, face, color>>

(* Cards are turned up until one is not a wild draw four.                  *)
TurnUp(c) ==
  /\ phase = "setup"
  /\ face = NoCard \/ Value(face) = WildDrawFour
  /\ c \in stock
  /\ stock' = stock \ {c}
  /\ pile' = pile \cup ({face} \ {NoCard})
  /\ face' = c
  /\ OrFails
  /\ UNCHANGED <<held, color>>

ChooseColor(choice) ==
  /\ phase = "setup"
  /\ face # NoCard /\ Value(face) = Wild
  /\ color' = choice
  /\ phase' = "failed" \/ (choice \in Colors /\ phase' = phase)
  /\ UNCHANGED <<stock, held, pile, face>>

Begin ==
  /\ phase = "setup"
  /\ face # NoCard /\ Value(face) # WildDrawFour
  /\ phase' = "play"
  /\ UNCHANGED <<stock, held, pile, face, color>>

Lay(p, c, choice) ==
  /\ phase = "play"
  /\ c \in held[p]
  /\ CanPlayOn(c, face, color)
  /\ choice \in Colors
  /\ held' = [held EXCEPT ![p] = @ \ {c}]
  /\ pile' = pile \cup {face}
  /\ face' = c
  /\ color' = choice
  /\ OrFails
  /\ UNCHANGED stock

Recycle ==
  /\ phase \in {"setup", "play"}
  /\ stock = {}
  /\ stock' = pile
  /\ pile' = {}
  /\ OrFails
  /\ UNCHANGED <<held, face, color>>

Win ==
  /\ phase = "play"
  /\ \E p \in Seats : \A q \in Seats : held[q] = {} <=> q = p
  /\ phase' = "won"
  /\ UNCHANGED <<stock, held, pile, face, color>>

Break ==
  /\ phase \in {"setup", "play"}
  /\ phase' = "failed"
  /\ UNCHANGED <<stock, held, pile, face, color>>

TableNext ==
  \/ \E p \in Seats, c \in Pack : Take(p, c)
  \/ \E c \in Pack : TurnUp(c)
  \/ \E choice \in Answers : ChooseColor(choice)
  \/ \E p \in Seats, c \in Pack, choice \in Answers : Lay(p, c, choice)
  \/ Begin \/ Recycle \/ Win \/ Break

TableSpec == TableInit /\ [][TableNext]_tableVars
=============================================================================
