--------------------------- MODULE HandProperties ---------------------------
(* What a hand (module Hand) promises.                                     *)
EXTENDS Hand

\* The card Player.Play has returned and hand.play has not discarded yet.
InFlight == {reply.card} \cap Deck108
TopCard == {top} \ {NoCard}

\* A player owns the card it is laying until it is on the pile.
Owned(p) == hands[p] \cup (IF p = playerIndex THEN InFlight ELSE {})

Seats == Players \cup {None}

OneLeftCalls == [caller : Players, target : Seats, window : Seats]

EventTypes ==
  {"none", "HandStartShuffled", "HandStartCardDealt",
   "HandStartTopCardAddedToDiscard", "HandReshuffled", "HandPlayerSkipped",
   "HandPlayReversed", "HandPlayerDrewOne", "HandPlayerDrewTwo",
   "HandPlayerDiscarded", "HandPlayerPlayedNothing", "HandPlayerCalledOneLeft",
   "HandPlayerOneLeftPenaltyDrewTwo", "HandPlayerNoChallengeDrewFour",
   "HandPlayerChallengeSuccessDrewFour", "HandPlayerChallengeFailedDrewSix"}

\* Where a draw can be followed by: any point but the first.
Continuations == {"Deal", "FirstMove"} \cup InTurns

PCs == SettingUp \cup Drawing \cup InTurns \cup Terminal

ControlOK ==
  /\ pc \in PCs
  /\ lastEvent \in [type : EventTypes, deckRemaining : Int]
  /\ err \in [blame : Seats, culprit : Seats]

SeatOK ==
  /\ toDeal \in Nat
  /\ playerIndex \in Players
  /\ forward \in BOOLEAN

TableOK ==
  /\ deck \subseteq StartCards
  /\ hands \in [Players -> SUBSET StartCards]
  /\ discard \subseteq StartCards
  /\ top \in StartCards \cup {NoCard}

PlayOK ==
  /\ lastWildColor \in Int
  /\ chosen \in [card : StartCards \cup {NoCard}, color : Int]
  /\ reply \in [card : StartCards \cup {NoCard, Awaited}, wildColor : Int]

OneLeftOK ==
  /\ pending \in Seats
  /\ calls \in Seq(OneLeftCalls)

JobOK ==
  job \in [left : Int, who : Seats, event : EventTypes, then : PCs \cup {"none"}]

(* Every variable of a hand keeps to its type, and while a draw is under   *)
(* way the goroutine knows where to go on.                                 *)
TypeOK ==
  /\ ControlOK /\ SeatOK /\ TableOK /\ PlayOK /\ OneLeftOK /\ JobOK
  /\ pc \in Drawing => job.then \in Continuations

(* No card is in two places: the deck, a hand, the card being laid and the *)
(* discards are disjoint, whatever draws, reshuffles and penalties run     *)
(* while a player answers.                                                 *)
NoCardTwice ==
  /\ \A p \in Players : hands[p] \cap (deck \cup discard \cup TopCard \cup InFlight) = {}
  /\ \A p, q \in Players : p # q => hands[p] \cap hands[q] = {}
  /\ deck \cap (discard \cup TopCard \cup InFlight) = {}
  /\ discard \cap (TopCard \cup InFlight) = {}
  /\ TopCard \cap InFlight = {}

(* No card is lost: once the deck is shuffled every card is somewhere.     *)
NoCardLost ==
  pc \in {"Shuffle", "Failed"}
    \/ \A c \in StartCards :
         \/ c \in deck \cup discard \cup TopCard \cup InFlight
         \/ \E p \in Players : c \in hands[p]

(* The cards are conserved over a hand: the comparison with the original   *)
(* cards at the end of a hand (host/game/deck.go) can only fail by what a  *)
(* player reports.                                                         *)
Conservation == NoCardTwice /\ NoCardLost

(* While a one-left window is open at the start of a turn, its player owns *)
(* exactly one card, also when it is on turn again and is laying it; and   *)
(* the window is closed before anybody's play is looked at.                *)
WindowMeansOneLeft ==
  /\ pc = "Turn" /\ pending # None => Cardinality(Owned(pending)) = 1
  /\ pc \in {"AwaitPlay", "PlayAgain", "Apply"} => pending = None

(* A call that waits was made in the window that is open: none from an     *)
(* earlier window can be taken for it.                                     *)
NoStaleCall == \A i \in 1..Len(calls) : calls[i].window = pending

(* Nobody is left without cards when a turn begins, and no two players     *)
(* when it ends, so that CompleteHand (host/game/deck.go) never finds two  *)
(* winners.                                                                *)
SoleWinner ==
  /\ pc = "Turn" => \A p \in Players : Owned(p) # {}
  /\ pc \in {"EndTurn", "Done"} => Cardinality(EmptyHands) <= 1

(* The winner scores all cards but those of the deck and the discards.     *)
ScoreIsTheRest ==
  pc = "Done" =>
    HandScore = MapThenSumSet(Score, StartCards)
                  - MapThenSumSet(Score, deck \cup discard \cup {top})

(* Whoever is asked to play on a wild has to follow the color that was     *)
(* chosen for that very card, by the player that laid it or by the first   *)
(* on turn, through draws, calls and refused offers: not the one the hand  *)
(* begins with, nor that of an earlier wild.                               *)
WildHasColor ==
  PlayOutstanding /\ IsWild(top) =>
    chosen = [card |-> top, color |-> lastWildColor] /\ lastWildColor \in Colors

\* What the players own when they own all but these.
AllBut(cards) == UNION {Owned(p) : p \in Players} = StartCards \ cards

(* The process only dies because somebody called one left on player -1, or *)
(* because the players hold every card but the top discard in a draw, or   *)
(* but wild draw fours, all turned up, before there is a first card.       *)
PanicExplained ==
  pc = "Panicked" =>
    \/ job.who = None /\ job # NoJob
    \/ job # NoJob /\ AllBut({top})
    \/ job = NoJob /\ AllBut(discard \cup {top})
         /\ \A c \in discard \cup TopCard : Value(c) = WildDrawFour

(* A GameError blames whoever made it, unless the draw was a one-left      *)
(* penalty or the challenged player failed while revealing its cards.      *)
BlameIsCulpritElsewhere ==
  err.blame # err.culprit =>
    \/ job.then = "CallDone"
    \/ Value(top) = WildDrawFour /\ job = NoJob

(* Every turn ends, however many one-left calls come in while it lasts.    *)
TurnEnds == pc = "Turn" ~> pc \in {"EndTurn"} \cup Terminal

\* How far the hand is, for CardTable.
Phase ==
  CASE pc = "Done"                                                 -> "won"
    [] pc \in {"Failed", "Panicked"}                               -> "failed"
    [] pc \in InTurns \/ (pc \in Drawing /\ job.then \in InTurns) -> "play"
    [] OTHER                                                       -> "setup"

\* What can still be drawn is whatever nobody owns and nobody has discarded.
Stock == StartCards \ (discard \cup TopCard \cup UNION {Owned(p) : p \in Players})
Held == [p \in Players |-> Owned(p)]

Table == INSTANCE CardTable WITH
  Seats <- Players, Pack <- StartCards, Answers <- ChosenColors,
  phase <- Phase, stock <- Stock, held <- Held,
  pile <- discard, face <- top, color <- lastWildColor

(* A hand does with the cards what CardTable allows and nothing else,      *)
(* whatever happens between the answer to Play and the discard.            *)
ImplementsCardTable == Table!TableSpec
-----------------------------------------------------------------------------
\* What a comment of the repository says and the code does not keep.

(* "If it's called on a pending one-left, check it" (hand.go): a penalty   *)
(* for a pending one-left is for a player.                                 *)
PenaltyHasPlayer == job.then = "CallDone" => job.who \in Players
=============================================================================
