-------------------------------- MODULE Hand --------------------------------
(***************************************************************************)
(* One hand of the game: hand.play of game/hand.go with the routines it    *)
(* calls, on the deck of game/gametest/simple_deck.go.                     *)
(*                                                                         *)
(* The goroutine that runs hand.play is a sequential program: pc names the *)
(* point it has reached and every action of Main takes it from one call    *)
(* that leaves the goroutine (the deck, the event callback, a player) to   *)
(* the next.  Two other kinds of goroutine run beside it: the one that     *)
(* waits in Player.Play (PlayerReplies, PlayFails) and the ones that call  *)
(* the one-left callback (CallOneLeft), which feed the channel `calls`.    *)
(*                                                                         *)
(* Shuffling is modelled by drawing: the deck is a set and any of its      *)
(* cards may be on top.  Of the discard pile only the top card is told     *)
(* apart, the code never looks at the order of the others.                 *)
(***************************************************************************)
EXTENDS Cards, FiniteSets, Sequences, FiniteSetsExt

CONSTANTS
  N,             \* number of players, seats are 0..N-1
  HandSize,      \* cards dealt to each player (7 in the code)
  StartCards,    \* the cards of a full deck (0..107 in the code)
  ChosenColors,  \* colors a player may answer, unknown ones included
  MaxCalls       \* bound on the one-left calls waiting (the channel holds N)

ASSUME NAssumption == N \in Nat /\ N >= 2
ASSUME CardsAssumption == StartCards \subseteq Deck108
ASSUME HandSizeAssumption == HandSize \in Nat \ {0}
ASSUME ChosenColorsAssumption == ChosenColors \subseteq Int
ASSUME MaxCallsAssumption == MaxCalls \in 0..N

Players == 0..N-1
None == -1       \* no player: the code's -1 for an index
Awaited == -2    \* Player.Play has not returned yet

VARIABLES
  pc,             \* where hand.play stands
  toDeal,         \* cards shuffleAndDeal has still to deal
  playerIndex,    \* hand.playerIndex
  forward,        \* hand.forward
  deck,           \* the cards of the deck
  hands,          \* the cards of each player
  discard,        \* the discard pile below its top card
  top,            \* the top of the discard pile, NoCard before there is one
  lastWildColor,  \* hand.lastWildColor
  chosen,         \* the last card a player put forward, and the color with it
  reply,          \* what Player.Play returned, not yet consumed
  pending,        \* playerIndexJustGotOneLeft
  calls,          \* contents of oneLeftCallbackChan
  job,            \* the draw under way: cards left, player, event and pc after it
  lastEvent,      \* type and DeckCardsRemaining of the last event sent
  err             \* whom the GameError blames, and who caused it

control == <<pc, lastEvent, err>>
table == <<deck, hands, discard, top>>
seat == <<toDeal, playerIndex, forward>>
oneLeft == <<pending, calls>>
colors == <<lastWildColor, chosen>>
vars == <<control, table, seat, colors, reply, oneLeft, job>>

NoReply == [card |-> Awaited, wildColor |-> 0]
NoChoice == [card |-> NoCard, color |-> 0]
NoJob == [left |-> 0, who |-> None, event |-> "none", then |-> "none"]
NoEvent == [type |-> "none", deckRemaining |-> 0]
NoErr == [blame |-> None, culprit |-> None]

SettingUp == {"Shuffle", "Deal", "FirstCard", "FirstColor", "FirstEffect",
              "FirstMove", "Begin"}
Drawing == {"Draw", "DealTo", "Drawn"}
InTurns == {"Turn", "CallDone", "AwaitPlay", "PlayAgain", "Apply", "Effect",
            "Reveal", "EndTurn"}
Terminal == {"Done", "Failed", "Panicked"}
-----------------------------------------------------------------------------
\* Helpers of hand.go.  Goto, Fail, Emit and Draw each say where control goes.

(* Mutant: the seats do not wrap around.                                   *)
NextIndex_DoesNotWrap == IF forward THEN playerIndex + 1 ELSE playerIndex - 1

NextIndex ==
  IF forward
    THEN IF playerIndex = N - 1 THEN 0 ELSE playerIndex + 1
    ELSE IF playerIndex = 0 THEN N - 1 ELSE playerIndex - 1

CardsRemaining(p) == Cardinality(hands[p])

Goto(next) == pc' = next /\ UNCHANGED <<lastEvent, err>>

(* A GameError that blames `blame`; `culprit` is who made the call fail.   *)
Fail(blame, culprit) ==
  /\ pc' = "Failed"
  /\ err' = [blame |-> blame, culprit |-> culprit]
  /\ UNCHANGED lastEvent

(* sendEvent, which shows how many cards the deck has; a failing callback  *)
(* ends the hand and blames nobody.                                        *)
Send(type, cards, next) ==
  \/ /\ pc' = next
     /\ lastEvent' = [type |-> type, deckRemaining |-> Cardinality(cards)]
     /\ UNCHANGED err
  \/ Fail(None, None)

Emit(type, next) == Send(type, deck, next)

PenaltyFor(who) ==
  [left |-> 2, who |-> who, event |-> "HandPlayerOneLeftPenaltyDrewTwo",
   then |-> "CallDone"]

(* Start playerDraw(n, who); the event and pc say how the caller goes on.  *)
Draw(n, who, event, then) ==
  /\ job' = [left |-> n, who |-> who, event |-> event, then |-> then]
  /\ Goto("Draw")

(* Mutant: the channel is kept, and the calls in it.                       *)
ResetOneLeftCallbacks_KeepsChannel(index) ==
  /\ pending' = index
  /\ UNCHANGED calls

(* resetOneLeftCallbacks: a new channel, so calls on the old one are lost. *)
ResetOneLeftCallbacks(index) ==
  /\ pending' = index
  /\ calls' = <<>>

(* Mutant: the window is never closed.                                     *)
ResetIfPending_Forgotten == UNCHANGED oneLeft

(* The channel is replaced only if somebody had one card left.             *)
ResetIfPending ==
  IF pending # None THEN ResetOneLeftCallbacks(None) ELSE UNCHANGED oneLeft
-----------------------------------------------------------------------------
Init ==
  /\ pc = "Shuffle"
  /\ toDeal = N * HandSize
  /\ playerIndex \in Players     \* the dealer
  /\ forward = TRUE
  /\ deck = {}
  /\ hands = [p \in Players |-> {}]
  /\ discard = {}
  /\ top = NoCard
  /\ lastWildColor = 0
  /\ chosen = NoChoice
  /\ reply = NoReply
  /\ pending = None
  /\ calls = <<>>
  /\ job = NoJob
  /\ lastEvent = NoEvent
  /\ err = NoErr
-----------------------------------------------------------------------------
\* shuffleAndDeal and createDiscardWithFirstCard

Shuffle ==
  /\ pc = "Shuffle"
  /\ deck' = StartCards
  /\ Send("HandStartShuffled", StartCards, "Deal")
  /\ UNCHANGED <<hands, discard, top, seat, colors, reply, oneLeft, job>>

Deal ==
  /\ pc = "Deal"
  /\ playerIndex' = NextIndex
  /\ IF toDeal > 0
       THEN /\ toDeal' = toDeal - 1
            /\ Draw(1, NextIndex, "HandStartCardDealt", "Deal")
       ELSE Goto("FirstCard") /\ UNCHANGED <<toDeal, job>>
  /\ UNCHANGED <<table, forward, colors, reply, oneLeft>>

(* Where the first card turned up leads after its event.                   *)
AfterFirst(c) ==
  CASE Value(c) = WildDrawFour                -> "FirstCard"
    [] Value(c) \in {Skip, Reverse, DrawTwo}  -> "FirstEffect"
    [] OTHER                                  -> "Begin"

(* Mutant: nobody is asked for the color of a wild.                        *)
AsksColor_Never(c) == FALSE

AsksColor(c) == Value(c) = Wild

(* PopForFirstDiscard; when it fails, the cause names the player whose key *)
(* is missing, or nobody when the card cannot be decrypted.                *)
TurnUpFirstCard ==
  /\ pc = "FirstCard"
  /\ \/ \E c \in deck :
          /\ deck' = deck \ {c}
          /\ discard' = discard \cup ({top} \ {NoCard})
          /\ top' = c
          /\ IF AsksColor(c)
               THEN Goto("FirstColor")
               ELSE Send("HandStartTopCardAddedToDiscard", deck \ {c}, AfterFirst(c))
     \/ (\E p \in Players \cup {None} : Fail(p, p)) /\ UNCHANGED <<deck, discard, top>>
  /\ UNCHANGED <<hands, seat, colors, reply, oneLeft, job>>

(* The deal has left no card, or wild draw fours only, which have been     *)
(* turned up one after the other: an index is out of range.                *)
TurnUpPanics ==
  /\ pc = "FirstCard"
  /\ deck = {}
  /\ Goto("Panicked")
  /\ UNCHANGED <<table, seat, colors, reply, oneLeft, job>>

(* The first player chooses the color of a wild; an unknown color, or no   *)
(* answer, is that player's failure.                                       *)
ChooseFirstColor ==
  /\ pc = "FirstColor"
  /\ \E color \in ChosenColors :
       /\ lastWildColor' = color
       /\ chosen' = [card |-> top, color |-> color]
       /\ \/ color \in Colors /\ Emit("HandStartTopCardAddedToDiscard", "Begin")
          \/ Fail(playerIndex, playerIndex)
  /\ UNCHANGED <<table, seat, reply, oneLeft, job>>

FirstEffect ==
  /\ pc = "FirstEffect"
  /\ \/ /\ Value(top) = Skip
        /\ Emit("HandPlayerSkipped", "FirstMove")
        /\ UNCHANGED <<forward, job>>
     \/ /\ Value(top) = Reverse
        /\ forward' = ~forward
        /\ Emit("HandPlayReversed", "Begin")
        /\ UNCHANGED job
     \/ /\ Value(top) = DrawTwo
        /\ Draw(2, playerIndex, "HandPlayerDrewTwo", "FirstMove")
        /\ UNCHANGED forward
  /\ UNCHANGED <<table, toDeal, playerIndex, colors, reply, oneLeft>>

(* The move past a player skipped by the first card, and the first channel *)
(* of one-left calls.                                                      *)
BeginTurns ==
  /\ pc \in {"FirstMove", "Begin"}
  /\ playerIndex' = IF pc = "FirstMove" THEN NextIndex ELSE playerIndex
  /\ ResetOneLeftCallbacks(None)
  /\ Goto("Turn")
  /\ UNCHANGED <<table, toDeal, forward, colors, reply, job>>
-----------------------------------------------------------------------------
\* playerDraw: one card at a time, reshuffling when the deck is empty

(* Mutants: the top card is shuffled too; the discards are forgotten.      *)
Recycled_WithTop == discard \cup {top}
Recycled_Forgotten == {}

(* The cards the deck is shuffled from: the discards without the top.      *)
Recycled == discard

\* A draw finds the deck empty, and there are discards.
DeckIsUsedUp == pc = "Draw" /\ deck = {} /\ top # NoCard

Reshuffle ==
  /\ DeckIsUsedUp
  /\ deck' = Recycled
  /\ discard' = {}
  /\ Send("HandReshuffled", Recycled, "DealTo")
  /\ UNCHANGED <<hands, top, seat, colors, reply, oneLeft, job>>

(* A player refuses to shuffle and is named by the cause of the error, or  *)
(* the deck has changed size and nobody is.                                *)
ShuffleFails ==
  /\ pc = "Shuffle" \/ DeckIsUsedUp
  /\ \E p \in Players \cup {None} : Fail(p, p)
  /\ UNCHANGED <<table, seat, colors, reply, oneLeft, job>>

AboutToDeal == pc = "DealTo" \/ (pc = "Draw" /\ deck # {})

(* One step, as PlayerReplies is.  The test players keep their cards in a  *)
(* slice that a penalty for the player on turn and its Play rewrite at the *)
(* same time without a lock: here one comes after the other, in any order, *)
(* and what such a race does to the slice is left out.                     *)
DealTo ==
  /\ AboutToDeal
  /\ job.who \in Players
  /\ \E c \in deck :
       /\ deck' = deck \ {c}
       /\ hands' = [hands EXCEPT ![job.who] = @ \cup {c}]
  /\ job' = [job EXCEPT !.left = @ - 1]
  /\ Goto(IF job.left = 1 THEN "Drawn" ELSE "Draw")
  /\ UNCHANGED <<discard, top, seat, colors, reply, oneLeft>>

(* DealTo of host/game/deck.go: another player withholds its key, and the  *)
(* cause names it; or the receiver refuses the card, and nothing but       *)
(* hand.playerIndex is known.                                              *)
DealToFails ==
  /\ AboutToDeal
  /\ job.who \in Players
  /\ \/ \E p \in Players \ {job.who} : Fail(p, p)
     \/ Fail(playerIndex, job.who)
  /\ UNCHANGED <<table, seat, colors, reply, oneLeft, job>>

\* Every card is in the hands, but for the top discard if there is one.
NoCardToDeal == deck = {} /\ (pc = "DealTo" \/ (pc = "Draw" /\ top = NoCard))

(* Index out of range: there is no card, or it is for player -1.           *)
DealToPanics ==
  /\ NoCardToDeal \/ (AboutToDeal /\ job.who = None)
  /\ Goto("Panicked")
  /\ UNCHANGED <<table, seat, colors, reply, oneLeft, job>>

Drawn ==
  /\ pc = "Drawn"
  /\ Emit(job.event, job.then)
  /\ job' = NoJob
  /\ UNCHANGED <<table, seat, colors, reply, oneLeft>>
-----------------------------------------------------------------------------
\* The turn: a play or a one-left call, whichever comes first

\* The points of a turn at which Player.Play is running in its goroutine; it
\* goes on while hand.play serves a call.
PlayOutstanding ==
  /\ reply = NoReply
  /\ \/ pc \in {"Turn", "CallDone", "AwaitPlay", "PlayAgain"}
     \/ pc \in Drawing /\ job.then = "CallDone"

(* Player.Play returns; the player has taken the card out of its hand.     *)
(* `chosen` is not in the code: it records what was said with which card.  *)
PlayerReplies ==
  /\ PlayOutstanding
  /\ \E card \in hands[playerIndex] \cup {NoCard}, wildColor \in ChosenColors :
       /\ reply' = [card |-> card, wildColor |-> wildColor]
       /\ hands' = [hands EXCEPT ![playerIndex] = @ \ {card}]
       /\ chosen' = IF card = NoCard THEN chosen ELSE [card |-> card, color |-> wildColor]
  /\ UNCHANGED <<control, deck, discard, top, seat, lastWildColor, oneLeft, job>>

PlayFails ==
  /\ pc \in {"Turn", "AwaitPlay", "PlayAgain"}
  /\ reply = NoReply
  /\ Fail(playerIndex, playerIndex)
  /\ UNCHANGED <<table, seat, colors, reply, oneLeft, job>>

(* A player, or a client on its behalf, uses the callback it was given.    *)
(* `window` is not in the code: it records whose window was open then.     *)
CallOneLeft(caller, target) ==
  /\ pc \in InTurns \/ (pc \in Drawing /\ job.then \in InTurns)
  /\ Len(calls) < MaxCalls
  /\ calls' = Append(calls, [caller |-> caller, target |-> target, window |-> pending])
  /\ UNCHANGED <<control, table, seat, colors, reply, pending, job>>

OnPending(call) == call.target = pending

(* "It was called for myself out of turn when I didn't have one left".     *)
FalseClaim(call) ==
  /\ ~OnPending(call)
  /\ call.caller = call.target
  /\ CardsRemaining(call.caller) # 1

(* Whether the target draws two: another player was faster than the one    *)
(* with one card left, or the caller's own claim is false.                 *)
Penalized(call) ==
  \/ OnPending(call) /\ call.caller # call.target
  \/ FalseClaim(call)

TakeCall ==
  /\ pc = "Turn"
  /\ calls # <<>>
  /\ calls' = Tail(calls)
  /\ LET call == Head(calls) IN
       \/ /\ Penalized(call)
          /\ job' = PenaltyFor(call.target)
          /\ Emit("HandPlayerCalledOneLeft", "Draw")
       \/ /\ OnPending(call) /\ ~Penalized(call)
          /\ Emit("HandPlayerCalledOneLeft", "CallDone")
          /\ UNCHANGED job
       \/ /\ ~OnPending(call) /\ ~FalseClaim(call)
          /\ Goto("CallDone")
          /\ UNCHANGED job
  /\ UNCHANGED <<table, seat, colors, reply, pending>>

(* Mutant: after a call, the turn waits for a play or a call again.        *)
CallDone_SelectsAgain ==
  /\ pc = "CallDone"
  /\ ResetIfPending
  /\ Goto("Turn")
  /\ UNCHANGED <<table, seat, colors, reply, job>>

CallDone ==
  /\ pc = "CallDone"
  /\ ResetIfPending
  /\ Goto("AwaitPlay")
  /\ UNCHANGED <<table, seat, colors, reply, job>>

(* The first answer to Play: a card, or NoCard to draw one and answer again. *)
TakePlay ==
  /\ pc \in {"Turn", "AwaitPlay"}
  /\ reply # NoReply
  /\ IF pc = "Turn" THEN ResetIfPending ELSE UNCHANGED oneLeft
  /\ IF reply.card = NoCard
       THEN /\ Draw(1, playerIndex, "HandPlayerDrewOne", "PlayAgain")
            /\ reply' = NoReply
       ELSE Goto("Apply") /\ UNCHANGED <<reply, job>>
  /\ UNCHANGED <<table, seat, colors>>

TakeSecondPlay ==
  /\ pc = "PlayAgain"
  /\ reply # NoReply
  /\ Goto("Apply")
  /\ UNCHANGED <<table, seat, colors, reply, oneLeft, job>>
-----------------------------------------------------------------------------
\* What the answer does

(* Mutant: the last color counts on a face that is not wild.               *)
Playable_OnLastColor ==
  CanPlayOn(reply.card, top, lastWildColor) \/ Color(reply.card) = lastWildColor

Playable == CanPlayOn(reply.card, top, lastWildColor)

PlayRefused ==
  /\ pc = "Apply"
  /\ ~PlayIsValid(reply) \/ (reply.card # NoCard /\ ~Playable)
  /\ Fail(playerIndex, playerIndex)
  /\ UNCHANGED <<table, seat, colors, reply, oneLeft, job>>

PlayNothing ==
  /\ pc = "Apply"
  /\ PlayIsValid(reply)
  /\ reply.card = NoCard
  /\ reply' = NoReply
  /\ Emit("HandPlayerPlayedNothing", "EndTurn")
  /\ UNCHANGED <<table, seat, colors, oneLeft, job>>

Discard ==
  /\ pc = "Apply"
  /\ PlayIsValid(reply)
  /\ reply.card # NoCard
  /\ Playable
  /\ discard' = discard \cup {top}
  /\ top' = reply.card
  /\ lastWildColor' = reply.wildColor
  /\ reply' = NoReply
  /\ IF CardsRemaining(playerIndex) = 1
       THEN ResetOneLeftCallbacks(playerIndex)
       ELSE UNCHANGED oneLeft
  /\ Emit("HandPlayerDiscarded", "Effect")
  /\ UNCHANGED <<deck, hands, seat, chosen, job>>

PlainCard ==
  /\ pc = "Effect"
  /\ Value(top) \notin {Skip, Reverse, DrawTwo, WildDrawFour}
  /\ Goto("EndTurn")
  /\ UNCHANGED <<table, seat, colors, reply, oneLeft, job>>

SkipNext ==
  /\ pc = "Effect" /\ Value(top) = Skip
  /\ playerIndex' = NextIndex
  /\ Emit("HandPlayerSkipped", "EndTurn")
  /\ UNCHANGED <<table, toDeal, forward, colors, reply, oneLeft, job>>

ReverseDirection ==
  /\ pc = "Effect" /\ Value(top) = Reverse
  /\ forward' = ~forward
  /\ Emit("HandPlayReversed", "EndTurn")
  /\ UNCHANGED <<table, toDeal, playerIndex, colors, reply, oneLeft, job>>

NextDrawsTwo ==
  /\ pc = "Effect" /\ Value(top) = DrawTwo
  /\ playerIndex' = NextIndex
  /\ Draw(2, NextIndex, "HandPlayerDrewTwo", "EndTurn")
  /\ UNCHANGED <<table, toDeal, forward, colors, reply, oneLeft>>

(* ShouldChallengeWildDrawFour: yes, no, or a failure that the next player *)
(* answers for.                                                            *)
AskChallenge ==
  /\ pc = "Effect" /\ Value(top) = WildDrawFour
  /\ \/ Goto("Reveal") /\ UNCHANGED <<playerIndex, job>>
     \/ /\ playerIndex' = NextIndex
        /\ Draw(4, NextIndex, "HandPlayerNoChallengeDrewFour", "EndTurn")
     \/ /\ playerIndex' = NextIndex
        /\ Fail(NextIndex, NextIndex)
        /\ UNCHANGED job
  /\ UNCHANGED <<table, toDeal, forward, colors, reply, oneLeft>>

ChallengeSucceeds ==
  /\ pc = "Reveal"
  /\ ResetIfPending
  /\ Draw(4, playerIndex, "HandPlayerChallengeSuccessDrewFour", "EndTurn")
  /\ UNCHANGED <<table, seat, colors, reply>>

(* Mutant: the challenger draws before the turn has moved to it.           *)
ChallengeIsLost_DrawsFirst ==
  /\ pc = "Reveal"
  /\ Draw(6, NextIndex, "HandPlayerChallengeFailedDrewSix", "EndTurn")
  /\ UNCHANGED <<table, seat, colors, reply, oneLeft>>

ChallengeIsLost ==
  /\ pc = "Reveal"
  /\ playerIndex' = NextIndex
  /\ Draw(6, NextIndex, "HandPlayerChallengeFailedDrewSix", "EndTurn")
  /\ UNCHANGED <<table, toDeal, forward, colors, reply, oneLeft>>

(* ChallengedWildDrawFour of client_player.go: both of its requests go to  *)
(* the current player, and a failure of the second is put down to the      *)
(* challenger.                                                             *)
RevealFails ==
  /\ pc = "Reveal"
  /\ Fail(playerIndex, playerIndex) \/ Fail(NextIndex, playerIndex)
  /\ UNCHANGED <<table, seat, colors, reply, oneLeft, job>>
-----------------------------------------------------------------------------
\* The end of a turn: moveNextPlayer and checkComplete

(* Mutant: only the next player is looked at.                              *)
EmptyHands_NextOnly == {p \in {NextIndex} : hands[p] = {}}

EmptyHands == {p \in Players : hands[p] = {}}

(* HandComplete, a function of the hands the hand.play returns with: the   *)
(* first empty hand, and the cards CompleteHand reveals.                   *)
WinnerIndex == CHOOSE p \in EmptyHands : \A q \in EmptyHands : p <= q
(* Mutant: only the next player's cards are counted.                       *)
HandScore_NextOnly == MapThenSumSet(Score, hands[NextIndex])
HandScore == MapThenSumSet(Score, UNION {hands[p] : p \in Players})

EndTurn ==
  /\ pc = "EndTurn"
  /\ playerIndex' = NextIndex
  /\ \/ EmptyHands = {} /\ Goto("Turn")
     \/ EmptyHands # {} /\ Goto("Done")
     \/ EmptyHands # {} /\ \E p \in Players \cup {None} : Fail(p, p)
  /\ UNCHANGED <<table, toDeal, forward, colors, reply, oneLeft, job>>
-----------------------------------------------------------------------------
\* The steps of the goroutine that runs hand.play.
Main ==
  \/ Shuffle \/ Deal \/ TurnUpFirstCard \/ TurnUpPanics \/ ChooseFirstColor
  \/ FirstEffect \/ BeginTurns
  \/ Reshuffle \/ ShuffleFails \/ DealTo \/ DealToFails \/ DealToPanics \/ Drawn
  \/ TakeCall \/ CallDone \/ TakePlay \/ TakeSecondPlay
  \/ PlayRefused \/ PlayNothing \/ Discard
  \/ PlainCard \/ SkipNext \/ ReverseDirection \/ NextDrawsTwo
  \/ AskChallenge \/ ChallengeSucceeds \/ ChallengeIsLost \/ RevealFails
  \/ EndTurn

Call == \E caller \in Players, target \in Players \cup {None} :
          CallOneLeft(caller, target)

(* hand.play has returned, or the process is gone.                         *)
Finished == pc \in Terminal /\ UNCHANGED vars

Next == Main \/ PlayerReplies \/ PlayFails \/ Call \/ Finished

(* The goroutine is scheduled; a player answers, or its request times out  *)
(* (host/client/client_rpc.go).  Nobody has to call.                       *)
Fairness == WF_vars(Main) /\ WF_vars(PlayerReplies \/ PlayFails)

Spec == Init /\ [][Next]_vars /\ Fairness
=============================================================================
