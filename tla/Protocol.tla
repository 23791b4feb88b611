------------------------------ MODULE Protocol ------------------------------
(***************************************************************************)
(* The host's side of a game played with encrypted cards, on the players   *)
(* of Handler: the deck of host/game/deck.go, the bookkeeping of           *)
(* host/game/client_player.go, the starts and ends of host/game/game.go    *)
(* and the order in which game/game.go and game/hand.go call them.         *)
(*                                                                         *)
(* The goroutine of the game sends requests and goes on when they are      *)
(* answered.  Events travel beside the requests, in goroutines of their    *)
(* own (host/client/client.go), so a request may overtake them and they    *)
(* may overtake each other.  Whose turn is next, and one-left calls, which *)
(* this host never takes, are in Hand; here any player may be next.        *)
(*                                                                         *)
(* At this commit the host stops a game at the places named by Flaws.  A   *)
(* run may take them as mended, to see what the two sides do beyond them.  *)
(***************************************************************************)
EXTENDS Handler

CONSTANTS
  HandSize,     \* cards dealt to each player (7 in the code)
  Goal,         \* the score that ends a game (500 in the code)
  MaxShuffles,  \* bound on the shuffles up to the last reshuffle
  MaxLate,      \* bound on the players with an event under way
  Mended        \* the flaws taken as mended

\* What is taken as mended: the first hand is announced with dealer 0, not 1;
\* newDeck returns a deck, where it ends in a panic, and the game keeps it,
\* where Game.deck is never assigned; DealTo leaves out the key nobody was
\* asked for; the players' cards are counted, where cardCount stays 0;
\* CompleteHand passes over the keys of cards that were never popped; a
\* second hand is announced with the signatures of the first one's end.
Flaws == {"dealer", "newDeck", "ownKey", "cardCount", "deckKeys", "handEndSigs"}

ASSUME MendedAssumption == Mended \subseteq Flaws
ASSUME BoundsAssumption == {HandSize, Goal, MaxShuffles, MaxLate} \subseteq Nat

VARIABLES
  pc,         \* where the goroutine of the game stands
  hand,       \* the hand under way, 0 before the first
  dealer,     \* Game.dealerIndex
  scores,     \* Game.playerScores
  endSigs,    \* lastHandEndSigs
  complete,   \* winner and score of the hand that was completed last
  start,      \* unencryptedStartCards of the last shuffle
  work, stage, seat,  \* the working set, and how far it has been passed around
  shuffles,   \* how often the bound has been used
  deck,       \* encryptedCards
  held,       \* encryptedCardsHeldByPlayers
  seen,       \* seenDecryptionKeys: the keys of a card, by player
  discard,    \* hand.discard
  color,      \* hand.lastWildColor
  turn,       \* hand.playerIndex
  job,        \* the draw under way: cards drawn, all of them, event and pc after it
  event,      \* the last event sent
  late        \* the events that have not reached their player

table == <<deck, held, seen, discard, color>>
game == <<hand, dealer, scores, endSigs, complete>>
passing == <<start, work, stage, seat, shuffles>>
told == <<mem, event, late>>
wires == <<line, told>>
vars == <<pc, table, game, passing, turn, job, wires>>

NoJob == [done |-> 0, all |-> 0, event |-> "none", then |-> "none"]
Idle == [type |-> "idle"]
Terminal == {"Failed", "Panicked", "Complete"}

Init ==
  /\ HandlerInit
  /\ pc = "Start"
  /\ hand = 0 /\ dealer = 0 /\ scores = [p \in Players |-> 0]
  /\ endSigs = NoSigs /\ complete = [winner |-> None, score |-> 0]
  /\ start = <<>> /\ work = <<>> /\ stage = 0 /\ seat = 0 /\ shuffles = 0
  /\ deck = <<>> /\ held = <<>> /\ seen = <<>> /\ discard = <<>> /\ color = 0
  /\ turn = 0
  /\ job = NoJob
  /\ event = NoEvent /\ late = {}
-----------------------------------------------------------------------------
\* Requests, answers and events

CallAll(S, req) == line' = [p \in Players |-> IF p \in S THEN req ELSE Idle]
Call(p, req) == CallAll({p}, req)
HangUp == line' = [p \in Players |-> Idle]

Answered == \A p \in Players : line[p].type \notin Requests \cup {"refused"}

\* The host waits at `at`, and all it has asked have answered.
Back(at) == pc = at /\ Answered

PlayerRefuses ==
  /\ pc \notin Terminal
  /\ \E p \in Players : line[p].type = "refused"
  /\ pc' = "Failed"
  /\ UNCHANGED <<table, game, passing, turn, job, wires>>

CardsRemaining(p) ==
  IF "cardCount" \in Mended THEN Cardinality({v \in DOMAIN held : held[v] = p}) ELSE 0

HandNow == [remaining |-> [p \in Players |-> CardsRemaining(p)], deck |-> Len(deck),
            discard |-> discard, color |-> color]

(* An event reaches each player at once or is late.  What is late is       *)
(* overtaken by one other event at most: it comes in before a second.      *)
Send(type, handState) ==
  LET e == [type |-> type, scores |-> scores, dealer |-> dealer, hand |-> handState]
      waiting == {l[1] : l \in late}
  IN  /\ event' = e
      /\ \E slow \in SUBSET (Players \ waiting) :
           /\ Cardinality(waiting) + Cardinality(slow) <= MaxLate
           /\ late' = {l \in late : l[2] = event} \cup {<<p, e>> : p \in slow}
           /\ mem' = [p \in Players |->
                        IF p \in slow THEN mem[p] ELSE OnGameEvent(mem[p], e)]

(* A late event arrives.  It matters to the next request only, so it is    *)
(* let in right before one.                                                *)
Arrive ==
  \E l \in late :
    /\ line[l[1]].type \in Requests
    /\ late' = late \ {l}
    /\ mem' = [mem EXCEPT ![l[1]] = OnGameEvent(@, l[2])]
    /\ UNCHANGED <<pc, table, game, passing, turn, job, line, event>>

TopValue == Value(Seqs!Last(discard))

(* Where the first card turned up leads: a wild draw four is covered, a    *)
(* draw two drawn for, and the other actions have an event of their own.   *)
AfterFirst ==
  CASE TopValue = WildDrawFour       -> "FirstCard"
    [] TopValue = DrawTwo            -> "Draw"
    [] TopValue \in {Skip, Reverse}  -> "FirstEffect"
    [] OTHER                         -> "Turn"

EffectEvent == IF TopValue = Skip THEN "HandPlayerSkipped" ELSE "HandPlayReversed"

(* Where a hand only sends an event: its type, and where it goes on.       *)
Announcement ==
  CASE pc = "Shuffled"   -> IF job = NoJob THEN <<"HandStartShuffled", "Deal">>
                                           ELSE <<"HandReshuffled", "Draw">>
    [] pc = "Drawn"      -> <<job.event, job.then>>
    [] pc = "FirstShown" -> <<"HandStartTopCardAddedToDiscard", AfterFirst>>
    [] pc = "FirstEffect" -> <<EffectEvent, "Turn">>
    [] pc = "Nothing"    -> <<"HandPlayerPlayedNothing", "EndTurn">>
    [] pc = "Discarded"  -> <<"HandPlayerDiscarded", "Effect">>
    [] pc = "Effect"     -> <<EffectEvent, "EndTurn">>
    [] pc = "HandOver"   -> <<"HandEnd", "AfterHand">>

Announce ==
  /\ \/ pc \in {"Shuffled", "Drawn", "FirstShown", "FirstEffect", "Nothing", "Discarded",
                "HandOver"}
     \/ pc = "Effect" /\ TopValue \in {Skip, Reverse}
  /\ Send(Announcement[1], HandNow)
  /\ pc' = Announcement[2]
  /\ UNCHANGED <<table, game, passing, turn, job, line>>
-----------------------------------------------------------------------------
\* The starts of the game and of a hand

StartGame ==
  /\ pc = "Start"
  /\ CallAll(Players, [type |-> "GameStart"])
  /\ pc' = "GameStart"
  /\ UNCHANGED <<table, game, passing, turn, job, told>>

GameStarted ==
  /\ Back("GameStart")
  /\ Send("GameStart", NoHand)
  /\ HangUp
  /\ pc' = "NewHand"
  /\ UNCHANGED <<table, game, passing, turn, job>>

(* doHandStart: the one after the dealer of the last event, which before   *)
(* the first hand has not dealt yet.                                       *)
NextDealer ==
  IF hand = 0 /\ "dealer" \in Mended THEN event.dealer ELSE (event.dealer + 1) % N

StartHand ==
  /\ pc = "NewHand"
  /\ hand' = hand + 1
  /\ CallAll(Players,
       [type |-> "HandStart", hand |-> hand + 1, scores |-> scores, dealer |-> NextDealer,
        gameStartSigs |-> GameStartMsg,
        handEndSigs |-> IF "handEndSigs" \in Mended THEN endSigs ELSE NoSigs])
  /\ pc' = "HandStart"
  /\ UNCHANGED <<table, dealer, scores, endSigs, complete, passing, turn, job,
                 told>>
-----------------------------------------------------------------------------
\* deck.Shuffle

ShuffleRequest(from, st, cards) ==
  [type |-> "Shuffle", handStartSigs |-> HandStartMsg(hand), stage |-> st,
   start |-> from, cards |-> cards]

(* Without any cards a full deck is meant.                                 *)
FromCards(cards) == IF cards = <<>> THEN FullDeck ELSE cards

(* The plain cards go to the first seat.                                   *)
Shuffle(cards) ==
  LET from == FromCards(cards)
      plain == [i \in DOMAIN from |-> Plain(from[i])]
  IN  /\ start' = from
      /\ work' = plain
      /\ stage' = 0 /\ seat' = 0
      /\ shuffles' = shuffles + 1
      /\ Call(0, ShuffleRequest(from, 0, plain))
      /\ pc' = "Shuffle"

(* newDeck, and a hand.play with a hand of its own.                        *)
HandStarted ==
  /\ Back("HandStart")
  /\ IF "newDeck" \in Mended
       THEN /\ deck' = <<>> /\ held' = <<>> /\ seen' = <<>>
            /\ discard' = <<>> /\ color' = 0
            /\ turn' = dealer
            /\ job' = NoJob
            /\ Shuffle(<<>>)
       ELSE pc' = "Panicked" /\ UNCHANGED <<table, turn, job, passing, line>>
  /\ UNCHANGED <<game, told>>

(* Mutant: after the last seat comes a seat that is not there.             *)
NextSeat_DoesNotWrap(p) == p + 1

NextSeat(p) == (p + 1) % N

(* The working set goes to the next seat, for the next stage after the     *)
(* last seat, if it still is as large as it was.                           *)
PassOn ==
  /\ Back("Shuffle")
  /\ stage < 2 \/ seat < N - 1
  /\ LET cards == IF stage < 2 THEN line[seat].cards ELSE work
         last == seat = N - 1
     IN  /\ work' = cards
         /\ stage' = IF last THEN stage + 1 ELSE stage
         /\ seat' = NextSeat(seat)
         /\ IF stage = 1 /\ last /\ Len(cards) # Len(start)
              THEN pc' = "Failed" /\ UNCHANGED line
              ELSE Call(seat', ShuffleRequest(start, stage', cards)) /\ UNCHANGED pc
  /\ UNCHANGED <<table, game, start, shuffles, turn, job, told>>

(* Mutant: the discards stay where they are.                               *)
AfterReshuffle_Kept(pile) == pile

\* What a reshuffle leaves of the discards, if there are any.
AfterReshuffle(pile) == IF pile = <<>> THEN pile ELSE <<Seqs!Last(pile)>>

ShuffleDone ==
  /\ Back("Shuffle")
  /\ stage = 2 /\ seat = N - 1
  /\ deck' = work
  /\ discard' = AfterReshuffle(discard)
  /\ HangUp
  /\ pc' = "Shuffled"
  /\ UNCHANGED <<held, seen, color, game, passing, turn, job, told>>
-----------------------------------------------------------------------------
\* Dealing and drawing

StartDraw(n, type, then) ==
  /\ job' = [done |-> 0, all |-> n, event |-> type, then |-> then]
  /\ pc' = "Draw"

Deal ==
  /\ pc = "Deal"
  /\ turn' = NextSeat(turn)
  /\ IF Cardinality(DOMAIN held) < N * HandSize
       THEN StartDraw(1, "HandStartCardDealt", "Deal")
       ELSE pc' = "FirstCard" /\ UNCHANGED job
  /\ UNCHANGED <<table, game, passing, wires>>

Reshuffle ==
  /\ pc = "Draw" /\ job.done < job.all /\ deck = <<>>
  /\ shuffles < MaxShuffles
  /\ Shuffle(Seqs!Front(discard))
  /\ UNCHANGED <<table, game, turn, job, told>>

(* DealTo asks everyone but the receiver for the key of the top card.      *)
DealTo ==
  /\ pc = "Draw" /\ job.done < job.all /\ deck # <<>>
  /\ CallAll(Players \ {turn}, [type |-> "Key", to |-> turn])
  /\ pc' = "Keys"
  /\ UNCHANGED <<table, game, passing, turn, job, told>>

\* The keys that have come in, nil for a player that was not asked.
KeysIn == [p \in Players |-> IF line[p].type = "key" THEN line[p].key ELSE NoKey]

(* popTopCardForDeal once the keys are there.                              *)
PopTopCard(keys) ==
  /\ deck' = Seqs!Front(deck)
  /\ seen' = Put(seen, Seqs!Last(deck), keys)

KeysGiven ==
  /\ Back("Keys")
  /\ PopTopCard(KeysIn)
  /\ IF "ownKey" \in Mended
       THEN /\ held' = Put(held, Seqs!Last(deck), turn)
            /\ Call(turn, [type |-> "Give", keys |-> KeysIn])
            /\ pc' = "Give"
       ELSE pc' = "Panicked" /\ UNCHANGED <<held, line>>
  /\ UNCHANGED <<discard, color, game, passing, turn, job, told>>

CardGiven ==
  /\ Back("Give")
  /\ job' = [job EXCEPT !.done = @ + 1]
  /\ HangUp
  /\ pc' = IF job.done + 1 = job.all THEN "Drawn" ELSE "Draw"
  /\ UNCHANGED <<table, game, passing, turn, told>>
-----------------------------------------------------------------------------
\* The first card: PopForFirstDiscard and createDiscardWithFirstCard

(* All are asked for the key of the top card, even if none is left.        *)
TurnUp ==
  /\ pc = "FirstCard"
  /\ CallAll(Players, [type |-> "Key", to |-> None])
  /\ pc' = "FirstKeys"
  /\ UNCHANGED <<table, game, passing, turn, job, told>>

\* decryptCard
Decrypted(v, keys) == FoldSet(LAMBDA q, w : DecryptInt(keys[q], w), v, Players)

TurnedUp ==
  /\ Back("FirstKeys")
  /\ PopTopCard(KeysIn)
  /\ LET v == Decrypted(Seqs!Last(deck), KeysIn)
     IN  /\ discard' = Append(discard, v.card)
         /\ job' = [done |-> 0, all |-> 2, event |-> "HandPlayerDrewTwo", then |-> "Turn"]
         /\ IF ~Opened(v) THEN pc' = "Failed" /\ HangUp
            ELSE IF Value(v.card) = Wild
              THEN pc' = "FirstColor" /\ Call(turn, [type |-> "ChooseColor"])
              ELSE pc' = "FirstShown" /\ HangUp
  /\ UNCHANGED <<held, color, game, passing, turn, told>>

FirstColor ==
  /\ Back("FirstColor")
  /\ color' = line[turn].color
  /\ HangUp
  /\ pc' = "FirstShown"
  /\ UNCHANGED <<deck, held, seen, discard, game, passing, turn, job, told>>
-----------------------------------------------------------------------------
\* A turn: hand.play with clientPlayer.Play

(* Whoever is next, or the same player again after it has drawn a card.    *)
AskPlay ==
  /\ pc \in {"Turn", "Again"}
  /\ \E p \in IF pc = "Again" THEN {turn} ELSE Players :
       turn' = p /\ Call(p, [type |-> "Play"])
  /\ pc' = IF pc = "Again" THEN "PlayAgain" ELSE "Play"
  /\ UNCHANGED <<table, game, passing, job, told>>

\* A number without any bytes is no card: 0.
Empty(v) == v.card = 0 /\ Opened(v)

PlayComesBack == \E at \in {"Play", "PlayAgain"} : Back(at)

(* Mutant: what came as no bytes is struck off the player's cards.         *)
NothingPlayed_StruckOff ==
  /\ PlayComesBack
  /\ Empty(line[turn].number)
  /\ held' = Restrict(held, {v \in DOMAIN held : ~Empty(v)})
  /\ HangUp
  /\ IF pc = "Play" THEN StartDraw(1, "HandPlayerDrewOne", "Again")
                    ELSE pc' = "Nothing" /\ UNCHANGED job
  /\ UNCHANGED <<deck, seen, discard, color, game, passing, turn, told>>

NothingPlayed ==
  /\ PlayComesBack
  /\ Empty(line[turn].number)
  /\ HangUp
  /\ IF pc = "Play" THEN StartDraw(1, "HandPlayerDrewOne", "Again")
                    ELSE pc' = "Nothing" /\ UNCHANGED job
  /\ UNCHANGED <<table, game, passing, turn, told>>

(* The card was given to this player, opens to a card with the keys, and   *)
(* all the keys but the player's own have been seen before.                *)
PlayIsGenuine(play) ==
  LET v == play.number
  IN  /\ v \in DOMAIN held /\ held[v] = turn
      /\ Opened(Decrypted(v, play.keys))
      /\ seen[v] = [play.keys EXCEPT ![turn] = NoKey]

CardPlayed ==
  /\ PlayComesBack
  /\ ~Empty(line[turn].number)
  /\ LET play == line[turn]
         v == play.number
         card == Decrypted(v, play.keys).card
     IN  IF /\ PlayIsGenuine(play)
            /\ PlayIsValid([card |-> card, wildColor |-> play.wildColor])
            /\ CanPlayOn(card, Seqs!Last(discard), color)
           THEN /\ held' = Restrict(held, DOMAIN held \ {v})
                /\ seen' = Put(seen, v, play.keys)
                /\ discard' = Append(discard, card)
                /\ color' = play.wildColor
                /\ HangUp
                /\ pc' = "Discarded"
           ELSE pc' = "Failed" /\ UNCHANGED <<held, seen, discard, color, line>>
  /\ UNCHANGED <<deck, game, passing, turn, job, told>>

NextDrawsTwo ==
  /\ pc = "Effect" /\ TopValue = DrawTwo
  /\ turn' \in Players \ {turn}
  /\ StartDraw(2, "HandPlayerDrewTwo", "EndTurn")
  /\ UNCHANGED <<table, game, passing, wires>>

(* ShouldChallengeWildDrawFour, with the color of the last event.          *)
AskChallenge ==
  /\ pc = "Effect" /\ TopValue = WildDrawFour
  /\ \E p \in Players \ {turn} :
       Call(p, [type |-> "Challenge", color |-> event.hand.color])
  /\ pc' = "Challenge"
  /\ UNCHANGED <<table, game, passing, turn, job, told>>

(* A challenge makes the host ask for the cards, which no player survives. *)
ChallengeDecided ==
  /\ Back("Challenge")
  /\ \E p \in Players :
       /\ line[p].type = "decided"
       /\ IF line[p].challenge
            THEN /\ Call(turn, [type |-> "Reveal"])
                 /\ pc' = "Reveal"
                 /\ UNCHANGED <<turn, job>>
            ELSE /\ HangUp
                 /\ turn' = p
                 /\ StartDraw(4, "HandPlayerNoChallengeDrewFour", "EndTurn")
  /\ UNCHANGED <<table, game, passing, told>>

NoEffect ==
  /\ pc = "Effect" /\ TopValue \notin {Skip, Reverse, DrawTwo, WildDrawFour}
  /\ pc' = "EndTurn"
  /\ UNCHANGED <<table, game, passing, turn, job, wires>>
-----------------------------------------------------------------------------
\* The end of a hand: checkComplete and CompleteHand

OutOfCards == {p \in Players : CardsRemaining(p) = 0}

HandEndRequest(st, winner, score, infos) ==
  [type |-> "HandEnd", hand |-> hand, stage |-> st, winner |-> winner, deck |-> deck,
   score |-> score, infos |-> infos]

EndTurn ==
  /\ pc = "EndTurn"
  /\ CASE OutOfCards = {} -> pc' = "Turn" /\ UNCHANGED <<line, complete>>
       [] Cardinality(OutOfCards) > 1 -> pc' = "Failed" /\ UNCHANGED <<line, complete>>
       [] OTHER -> \E p \in OutOfCards :
                     /\ complete' = [winner |-> p, score |-> 0]
                     /\ CallAll(Players, HandEndRequest(0, p, 0, <<>>))
                     /\ pc' = "HandReveal"
  /\ UNCHANGED <<table, hand, dealer, scores, endSigs, passing, turn, job, told>>

\* The cards the players have revealed, seat by seat.
Shown == Seqs!FlattenSeq([i \in 1..N |->
           [j \in DOMAIN line[i-1].cards |-> line[i-1].cards[j].card]])

\* Cards that are opened with the keys in the answers.
OpenedBy(v) == Decrypted(v, [q \in Players |-> line[q].keys[v]])

(* A player has revealed as many cards as it should have, that it was      *)
(* given and has not shown the key of; the keys of the others' cards are   *)
(* those it has given before.                                              *)
AnswerFits(p) ==
  LET cards == line[p].cards
      mine == {cards[j].number : j \in DOMAIN cards}
      keys == line[p].keys
  IN  /\ Len(cards) = CardsRemaining(p)
      /\ \A v \in mine : v \in DOMAIN held /\ held[v] = p
      /\ \A v \in DOMAIN keys \cap DOMAIN seen :
           seen[v][p] = IF v \in mine THEN NoKey ELSE keys[v]

(* All cards open, and together they are the cards of the start.           *)
CardsFit ==
  /\ \A p \in Players : \A j \in DOMAIN line[p].cards :
       LET c == line[p].cards[j]
       IN  Opened(OpenedBy(c.number)) /\ OpenedBy(c.number).card = c.card
  /\ \A i \in DOMAIN deck : Opened(OpenedBy(deck[i]))
  /\ Sorted(discard \o Shown \o [i \in DOMAIN deck |-> OpenedBy(deck[i]).card]) = FullDeck

HandRevealed ==
  /\ Back("HandReveal")
  /\ IF "deckKeys" \notin Mended /\ \E p \in Players : DOMAIN line[p].keys \ DOMAIN seen # {}
       THEN pc' = "Panicked" /\ UNCHANGED <<line, complete>>
     ELSE IF (\A p \in Players : AnswerFits(p)) /\ CardsFit
       THEN LET score == Seqs!FoldSeq(LAMBDA c, s : s + Score(c), 0, Shown)
                infos == [p \in Players |-> [cards |-> line[p].cards, keys |-> line[p].keys]]
            IN  /\ complete' = [complete EXCEPT !.score = score]
                /\ CallAll(Players, HandEndRequest(1, complete.winner, score, infos))
                /\ pc' = "HandSign"
       ELSE pc' = "Failed" /\ UNCHANGED <<line, complete>>
  /\ UNCHANGED <<table, hand, dealer, scores, endSigs, passing, turn, job, told>>

(* The signatures are kept, and the score goes to the winner.              *)
HandSigned ==
  /\ Back("HandSign")
  /\ endSigs' = HandEndMsg(hand, 1)
  /\ scores' = [scores EXCEPT ![complete.winner] = @ + complete.score]
  /\ HangUp
  /\ pc' = "HandOver"
  /\ UNCHANGED <<table, hand, dealer, complete, passing, turn, job, told>>

(* The game goes on until the winner of a hand has reached the goal.       *)
AfterHand ==
  /\ pc = "AfterHand"
  /\ IF scores[complete.winner] >= Goal
       THEN /\ CallAll(Players, [type |-> "GameEnd", scores |-> scores, handEndSigs |-> endSigs])
            /\ pc' = "GameEnd"
            /\ UNCHANGED dealer
       ELSE pc' = "NewHand" /\ dealer' = NextSeat(dealer) /\ UNCHANGED line
  /\ UNCHANGED <<table, hand, scores, endSigs, complete, passing, turn, job, told>>

GameEnded ==
  /\ Back("GameEnd")
  /\ Send("GameEnd", NoHand)
  /\ HangUp
  /\ pc' = "Complete"
  /\ UNCHANGED <<table, game, passing, turn, job>>
-----------------------------------------------------------------------------
Host ==
  \/ PlayerRefuses \/ Announce
  \/ StartGame \/ GameStarted \/ StartHand \/ HandStarted
  \/ PassOn \/ ShuffleDone
  \/ Deal \/ Reshuffle \/ DealTo \/ KeysGiven \/ CardGiven
  \/ TurnUp \/ TurnedUp \/ FirstColor
  \/ AskPlay \/ NothingPlayed \/ CardPlayed
  \/ NextDrawsTwo \/ AskChallenge \/ ChallengeDecided \/ NoEffect
  \/ EndTurn \/ HandRevealed \/ HandSigned \/ AfterHand \/ GameEnded

Player(p) ==
  /\ Handle(p)
  /\ UNCHANGED <<pc, table, game, passing, turn, job, event, late>>

(* The game is over, or the bound on shuffles is reached.                  *)
Finished ==
  /\ \/ pc \in Terminal
     \/ pc = "Draw" /\ deck = <<>> /\ shuffles = MaxShuffles
  /\ UNCHANGED vars

Next == Host \/ (\E p \in Players : Player(p)) \/ Arrive \/ Finished

Spec == Init /\ [][Next]_vars
=============================================================================
