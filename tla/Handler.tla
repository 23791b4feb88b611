------------------------------ MODULE Handler -------------------------------
(***************************************************************************)
(* The players' side of a game: player/handler_player.go with the events   *)
(* of player/handler_event.go.  Each player keeps a memory of its own and  *)
(* answers the requests on its line, one at a time.  An error or a panic   *)
(* ends the loop of player/client/client.go; either way no answer comes.   *)
(*                                                                         *)
(* The user interface is external.  It never fails, and plays by the last  *)
(* event it was shown.  A signature by every player on a message is the    *)
(* name of that message.                                                   *)
(***************************************************************************)
EXTENDS Cards, Sra, FiniteSets, FiniteSetsExt, Sequences, Functions, TLC

Seqs == INSTANCE SequencesExt

CONSTANTS
  N,            \* number of players, seats are 0..N-1
  StartCards,   \* the cards of a full deck (0..107 in the code)
  ChosenColors  \* the colors an interface chooses from

ASSUME NAssumption == N \in Nat /\ N >= 2
ASSUME CardsAssumption == StartCards \subseteq Deck108
ASSUME ColorsAssumption == ChosenColors \subseteq Colors /\ ChosenColors # {}

VARIABLES
  mem,   \* the fields of each player's handler
  line   \* the request or the answer under way between it and the host

Players == 0..N-1
None == -1

\* In ascending order.
FullDeck ==
  [i \in 1..Cardinality(StartCards) |->
     CHOOSE card \in StartCards : Cardinality({c \in StartCards : c < card}) = i - 1]

(* The cards in ascending order: fewer than i of them are smaller than the *)
(* i-th, and i at least are not greater.                                   *)
Sorted(cards) ==
  LET Smaller(c) == Cardinality({j \in DOMAIN cards : cards[j] < c})
  IN  [i \in DOMAIN cards |->
         CHOOSE c \in Range(cards) : Smaller(c) < i /\ i <= Smaller(c + 1)]

\* A map f after what it has for x, or for all of the map g, is set.
Put(f, x, y) == [z \in DOMAIN f \cup {x} |-> IF z = x THEN y ELSE f[z]]
PutAll(f, g) == [z \in DOMAIN f \cup DOMAIN g |-> IF z \in DOMAIN g THEN g[z] ELSE f[z]]

NoKey == <<>>
NoEvent == [type |-> "none"]
NoHand == [remaining |-> <<>>, deck |-> 0, discard |-> <<>>, color |-> 0]
NoHandStart == [hand |-> 0, dealer |-> None]
NoSigs == <<"none", 0, 0>>
GameStartMsg == <<"GameStart", 0, 0>>
HandStartMsg(h) == <<"HandStart", h, 0>>
HandEndMsg(h, stage) == <<"HandEnd", h, stage>>
GameEndMsg == <<"GameEnd", 0, 0>>

Forgotten ==
  [lastEvent |-> NoEvent, lastHandStart |-> NoHandStart, lastHandEnd |-> NoSigs,
   sharedPrime |-> 0, start |-> <<>>, stage0 |-> NoKey, stage1 |-> <<>>,
   cardPairs |-> <<>>, deck |-> <<>>, given |-> {}, myCards |-> <<>>, shuffles |-> 0]

HandlerInit ==
  /\ mem = [p \in Players |-> Forgotten]
  /\ line = [p \in Players |-> [type |-> "idle"]]

Requests == {"GameStart", "GameEnd", "HandStart", "HandEnd", "Shuffle",
             "ChooseColor", "Key", "Give", "Play", "Challenge", "Reveal"}

Asked(p, type) == line[p].type = type
Reply(p, r) == line' = [line EXCEPT ![p] = r]
Refuse(p) == line' = [line EXCEPT ![p] = [type |-> "refused", why |-> line[p].type]]
Answer(p, ok, r) == IF ok THEN Reply(p, r) ELSE Refuse(p)
Remember(p, m) == mem' = [mem EXCEPT ![p] = m]
Signed(msg) == [type |-> "signed", sig |-> msg]
-----------------------------------------------------------------------------
(* OnGameEvent: nothing is checked.                                        *)
OnGameEvent(m, event) == [m EXCEPT !.lastEvent = event]

GameStart(p) ==
  /\ Asked(p, "GameStart")
  /\ Remember(p, [Forgotten EXCEPT !.shuffles = mem[p].shuffles])
  /\ Reply(p, Signed(GameStartMsg))

GameEnd(p) ==
  /\ Asked(p, "GameEnd")
  /\ LET m == mem[p] req == line[p]
     IN  Answer(p, /\ m.lastEvent # NoEvent /\ m.lastHandEnd # NoSigs
                   /\ m.lastEvent.scores = req.scores
                   /\ req.handEndSigs = m.lastHandEnd,
                Signed(GameEndMsg))
  /\ UNCHANGED mem

(* Mutant: the dealer of the first hand is not told apart.                 *)
ExpectedDealer_Always(m) == (m.lastHandStart.dealer + 2) % N

ExpectedDealer(m) ==
  IF m.lastHandStart = NoHandStart THEN 0 ELSE (m.lastHandStart.dealer + 1) % N

(* The request is kept before it is looked at.                             *)
HandStart(p) ==
  /\ Asked(p, "HandStart")
  /\ LET m == mem[p] req == line[p]
     IN  /\ Remember(p, [m EXCEPT !.sharedPrime = req.hand,
                           !.lastHandStart = [hand |-> req.hand, dealer |-> req.dealer]])
         /\ Answer(p, /\ m.lastEvent # NoEvent
                      /\ \/ m.lastEvent.type = "GameStart"
                         \/ /\ m.lastEvent.type = "HandEnd"
                            /\ m.lastHandEnd # NoSigs
                            /\ m.lastHandStart # NoHandStart
                      /\ m.lastEvent.scores = req.scores
                      /\ req.dealer = ExpectedDealer(m)
                      /\ req.gameStartSigs = GameStartMsg
                      /\ m.lastHandEnd # NoSigs => req.handEndSigs = m.lastHandEnd,
                   Signed(HandStartMsg(req.hand)))
-----------------------------------------------------------------------------
\* The shuffle

(* Mutant: the discards are expected with the top card.                    *)
ToShuffle_WithTop(m) ==
  IF m.lastEvent = NoEvent \/ m.lastEvent.hand = NoHand
    THEN FullDeck ELSE m.lastEvent.hand.discard

(* The cards expected in a shuffle: all of them, or the discards under the *)
(* top card.                                                               *)
ToShuffle(m) ==
  IF m.lastEvent = NoEvent \/ m.lastEvent.hand = NoHand
    THEN FullDeck ELSE Seqs!Front(m.lastEvent.hand.discard)

(* Validation common to the stages.                                        *)
ShuffleIsExpected(m, req) ==
  /\ m.sharedPrime # 0
  /\ Len(req.start) = Len(req.cards)
  /\ m.lastHandStart # NoHandStart
  /\ req.handStartSigs = HandStartMsg(m.lastHandStart.hand)
  /\ m.lastEvent # NoEvent /\ m.lastEvent.hand # NoHand =>
       m.lastEvent.hand.deck = 0 /\ m.lastEvent.hand.discard # <<>>
  /\ req.start = ToShuffle(m)

(* Stage 0: one new key for all the cards, in a random order.              *)
ShuffleStage0(p) ==
  /\ Asked(p, "Shuffle") /\ line[p].stage = 0
  /\ ShuffleIsExpected(mem[p], line[p])
  /\ LET m == mem[p] req == line[p]
         key == <<p, m.shuffles + 1, 0>>
         all == {EncryptInt(key, req.cards[i]) : i \in DOMAIN req.cards}
     IN  /\ Remember(p, [m EXCEPT !.start = IF @ = <<>> THEN req.start ELSE @,
                           !.stage0 = key, !.shuffles = @ + 1])
         /\ \E cards \in Seqs!SetToSeqs(all) : Reply(p, [type |-> "cards", cards |-> cards])

(* Mutant: one key for all the cards again.                                *)
Stage1Key_Shared(p, m, i) == <<p, m.shuffles, 1>>

\* The key pair generated for the i-th card.
Stage1Key(p, m, i) == <<p, m.shuffles, i>>

(* Stage 1: the common key of each card is replaced by one of its own.     *)
ShuffleStage1(p) ==
  /\ Asked(p, "Shuffle") /\ line[p].stage = 1
  /\ ShuffleIsExpected(mem[p], line[p])
  /\ mem[p].stage0 # NoKey
  /\ LET m == mem[p] req == line[p]
         keys == [i \in DOMAIN req.cards |-> Stage1Key(p, m, i)]
     IN  /\ Remember(p, [m EXCEPT !.stage1 = keys, !.stage0 = NoKey])
         /\ Reply(p, [type |-> "cards",
                      cards |-> [i \in DOMAIN keys |->
                        EncryptInt(keys[i], DecryptInt(m.stage0, req.cards[i]))]])

(* Mutant: the keys are filed from the other end of the deck.              *)
Filed_Reversed(m, cards) ==
  [v \in Range(cards) |->
     Seqs!Reverse(m.stage1)[CHOOSE i \in DOMAIN cards : cards[i] = v]]

\* The pairs filed under the encrypted cards they belong to.
Filed(m, cards) ==
  [v \in Range(cards) |-> m.stage1[CHOOSE i \in DOMAIN cards : cards[i] = v]]

(* Stage 2: the pairs of earlier shuffles are kept beside the new ones.    *)
ShuffleStage2(p) ==
  /\ Asked(p, "Shuffle") /\ line[p].stage = 2
  /\ ShuffleIsExpected(mem[p], line[p])
  /\ Len(mem[p].stage1) = Len(line[p].cards)
  /\ LET m == mem[p] cards == line[p].cards
     IN  Remember(p, [m EXCEPT !.cardPairs = PutAll(@, Filed(m, cards)),
                        !.deck = cards, !.stage1 = <<>>])
  /\ Reply(p, [type |-> "taken"])

ShuffleRefused(p) ==
  /\ Asked(p, "Shuffle")
  /\ ~ShuffleIsExpected(mem[p], line[p])
  /\ Refuse(p)
  /\ UNCHANGED mem
-----------------------------------------------------------------------------
\* The cards

ChooseColor(p) ==
  /\ Asked(p, "ChooseColor")
  /\ LET m == mem[p]
     IN  IF /\ m.lastHandStart # NoHandStart
            /\ m.lastEvent # NoEvent /\ m.lastEvent.type = "HandStartCardDealt"
            /\ p = (m.lastHandStart.dealer + 1) % N
           THEN \E color \in ChosenColors : Reply(p, [type |-> "color", color |-> color])
           ELSE Refuse(p)
  /\ UNCHANGED mem

(* GetDeckTopDecryptionKey: the card is popped before the checks.          *)
GetKey(p) ==
  /\ Asked(p, "Key")
  /\ LET m == mem[p] to == line[p].to
     IN  IF m.deck = <<>> \/ Seqs!Last(m.deck) \notin DOMAIN m.cardPairs
         THEN Refuse(p) /\ UNCHANGED mem
         ELSE LET top == Seqs!Last(m.deck)
                  ok == IF to = None
                          THEN /\ m.lastEvent # NoEvent /\ m.lastEvent.hand # NoHand
                               /\ \A i \in DOMAIN m.lastEvent.hand.discard :
                                    Value(m.lastEvent.hand.discard[i]) = WildDrawFour
                          ELSE to # p /\ top \notin m.given
              IN  /\ Remember(p, [m EXCEPT !.deck = Seqs!Front(@),
                                    !.given = IF to # None /\ ok THEN @ \cup {top} ELSE @])
                  /\ Answer(p, ok, [type |-> "key", key |-> m.cardPairs[top]])

(* Mutant: the card stays on the receiver's own deck.                      *)
Popped_Kept(deck) == deck

Popped(deck) == Seqs!Front(deck)

(* GiveDeckTopCard: the others' keys and its own open the card, which is   *)
(* popped before the checks.                                               *)
GiveCard(p) ==
  /\ Asked(p, "Give")
  /\ LET m == mem[p] others == line[p].keys
     IN  IF m.deck = <<>> THEN Refuse(p) /\ UNCHANGED mem
         ELSE LET top == Seqs!Last(m.deck)
                  keys == [others EXCEPT ![p] = m.cardPairs[top]]
                  open == FoldSet(LAMBDA q, v : DecryptInt(keys[q], v), top, Players)
                  ok == /\ top \in DOMAIN m.cardPairs
                        /\ top \notin m.given
                        /\ \A q \in Players : (others[q] = NoKey) = (q = p)
                        /\ Opened(open)
                  mine == [card |-> open.card, number |-> top, keys |-> keys]
              IN  /\ Remember(p, [m EXCEPT !.deck = Popped(@), !.given = @ \cup {top},
                                    !.myCards = IF ok THEN Append(@, mine) ELSE @])
                  /\ Answer(p, ok, [type |-> "taken"])

(* What the interface plays: a card that may be laid as far as it has been *)
(* told, or nothing.                                                       *)
UIPlays(m) ==
  LET hand == IF m.lastEvent = NoEvent THEN NoHand ELSE m.lastEvent.hand
  IN  {NoCard} \cup
      {i \in DOMAIN m.myCards :
         hand.discard # <<>> /\ CanPlayOn(m.myCards[i].card, Seqs!Last(hand.discard), hand.color)}

(* The color is forgotten exactly for the wild cards it was asked for.     *)
ColorSent(card, color) == IF IsWild(card) THEN 0 ELSE color

(* Mutant: the card that was played stays in the hand.                     *)
Without_Kept(cards, i) == cards

Without(cards, i) == Seqs!RemoveAt(cards, i)

(* "No card" is a card the player does not hold.                           *)
Play(p) ==
  /\ Asked(p, "Play")
  /\ \E i \in UIPlays(mem[p]) :
       IF i = NoCard THEN Refuse(p) /\ UNCHANGED mem
       ELSE LET c == mem[p].myCards[i]
            IN  /\ Remember(p, [mem[p] EXCEPT !.myCards = Without(@, i)])
                /\ \E color \in IF IsWild(c.card) THEN ChosenColors ELSE {0} :
                     Reply(p, [type |-> "play", card |-> c.card, number |-> c.number,
                               keys |-> c.keys, wildColor |-> ColorSent(c.card, color)])

ShouldChallenge(p) ==
  /\ Asked(p, "Challenge")
  /\ LET m == mem[p]
     IN  IF /\ m.lastEvent # NoEvent /\ m.lastEvent.hand # NoHand
            /\ m.lastEvent.hand.color = line[p].color
           THEN \E yes \in BOOLEAN : Reply(p, [type |-> "decided", challenge |-> yes])
           ELSE Refuse(p)
  /\ UNCHANGED mem

(* RevealCardsForChallenge ends in panic("TODO").                          *)
RevealForChallenge(p) ==
  /\ Asked(p, "Reveal")
  /\ Refuse(p)
  /\ UNCHANGED mem
-----------------------------------------------------------------------------
\* The end of a hand

(* The one player whom the last event shows without cards.                 *)
WinnerIsRight(m, req) ==
  /\ m.lastEvent # NoEvent /\ m.lastEvent.hand # NoHand
  /\ {q \in Players : m.lastEvent.hand.remaining[q] = 0} = {req.winner}

(* Everything the players have revealed fits: the score, the keys of every *)
(* card, what they open to, and the cards of the deck, the hands and the   *)
(* discards are those of the start.                                        *)
RevealIsRight(p, m, req) ==
  LET infos == req.infos
      pairs == DOMAIN m.cardPairs
      Open(v) == FoldSet(LAMBDA q, w : DecryptInt(infos[q].keys[v], w), v, Players)
      shown == Seqs!FlattenSeq([i \in 1..N |->
                 [j \in DOMAIN infos[i-1].cards |-> infos[i-1].cards[j].card]])
      active == m.lastEvent.hand.discard \o shown
                \o [i \in DOMAIN m.deck |-> Open(m.deck[i]).card]
  IN  /\ Seqs!FoldSeq(LAMBDA c, s : s + Score(c), 0, shown) = req.score
      /\ \A q \in Players : DOMAIN infos[q].keys = pairs
      /\ infos[p].keys = m.cardPairs
      /\ \A v \in pairs : Opened(Open(v))
      /\ Range(m.deck) \subseteq pairs
      /\ \A q \in Players : \A j \in DOMAIN infos[q].cards :
           LET c == infos[q].cards[j]
           IN  c.number \in pairs /\ Open(c.number).card = c.card
      /\ Sorted(active) = m.start

HandEnd(p) ==
  /\ Asked(p, "HandEnd")
  /\ LET m == mem[p] req == line[p]
         right == WinnerIsRight(m, req) /\ m.deck = req.deck
         hand == [j \in DOMAIN m.myCards |->
                    [card |-> m.myCards[j].card, number |-> m.myCards[j].number]]
     IN  /\ Remember(p, [m EXCEPT !.lastHandEnd = HandEndMsg(req.hand, req.stage)])
         /\ IF req.stage = 0
              THEN Answer(p, right, [type |-> "revealed", cards |-> hand,
                                     keys |-> m.cardPairs])
              ELSE Answer(p, right /\ RevealIsRight(p, m, req),
                          Signed(HandEndMsg(req.hand, 1)))
-----------------------------------------------------------------------------
(* The player's loop takes the next request.                               *)
Handle(p) ==
  \/ GameStart(p) \/ GameEnd(p) \/ HandStart(p) \/ HandEnd(p)
  \/ ShuffleStage0(p) \/ ShuffleStage1(p) \/ ShuffleStage2(p) \/ ShuffleRefused(p)
  \/ ChooseColor(p) \/ GetKey(p) \/ GiveCard(p) \/ Play(p)
  \/ ShouldChallenge(p) \/ RevealForChallenge(p)
=============================================================================
