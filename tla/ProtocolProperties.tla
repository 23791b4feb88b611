------------------------- MODULE ProtocolProperties -------------------------
(***************************************************************************)
(* What a game with encrypted cards (module Protocol) promises to a host   *)
(* and players that all keep to the code.                                  *)
(***************************************************************************)
EXTENDS Protocol

Waiting == {"GameStart", "HandStart", "Shuffle", "Keys", "Give", "FirstKeys",
            "FirstColor", "Play", "PlayAgain", "Challenge", "Reveal", "HandReveal",
            "HandSign", "GameEnd"}
Going == {"Start", "NewHand", "Shuffled", "Deal", "Draw", "Drawn", "FirstCard",
          "FirstShown", "FirstEffect", "Turn", "Again", "Nothing", "Discarded", "Effect", "EndTurn",
          "HandOver", "AfterHand"}
Keys == Players \X (1..shuffles) \X (0..Cardinality(StartCards))
Numbers == [card : StartCards, powers : SUBSET (Keys \X {1, -1})]

(* Every variable of the host keeps to its type, as do the players' decks  *)
(* and hands: seats and dealers wrap, numbers are cards under keys that    *)
(* were generated, stages end with the third.                              *)
TypeOK ==
  /\ pc \in Waiting \cup Going \cup Terminal
  /\ hand \in Nat /\ {dealer, turn, seat} \subseteq Players
  /\ stage \in 0..2 /\ shuffles \in 0..MaxShuffles + hand
  /\ scores \in [Players -> Nat]
  /\ start \in Seq(StartCards) /\ discard \in Seq(StartCards)
  /\ work \in Seq(Numbers) /\ deck \in Seq(Numbers)
  /\ DOMAIN held \subseteq Numbers /\ Range(held) \subseteq Players
  /\ DOMAIN held \subseteq DOMAIN seen /\ color \in Colors
  /\ \A v \in DOMAIN seen : seen[v] \in [Players -> Keys \cup {NoKey}]
  /\ late \subseteq Players \X {l[2] : l \in late} /\ Cardinality(late) <= MaxLate
  /\ \A p \in Players :
       /\ mem[p].deck \in Seq(Numbers)
       /\ {c.card : c \in Range(mem[p].myCards)} \subseteq StartCards

\* No request and no answer is under way.
Resting == \A p \in Players : line[p] = Idle

Holding(p) == {v \in DOMAIN held : held[v] = p}
InHand(p) == {c.number : c \in Range(mem[p].myCards)}

(* Between two requests every player's encryptedDeckCards is the host's    *)
(* encryptedCards, card by card, and its myCards are those the host has    *)
(* given it (encryptedCardsHeldByPlayers), but for a card that it has      *)
(* played as no bytes at all.                                              *)
TablesAgree ==
  Resting =>
    \A p \in Players :
      /\ mem[p].deck = deck
      /\ InHand(p) \subseteq Holding(p)
      /\ \A v \in Holding(p) \ InHand(p) : Empty(v)

(* Whatever the order it was shuffled in, every card left in the deck      *)
(* opens with the keys its players have filed for it, and the deck, the    *)
(* hands and the discards together are the cards of the start.             *)
DeckOpens ==
  Resting /\ hand > 0 =>
    /\ \A i \in DOMAIN deck :
         /\ \A p \in Players : deck[i] \in DOMAIN mem[p].cardPairs
         /\ Opened(Decrypted(deck[i], [p \in Players |-> mem[p].cardPairs[deck[i]]]))
    /\ LET out == Seqs!SetToSeq({v.card : v \in DOMAIN held})
       IN  Sorted(discard \o out \o [i \in DOMAIN deck |-> deck[i].card]) = FullDeck

\* The keys that have gone through the host's hands.
KeysShown == UNION {Range(seen[v]) : v \in DOMAIN seen}

(* The keys the host has been given to deal and play with, for all cards   *)
(* of all shuffles of a hand, do not open a card of the deck or of a       *)
(* player's hand.  0 and 1 are never hidden.                               *)
CardsStayHidden ==
  \A v \in Range(deck) \cup DOMAIN held :
    v.card \notin Fixed => v.powers \ (KeysShown \X {1}) # {}

Refused(p) == line[p].type = "refused"

\* The player has not seen the last event, or an older one after it.
Behind(p) == mem[p].lastEvent # event

\* A card that no key changes has been shuffled again.
FixedAgain == shuffles > hand /\ Range(start) \cap Fixed # {}

(* A player that keeps to the code refuses what a host asks that keeps to  *)
(* the code in these cases only: the request has overtaken an event; a     *)
(* shuffle is that of a second hand, comes in the middle of a draw or has  *)
(* no discards to recycle; a wild is turned up on a wild draw four, or no  *)
(* card is left to turn up; the player cannot play; a wild draw four is    *)
(* challenged; a card that is the same under every key is given a second   *)
(* time.                                                                   *)
RefusalsExplained ==
  \A p \in Players :
    Refused(p) =>
      LET why == line[p].why
      IN  \/ Behind(p)
          \/ why = "Shuffle" /\ (hand > 1 \/ job.done > 0 \/ Len(discard) = 1)
          \/ why = "ChooseColor" /\ Len(discard) > 1
          \/ why = "Play" \/ why = "Reveal"
          \/ why = "Key" /\ (FixedAgain \/ deck = <<>>)

\* A card was played as no bytes at all.
PlayedAsNothing == \E v \in DOMAIN held : Empty(v) /\ v \notin InHand(held[v])

(* The host finds fault with the answers of such players (clientPlayer.Play*)
(* and CompleteHand) only when one has played by an event that the last    *)
(* one should have replaced, when a card was lost as no bytes, or when one *)
(* is the same under every key.                                            *)
FaultsExplained ==
  pc = "Failed" /\ (\A p \in Players : ~Refused(p)) =>
    Behind(turn) \/ PlayedAsNothing \/ FixedAgain

-----------------------------------------------------------------------------
\* How far the hand is, for CardTable.
Phase ==
  CASE pc \in {"Failed", "Panicked"}                              -> "failed"
    [] pc \in {"HandOver", "AfterHand", "GameEnd", "Complete"}    -> "won"
    [] pc \in {"NewHand", "HandStart"} /\ endSigs # NoSigs        -> "won"
    [] pc \in {"Turn", "Play", "Again", "PlayAgain", "Nothing", "Discarded", "Effect",
               "Challenge", "Reveal", "EndTurn", "HandReveal", "HandSign"} -> "play"
    [] pc \in {"Draw", "Drawn", "Keys", "Give", "Shuffle", "Shuffled"}
         /\ job.then \in {"Again", "EndTurn"}                     -> "play"
    [] OTHER                                                      -> "setup"

Owned(p) == {v.card : v \in Holding(p)}
OwnedBy == [p \in Players |-> Owned(p)]
Below == IF discard = <<>> THEN <<>> ELSE Seqs!Front(discard)

Stock == StartCards \ (Range(discard) \cup UNION {Owned(p) : p \in Players})
Face == IF discard = <<>> THEN NoCard ELSE Seqs!Last(discard)

\* A card is sent with the color 0 when it is played.
Table == INSTANCE CardTable WITH
  Seats <- Players, Pack <- StartCards, Answers <- ChosenColors \cup {0},
  phase <- Phase,
  stock <- Stock,
  held <- OwnedBy,
  pile <- Range(Below),
  face <- Face,
  color <- color

(* With numbers for cards and keys for hands, a hand does with the cards   *)
(* what CardTable allows.  A new hand starts a new table, and the end of a *)
(* game may fail without it.                                               *)
ImplementsCardTable ==
  /\ Table!TableInit
  /\ [][pc \notin {"HandStart", "GameEnd"} => Table!TableNext \/ UNCHANGED Table!tableVars]_vars
=============================================================================
