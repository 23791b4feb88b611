--------------------------- MODULE ProtocolFaults ---------------------------
(***************************************************************************)
(* Proofs about where a game fails though no player refuses to go on: who  *)
(* holds cards, what is laid by a player that has seen the last event,     *)
(* which keys the host has seen of each card, and that it finds no fault   *)
(* with what players answer, but in the cases named by FaultsExplained.    *)
(***************************************************************************)
EXTENDS ProtocolRefusals
-----------------------------------------------------------------------------
\* Who holds cards

\* Where a hand is dealt; where everyone holds cards; and where a card has been laid.
Dealing == pc = "Deal" \/ (pc \in Drawings /\ job.then = "Deal")
BeforePlay ==
  \/ pc \in FirstOnes \cup {"FirstEffect", "Turn", "Play", "Again", "PlayAgain", "Nothing"}
  \/ pc \in Drawings /\ job.then \in {"Again", "Turn"}
AfterPlay ==
  \/ pc \in {"Discarded", "Effect", "Challenge", "Reveal", "EndTurn"}
  \/ pc \in Drawings /\ job.then = "EndTurn"

DealtHold == \A p \in Players : HeldCount >= N \/ p \in 1..HeldCount => Holding(p) # {}
AllHold == \A p \in Players : Holding(p) # {}
OneHoldsNone == \A p, q \in Players : Holding(p) = {} /\ Holding(q) = {} => p = q

(* Cards are dealt to everyone before the first turn, and a turn takes the *)
(* cards of one player at most.                                            *)
HeldInv == (Dealing => DealtHold) /\ (BeforePlay => AllHold) /\ (AfterPlay => OneHoldsNone)

LEMMA HoldingStays ==
  ASSUME UNCHANGED held
  PROVE  (DealtHold => DealtHold') /\ (AllHold => AllHold') /\ (OneHoldsNone => OneHoldsNone')
BY DEF DealtHold, AllHold, OneHoldsNone, Holding, HeldCount

LEMMA HeldOn ==
  ASSUME HeldInv, UNCHANGED held, Dealing' => Dealing, BeforePlay' => BeforePlay,
         AfterPlay' => BeforePlay \/ AfterPlay
  PROVE  HeldInv'
<1>1. AllHold => OneHoldsNone
  BY DEF AllHold, OneHoldsNone
<1> QED
  BY <1>1, HoldingStays DEF HeldInv

LEMMA NotHeld ==
  ASSUME pc' \notin FirstOnes \cup Drawings \cup {"Deal", "FirstEffect", "Turn", "Play", "Again",
                     "PlayAgain", "Nothing", "Discarded", "Effect", "Challenge", "Reveal", "EndTurn"}
  PROVE  HeldInv'
BY DEF HeldInv, Dealing, BeforePlay, AfterPlay

LEMMA AnnounceHolds ==
  ASSUME Shape, Sound, HeldInv, Announce
  PROVE  HeldInv'
<1> USE DEF Dealing, BeforePlay, AfterPlay, FirstOnes, Drawings, Drawing
<1>1. /\ pc \in {"Shuffled", "Drawn", "FirstShown", "FirstEffect", "Nothing", "Discarded",
                 "HandOver", "Effect"}
      /\ pc' = Announcement[2] /\ UNCHANGED <<held, job>>
  BY DEF Announce, table
<1>2. CASE pc = "Shuffled" /\ job = NoJob
  <2>1. pc' = "Deal" /\ held = <<>>
    BY <1>1, <1>2 DEF Announcement, Sound, Place, Doomed, Fresh
  <2>2. HeldCount = 0
    BY <2>1, EmptyIsSeq, FS_EmptySet DEF HeldCount
  <2>3. DealtHold
    BY <2>2, NAssumption DEF DealtHold
  <2>4. DealtHold'
    BY <1>1, <2>3, HoldingStays
  <2> QED
    BY <2>1, <2>4 DEF HeldInv
<1>3. CASE pc = "Shuffled" /\ job # NoJob
  <2>1. pc' = "Draw"
    BY <1>1, <1>3 DEF Announcement
  <2> QED
    BY <1>1, <1>3, <2>1, HeldOn
<1>4. CASE pc = "Drawn"
  <2>1. pc' = job.then /\ job.then \in {"none", "Deal", "Again", "Turn", "EndTurn"}
    BY <1>1, <1>4 DEF Announcement, Shape
  <2> QED
    BY <1>1, <1>4, <2>1, HeldOn
<1>5. CASE pc = "FirstShown"
  <2>1. pc' = AfterFirst /\ AfterFirst \in {"FirstCard", "Draw", "FirstEffect", "Turn"}
    BY <1>1, <1>5 DEF Announcement, AfterFirst
  <2>2. job.then = "Turn"
    BY <1>5 DEF Sound, Place, Doomed
  <2> QED
    BY <1>1, <1>5, <2>1, <2>2, HeldOn
<1>6. CASE pc \in {"FirstEffect", "Nothing", "Discarded", "Effect"}
  <2>1. pc' = IF pc = "FirstEffect" THEN "Turn" ELSE IF pc = "Discarded" THEN "Effect" ELSE "EndTurn"
    BY <1>1, <1>6 DEF Announcement
  <2> QED
    BY <1>1, <1>6, <2>1, HeldOn
<1>7. CASE pc = "HandOver"
  <2>1. pc' = "AfterHand"
    BY <1>1, <1>7 DEF Announcement
  <2> QED
    BY <2>1, NotHeld
<1> QED
  BY <1>1, <1>2, <1>3, <1>4, <1>5, <1>6, <1>7

LEMMA DealHolds ==
  ASSUME Dealable, Shape, Sound, TurnInv, HeldInv, Deal
  PROVE  HeldInv'
<1> USE DEF Dealing, BeforePlay, AfterPlay, FirstOnes, Drawings, Drawing
<1>1. pc = "Deal" /\ UNCHANGED held
  BY DEF Deal, table
<1>2. CASE HeldCount < N * HandSize /\ pc' = "Draw" /\ job'.then = "Deal"
  BY <1>1, <1>2, HeldOn
<1>3. CASE ~(HeldCount < N * HandSize) /\ pc' = "FirstCard"
  <2>1. HeldCount >= N
    <3>1. HandSize \in Nat /\ N \in Nat /\ N * HandSize >= 1 /\ HeldCount \in Nat
      BY <1>1, FS_CardinalityType, BoundsAssumption, NAssumption, FullDeckCounts DEF Dealable, HeldCount, Sound
    <3>2. HandSize # 0
      BY <3>1
    <3>3. PICK h \in Nat : HandSize = h + 1
      BY <3>1, <3>2
    <3>4. N * HandSize = N * h + N /\ N * h \in Nat
      BY <3>1, <3>3
    <3> QED
      BY <1>3, <3>1, <3>4
  <2>2. AllHold
    BY <1>1, <2>1 DEF HeldInv, DealtHold, AllHold
  <2>3. AllHold'
    BY <1>1, <2>2, HoldingStays
  <2> QED
    BY <1>3, <2>3 DEF HeldInv
<1> QED
  BY <1>2, <1>3 DEF Deal, StartDraw, HeldCount

LEMMA KeysGivenHolds ==
  ASSUME ProtocolInv, TableInv, CardsInv, TurnInv, HeldInv, KeysGiven
  PROVE  HeldInv'
<1> USE DEF Dealing, BeforePlay, AfterPlay, FirstOnes, Drawings, Drawing
<1>1. CASE pc' = "Panicked"
  BY <1>1, NotHeld
<1>2. CASE pc' # "Panicked"
  <2> DEFINE top == Seqs!Last(deck)
  <2>1. /\ pc = "Keys" /\ pc' = "Give" /\ DOMAIN held' = DOMAIN held \cup {top}
        /\ top \notin DOMAIN held /\ UNCHANGED <<turn, job>>
    BY <1>2, DealtComesOut
  <2>2. held' = Put(held, top, turn)
    BY <1>2 DEF KeysGiven
  <2> HIDE DEF top
  <2>3. \A p \in Players : Holding(p) \subseteq Holding(p)'
    BY <2>1, <2>2 DEF Holding, Put
  <2>4. top \in Holding(turn)'
    BY <2>1, <2>2 DEF Holding, Put
  <2>5. (AllHold => AllHold') /\ (OneHoldsNone => OneHoldsNone')
    BY <2>3 DEF AllHold, OneHoldsNone
  <2>6. ASSUME job.then = "Deal"
        PROVE  DealtHold'
    <3>1. IsFiniteSet(DOMAIN held)
      <4>1. Sound
        BY Answers DEF KeysGiven, Waiting
      <4> QED
        BY <4>1 DEF Sound
    <3>2. HeldCount \in Nat /\ HeldCount' = HeldCount + 1
      BY <2>1, <3>1, FS_CardinalityType, FS_AddElement DEF HeldCount
    <3>3. DealtHold /\ SeatFor(HeldCount + 1)
      BY <2>1, <2>6 DEF HeldInv, TurnInv
    <3>4. PICK c \in Nat : HeldCount + 1 = c * N + turn
      BY <3>3 DEF SeatFor
    <3>5. N \in Nat /\ N >= 2 /\ turn \in 0..N-1
      BY NAssumption DEF ProtocolInv, Shape, Players
    <3>6. ASSUME NEW p \in Players, HeldCount + 1 >= N \/ p \in 1..(HeldCount + 1)
          PROVE  Holding(p)' # {}
      <4>1. CASE HeldCount >= N \/ p \in 1..HeldCount
        BY <2>3, <3>3, <4>1 DEF DealtHold
      <4>2. CASE HeldCount < N /\ p \notin 1..HeldCount
        <5>1. p \in 0..N-1
          BY DEF Players
        <5>2. c = 0 \/ c = 1
          <6>1. CASE c >= 2
            <7>1. PICK d \in Nat : c = d + 2
              BY <6>1
            <7>2. c * N = d * N + N + N /\ d * N \in Nat
              BY <3>5, <7>1
            <7> QED
              BY <3>2, <3>4, <3>5, <4>2, <7>2
          <6> QED
            BY <6>1
        <5>3. CASE c = 0
          <6>0. 0 * N = 0
            BY <3>5
          <6>1. turn = HeldCount + 1
            BY <3>2, <3>4, <3>5, <5>3, <6>0
          <6>2. p = turn
            BY <3>2, <3>5, <3>6, <4>2, <5>1, <6>1
          <6> QED
            BY <2>1, <2>4, <6>2 DEF Holding
        <5>4. CASE c = 1
          <6>0. 1 * N = N
            BY <3>5
          <6>1. turn = 0 /\ HeldCount + 1 = N
            BY <3>2, <3>4, <3>5, <4>2, <5>4, <6>0
          <6>2. p = turn
            BY <3>2, <3>5, <4>2, <5>1, <6>1
          <6> QED
            BY <2>1, <2>4, <6>2 DEF Holding
        <5> QED
          BY <5>2, <5>3, <5>4
      <4> QED
        BY <3>2, <3>5, <4>1, <4>2
    <3> QED
      BY <3>2, <3>6 DEF DealtHold
  <2> QED
    BY <2>1, <2>5, <2>6 DEF HeldInv
<1> QED
  BY <1>1, <1>2

(* Only the player whose turn it was may be left without cards.            *)
LEMMA CardPlayedHolds ==
  ASSUME HeldInv, CardPlayed
  PROVE  HeldInv'
<1>1. pc \in {"Play", "PlayAgain"} /\ pc' \in {"Failed", "Discarded"}
  BY Zenon DEF CardPlayed, PlayComesBack, Back
<1>2. CASE pc' = "Failed"
  BY <1>2, NotHeld DEF FirstOnes, Drawings, Drawing
<1>3. CASE pc' # "Failed"
  <2>1. PICK v \in DOMAIN held : held[v] = turn /\ held' = Restrict(held, DOMAIN held \ {v})
    BY <1>3, Zenon DEF CardPlayed, PlayIsGenuine
  <2>2. \A p \in Players \ {turn} : Holding(p)' = Holding(p)
    BY <2>1 DEF Holding, Restrict
  <2>3. AllHold
    BY <1>1 DEF HeldInv, BeforePlay
  <2>4. OneHoldsNone'
    BY <2>2, <2>3 DEF AllHold, OneHoldsNone
  <2> QED
    BY <1>1, <1>3, <2>4 DEF HeldInv, Dealing, BeforePlay, AfterPlay, FirstOnes, Drawings, Drawing
<1> QED
  BY <1>2, <1>3

(* The host knows who holds no card.                                       *)
LEMMA OutHoldNone ==
  ASSUME Mended = Flaws, IsFiniteSet(DOMAIN held)
  PROVE  OutOfCards = {p \in Players : Holding(p) = {}}
<1>1. ASSUME NEW p \in Players
      PROVE  CardsRemaining(p) = 0 <=> Holding(p) = {}
  <2>1. IsFiniteSet(Holding(p))
    BY FS_Subset DEF Holding
  <2>2. CardsRemaining(p) = Cardinality(Holding(p))
    BY DEF CardsRemaining, Holding, Flaws
  <2> QED
    BY <2>1, <2>2, FS_EmptySet
<1> QED
  BY <1>1 DEF OutOfCards

LEMMA EndTurnHolds ==
  ASSUME Mended = Flaws, Sound, HeldInv, EndTurn
  PROVE  HeldInv' /\ pc' # "Failed"
<1>1. pc = "EndTurn" /\ UNCHANGED held /\ pc' \in {"Turn", "Failed", "HandReveal"}
  BY Zenon DEF EndTurn, table
<1>2. OutOfCards = {p \in Players : Holding(p) = {}}
  BY OutHoldNone DEF Sound
<1>3. OneHoldsNone
  BY <1>1 DEF HeldInv, AfterPlay
<1>4. ~(Cardinality(OutOfCards) > 1)
  <2>1. CASE OutOfCards = {}
    BY <2>1, FS_EmptySet
  <2>2. CASE OutOfCards # {}
    <3>1. PICK p \in OutOfCards : TRUE
      BY <2>2
    <3>2. OutOfCards = {p}
      BY <1>2, <1>3, <3>1 DEF OneHoldsNone
    <3> QED
      BY <3>2, FS_Singleton
  <2> QED
    BY <2>1, <2>2
<1>5. pc' # "Failed" /\ (pc' = "Turn" => OutOfCards = {})
  BY <1>4 DEF EndTurn
<1>6. pc' = "Turn" => AllHold'
  <2>1. pc' = "Turn" => AllHold
    BY <1>2, <1>5 DEF AllHold
  <2> QED
    BY <1>1, <2>1, HoldingStays
<1> QED
  BY <1>1, <1>5, <1>6 DEF HeldInv, Dealing, BeforePlay, AfterPlay, FirstOnes, Drawings, Drawing

LEMMA HostHolds ==
  ASSUME Dealable, Mended = Flaws, ProtocolInv, TableInv, CardsInv, SecondInv, TurnInv, HeldInv, Host
  PROVE  HeldInv'
<1> USE DEF Dealing, BeforePlay, AfterPlay, FirstOnes, Drawings, Drawing
<1>1. Shape
  BY DEF ProtocolInv
<1>2. ASSUME Within
      PROVE  Sound
  BY <1>1, <1>2, WithinHand, FirstHand
<1>3. CASE PlayerRefuses \/ StartGame \/ GameStarted \/ StartHand \/ AfterHand \/ GameEnded
  <2>1. pc' \in {"Failed", "GameStart", "NewHand", "HandStart", "GameEnd", "Complete"}
    BY <1>3 DEF PlayerRefuses, StartGame, GameStarted, StartHand, AfterHand, GameEnded
  <2> QED
    BY <2>1, NotHeld
<1>4. CASE HandStarted
  <2>1. pc' = "Panicked" \/ (pc' = "Shuffle" /\ job' = NoJob)
    BY <1>4 DEF HandStarted, Shuffle
  <2> QED
    BY <2>1 DEF HeldInv, NoJob
<1>5. CASE Announce
  BY <1>1, <1>2, <1>5, AnnounceHolds DEF Within
<1>6. CASE Deal
  BY <1>1, <1>2, <1>6, DealHolds DEF Within
<1>7. CASE KeysGiven
  BY <1>7, KeysGivenHolds
<1>8. CASE CardPlayed
  BY <1>8, CardPlayedHolds
<1>9. CASE EndTurn
  BY <1>2, <1>9, EndTurnHolds DEF Within
<1>10. CASE PassOn \/ ShuffleDone \/ Reshuffle
  <2>1. pc \in {"Shuffle", "Draw"} /\ pc' \in {"Failed", "Shuffle", "Shuffled"} /\ UNCHANGED <<held, job>>
    BY <1>10 DEF PassOn, ShuffleDone, Reshuffle, Shuffle, Back, table
  <2> QED
    BY <2>1, HeldOn
<1>11. CASE DealTo
  <2>1. pc = "Draw" /\ pc' = "Keys" /\ UNCHANGED <<held, job>>
    BY <1>11 DEF DealTo, table
  <2> QED
    BY <2>1, HeldOn
<1>12. CASE CardGiven
  <2>1. /\ pc = "Give" /\ UNCHANGED held /\ job'.then = job.then /\ pc' \in {"Drawn", "Draw"}
    BY <1>1, <1>12 DEF CardGiven, Back, table, Shape, NoJob
  <2> QED
    BY <2>1, HeldOn
<1>13. CASE TurnUp \/ TurnedUp \/ FirstColor
  <2>1. pc \in FirstOnes /\ UNCHANGED held /\ pc' \in {"FirstKeys", "FirstColor", "FirstShown", "Failed"}
    <3>1. CASE TurnedUp
      BY <3>1, Zenon DEF TurnedUp, Back, FirstOnes
    <3> QED
      BY <1>13, <3>1 DEF TurnUp, FirstColor, Back, FirstOnes, table
  <2> QED
    BY <2>1, HeldOn
<1>14. CASE AskPlay \/ NothingPlayed
  <2>1. /\ UNCHANGED held
        /\ \/ pc \in {"Turn", "Again"} /\ pc' \in {"Play", "PlayAgain"}
           \/ pc \in {"Play", "PlayAgain"} /\ pc' = "Nothing"
           \/ pc \in {"Play", "PlayAgain"} /\ pc' = "Draw" /\ job'.then = "Again"
    BY <1>14 DEF AskPlay, NothingPlayed, PlayComesBack, Back, StartDraw, table
  <2> QED
    BY <2>1, HeldOn
<1>15. CASE NextDrawsTwo \/ AskChallenge \/ ChallengeDecided \/ NoEffect
  <2>1. /\ UNCHANGED held /\ pc \in {"Effect", "Challenge"}
        /\ \/ pc' \in {"Challenge", "Reveal", "EndTurn"}
           \/ pc' = "Draw" /\ job'.then = "EndTurn"
    BY <1>15 DEF NextDrawsTwo, AskChallenge, ChallengeDecided, NoEffect, Back, StartDraw, table
  <2> QED
    BY <2>1, HeldOn
<1>16. CASE HandRevealed \/ HandSigned
  <2>1. pc' \in {"Failed", "HandSign", "Panicked", "HandOver"}
    <3>1. CASE HandRevealed
      BY <3>1, Zenon DEF HandRevealed
    <3> QED
      BY <1>16, <3>1 DEF HandSigned
  <2> QED
    BY <2>1, NotHeld
<1> QED
  BY <1>3, <1>4, <1>5, <1>6, <1>7, <1>8, <1>9, <1>10, <1>11, <1>12, <1>13, <1>14, <1>15, <1>16, Zenon DEF Host

LEMMA HeldInvariant == ASSUME Dealable, Mended = Flaws PROVE Spec => []HeldInv
<1>1. Init => HeldInv
  BY DEF Init, HeldInv, Dealing, BeforePlay, AfterPlay, FirstOnes, Drawings, Drawing
<1>2. ProtocolInv /\ TableInv /\ CardsInv /\ SecondInv /\ TurnInv /\ HeldInv /\ [Next]_vars => HeldInv'
  <2>1. HostStays /\ HeldInv => HeldInv'
    BY HeldOn DEF HostStays, table, game, Dealing, BeforePlay, AfterPlay
  <2> QED
    BY <2>1, HostHolds, OthersLeaveHost DEF Next, Finished
<1> QED
  BY <1>1, <1>2, ProtocolInvariant, TableInvariant, CardsInvariant, SecondInvariant, TurnInvariant, PTL DEF Spec
-----------------------------------------------------------------------------
\* What is laid by a player that has seen the last event

(* A player that has seen the last event lays what the host lets it lay.   *)
LaidInv ==
  pc \in {"Play", "PlayAgain"} /\ line[turn].type = "play" /\ ~Behind(turn) =>
    /\ PlayIsValid([card |-> line[turn].card, wildColor |-> line[turn].wildColor])
    /\ CanPlayOn(line[turn].card, Seqs!Last(discard), color)

LEMMA OnlyAskPlayAsks ==
  ASSUME Shape, Host, pc' \in {"Play", "PlayAgain"}
  PROVE  AskPlay
<1>1. ~(PlayerRefuses \/ StartGame \/ GameStarted \/ StartHand \/ HandStarted \/ AfterHand \/ GameEnded)
  BY DEF PlayerRefuses, StartGame, GameStarted, StartHand, HandStarted, AfterHand, GameEnded, Shuffle
<1>2. CASE Announce
  <2>1. AfterFirst \in {"FirstCard", "Draw", "FirstEffect", "Turn"}
    BY DEF AfterFirst
  <2> QED
    BY <1>2, <2>1 DEF Announce, Announcement, Shape
<1>3. CASE PassOn \/ ShuffleDone \/ Reshuffle
  BY <1>3 DEF PassOn, ShuffleDone, Reshuffle, Shuffle, Back
<1>4. CASE Deal \/ DealTo \/ KeysGiven \/ CardGiven \/ TurnUp
  BY <1>4 DEF Deal, DealTo, KeysGiven, CardGiven, TurnUp, StartDraw
<1>5. CASE TurnedUp \/ CardPlayed \/ HandRevealed \/ EndTurn
  <2>1. pc' \in {"Failed", "FirstColor", "FirstShown", "Discarded", "Panicked", "HandSign", "Turn",
                 "HandReveal"}
    BY <1>5, Zenon DEF TurnedUp, CardPlayed, HandRevealed, EndTurn
  <2> QED
    BY <2>1
<1>6. CASE FirstColor \/ NothingPlayed \/ HandSigned
  BY <1>6 DEF FirstColor, NothingPlayed, StartDraw, HandSigned
<1>7. CASE NextDrawsTwo \/ AskChallenge \/ ChallengeDecided \/ NoEffect
  BY <1>7 DEF NextDrawsTwo, AskChallenge, ChallengeDecided, NoEffect, StartDraw
<1> QED
  BY <1>1, <1>2, <1>3, <1>4, <1>5, <1>6, <1>7, HostSteps, Zenon DEF Within

(* A player plays a card of its hand, by the last event it has seen.       *)
LEMMA Lays ==
  ASSUME Shape, NEW p \in Players, IsSeq(mem[p].myCards), Play(p), ~Refusal(line'[p])
  PROVE  \E i \in DOMAIN mem[p].myCards :
           LET c == mem[p].myCards[i]
               hand0 == mem[p].lastEvent.hand
           IN  /\ line'[p].type = "play" /\ line'[p].card = c.card /\ line'[p].number = c.number
               /\ line'[p].keys = c.keys /\ line'[p].wildColor = 0
               /\ mem'[p].myCards = Seqs!RemoveAt(mem[p].myCards, i)
               /\ mem[p].lastEvent # NoEvent => CanPlayOn(c.card, Seqs!Last(hand0.discard), hand0.color)
<1>1. PICK i \in UIPlays(mem[p]) :
         IF i = NoCard THEN Refuse(p) /\ UNCHANGED mem
         ELSE LET c == mem[p].myCards[i]
              IN  /\ Remember(p, [mem[p] EXCEPT !.myCards = Without(@, i)])
                  /\ \E chosen \in IF IsWild(c.card) THEN ChosenColors ELSE {0} :
                       Reply(p, [type |-> "play", card |-> c.card, number |-> c.number,
                                 keys |-> c.keys, wildColor |-> ColorSent(c.card, chosen)])
  BY Zenon DEF Play
<1>2. i # NoCard
  BY <1>1 DEF Refuse, Refusal, Shape
<1>3. i \in DOMAIN mem[p].myCards
  BY <1>2 DEF UIPlays
<1>4. mem[p].lastEvent # NoEvent =>
        CanPlayOn(mem[p].myCards[i].card, Seqs!Last(mem[p].lastEvent.hand.discard),
                  mem[p].lastEvent.hand.color)
  BY <1>2 DEF UIPlays
<1>5. PICK c, cards : c = mem[p].myCards[i] /\ cards = Seqs!RemoveAt(mem[p].myCards, i)
  OBVIOUS
<1>6. mem'[p].myCards = cards
  BY <1>1, <1>2, <1>5 DEF Remember, Without, Shape, Forgotten
<1>7. PICK chosen \in IF IsWild(c.card) THEN ChosenColors ELSE {0} :
        line' = [line EXCEPT ![p] = [type |-> "play", card |-> c.card, number |-> c.number,
                                     keys |-> c.keys, wildColor |-> ColorSent(c.card, chosen)]]
  BY <1>1, <1>2, <1>5 DEF Reply
<1>8. ColorSent(c.card, chosen) = 0
  BY <1>7 DEF ColorSent
<1>9. line'[p] = [type |-> "play", card |-> c.card, number |-> c.number, keys |-> c.keys, wildColor |-> 0]
  BY <1>7, <1>8 DEF Shape
<1> QED
  BY <1>3, <1>4, <1>5, <1>6, <1>9

LEMMA HostLays ==
  ASSUME ProtocolInv, Host
  PROVE  LaidInv'
<1> SUFFICES ASSUME pc' \in {"Play", "PlayAgain"}
             PROVE  line'[turn'].type # "play"
  BY DEF LaidInv
<1>1. AskPlay
  BY OnlyAskPlayAsks DEF ProtocolInv
<1>2. PICK p : turn' = p /\ CallAll({p}, [type |-> "Play"]) /\ p \in Players
  BY <1>1 DEF AskPlay, Call, ProtocolInv, Shape
<1> QED
  BY <1>2, Calls

LEMMA PlayerLays ==
  ASSUME ProtocolInv, TableInv, WhereInv, CurrentInv, KeyInv, LaidInv, NEW p \in Players, Player(p)
  PROVE  LaidInv'
<1>1. /\ UNCHANGED <<pc, turn, discard, color, event>> /\ Handle(p) /\ Shape /\ turn \in Players
  BY DEF Player, table, ProtocolInv, Shape
<1>2. /\ Alone(p) /\ line[p].type \in Requests
      /\ line[p].type # "GameStart" => mem'[p].lastEvent = mem[p].lastEvent
  BY <1>1, Remembers
<1> SUFFICES ASSUME pc \in {"Play", "PlayAgain"}, line'[turn].type = "play", mem'[turn].lastEvent = event
             PROVE  /\ PlayIsValid([card |-> line'[turn].card, wildColor |-> line'[turn].wildColor])
                    /\ CanPlayOn(line'[turn].card, Seqs!Last(discard), color)
  BY <1>1 DEF LaidInv, Behind
<1>3. WireInv
  BY DEF ProtocolInv, Live, Terminal
<1>4. p = turn /\ line[p].type = "Play"
  BY <1>2, <1>3 DEF WireInv, PlayCase, Refusal, Idle, Requests
<1>5. Play(p)
  BY <1>1, <1>4, OnlyAsked DEF Requests, Asked
<1>6. mem[p].lastEvent = event
  BY <1>2, <1>4
<1>7. Unrefused
  BY <1>3, <1>4 DEF Unrefused, WireInv, Idle
<1>8. event # NoEvent /\ event.hand = HandNow
  <2>1. Place
    BY <1>7 DEF TableInv, Sound, Terminal
  <2> QED
    BY <2>1 DEF Place, Afterwards, Told3, Told1, Outdated, CurrentInv, Current
<1>9. KeepsKeys(p)
  BY DEF KeyInv
<1>10. PICK i \in DOMAIN mem[p].myCards :
         /\ line'[p].card = mem[p].myCards[i].card /\ line'[p].wildColor = 0
         /\ CanPlayOn(mem[p].myCards[i].card, Seqs!Last(discard), color)
  BY <1>1, <1>4, <1>5, <1>6, <1>8, <1>9, Lays DEF KeepsKeys, HandNow, Refusal
<1>11. line'[p].card \in Deck108
  BY <1>9, <1>10, CardsAssumption DEF KeepsKeys, Range
<1> QED
  BY <1>4, <1>10, <1>11 DEF PlayIsValid, Colors

LEMMA LaidInvariant == ASSUME Dealable PROVE Spec => []LaidInv
<1>1. Init => LaidInv
  BY DEF Init, LaidInv
<1>2. /\ ProtocolInv /\ TableInv /\ WhereInv /\ CurrentInv /\ KeyInv /\ LaidInv /\ [Next]_vars
      => LaidInv'
  <2>1. ASSUME ProtocolInv, LaidInv, Arrive \/ UNCHANGED vars
        PROVE  LaidInv'
    <3>1. /\ UNCHANGED <<pc, turn, discard, color, event, line>>
          /\ line[turn].type \notin Requests => mem'[turn] = mem[turn]
      BY <2>1 DEF Arrive, vars, wires, told, table, ProtocolInv, Shape
    <3> QED
      BY <2>1, <3>1 DEF LaidInv, Behind, Requests
  <2> QED
    BY <2>1, HostLays, PlayerLays DEF Next, Finished
<1> QED
  BY <1>1, <1>2, ProtocolInvariant, TableInvariant, WhereInvariant, CurrentInvariant, KeyInvariant,
     PTL DEF Spec
-----------------------------------------------------------------------------
\* The keys the host has seen are those the players have filed

\* The faces that are being shuffled, or are in the deck.
Stocked == IF pc = "Shuffle" THEN Range(start) ELSE Range(FacesOf(deck))

\* The keys that are filed for a number, by player.
FiledFor(v) == [q \in Players |-> mem[q].cardPairs[v]]

\* What the host has seen of them, of a held card all but the holder's.
SeenAs(v) == IF v \in DOMAIN held THEN [FiledFor(v) EXCEPT ![held[v]] = NoKey] ELSE FiledFor(v)

\* A card that a player has or plays.
CardFits(c) == c.card = c.number.card /\ c.keys = FiledFor(c.number)

ShownCards(p) ==
  [j \in DOMAIN mem[p].myCards |->
     [card |-> mem[p].myCards[j].card, number |-> mem[p].myCards[j].number]]

SaysKeys(p) ==
  /\ line[p].type = "play" => CardFits(line[p])
  /\ line[p].type = "key" => line[p].key = mem[p].cardPairs[Seqs!Last(deck)]
  /\ line[p].type = "revealed" => line[p].keys = mem[p].cardPairs /\ line[p].cards = ShownCards(p)
  /\ pc = "GameStart" => line[p].type \notin {"play", "key", "revealed"}

KnowsCards(p) == \A j \in DOMAIN mem[p].myCards : CardFits(mem[p].myCards[j])

\* A number that has come out and not been filed anew, as one that no key changes may be.
Kept(v) == Hidden(v) \/ v.card \notin Stocked

Ongoing == hand <= 1 /\ pc \notin Terminal /\ Unrefused /\ ~Doomed

SeenInv ==
  Ongoing =>
    /\ \A v \in Out : Kept(v) => seen[v] = SeenAs(v)
    /\ \A p \in Players : KnowsCards(p) /\ SaysKeys(p)

(* Where the host goes on nothing was refused or will be.                  *)
LEMMA HostIsOngoing ==
  ASSUME ProtocolInv, TableInv, CardsInv, SecondInv, Host, ~PlayerRefuses, hand' <= 1
  PROVE  Ongoing
<1>1. Shape
  BY DEF ProtocolInv
<1>2. pc \notin Terminal /\ Unrefused
  <2>1. 0 \in Players
    BY NAssumption DEF Players
  <2> QED
    BY <2>1, NothingAsked DEF Unrefused
<1>3. CASE Within
  BY <1>1, <1>2, <1>3, WithinHand, FirstHand DEF Ongoing
<1>4. CASE StartHand
  <2>1. hand \in Nat /\ hand' = hand + 1 /\ pc = "NewHand"
    BY <1>4, GoesOn DEF StartHand, CardInv, Going, Terminal
  <2> QED
    BY <1>2, <2>1 DEF Ongoing, Doomed
<1>5. CASE StartGame \/ GameStarted \/ HandStarted \/ AfterHand \/ GameEnded
  <2>1. UNCHANGED hand /\ pc # "Shuffle"
    BY <1>5 DEF StartGame, GameStarted, HandStarted, AfterHand, GameEnded, Back, game
  <2> QED
    BY <1>2, <2>1 DEF Ongoing, Doomed
<1> QED
  BY <1>3, <1>4, <1>5, HostSteps

(* Where the deck moves nothing is under way any more but new requests.    *)
LEMMA DeckMoves ==
  ASSUME Host, pc' \notin Terminal, NEW p \in Players
  PROVE  UNCHANGED deck \/ line'[p].type \in Requests \cup {"idle"}
<1> USE DEF Requests, Idle
<1>1. CASE ShuffleDone
  BY <1>1, HangsUp DEF ShuffleDone
<1>2. CASE HandStarted
  <2>1. Shuffle(<<>>)
    BY <1>2 DEF HandStarted, Terminal
  <2>2. PICK req : CallAll({0}, req) /\ req.type = "Shuffle"
    BY <2>1 DEF Shuffle, Call, ShuffleRequest
  <2> QED
    BY <2>2, Calls
<1>3. CASE KeysGiven
  <2>1. PICK req : CallAll({turn}, req) /\ req.type = "Give"
    BY <1>3 DEF KeysGiven, Call, Terminal
  <2> QED
    BY <2>1, Calls
<1>4. CASE TurnedUp
  <2>1. HangUp \/ Call(turn, [type |-> "ChooseColor"])
    BY <1>4, Zenon DEF TurnedUp
  <2> QED
    BY <2>1, HangsUp, Calls DEF Call
<1>5. CASE PlayerRefuses \/ Announce \/ StartGame \/ GameStarted \/ StartHand \/ AfterHand \/ GameEnded
  BY <1>5 DEF PlayerRefuses, Announce, StartGame, GameStarted, StartHand, AfterHand, GameEnded, table
<1>6. CASE PassOn \/ Deal \/ Reshuffle \/ DealTo \/ CardGiven \/ TurnUp \/ FirstColor
  BY <1>6 DEF PassOn, Deal, Reshuffle, DealTo, CardGiven, TurnUp, FirstColor, table
<1>7. CASE AskPlay \/ NothingPlayed \/ NextDrawsTwo \/ AskChallenge \/ ChallengeDecided \/ NoEffect
  BY <1>7 DEF AskPlay, NothingPlayed, NextDrawsTwo, AskChallenge, ChallengeDecided, NoEffect, table
<1>8. CASE CardPlayed \/ EndTurn \/ HandRevealed \/ HandSigned
  BY <1>8, Zenon DEF CardPlayed, EndTurn, HandRevealed, HandSigned, table
<1> QED
  BY <1>1, <1>2, <1>3, <1>4, <1>5, <1>6, <1>7, <1>8, Zenon DEF Host

LEMMA FiledStays ==
  ASSUME RecallStays
  PROVE  /\ \A v : FiledFor(v)' = FiledFor(v)
         /\ \A c : CardFits(c) => CardFits(c)'
         /\ \A p \in Players : ShownCards(p)' = ShownCards(p) /\ (KnowsCards(p) => KnowsCards(p)')
<1>1. \A q \in Players : mem'[q].cardPairs = mem[q].cardPairs /\ mem'[q].myCards = mem[q].myCards
  BY DEF RecallStays
<1>2. \A v : FiledFor(v)' = FiledFor(v)
  BY <1>1 DEF FiledFor
<1>3. \A c : CardFits(c) => CardFits(c)'
  BY <1>2 DEF CardFits
<1>4. \A p \in Players : ShownCards(p)' = ShownCards(p)
  BY <1>1 DEF ShownCards
<1>5. \A p \in Players : KnowsCards(p) => KnowsCards(p)'
  BY <1>1, <1>3 DEF KnowsCards
<1> QED
  BY <1>2, <1>3, <1>4, <1>5

LEMMA OnlyStartGameAsks ==
  ASSUME Shape, Host, pc' = "GameStart"
  PROVE  StartGame
<1>1. ~Within
  BY WithinHand DEF Early
<1>2. ~(PlayerRefuses \/ GameStarted \/ StartHand \/ HandStarted \/ AfterHand \/ GameEnded)
  BY DEF PlayerRefuses, GameStarted, StartHand, HandStarted, AfterHand, GameEnded, Shuffle
<1> QED
  BY <1>1, <1>2, HostSteps

(* What the host does not take off a line is as true as it was.            *)
LEMMA HostSays ==
  ASSUME Shape, Host, pc' \notin Terminal, \A p \in Players : KnowsCards(p) /\ SaysKeys(p)
  PROVE  \A p \in Players : KnowsCards(p)' /\ SaysKeys(p)'
<1>1. RecallStays
  BY HostForgets
<1> SUFFICES ASSUME NEW p \in Players
             PROVE  SaysKeys(p)'
  BY <1>1, FiledStays
<1>2. CASE line'[p] = line[p] /\ UNCHANGED deck
  <2>1. CASE pc' = "GameStart"
    <3>1. CallAll(Players, [type |-> "GameStart"])
      BY <2>1, OnlyStartGameAsks DEF StartGame
    <3>2. line'[p].type = "GameStart"
      BY <3>1, Calls
    <3> QED
      BY <3>2 DEF SaysKeys
  <2>2. CASE pc' # "GameStart"
    BY <1>1, <1>2, <2>2, FiledStays DEF SaysKeys, RecallStays
  <2> QED
    BY <2>1, <2>2
<1>3. CASE ~(line'[p] = line[p] /\ UNCHANGED deck)
  <2>1. line'[p].type \in Requests \cup {"idle"}
    BY <1>3, DeckMoves, HostAsks DEF AskedAt, Requests, Idle
  <2> QED
    BY <2>1 DEF SaysKeys, Requests
<1> QED
  BY <1>2, <1>3
-----------------------------------------------------------------------------
\* What the host sees of the keys

SeenFits == \A v \in Out : Kept(v) => seen[v] = SeenAs(v)

LEMMA SeenStays ==
  ASSUME SeenFits, RecallStays, UNCHANGED <<held, seen>>, Stocked \subseteq Stocked'
  PROVE  SeenFits'
<1>1. \A v : Kept(v)' => Kept(v)
  BY DEF Kept, Hidden
<1>2. \A v : SeenAs(v)' = SeenAs(v)
  BY FiledStays DEF SeenAs
<1> QED
  BY <1>1, <1>2 DEF SeenFits, Out

LEMMA StockedStays ==
  ASSUME UNCHANGED deck, pc # "Shuffle", pc' # "Shuffle"
  PROVE  Stocked' = Stocked
BY DEF Stocked, Range, FacesOf

(* No card leaves the deck.                                                *)
LEMMA StillSees ==
  ASSUME ProtocolInv, TableInv, CardsInv, SecondInv, SeenFits, Host, pc' \notin Terminal,
         ~(HandStarted \/ KeysGiven \/ TurnedUp \/ CardPlayed \/ PlayerRefuses)
  PROVE  SeenFits'
<1>1. Shape
  BY DEF ProtocolInv
<1>2. RecallStays
  BY <1>1, HostForgets
<1>3. pc \notin Terminal
  BY DEF Host, Within, PlayerRefuses, Announce, StartGame, GameStarted, StartHand, PassOn, ShuffleDone,
         Deal, Reshuffle, DealTo, CardGiven, TurnUp, FirstColor, AskPlay, NothingPlayed, NextDrawsTwo,
         AskChallenge, ChallengeDecided, NoEffect, EndTurn, HandRevealed, HandSigned, AfterHand, GameEnded,
         Back, PlayComesBack, Terminal
<1>4. CASE Quiet
  <2>1. pc # "Shuffle" /\ pc' # "Shuffle" /\ UNCHANGED <<deck, held, seen>>
    BY <1>4 DEF Quiet, WithCards
  <2> QED
    BY <1>2, <2>1, StockedStays, SeenStays
<1>5. CASE DealTo \/ TurnUp \/ AskPlay
  <2>1. pc # "Shuffle" /\ pc' # "Shuffle" /\ UNCHANGED <<deck, held, seen>>
    BY <1>5 DEF DealTo, TurnUp, AskPlay, table
  <2> QED
    BY <1>2, <2>1, StockedStays, SeenStays
<1>6. CASE PassOn
  <2>1. pc = "Shuffle" /\ pc' = "Shuffle" /\ UNCHANGED <<held, seen, start>>
    BY <1>6 DEF PassOn, Back, table, Terminal
  <2> QED
    BY <1>2, <2>1, SeenStays DEF Stocked, Range
<1>7. CASE ShuffleDone
  <2>1. Back("Shuffle") /\ pc = "Shuffle" /\ pc' = "Shuffled" /\ UNCHANGED <<held, seen>> /\ deck' = work
    BY <1>7 DEF ShuffleDone, Back
  <2>2. CardInv
    BY <1>3, <2>1, GoesOn DEF Waiting
  <2>3. Range(FacesOf(work)) = Range(start)
    BY <2>1, <2>2 DEF CardInv, Shuffled, ToBeShuffled
  <2>4. Stocked' = Range(FacesOf(work))
    BY <2>1 DEF Stocked, Range, FacesOf
  <2> QED
    BY <1>2, <2>1, <2>3, <2>4, SeenStays DEF Stocked
<1>8. CASE Reshuffle
  <2>1. pc = "Draw" /\ deck = <<>> /\ UNCHANGED <<held, seen>>
    BY <1>8 DEF Reshuffle, table
  <2>2. Stocked = {}
    BY <2>1, EmptyIsSeq DEF Stocked, Range, FacesOf
  <2> QED
    BY <1>2, <2>1, <2>2, SeenStays
<1> QED
  BY <1>3, <1>4, <1>5, <1>6, <1>7, <1>8, AnnounceIsQuiet, StartsAreQuiet, TurnsAreQuiet, EndsAreQuiet,
     Zenon DEF Host

(* The keys that come in are those filed for the top card.                 *)
LEMMA TopKeysSeen ==
  ASSUME Shape, WireInv, \A p \in Players : SaysKeys(p), NEW at \in {"Keys", "FirstKeys"}, Back(at)
  PROVE  LET top == Seqs!Last(deck)
         IN  KeysIn = IF at = "Keys" THEN [FiledFor(top) EXCEPT ![turn] = NoKey] ELSE FiledFor(top)
<1> DEFINE top == Seqs!Last(deck)
<1>1. pc = at /\ turn \in Players
  BY DEF Back, Shape
<1>2. ASSUME NEW p \in Players, at = "Keys" => p # turn
      PROVE  KeysIn[p] = FiledFor(top)[p]
  <2>1. line[p].type = "key"
    BY <1>1, <1>2 DEF WireInv, KeyCase, Back, Answered, Requests, Refusal
  <2> QED
    BY <2>1 DEF SaysKeys, KeysIn, FiledFor
<1>3. at = "Keys" => KeysIn[turn] = NoKey
  BY <1>1 DEF WireInv, KeysIn, Idle
<1>4. KeysIn = [p \in Players |-> KeysIn[p]] /\ FiledFor(top) = [p \in Players |-> FiledFor(top)[p]]
  BY DEF KeysIn, FiledFor
<1> HIDE DEF top
<1>5. CASE at = "Keys"
  <2>1. [FiledFor(top) EXCEPT ![turn] = NoKey]
          = [p \in Players |-> IF p = turn THEN NoKey ELSE FiledFor(top)[p]]
    BY <1>4
  <2>2. \A p \in Players : KeysIn[p] = IF p = turn THEN NoKey ELSE FiledFor(top)[p]
    BY <1>2, <1>3, <1>5
  <2>3. KeysIn = [p \in Players |-> IF p = turn THEN NoKey ELSE FiledFor(top)[p]]
    BY <1>4, <2>2
  <2> QED
    BY <1>5, <2>1, <2>3 DEF top
<1>6. CASE at # "Keys"
  <2>1. KeysIn = FiledFor(top)
    BY <1>2, <1>4, <1>6
  <2> QED
    BY <1>6, <2>1 DEF top
<1> QED
  BY <1>5, <1>6

(* The top card comes out with the keys that have come in.                 *)
LEMMA PopSees ==
  ASSUME Shape, HostKeys, Opening, Split, PairsInv, Unrefused, SeenFits, RecallStays, deck # <<>>,
         pc \notin Terminal \cup {"Shuffle"}, pc' # "Shuffle", PopTopCard(KeysIn),
         \/ UNCHANGED held /\ KeysIn = FiledFor(Seqs!Last(deck))
         \/ /\ held' = Put(held, Seqs!Last(deck), turn)
            /\ KeysIn = [FiledFor(Seqs!Last(deck)) EXCEPT ![turn] = NoKey]
  PROVE  SeenFits'
<1>0. PICK top, rest : top = Seqs!Last(deck) /\ rest = Seqs!Front(deck)
  OBVIOUS
<1>1. /\ Proper(top) /\ top \notin DOMAIN held
      /\ Range(FacesOf(rest)) = Range(FacesOf(deck)) \ {top.card}
  BY <1>0, TopCard
<1>2. deck' = rest /\ seen' = Put(seen, top, KeysIn)
  BY <1>0 DEF PopTopCard
<1>3. PICK B : PairsFor(B)
  BY DEF PairsInv
<1>4. \A v \in Out : Proper(v)
  BY <1>3 DEF PairsFor
<1>5. Stocked = Range(FacesOf(deck)) /\ Stocked' = Range(FacesOf(rest))
  BY <1>2 DEF Stocked, Range, FacesOf
<1>6. /\ Out' = Out \cup {top} /\ seen'[top] = KeysIn
      /\ \A v \in Out \ {top} : seen'[v] = seen[v]
  BY <1>2 DEF Put, Out
<1>7. ASSUME NEW v \in Out, v # top, Kept(v)'
      PROVE  seen'[v] = SeenAs(v)'
  <2>1. Kept(v)
    <3>1. CASE v.card = top.card /\ ~Hidden(v)
      <4>1. Proper(v) /\ ~Hidden(top)
        BY <1>4, <3>1 DEF Hidden
      <4>2. v = top
        BY <1>1, <3>1, <4>1 DEF Proper, IsNumber
      <4> QED
        BY <1>7, <4>2
    <3>2. CASE ~(v.card = top.card /\ ~Hidden(v))
      BY <1>1, <1>5, <1>7, <3>2 DEF Kept, Hidden
    <3> QED
      BY <3>1, <3>2
  <2>2. (v \in DOMAIN held' <=> v \in DOMAIN held) /\ (v \in DOMAIN held => held'[v] = held[v])
    BY <1>0, <1>7 DEF Put
  <2>3. SeenAs(v)' = SeenAs(v)
    BY <2>2, FiledStays DEF SeenAs
  <2> QED
    BY <1>6, <1>7, <2>1, <2>3 DEF SeenFits
<1>8. seen'[top] = SeenAs(top)'
  <2>1. CASE UNCHANGED held /\ KeysIn = FiledFor(top)
    BY <1>1, <1>6, <2>1, FiledStays DEF SeenAs
  <2>2. CASE held' = Put(held, top, turn) /\ KeysIn = [FiledFor(top) EXCEPT ![turn] = NoKey]
    <3>1. top \in DOMAIN held' /\ held'[top] = turn
      BY <2>2 DEF Put
    <3>2. FiledFor(top)' = FiledFor(top)
      BY FiledStays
    <3> QED
      BY <1>6, <2>2, <3>1, <3>2 DEF SeenAs
  <2> QED
    BY <1>0, <2>1, <2>2
<1> QED
  BY <1>6, <1>7, <1>8 DEF SeenFits

LEMMA PlayedSees ==
  ASSUME Shape, WireInv, HostKeys, SeenFits, \A p \in Players : SaysKeys(p), RecallStays,
         CardPlayed, pc' # "Failed"
  PROVE  SeenFits'
<1> DEFINE play == line[turn] v == line[turn].number
<1>1. /\ pc \in {"Play", "PlayAgain"} /\ pc' = "Discarded" /\ UNCHANGED deck
      /\ line[turn].type \notin Requests \cup {"refused"}
  BY Zenon DEF CardPlayed, PlayComesBack, Back, Answered, Shape
<1>2. /\ v \in DOMAIN held /\ held' = Restrict(held, DOMAIN held \ {v}) /\ seen' = Put(seen, v, play.keys)
  BY <1>1, Zenon DEF CardPlayed, PlayIsGenuine
<1>3. play.type = "play" /\ turn \in Players
  BY <1>1 DEF WireInv, PlayCase, Refusal, Requests, Shape
<1>4. play.keys = FiledFor(v)
  BY <1>3 DEF SaysKeys, CardFits
<1>5. PICK w : w = v
  OBVIOUS
<1>6. w \in Out /\ Out' = Out
  BY <1>2, <1>5 DEF HostKeys, Out, Put
<1>7. Stocked' = Stocked
  BY <1>1, StockedStays
<1> HIDE DEF play, v
<1>8. ASSUME NEW u \in Out, Kept(u)'
      PROVE  seen'[u] = SeenAs(u)'
  <2>1. Kept(u)
    BY <1>7, <1>8 DEF Kept, Hidden
  <2>2. CASE u = w
    <3>1. u \notin DOMAIN held'
      BY <1>2, <1>5, <2>2 DEF Restrict
    <3>2. seen'[u] = FiledFor(u)
      BY <1>2, <1>4, <1>5, <2>2 DEF Put
    <3> QED
      BY <3>1, <3>2, FiledStays DEF SeenAs
  <2>3. CASE u # w
    <3>1. (u \in DOMAIN held' <=> u \in DOMAIN held) /\ (u \in DOMAIN held => held'[u] = held[u])
      BY <1>2, <1>5, <2>3 DEF Restrict
    <3>2. seen'[u] = seen[u]
      BY <1>2, <1>5, <1>8, <2>3 DEF Put, Out
    <3>3. SeenAs(u)' = SeenAs(u)
      BY <3>1, FiledStays DEF SeenAs
    <3> QED
      BY <2>1, <3>2, <3>3 DEF SeenFits
  <2> QED
    BY <2>2, <2>3
<1> QED
  BY <1>6, <1>8 DEF SeenFits

(* The keys that come in and those that are played with are those filed.   *)
LEMMA HostSees ==
  ASSUME ProtocolInv, TableInv, CardsInv, SecondInv, PairsInv, SeenInv, Host
  PROVE  SeenInv'
<1> SUFFICES ASSUME Ongoing'
             PROVE  SeenFits' /\ \A p \in Players : KnowsCards(p)' /\ SaysKeys(p)'
  BY DEF SeenInv, SeenFits
<1>1. Shape /\ HostKeys /\ pc' \notin Terminal /\ hand' <= 1 /\ ~PlayerRefuses
  BY DEF ProtocolInv, Ongoing, PlayerRefuses, Terminal
<1>2. Ongoing /\ SeenFits /\ \A p \in Players : KnowsCards(p) /\ SaysKeys(p)
  BY <1>1, HostIsOngoing DEF SeenInv, SeenFits
<1>3. RecallStays
  BY <1>1, HostForgets
<1>4. \A p \in Players : KnowsCards(p)' /\ SaysKeys(p)'
  BY <1>1, <1>2, HostSays
<1>5. WireInv /\ pc \notin Terminal /\ Unrefused
  BY <1>2 DEF Ongoing, ProtocolInv, Live
<1>6. CASE HandStarted
  <2>1. seen' = <<>>
    BY <1>1, <1>6 DEF HandStarted, Terminal
  <2>2. Out' = {}
    BY <2>1, EmptyIsSeq DEF Out
  <2> QED
    BY <1>4, <2>2 DEF SeenFits
<1>7. CASE KeysGiven
  <2>1. /\ pc = "Keys" /\ Back("Keys") /\ pc' = "Give" /\ PopTopCard(KeysIn) /\ held' = Put(held, Seqs!Last(deck), turn)
    BY <1>1, <1>7 DEF KeysGiven, Back, Terminal
  <2>2. CardInv
    BY <1>5, <2>1, GoesOn DEF Waiting
  <2>3. Split /\ Opening /\ deck # <<>>
    BY <1>5, <2>1, <2>2 DEF CardInv, Dealt, WireInv
  <2>4. KeysIn = [FiledFor(Seqs!Last(deck)) EXCEPT ![turn] = NoKey]
    BY <1>1, <1>2, <1>5, <2>1, TopKeysSeen
  <2> QED
    BY <1>1, <1>2, <1>3, <1>4, <1>5, <2>1, <2>3, <2>4, PopSees
<1>8. CASE TurnedUp
  <2>1. /\ pc = "FirstKeys" /\ Back("FirstKeys") /\ pc' \in {"FirstColor", "FirstShown"}
        /\ PopTopCard(KeysIn) /\ UNCHANGED held
    BY <1>8, TurnedComesOut DEF TurnedUp, Back
  <2>2. CardInv
    BY <1>5, <2>1, GoesOn DEF Waiting
  <2>3. Split /\ Opening /\ deck # <<>>
    BY <1>5, <2>1, <2>2, KeysHaveCome DEF CardInv, Dealt
  <2>4. KeysIn = FiledFor(Seqs!Last(deck))
    BY <1>1, <1>2, <1>5, <2>1, TopKeysSeen
  <2> QED
    BY <1>1, <1>2, <1>3, <1>4, <1>5, <2>1, <2>3, <2>4, PopSees
<1>9. CASE CardPlayed
  BY <1>1, <1>2, <1>3, <1>4, <1>5, <1>9, PlayedSees DEF Terminal
<1>10. CASE ~(HandStarted \/ KeysGiven \/ TurnedUp \/ CardPlayed \/ PlayerRefuses)
  BY <1>1, <1>2, <1>4, <1>10, StillSees
<1> QED
  BY <1>1, <1>6, <1>7, <1>8, <1>9, <1>10
-----------------------------------------------------------------------------
\* What the players file and say

(* The first seat refuses a full deck that nobody expects.                 *)
LEMMA PlayerIsOngoing ==
  ASSUME ProtocolInv, NEW p \in Players, Player(p), Ongoing'
  PROVE  Ongoing /\ line'[p].type # "refused"
<1>1. /\ Shape /\ Handle(p) /\ UNCHANGED <<pc, hand, stage, seat, event, late>>
  BY DEF ProtocolInv, Player, game, passing
<1>2. /\ Alone(p) /\ line[p].type \in Requests
      /\ line[p].type # "GameStart" => mem'[p].lastEvent = mem[p].lastEvent
  BY <1>1, Remembers
<1>3. line'[p].type # "refused" /\ pc \notin Terminal /\ hand <= 1
  BY <1>1 DEF Ongoing, Unrefused
<1>4. Unrefused
  BY <1>2 DEF Ongoing, Unrefused, Alone, Requests
<1>5. ~Doomed
  <2>1. SUFFICES ASSUME Doomed
                 PROVE  FALSE
    OBVIOUS
  <2>2. WireInv /\ pc = "Shuffle" /\ seat = 0
    BY <1>3, <2>1 DEF ProtocolInv, Live, Doomed
  <2>3. p = 0
    BY <1>2, <2>2 DEF WireInv, Idle, Requests
  <2>4. ~ShuffleIsExpected(mem[p], line[p]) /\ line[p].type = "Shuffle"
    BY <2>1, <2>3, FullDeckRefused DEF Doomed
  <2>5. ShuffleRefused(p)
    BY <1>1, <2>4, Handlers DEF ShuffleStage0, ShuffleStage1, ShuffleStage2
  <2> QED
    BY <1>1, <1>3, <2>5 DEF ShuffleRefused, Refuse, Shape
<1> QED
  BY <1>3, <1>4, <1>5 DEF Ongoing

(* It is enough that the keys stay filed that matter, and to look at the   *)
(* cards of the player and its answer.                                     *)
LEMMA SeesAsBefore ==
  ASSUME ProtocolInv, SeenInv, NEW p \in Players, Player(p), Alone(p), Ongoing,
         \A v \in Out : Kept(v) => FiledFor(v)' = FiledFor(v),
         \A q \in Players \ {p} : KnowsCards(q)' /\ SaysKeys(q)',
         KnowsCards(p)', SaysKeys(p)'
  PROVE  SeenInv'
<1>1. UNCHANGED <<pc, deck, held, seen, start>>
  BY DEF Player, table, passing
<1>2. Stocked' = Stocked
  BY <1>1 DEF Stocked, Range, FacesOf
<1>3. ASSUME NEW v \in Out, Kept(v)'
      PROVE  seen'[v] = SeenAs(v)'
  <2>1. Kept(v)
    BY <1>2, <1>3 DEF Kept, Hidden
  <2>2. SeenAs(v)' = SeenAs(v)
    BY <1>1, <2>1 DEF SeenAs
  <2> QED
    BY <1>1, <2>1, <2>2 DEF SeenInv
<1> QED
  BY <1>1, <1>3 DEF SeenInv, Out

(* No keys are filed.                                                      *)
LEMMA FilesStay ==
  ASSUME ProtocolInv, SeenInv, NEW p \in Players, Player(p), Alone(p), Ongoing,
         mem'[p].cardPairs = mem[p].cardPairs, KnowsCards(p)', SaysKeys(p)'
  PROVE  SeenInv'
<1>1. UNCHANGED <<pc, deck>>
  BY DEF Player, table
<1>2. \A q \in Players : mem'[q].cardPairs = mem[q].cardPairs
  BY DEF Alone
<1>3. \A v : FiledFor(v)' = FiledFor(v)
  BY <1>2 DEF FiledFor
<1>4. \A c : CardFits(c) => CardFits(c)'
  BY <1>3 DEF CardFits
<1>5. ASSUME NEW q \in Players \ {p}
      PROVE  KnowsCards(q)' /\ SaysKeys(q)'
  <2>1. mem'[q] = mem[q] /\ line'[q] = line[q]
    BY DEF Alone
  <2>2. KnowsCards(q) /\ SaysKeys(q)
    BY DEF SeenInv
  <2>3. ShownCards(q)' = ShownCards(q)
    BY <2>1 DEF ShownCards
  <2> QED
    BY <1>1, <1>4, <2>1, <2>2, <2>3 DEF KnowsCards, SaysKeys
<1> QED
  BY <1>3, <1>5, SeesAsBefore

(* Nor does the player's hand change.                                      *)
LEMMA CardsStaySeen ==
  ASSUME ProtocolInv, SeenInv, NEW p \in Players, Player(p), Alone(p), Ongoing,
         mem'[p].cardPairs = mem[p].cardPairs, mem'[p].myCards = mem[p].myCards, SaysKeys(p)'
  PROVE  SeenInv'
<1>1. \A v : FiledFor(v)' = FiledFor(v)
  BY DEF FiledFor, Alone
<1>2. KnowsCards(p)'
  BY <1>1 DEF SeenInv, KnowsCards, CardFits
<1> QED
  BY <1>2, FilesStay

LEMMA GameStartSees ==
  ASSUME ProtocolInv, TableInv, CardsInv, ShuffleInv, SeenInv, NEW p \in Players, Player(p), GameStart(p),
         Ongoing, WireInv
  PROVE  SeenInv'
<1>1. /\ Shape /\ line[p].type = "GameStart" /\ pc = "GameStart" /\ UNCHANGED <<pc, held, seen>>
      /\ Handle(p)
  BY DEF ProtocolInv, GameStart, Asked, WireInv, Player, table
<1>2. Alone(p)
  BY <1>1, Remembers
<1>3. mem'[p].myCards = <<>> /\ line'[p].type = "signed"
  BY <1>1 DEF GameStart, Remember, Forgotten, Reply, Signed, Shape
<1>4. Out = {}
  <2>1. CardInv
    BY DEF CardsInv, Ongoing
  <2> QED
    BY <1>1, <2>1 DEF CardInv, ShuffleInv
<1>5. \A q \in Players : DOMAIN mem[q].myCards = {}
  <2>1. Sound
    BY DEF TableInv, Ongoing
  <2>2. held = <<>> /\ Hands
    BY <1>1, <2>1 DEF Sound, Place, Fresh, Ongoing
  <2>3. DOMAIN held = {}
    BY <2>2, EmptyIsSeq
  <2>4. \A q \in Players : InHand(q) = {}
    BY <2>2, <2>3 DEF Hands, HandAgrees, Holding
  <2> QED
    BY <2>4 DEF InHand, Range
<1>6. \A q \in Players : DOMAIN mem'[q].myCards = {}
  BY <1>2, <1>3, <1>5, EmptyIsSeq DEF Alone
<1>7. \A q \in Players \ {p} : SaysKeys(q)'
  BY <1>1, <1>2 DEF SeenInv, SaysKeys, Alone
<1> QED
  BY <1>1, <1>2, <1>3, <1>4, <1>6, <1>7, SeesAsBefore DEF KnowsCards, SaysKeys

LEMMA GetKeySees ==
  ASSUME ProtocolInv, SeenInv, NEW p \in Players, Player(p), GetKey(p), Ongoing, WireInv,
         line'[p].type # "refused"
  PROVE  SeenInv'
<1>1. /\ Shape /\ line[p].type = "Key" /\ UNCHANGED <<pc, deck>> /\ Handle(p)
  BY DEF ProtocolInv, GetKey, Asked, Player, table, Handle
<1>2. Alone(p) /\ mem'[p].cardPairs = mem[p].cardPairs /\ mem'[p].myCards = mem[p].myCards
  BY <1>1, Remembers
<1>3. mem[p].deck = deck /\ pc # "GameStart"
  BY <1>1, AskedWhere DEF WireInv, KeyCase, Refusal
<1>4. line'[p].type = "key" /\ line'[p].key = mem[p].cardPairs[Seqs!Last(deck)]
  BY <1>1, <1>3, KeyIsGiven
<1>5. SaysKeys(p)'
  BY <1>1, <1>2, <1>3, <1>4 DEF SaysKeys
<1> QED
  BY <1>2, <1>5, CardsStaySeen

(* A card that is given is under the keys that all have filed.             *)
LEMMA GiveCardSees ==
  ASSUME ProtocolInv, TableInv, CardsInv, KeyInv, PairsInv, SeenInv, NEW p \in Players, Player(p),
         GiveCard(p), Ongoing, WireInv, line'[p].type # "refused"
  PROVE  SeenInv'
<1>1. /\ Shape /\ line[p].type = "Give" /\ UNCHANGED <<pc, deck>> /\ Handle(p)
      /\ HostKeys /\ PlayerKeys
  BY DEF ProtocolInv, GiveCard, Asked, Player, table, Handle, Live, Ongoing
<1>2. Alone(p) /\ mem'[p].cardPairs = mem[p].cardPairs
  BY <1>1, Remembers
<1>3. pc = "Give" /\ p = turn
  BY <1>1, AskedWhere
<1>4. CardInv /\ Hands
  BY <1>3 DEF CardsInv, TableInv, Sound, Ongoing, Doomed
<1>5. PICK top : top = Seqs!Last(mem[p].deck)
  OBVIOUS
<1>6. top \in DOMAIN held /\ held[top] = p /\ top \in Out /\ Proper(top)
  BY <1>1, <1>3, <1>4, <1>5 DEF Hands, HostKeys, Out, CardInv, Opening
<1>7. Kept(top)
  <2>1. Split
    BY <1>3, <1>4 DEF CardInv, Dealt
  <2>2. top.card \in HeldFaces
    BY <1>6 DEF HeldFaces
  <2> QED
    BY <1>3, <2>1, <2>2 DEF Kept, Stocked, Split, Parted
<1>8. line[p].keys = [FiledFor(top) EXCEPT ![p] = NoKey]
  <2>1. line[p].keys = seen[top]
    BY <1>1, <1>5 DEF KeyInv, SendsKeys
  <2> QED
    BY <1>6, <1>7, <2>1 DEF SeenInv, SeenAs
<1>9. [line[p].keys EXCEPT ![p] = mem[p].cardPairs[top]] = FiledFor(top)
  BY <1>8 DEF FiledFor
<1>10. Decrypted(top, FiledFor(top)) = Plain(top.card)
  <2>1. PICK B : PairsFor(B)
    BY DEF PairsInv, Ongoing
  <2>2. \A q \in Players : top \in DOMAIN mem[q].cardPairs
    BY <1>3, <1>6, <2>1 DEF PairsFor, Filled
  <2>3. AllFit(top, FiledFor(top))
    BY <1>1, <2>2 DEF PlayerKeys, AllFit, FiledFor
  <2> QED
    BY <1>6, <2>3, AllOpen
<1>11. PICK c : c = [card |-> top.card, number |-> top, keys |-> FiledFor(top)]
  OBVIOUS
<1>12. line'[p].type = "taken" /\ mem'[p].myCards = Append(mem[p].myCards, c)
  <2>1. Decrypted(top, FiledFor(top)).card = top.card
    BY <1>10 DEF Plain
  <2> HIDE DEF FiledFor
  <2> QED
    BY <1>1, <1>5, <1>9, <1>11, <2>1, CardIsTaken
<1>13. CardFits(c)
  BY <1>11 DEF CardFits
<1>14. \A d : CardFits(d) => CardFits(d)'
  BY <1>2 DEF CardFits, FiledFor, Alone
<1>15. KnowsCards(p)'
  <2>1. IsSeq(mem[p].myCards)
    BY <1>1 DEF PlayerKeys
  <2>2. Range(mem'[p].myCards) = Range(mem[p].myCards) \cup {c}
    BY <1>12, <2>1, AppendApart
  <2>3. \A d \in Range(mem[p].myCards) : CardFits(d)
    BY DEF SeenInv, KnowsCards, Range
  <2>4. \A d \in Range(mem'[p].myCards) : CardFits(d)'
    BY <1>13, <1>14, <2>2, <2>3
  <2> QED
    BY <2>4 DEF KnowsCards, Range
<1> QED
  BY <1>2, <1>3, <1>12, <1>15, <1>1, FilesStay DEF SaysKeys

(* The card that is played is one of those.                                *)
LEMMA PlaySees ==
  ASSUME ProtocolInv, SeenInv, NEW p \in Players, Player(p), Play(p), Ongoing, WireInv,
         line'[p].type # "refused"
  PROVE  SeenInv'
<1>1. /\ Shape /\ line[p].type = "Play" /\ UNCHANGED <<pc, deck>> /\ Handle(p) /\ PlayerKeys
  BY DEF ProtocolInv, Play, Asked, Player, table, Handle, Live, Ongoing
<1>2. Alone(p) /\ mem'[p].cardPairs = mem[p].cardPairs
  BY <1>1, Remembers
<1>3. pc # "GameStart" /\ IsSeq(mem[p].myCards)
  BY <1>1, AskedWhere DEF PlayerKeys
<1>4. PICK i, c :
         /\ i \in DOMAIN mem[p].myCards /\ c = mem[p].myCards[i]
         /\ line'[p].type = "play" /\ line'[p].card = c.card /\ line'[p].number = c.number
         /\ line'[p].keys = c.keys
         /\ mem'[p].myCards = Seqs!RemoveAt(mem[p].myCards, i)
  BY <1>1, <1>3, Lays DEF Refusal
<1>5. \A d : CardFits(d) => CardFits(d)'
  BY <1>2 DEF CardFits, FiledFor, Alone
<1>6. CardFits(c)'
  BY <1>4, <1>5 DEF SeenInv, KnowsCards
<1>7. SaysKeys(p)'
  BY <1>1, <1>3, <1>4, <1>6 DEF SaysKeys, CardFits, FiledFor
<1>8. KnowsCards(p)'
  <2>1. Range(mem'[p].myCards) \subseteq Range(mem[p].myCards)
    BY <1>3, <1>4, Removed
  <2>2. \A d \in Range(mem[p].myCards) : CardFits(d)
    BY DEF SeenInv, KnowsCards, Range
  <2>3. \A d \in Range(mem'[p].myCards) : CardFits(d)'
    BY <1>5, <2>1, <2>2
  <2> QED
    BY <2>3 DEF KnowsCards, Range
<1> QED
  BY <1>2, <1>7, <1>8, FilesStay

(* What is revealed is what the player has.                                *)
LEMMA HandEndSees ==
  ASSUME ProtocolInv, WhereInv, SeenInv, NEW p \in Players, Player(p), HandEnd(p), Ongoing
  PROVE  SeenInv'
<1>1. /\ Shape /\ line[p].type = "HandEnd" /\ UNCHANGED <<pc, deck>> /\ Handle(p)
  BY DEF ProtocolInv, HandEnd, Asked, Player, table, Handle
<1>2. Alone(p) /\ mem'[p].cardPairs = mem[p].cardPairs /\ mem'[p].myCards = mem[p].myCards
  BY <1>1, Remembers
<1>3. ShownCards(p)' = ShownCards(p)
  BY <1>2 DEF ShownCards
<1>4. \/ line'[p].type \in {"refused", "signed"}
      \/ line'[p].type = "revealed" /\ line'[p].cards = ShownCards(p) /\ line'[p].keys = mem[p].cardPairs
  <2>1. CASE line[p].stage = 0
    <3> DEFINE right == WinnerIsRight(mem[p], line[p]) /\ mem[p].deck = line[p].deck
    <3>1. Answer(p, right, [type |-> "revealed", cards |-> ShownCards(p), keys |-> mem[p].cardPairs])
      BY <2>1, Zenon DEF HandEnd, ShownCards
    <3> HIDE DEF right
    <3> QED
      BY <1>1, <3>1 DEF Answer, Reply, Refuse, Shape
  <2>2. CASE line[p].stage # 0
    <3> DEFINE right == WinnerIsRight(mem[p], line[p]) /\ mem[p].deck = line[p].deck
                        /\ RevealIsRight(p, mem[p], line[p])
    <3>1. PICK ok : Answer(p, ok, Signed(HandEndMsg(line[p].hand, 1)))
      BY <2>2, Zenon DEF HandEnd
    <3> QED
      BY <1>1, <3>1 DEF Answer, Reply, Refuse, Signed, Shape
  <2> QED
    BY <2>1, <2>2
<1>5. pc # "GameStart"
  BY <1>1 DEF WhereInv, AskedAt, Ongoing, Requests
<1>6. SaysKeys(p)'
  BY <1>1, <1>2, <1>3, <1>4, <1>5 DEF SaysKeys
<1> QED
  BY <1>2, <1>6, CardsStaySeen

(* What is filed beside the new keys stays.                                *)
LEMMA FilesBeside ==
  ASSUME Shape, NEW p \in Players, ShuffleStage2(p),
         NEW v \in DOMAIN mem[p].cardPairs, v \notin Range(line[p].cards)
  PROVE  mem'[p].cardPairs[v] = mem[p].cardPairs[v]
<1> DEFINE filed0 == Filed(mem[p], line[p].cards)
<1>1. PICK pairs, cards : pairs = PutAll(mem[p].cardPairs, filed0) /\ cards = line[p].cards
  OBVIOUS
<1>2. mem' = [mem EXCEPT ![p] = [mem[p] EXCEPT !.cardPairs = pairs, !.deck = cards, !.stage1 = <<>>]]
  BY <1>1, Zenon DEF ShuffleStage2, Remember
<1>3. DOMAIN filed0 = Range(line[p].cards)
  BY DEF Filed
<1> HIDE DEF filed0
<1>4. pairs[v] = mem[p].cardPairs[v]
  BY <1>1, <1>3 DEF PutAll
<1> QED
  BY <1>2, <1>4 DEF Shape, Forgotten

(* A number that is kept is not among those that get new keys.             *)
LEMMA KeptIsNotShuffled ==
  ASSUME Shape, HostKeys, MixInv, CardInv, pc = "Shuffle", stage = 2, NEW v \in Out, Kept(v)
  PROVE  v \notin Range(work)
<1> SUFFICES ASSUME NEW j \in DOMAIN work, v = work[j]
             PROVE  FALSE
  BY DEF Range
<1>1. CASE Hidden(v)
  <2>1. v.powers = LockedBy(shuffles, j)
    BY <1>1 DEF MixInv, Halfway, LockedBy
  <2>2. PICK k \in Nat, i \in Indices : v.powers = LockedBy(k, i) /\ k # shuffles
    BY <1>1 DEF HostKeys
  <2>3. LockedBy(k, i) = LockedBy(shuffles, j)
    BY <2>1, <2>2
  <2> QED
    BY <2>2, <2>3, LocksDiffer
<1>2. CASE ~Hidden(v)
  <2>1. v.card \notin Range(start)
    BY <1>2 DEF Kept, Stocked
  <2>2. Range(FacesOf(work)) = Range(start)
    BY DEF CardInv, Shuffled, ToBeShuffled
  <2>3. v.card \in Range(FacesOf(work))
    BY DEF Range, FacesOf
  <2> QED
    BY <2>1, <2>2, <2>3
<1> QED
  BY <1>1, <1>2

LEMMA Stage2Sees ==
  ASSUME ProtocolInv, TableInv, CardsInv, PairsInv, SeenInv, NEW p \in Players, Player(p),
         ShuffleStage2(p), Ongoing, WireInv
  PROVE  SeenInv'
<1>1. /\ Shape /\ Handle(p) /\ UNCHANGED <<pc, deck>> /\ line[p].type = "Shuffle" /\ line[p].stage = 2
      /\ HostKeys /\ MixInv /\ pc \notin Terminal
  BY DEF ProtocolInv, Player, table, Handle, ShuffleStage2, Asked, Live, Ongoing
<1>2. Alone(p) /\ mem'[p].myCards = mem[p].myCards /\ line'[p].type = "taken"
  BY <1>1, Remembers, Files
<1>3. pc = "Shuffle" /\ p = seat /\ stage = 2 /\ line[p].cards = work
  BY <1>1, AskedToShuffle
<1>4. CardInv /\ Hands
  BY DEF CardsInv, TableInv, Sound, Ongoing
<1>5. \A v \in Out : v \in DOMAIN mem[p].cardPairs
  <2>1. PICK B : PairsFor(B)
    BY DEF PairsInv, Ongoing
  <2> QED
    BY <2>1 DEF PairsFor
<1>6. ASSUME NEW v \in Out, Kept(v)
      PROVE  FiledFor(v)' = FiledFor(v)
  <2>1. mem'[p].cardPairs[v] = mem[p].cardPairs[v]
    BY <1>1, <1>3, <1>4, <1>5, <1>6, KeptIsNotShuffled, FilesBeside
  <2>2. \A q \in Players : mem'[q].cardPairs[v] = mem[q].cardPairs[v]
    BY <1>2, <2>1 DEF Alone
  <2> QED
    BY <2>2 DEF FiledFor
<1>7. \A q \in Players \ {p} : SaysKeys(q)'
  <2>1. \A q \in Players \ {p} : line'[q] = Idle
    BY <1>2, <1>3 DEF WireInv, Alone
  <2> QED
    BY <2>1 DEF SaysKeys, Idle
<1>8. ASSUME NEW q \in Players
      PROVE  KnowsCards(q)'
  <2>1. mem'[q].myCards = mem[q].myCards
    BY <1>2 DEF Alone
  <2>2. ASSUME NEW j \in DOMAIN mem[q].myCards
        PROVE  CardFits(mem[q].myCards[j])'
    <3>1. PICK c : c = mem[q].myCards[j]
      OBVIOUS
    <3>2. CardFits(c)
      BY <3>1 DEF SeenInv, KnowsCards
    <3>3. c.number \in DOMAIN held
      BY <1>4, <2>2, <3>1 DEF Hands, HandAgrees, InHand, Holding, Range
    <3>4. c.number \in Out
      BY <1>1, <3>3 DEF HostKeys
    <3>5. Kept(c.number)
      <4>1. c.number.card \in HeldFaces
        BY <3>3 DEF HeldFaces
      <4> QED
        BY <1>3, <1>4, <4>1 DEF CardInv, Shuffled, Parted, Kept, Stocked
    <3>6. CardFits(c)'
      BY <1>6, <3>2, <3>4, <3>5 DEF CardFits
    <3> QED
      BY <2>1, <3>1, <3>6 DEF CardFits, FiledFor
  <2> QED
    BY <2>1, <2>2 DEF KnowsCards
<1>9. SaysKeys(p)'
  BY <1>2 DEF SaysKeys
<1> QED
  BY <1>2, <1>6, <1>7, <1>8, <1>9, SeesAsBefore

(* The other answers are about no key.                                     *)
LEMMA OtherTypes ==
  ASSUME Shape, NEW p \in Players,
         GameEnd(p) \/ HandStart(p) \/ ChooseColor(p) \/ ShouldChallenge(p) \/ RevealForChallenge(p)
  PROVE  line'[p].type \in {"refused", "signed", "color", "decided"}
<1> USE DEF Refuse, Reply, Signed, Shape
<1>1. CASE GameEnd(p)
  <2>1. PICK ok : Answer(p, ok, Signed(GameEndMsg))
    BY <1>1, Zenon DEF GameEnd
  <2> QED
    BY <2>1 DEF Answer
<1>2. CASE HandStart(p)
  <2>1. PICK ok : Answer(p, ok, Signed(HandStartMsg(line[p].hand)))
    BY <1>2, Zenon DEF HandStart
  <2> QED
    BY <2>1 DEF Answer
<1>3. CASE ChooseColor(p)
  <2>1. Refuse(p) \/ \E color_ : Reply(p, [type |-> "color", color |-> color_])
    BY <1>3, Zenon DEF ChooseColor
  <2> QED
    BY <2>1
<1>4. CASE ShouldChallenge(p)
  <2>1. Refuse(p) \/ \E yes : Reply(p, [type |-> "decided", challenge |-> yes])
    BY <1>4, Zenon DEF ShouldChallenge
  <2> QED
    BY <2>1
<1>5. CASE RevealForChallenge(p)
  BY <1>5 DEF RevealForChallenge
<1> QED
  BY <1>1, <1>2, <1>3, <1>4, <1>5

LEMMA OthersSee ==
  ASSUME ProtocolInv, SeenInv, NEW p \in Players, Player(p), Ongoing,
         \/ GameEnd(p) \/ HandStart(p) \/ ChooseColor(p) \/ ShouldChallenge(p) \/ RevealForChallenge(p)
         \/ ShuffleStage0(p) \/ ShuffleStage1(p) \/ ShuffleRefused(p)
  PROVE  SeenInv'
<1>1. Shape /\ Handle(p)
  BY DEF ProtocolInv, Player
<1>2. /\ Alone(p) /\ mem'[p].myCards = mem[p].myCards /\ mem'[p].cardPairs = mem[p].cardPairs
      /\ line'[p].type \in {"refused", "signed", "color", "decided", "cards"}
  <2>1. Alone(p)
    BY <1>1, Remembers
  <2>2. CASE ShuffleStage0(p) \/ ShuffleStage1(p) \/ ShuffleRefused(p)
    <3>1. line[p].type = "Shuffle"
      BY <2>2 DEF ShuffleStage0, ShuffleStage1, ShuffleRefused, Asked
    <3> QED
      BY <1>1, <2>1, <2>2, <3>1, FilesNone, Remembers
  <2>3. CASE GameEnd(p) \/ HandStart(p) \/ ChooseColor(p) \/ ShouldChallenge(p) \/ RevealForChallenge(p)
    <3>1. line[p].type \in {"GameEnd", "HandStart", "ChooseColor", "Challenge", "Reveal"}
      BY <2>3 DEF GameEnd, HandStart, ChooseColor, ShouldChallenge, RevealForChallenge, Asked
    <3> QED
      BY <1>1, <2>1, <2>3, <3>1, OtherTypes, Remembers
  <2> QED
    BY <2>2, <2>3
<1>3. SaysKeys(p)'
  BY <1>2 DEF SaysKeys
<1> QED
  BY <1>2, <1>3, CardsStaySeen

LEMMA PlayerSees ==
  ASSUME ProtocolInv, TableInv, CardsInv, WhereInv, KeyInv, ShuffleInv, PairsInv, SeenInv,
         NEW p \in Players, Player(p)
  PROVE  SeenInv'
<1> SUFFICES ASSUME Ongoing'
             PROVE  SeenInv'
  BY DEF SeenInv
<1>1. Ongoing /\ line'[p].type # "refused" /\ Handle(p)
  BY PlayerIsOngoing DEF Player
<1>2. WireInv
  BY <1>1 DEF ProtocolInv, Live, Ongoing
<1>3. CASE GameStart(p)
  BY <1>1, <1>2, <1>3, GameStartSees
<1>4. CASE GetKey(p)
  BY <1>1, <1>2, <1>4, GetKeySees
<1>5. CASE GiveCard(p)
  BY <1>1, <1>2, <1>5, GiveCardSees
<1>6. CASE Play(p)
  BY <1>1, <1>2, <1>6, PlaySees
<1>7. CASE HandEnd(p)
  BY <1>1, <1>7, HandEndSees
<1>8. CASE ShuffleStage2(p)
  BY <1>1, <1>2, <1>8, Stage2Sees
<1>9. CASE \/ GameEnd(p) \/ HandStart(p) \/ ChooseColor(p) \/ ShouldChallenge(p) \/ RevealForChallenge(p)
           \/ ShuffleStage0(p) \/ ShuffleStage1(p) \/ ShuffleRefused(p)
  BY <1>1, <1>9, OthersSee
<1> QED
  BY <1>1, <1>3, <1>4, <1>5, <1>6, <1>7, <1>8, <1>9, Zenon DEF Handle

(* A late event changes no key.                                            *)
LEMMA ArriveSees ==
  ASSUME ProtocolInv, SeenInv, Arrive
  PROVE  SeenInv'
<1>1. Shape /\ UNCHANGED <<pc, deck, held, seen, start, hand, stage, seat, line>>
  BY DEF ProtocolInv, Arrive, table, game, passing
<1>2. RecallStays
  BY <1>1, ArriveRecalls
<1>3. Ongoing' => Ongoing
  <2>1. Told3 => Told3'
    BY <1>1, ArriveTells DEF ToldStays
  <2> QED
    BY <1>1, <2>1 DEF Ongoing, Unrefused, Doomed, Terminal
<1> SUFFICES ASSUME SeenFits, \A p \in Players : KnowsCards(p) /\ SaysKeys(p)
             PROVE  SeenFits' /\ \A p \in Players : KnowsCards(p)' /\ SaysKeys(p)'
  BY <1>3 DEF SeenInv, SeenFits
<1>4. Stocked' = Stocked
  BY <1>1 DEF Stocked, Range, FacesOf
<1>5. SeenFits'
  BY <1>1, <1>2, <1>4, SeenStays
<1>6. ASSUME NEW p \in Players
      PROVE  KnowsCards(p)' /\ SaysKeys(p)'
  BY <1>1, <1>2, FiledStays DEF SaysKeys, RecallStays
<1> QED
  BY <1>5, <1>6

LEMMA StutterSees ==
  ASSUME SeenInv, UNCHANGED vars
  PROVE  SeenInv'
<1>1. UNCHANGED <<pc, deck, held, seen, start, hand, stage, seat, line, mem, event, late>>
  BY DEF vars, table, game, passing, wires, told
<1>2. RecallStays
  BY <1>1 DEF RecallStays
<1>3. Ongoing' => Ongoing
  <2>1. Told3 => Told3'
    BY <1>1 DEF Told3, Told1
  <2> QED
    BY <1>1, <2>1 DEF Ongoing, Unrefused, Doomed, Terminal
<1> SUFFICES ASSUME SeenFits, \A p \in Players : KnowsCards(p) /\ SaysKeys(p)
             PROVE  SeenFits' /\ \A p \in Players : KnowsCards(p)' /\ SaysKeys(p)'
  BY <1>3 DEF SeenInv, SeenFits
<1>4. Stocked' = Stocked
  BY <1>1 DEF Stocked, Range, FacesOf
<1>5. SeenFits'
  BY <1>1, <1>2, <1>4, SeenStays
<1>6. ASSUME NEW p \in Players
      PROVE  KnowsCards(p)' /\ SaysKeys(p)'
  BY <1>1, <1>2, FiledStays DEF SaysKeys, RecallStays
<1> QED
  BY <1>5, <1>6

LEMMA InitSees == Init => SeenInv
<1> SUFFICES ASSUME Init
             PROVE  SeenInv
  OBVIOUS
<1>1. Out = {}
  BY EmptyIsSeq DEF Init, Out
<1>2. \A p \in Players : DOMAIN mem[p].myCards = {} /\ line[p].type = "idle"
  BY EmptyIsSeq DEF Init, HandlerInit, Forgotten
<1> QED
  BY <1>1, <1>2 DEF SeenInv, KnowsCards, SaysKeys

LEMMA SeenInvariant == ASSUME Dealable PROVE Spec => []SeenInv
<1> DEFINE Known1 == /\ ProtocolInv /\ TableInv /\ CardsInv /\ SecondInv /\ WhereInv /\ KeyInv
                     /\ ShuffleInv /\ PairsInv
<1>1. Init => SeenInv
  BY InitSees
<1>2. Known1 /\ SeenInv /\ [Next]_vars => SeenInv'
  BY HostSees, PlayerSees, ArriveSees, StutterSees DEF Next, Finished
<1>3. Spec => []Known1
  BY ProtocolInvariant, TableInvariant, CardsInvariant, SecondInvariant, WhereInvariant, KeyInvariant,
     ShuffleInvariant, PairsInvariant, PTL
<1> QED
  BY <1>1, <1>2, <1>3, PTL DEF Spec
-----------------------------------------------------------------------------
\* Where a game may fail

\* What a player can do that ends a game that nobody has refused.
Blamed == Behind(turn) \/ PlayedAsNothing \/ FixedAgain

(* A game has failed because a player refused, which stays on its line, or *)
(* because of what an answer was.                                          *)
FaultInv == pc = "Failed" => (\E p \in Players : Refused(p)) \/ (Answered /\ Blamed)

(* All a player has filed opens its number.                                *)
LEMMA FiledOpens ==
  ASSUME ProtocolInv, pc \notin Terminal \cup {"Shuffle"}, NEW B, PairsFor(B), NEW v \in B
  PROVE  Decrypted(v, FiledFor(v)) = Plain(v.card)
<1> DEFINE keys == FiledFor(v)
<1>1. \A q \in Players : keys[q] = mem[q].cardPairs[v]
  BY DEF FiledFor
<1>2. PlayerKeys
  BY DEF ProtocolInv, Live
<1>3. \A q \in Players : v \in DOMAIN mem[q].cardPairs
  BY DEF PairsFor, Filled
<1> HIDE DEF keys
<1>4. AllFit(v, keys)
  BY <1>1, <1>2, <1>3 DEF AllFit, PlayerKeys
<1>5. Proper(v)
  BY DEF PairsFor
<1> QED
  BY <1>4, <1>5, AllOpen DEF keys

(* A card that is laid in time is one that the host takes.                 *)
LEMMA LaidIsGenuine ==
  ASSUME ProtocolInv, TableInv, CardsInv, SecondInv, PairsInv, LaidInv, SeenInv,
         PlayComesBack, ~Behind(turn)
  PROVE  LET play == line[turn]
             card == Decrypted(play.number, play.keys).card
         IN  /\ PlayIsGenuine(play)
             /\ PlayIsValid([card |-> card, wildColor |-> play.wildColor])
             /\ CanPlayOn(card, Seqs!Last(discard), color)
<1>1. PICK play : play = line[turn]
  OBVIOUS
<1>2. PICK v : v = play.number
  OBVIOUS
<1>3. pc \in {"Play", "PlayAgain"} /\ Answered /\ turn \in Players
  BY DEF PlayComesBack, Back, ProtocolInv, Shape
<1>4. hand = 1 /\ ~Doomed /\ CardInv /\ Unrefused /\ Sound
  BY <1>3, FirstHand DEF PlayComesBack, Early, Terminal, Waiting
<1>5. WireInv /\ HostKeys
  BY <1>3 DEF ProtocolInv, Live, Terminal
<1>6. play.type = "play"
  BY <1>1, <1>3, <1>5 DEF WireInv, PlayCase, Refusal, Answered, Requests
<1>7. v \in DOMAIN held /\ held[v] = turn
  BY <1>1, <1>2, <1>3, <1>4, <1>6 DEF Sound, Hands, Holding
<1>8. Ongoing
  BY <1>3, <1>4 DEF Ongoing, Terminal
<1>9. CardFits(play) /\ \A u \in Out : Kept(u) => seen[u] = SeenAs(u)
  BY <1>1, <1>3, <1>6, <1>8 DEF SeenInv, SaysKeys
<1>10. play.keys = FiledFor(v) /\ play.card = v.card
  BY <1>2, <1>9 DEF CardFits
<1>11. v \in Out
  BY <1>5, <1>7 DEF HostKeys
<1>12. Decrypted(v, play.keys) = Plain(v.card)
  <2>1. PICK B : PairsFor(B)
    BY <1>3, <1>4 DEF PairsInv, Terminal
  <2>2. v \in B
    BY <1>11, <2>1 DEF PairsFor
  <2> QED
    BY <1>3, <1>10, <2>1, <2>2, FiledOpens DEF Terminal
<1>13. Kept(v)
  <2>1. Split
    BY <1>3, <1>4 DEF CardInv, Dealt
  <2>2. v.card \in HeldFaces
    BY <1>7 DEF HeldFaces
  <2> QED
    BY <1>3, <2>1, <2>2 DEF Kept, Stocked, Split, Parted
<1>14. seen[v] = [play.keys EXCEPT ![turn] = NoKey]
  BY <1>7, <1>9, <1>10, <1>11, <1>13 DEF SeenAs
<1>15. PlayIsGenuine(play)
  BY <1>2, <1>7, <1>12, <1>14 DEF PlayIsGenuine, Opened, Plain
<1>16. Decrypted(v, play.keys).card = play.card
  BY <1>10, <1>12 DEF Plain
<1>17. /\ PlayIsValid([card |-> play.card, wildColor |-> play.wildColor])
       /\ CanPlayOn(play.card, Seqs!Last(discard), color)
  BY <1>1, <1>3, <1>6 DEF LaidInv
<1> QED
  BY <1>1, <1>2, <1>15, <1>16, <1>17

LEMMA CardPlayedFaults ==
  ASSUME ProtocolInv, TableInv, CardsInv, SecondInv, PairsInv, LaidInv, SeenInv, CardPlayed,
         pc' = "Failed"
  PROVE  Answered /\ Behind(turn)
<1>1. PlayComesBack /\ Answered
  BY Zenon DEF CardPlayed, PlayComesBack, Back
<1> SUFFICES ASSUME ~Behind(turn)
             PROVE  FALSE
  BY <1>1
<1>2. LET play == line[turn]
          card == Decrypted(play.number, play.keys).card
      IN  /\ PlayIsGenuine(play)
          /\ PlayIsValid([card |-> card, wildColor |-> play.wildColor])
          /\ CanPlayOn(card, Seqs!Last(discard), color)
  BY <1>1, LaidIsGenuine
<1>3. pc' = "Discarded"
  BY <1>2, Zenon DEF CardPlayed
<1> QED
  BY <1>3
-----------------------------------------------------------------------------
\* What the host makes of what is revealed

(* What the players have revealed is what they have.                       *)
Revealed ==
  /\ pc = "HandReveal" /\ hand = 1 /\ CardInv /\ Split /\ Hands /\ Unrefused
  /\ SeenFits /\ IsFiniteSet(DOMAIN held)
  /\ \A p \in Players :
       /\ line[p].keys = mem[p].cardPairs /\ line[p].cards = ShownCards(p)
       /\ KnowsCards(p) /\ IsSeq(mem[p].myCards)

LEMMA AllIsRevealed ==
  ASSUME ProtocolInv, TableInv, CardsInv, SecondInv, RevealInv, SeenInv, Back("HandReveal")
  PROVE  Revealed
<1>1. pc = "HandReveal" /\ Answered
  BY DEF Back
<1>2. hand = 1 /\ ~Doomed /\ CardInv /\ Unrefused /\ Sound
  BY <1>1, FirstHand DEF Early, Terminal, Waiting
<1>3. Ongoing
  BY <1>1, <1>2 DEF Ongoing, Terminal
<1>4. \A p \in Players : line[p].type = "revealed"
  BY <1>1 DEF RevealInv, Answered, Requests, Refusal
<1>5. SeenFits /\ \A p \in Players : KnowsCards(p) /\ SaysKeys(p)
  BY <1>3 DEF SeenInv, SeenFits
<1>6. PlayerKeys
  BY <1>1 DEF ProtocolInv, Live, Terminal
<1>7. Split /\ Hands /\ IsFiniteSet(DOMAIN held)
  BY <1>1, <1>2 DEF CardInv, Dealt, Sound
<1> QED
  BY <1>1, <1>2, <1>4, <1>5, <1>6, <1>7 DEF Revealed, SaysKeys, PlayerKeys

(* A player has revealed the cards that the host has it down for, unless   *)
(* it has played one as nothing.                                           *)
LEMMA RevealsItsCards ==
  ASSUME Revealed, ~PlayedAsNothing, NEW p \in Players
  PROVE  /\ InHand(p) = Holding(p) /\ IsFiniteSet(Holding(p))
         /\ Cardinality(Holding(p)) = Len(line[p].cards)
         /\ IsSeq(line[p].cards) /\ DOMAIN line[p].cards = DOMAIN mem[p].myCards
<1>1. HandAgrees(p) /\ pc = "HandReveal" /\ line[p].cards = ShownCards(p)
  BY DEF Revealed, Hands
<1>2. InHand(p) = Holding(p)
  <2>1. \A v \in Holding(p) \ InHand(p) : Empty(v)
    BY <1>1 DEF HandAgrees, Coming, Leaving
  <2>2. Holding(p) \subseteq InHand(p)
    BY <2>1 DEF PlayedAsNothing, Holding
  <2> QED
    BY <1>1, <2>2 DEF HandAgrees
<1>3. PICK cards : cards = mem[p].myCards
  OBVIOUS
<1>4. IsSeq(cards) /\ NumbersDiffer(cards)
  BY <1>1, <1>3 DEF Revealed, HandAgrees
<1>5. Len(cards) \in Nat /\ DOMAIN cards = 1..Len(cards)
  BY <1>4, SeqFacts
<1>6. IsSeq(line[p].cards) /\ DOMAIN line[p].cards = DOMAIN cards /\ Len(line[p].cards) = Len(cards)
  <2>1. ShownCards(p) = [j \in 1..Len(cards) |-> [card |-> cards[j].card, number |-> cards[j].number]]
    BY <1>3, <1>5 DEF ShownCards
  <2> QED
    BY <1>1, <1>5, <2>1, OnInterval
<1>7. IsFiniteSet(Holding(p)) /\ Cardinality(Holding(p)) = Len(cards)
  <2> DEFINE f == [j \in 1..Len(cards) |-> cards[j].number]
  <2>1. InHand(p) = {cards[j].number : j \in 1..Len(cards)}
    BY <1>3, <1>5 DEF InHand, Range
  <2>2. f \in [1..Len(cards) -> InHand(p)]
    BY <2>1
  <2>3. \A a, b \in 1..Len(cards) : f[a] = f[b] => a = b
    <3>1. \A a \in 1..Len(cards) : f[a] = cards[a].number
      OBVIOUS
    <3> HIDE DEF f
    <3> QED
      BY <1>4, <1>5, <3>1 DEF NumbersDiffer
  <2>4. \A t \in InHand(p) : \E a \in 1..Len(cards) : f[a] = t
    BY <2>1
  <2>5. IsFiniteSet(1..Len(cards)) /\ Cardinality(1..Len(cards)) = Len(cards)
    <3>1. 1 \in Int /\ Len(cards) \in Int
      BY <1>5
    <3>2. /\ IsFiniteSet(1..Len(cards))
          /\ Cardinality(1..Len(cards)) = IF 1 > Len(cards) THEN 0 ELSE Len(cards) - 1 + 1
      BY <3>1, FS_Interval
    <3> QED
      BY <1>5, <3>2
  <2>6. PICK S, T : S = 1..Len(cards) /\ T = InHand(p)
    OBVIOUS
  <2> HIDE DEF f
  <2>7. IsFiniteSet(S) /\ f \in [S -> T]
    BY <2>2, <2>5, <2>6
  <2>8. (\A a, b \in S : f[a] = f[b] => a = b) /\ \A t \in T : \E a \in S : f[a] = t
    BY <2>3, <2>4, <2>6
  <2>9. IsFiniteSet(T) /\ Cardinality(T) = Cardinality(S)
    BY <2>7, <2>8, OneToOne
  <2> QED
    BY <1>2, <2>5, <2>6, <2>9
<1> QED
  BY <1>2, <1>3, <1>6, <1>7

(* A number that has come out and is one that a card in the deck has again *)
(* is of a card that no key changes.                                       *)
LEMMA NotKeptIsFixed ==
  ASSUME Revealed, Shape, HostKeys, ShuffleInv, NEW v \in Out, ~Kept(v)
  PROVE  FixedAgain
<1>1. ~Hidden(v) /\ v.card \in Range(FacesOf(deck))
  BY DEF Kept, Stocked, Revealed
<1>2. pc \notin Early \cup Terminal \cup {"Shuffle"} /\ hand = 1
  BY DEF Revealed, Early, Terminal
<1>3. shuffles > 1
  <2>1. shuffles \in Nat /\ shuffles >= 1
    BY <1>2 DEF Shape, ShuffleInv
  <2>2. v.card \notin HeldFaces \cup Range(discard)
    BY <1>1 DEF Revealed, Split, Parted
  <2>3. shuffles # 1
    BY <1>2, <2>2 DEF ShuffleInv
  <2> QED
    BY <2>1, <2>3
<1>4. v.card \in Range(start)
  <2>1. Range(FacesOf(work)) = Range(start)
    BY <1>2 DEF ShuffleInv
  <2>2. PICK j \in DOMAIN deck : v.card = deck[j].card
    BY <1>1 DEF FacesOf, Range
  <2>3. j \in 1..Len(deck) /\ Len(deck) <= Len(work) /\ j \in DOMAIN work
    BY SeqFacts DEF Shape, HostKeys
  <2>4. deck[j] = work[j]
    BY <2>3 DEF HostKeys
  <2>5. v.card \in Range(FacesOf(work))
    BY <2>2, <2>3, <2>4 DEF FacesOf, Range
  <2> QED
    BY <2>1, <2>5
<1> QED
  BY <1>1, <1>2, <1>3, <1>4 DEF FixedAgain, Hidden

LEMMA AnswersFit ==
  ASSUME Mended = Flaws, Revealed, Shape, HostKeys, ShuffleInv, ~PlayedAsNothing, ~FixedAgain,
         NEW p \in Players
  PROVE  AnswerFits(p)
<1> DEFINE cards == line[p].cards
           mine == {cards[j].number : j \in DOMAIN cards}
<1>1. /\ InHand(p) = Holding(p) /\ Cardinality(Holding(p)) = Len(cards)
      /\ DOMAIN cards = DOMAIN mem[p].myCards
  BY RevealsItsCards
<1>2. mine = InHand(p)
  <2>1. PICK c : c = mem[p].myCards
    OBVIOUS
  <2>2. InHand(p) = {c[j].number : j \in DOMAIN c}
    BY <2>1 DEF InHand, Range
  <2>3. \A j \in DOMAIN c : cards[j].number = c[j].number
    <3>1. cards = [j \in DOMAIN c |-> [card |-> c[j].card, number |-> c[j].number]]
      BY <2>1, Zenon DEF Revealed, ShownCards
    <3> HIDE DEF cards
    <3> QED
      BY <3>1
  <2> HIDE DEF cards
  <2> QED
    BY <1>1, <2>1, <2>2, <2>3
<1>3. Len(cards) = CardsRemaining(p)
  <2>1. CardsRemaining(p) = Cardinality(Holding(p))
    BY Zenon DEF CardsRemaining, Holding, Flaws
  <2> QED
    BY <1>1, <2>1
<1> HIDE DEF cards
<1>4. \A v \in mine : v \in DOMAIN held /\ held[v] = p
  BY <1>1, <1>2 DEF Holding
<1>5. ASSUME NEW v \in DOMAIN line[p].keys \cap DOMAIN seen
      PROVE  seen[v][p] = IF v \in mine THEN NoKey ELSE line[p].keys[v]
  <2>1. Kept(v)
    BY <1>5, NotKeptIsFixed DEF Out
  <2>2. seen[v] = SeenAs(v)
    BY <1>5, <2>1 DEF Revealed, SeenFits, Out
  <2>3. FiledFor(v)[p] = line[p].keys[v] /\ DOMAIN FiledFor(v) = Players
    BY DEF FiledFor, Revealed
  <2>4. v \in mine <=> v \in DOMAIN held /\ held[v] = p
    BY <1>1, <1>2 DEF Holding
  <2> HIDE DEF mine
  <2>5. CASE v \in DOMAIN held
    <3>1. seen[v] = [FiledFor(v) EXCEPT ![held[v]] = NoKey]
      BY <2>2, <2>5 DEF SeenAs
    <3> QED
      BY <2>3, <2>4, <2>5, <3>1
  <2>6. CASE v \notin DOMAIN held
    BY <2>2, <2>3, <2>4, <2>6 DEF SeenAs
  <2> QED
    BY <2>5, <2>6
<1> QED
  BY <1>3, <1>4, <1>5 DEF AnswerFits, cards

\* The cards a player shows, and those that all of them show.
Faces(p) == [j \in DOMAIN line[p].cards |-> line[p].cards[j].card]

(* A player shows the card of each number that the host has it down for.   *)
LEMMA FacesShown ==
  ASSUME Revealed, ~PlayedAsNothing, NEW p \in Players
  PROVE  /\ \A j \in DOMAIN line[p].cards :
              LET c == line[p].cards[j]
              IN  c.number \in DOMAIN held /\ held[c.number] = p /\ c.card = c.number.card
         /\ IsSeq(Faces(p)) /\ Apart(Faces(p)) /\ Range(Faces(p)) = {v.card : v \in Holding(p)}
<1>1. PICK cards : cards = line[p].cards
  OBVIOUS
<1>2. PICK c : c = mem[p].myCards
  OBVIOUS
<1>3. /\ InHand(p) = Holding(p) /\ IsSeq(cards) /\ DOMAIN cards = DOMAIN c
  BY <1>1, <1>2, RevealsItsCards
<1>4. Len(cards) \in Nat /\ DOMAIN cards = 1..Len(cards)
  BY <1>3, SeqFacts
<1>5. cards = [j \in DOMAIN c |-> [card |-> c[j].card, number |-> c[j].number]]
  BY <1>1, <1>2, Zenon DEF Revealed, ShownCards
<1>6. \A j \in DOMAIN c : cards[j].card = c[j].card /\ cards[j].number = c[j].number
  BY <1>5
<1>7. \A j \in DOMAIN c : c[j].card = c[j].number.card
  BY <1>2 DEF Revealed, KnowsCards, CardFits
<1>8. {c[j].number : j \in DOMAIN c} = Holding(p)
  BY <1>2, <1>3 DEF InHand, Range
<1>9. NumbersDiffer(c) /\ HeldApart
  BY <1>2 DEF Revealed, Hands, HandAgrees, Split
<1>10. \A j \in DOMAIN cards : /\ cards[j].number \in DOMAIN held /\ held[cards[j].number] = p
                               /\ cards[j].card = cards[j].number.card
  BY <1>3, <1>6, <1>7, <1>8 DEF Holding
<1>11. PICK f : f = [j \in DOMAIN cards |-> cards[j].card]
  OBVIOUS
<1>12. DOMAIN f = DOMAIN cards /\ \A j \in DOMAIN f : f[j] = cards[j].card
  BY <1>11
<1>13. IsSeq(f)
  BY <1>4, <1>11, <1>12, OnInterval
<1>14. Apart(f)
  <2> SUFFICES ASSUME NEW i \in DOMAIN f, NEW j \in DOMAIN f, f[i] = f[j]
               PROVE  i = j
    BY DEF Apart
  <2>1. cards[i].number = cards[j].number
    BY <1>9, <1>10, <1>12 DEF HeldApart
  <2>2. c[i].number = c[j].number
    BY <1>3, <1>6, <1>12, <2>1
  <2> QED
    BY <1>3, <1>9, <1>12, <2>2 DEF NumbersDiffer
<1>15. Range(f) = {v.card : v \in Holding(p)}
  <2>1. Range(f) = {cards[j].number.card : j \in DOMAIN cards}
    BY <1>10, <1>12 DEF Range
  <2>2. {cards[j].number : j \in DOMAIN cards} = Holding(p)
    BY <1>3, <1>6, <1>8
  <2> QED
    BY <2>1, <2>2
<1>16. Faces(p) = f
  BY <1>1, <1>11 DEF Faces
<1> QED
  BY <1>1, <1>10, <1>13, <1>14, <1>15, <1>16

(* Together they show each card that is held, once.                        *)
LEMMA AllFacesShown ==
  ASSUME Revealed, HostKeys, ~PlayedAsNothing
  PROVE  IsSeq(Shown) /\ Apart(Shown) /\ Range(Shown) = HeldFaces
<1> DEFINE seqs == [i \in 1..N |-> Faces(i - 1)]
<1>1. N \in Nat \ {0} /\ \A i \in 1..N : i - 1 \in Players
  BY NAssumption DEF Players
<1>2. Shown = Seqs!FlattenSeq(seqs)
  BY Zenon DEF Shown, Faces
<1>3. Len(seqs) = N /\ \A i \in 1..N : seqs[i] = Faces(i - 1)
  <2>1. IsSeq(seqs) /\ Len(seqs) = N
    BY <1>1, OnInterval
  <2> QED
    BY <2>1
<1> HIDE DEF seqs
<1>4. \A i \in 1..N : /\ IsSeq(seqs[i]) /\ Apart(seqs[i])
                      /\ Range(seqs[i]) = {v.card : v \in Holding(i - 1)}
  BY <1>1, <1>3, FacesShown
<1>5. HeldApart
  BY DEF Revealed, Split
<1>6. ASSUME NEW i \in 1..N, NEW j \in 1..N, i # j
      PROVE  Range(seqs[i]) \cap Range(seqs[j]) = {}
  <2> SUFFICES ASSUME NEW v \in Holding(i - 1), NEW w \in Holding(j - 1), v.card = w.card
               PROVE  FALSE
    BY <1>4
  <2>1. v = w
    BY <1>5 DEF HeldApart, Holding
  <2>2. held[v] = i - 1 /\ held[v] = j - 1
    BY <2>1 DEF Holding
  <2> QED
    BY <1>6, <2>2
<1>7. IsSeq(Shown) /\ Apart(Shown) /\ Range(Shown) = UNION {Range(seqs[i]) : i \in 1..N}
  BY <1>1, <1>2, <1>3, <1>4, <1>6, FlattenApart
<1>8. UNION {Range(seqs[i]) : i \in 1..N} = HeldFaces
  <2>1. ASSUME NEW x \in HeldFaces
        PROVE  \E i \in 1..N : x \in Range(seqs[i])
    <3>1. PICK v \in DOMAIN held : x = v.card
      BY DEF HeldFaces
    <3>2. held[v] \in Players
      BY DEF HostKeys
    <3>3. held[v] + 1 \in 1..N /\ v \in Holding((held[v] + 1) - 1)
      BY <1>1, <3>2 DEF Players, Holding
    <3> QED
      BY <1>4, <3>1, <3>3
  <2>2. \A i \in 1..N : Range(seqs[i]) \subseteq HeldFaces
    BY <1>4 DEF HeldFaces, Holding
  <2> QED
    BY <2>1, <2>2
<1> QED
  BY <1>7, <1>8

(* So they fit, and with the discards and the deck they are the cards of   *)
(* the start.                                                              *)
LEMMA AllCardsFit ==
  ASSUME Revealed, ProtocolInv, ~PlayedAsNothing, NEW B, PairsFor(B)
  PROVE  CardsFit
<1>1. pc = "HandReveal" /\ Shape /\ HostKeys /\ Split
  BY DEF Revealed, ProtocolInv
<1>2. Range(deck) \cup DOMAIN held \subseteq B
  BY <1>1 DEF PairsFor, HostKeys
<1>3. ASSUME NEW v \in B
      PROVE  OpenedBy(v) = Plain(v.card)
  <2>1. [q \in Players |-> line[q].keys[v]] = FiledFor(v)
    BY DEF Revealed, FiledFor
  <2>2. Decrypted(v, FiledFor(v)) = Plain(v.card)
    BY <1>1, FiledOpens DEF Terminal
  <2> QED
    BY <2>1, <2>2, Zenon DEF OpenedBy
<1>4. \A v \in B : Opened(OpenedBy(v)) /\ OpenedBy(v).card = v.card
  BY <1>3 DEF Plain, Opened
<1>5. ASSUME NEW p \in Players, NEW j \in DOMAIN line[p].cards
      PROVE  LET c == line[p].cards[j]
             IN  Opened(OpenedBy(c.number)) /\ OpenedBy(c.number).card = c.card
  BY <1>2, <1>4, FacesShown
<1>6. IsSeq(deck) /\ IsSeq(discard)
  BY <1>1 DEF Shape
<1>7. \A i \in DOMAIN deck : deck[i] \in B
  BY <1>2 DEF Range
<1>8. [i \in DOMAIN deck |-> OpenedBy(deck[i]).card] = FacesOf(deck)
  BY <1>4, <1>7 DEF FacesOf
<1>9. Sorted(discard \o Shown \o FacesOf(deck)) = FullDeck
  <2>1. PICK d, s, f : d = discard /\ s = Shown /\ f = FacesOf(deck)
    OBVIOUS
  <2>2. IsSeq(d) /\ Apart(d) /\ IsSeq(f) /\ Apart(f) /\ Parted(Range(f), HeldFaces, Range(d))
    BY <1>1, <1>6, <2>1, FacesAreSeq DEF Split
  <2>3. IsSeq(s) /\ Apart(s) /\ Range(s) = HeldFaces
    BY <1>1, <2>1, AllFacesShown
  <2>4. IsSeq(d \o s) /\ Range(d \o s) = Range(d) \cup HeldFaces /\ Apart(d \o s)
    BY <2>2, <2>3, Joined DEF Parted
  <2>5. IsSeq(d \o s \o f) /\ Apart(d \o s \o f) /\ Range(d \o s \o f) = StartCards
    BY <2>2, <2>4, Joined DEF Parted
  <2> QED
    BY <2>1, <2>5, SortedIsFullDeck
<1> QED
  BY <1>4, <1>5, <1>7, <1>8, <1>9 DEF CardsFit

LEMMA HandRevealedFaults ==
  ASSUME Mended = Flaws, ProtocolInv, TableInv, CardsInv, SecondInv, ShuffleInv, PairsInv, RevealInv,
         SeenInv, HandRevealed, pc' = "Failed"
  PROVE  Answered /\ Blamed
<1>1. Back("HandReveal") /\ Answered
  BY Zenon DEF HandRevealed, Back
<1> SUFFICES ASSUME ~PlayedAsNothing, ~FixedAgain
             PROVE  FALSE
  BY <1>1 DEF Blamed
<1>2. Revealed
  BY <1>1, AllIsRevealed
<1>3. Shape /\ HostKeys
  BY DEF ProtocolInv
<1>4. \A p \in Players : AnswerFits(p)
  BY <1>2, <1>3, AnswersFit
<1>5. CardsFit
  <2>1. PICK B : PairsFor(B)
    BY <1>2 DEF PairsInv, Revealed, Terminal
  <2> QED
    BY <1>2, <2>1, AllCardsFit
<1>6. "deckKeys" \in Mended
  BY DEF Flaws
<1>7. pc' = "HandSign"
  BY <1>4, <1>5, <1>6, Zenon DEF HandRevealed
<1> QED
  BY <1>7

\* What is known of a game where it may fail.
FaultingInv ==
  /\ ProtocolInv /\ TableInv /\ CardsInv /\ OrderInv /\ SecondInv /\ WhereInv /\ ShuffleInv
  /\ PairsInv /\ RevealInv /\ HeldInv /\ LaidInv /\ SeenInv

(* The other steps of the host do not fail.                                *)
LEMMA OthersGoOn ==
  ASSUME Shape, Host, ~(PlayerRefuses \/ PassOn \/ TurnedUp \/ EndTurn \/ CardPlayed \/ HandRevealed)
  PROVE  pc' # "Failed"
<1>1. CASE Announce
  <2>1. AfterFirst \in {"FirstCard", "Draw", "FirstEffect", "Turn"}
    BY DEF AfterFirst
  <2> QED
    BY <1>1, <2>1 DEF Announce, Announcement, Shape
<1>2. CASE StartGame \/ GameStarted \/ StartHand \/ HandStarted \/ AfterHand \/ GameEnded
  BY <1>2 DEF StartGame, GameStarted, StartHand, HandStarted, AfterHand, GameEnded, Shuffle
<1>3. CASE ShuffleDone \/ Reshuffle
  BY <1>3 DEF ShuffleDone, Reshuffle, Shuffle
<1>4. CASE Deal \/ DealTo \/ KeysGiven \/ CardGiven \/ TurnUp \/ FirstColor
  BY <1>4 DEF Deal, DealTo, KeysGiven, CardGiven, TurnUp, FirstColor, StartDraw
<1>5. CASE AskPlay \/ NothingPlayed \/ HandSigned
  BY <1>5 DEF AskPlay, NothingPlayed, StartDraw, HandSigned
<1>6. CASE NextDrawsTwo \/ AskChallenge \/ ChallengeDecided \/ NoEffect
  BY <1>6 DEF NextDrawsTwo, AskChallenge, ChallengeDecided, NoEffect, StartDraw
<1> QED
  BY <1>1, <1>2, <1>3, <1>4, <1>5, <1>6, Zenon DEF Host

(* Nor is a working set ever too small.                                    *)
LEMMA PassOnGoesOn ==
  ASSUME ProtocolInv, TableInv, CardsInv, SecondInv, OrderInv, PassOn
  PROVE  pc' # "Failed"
<1>1. Back("Shuffle") /\ pc = "Shuffle"
  BY DEF PassOn, Back
<1>2. ~Doomed /\ CardInv /\ Sound
  BY <1>1, FirstHand DEF Early, Terminal, Waiting
<1>3. Len(IF stage < 2 THEN line[seat].cards ELSE work) = Len(start)
  BY <1>1, <1>2, WorkIsAsLong
<1> QED
  BY <1>1, <1>3 DEF PassOn

LEMMA HostFaults ==
  ASSUME Mended = Flaws, FaultingInv, Host
  PROVE  FaultInv'
<1> USE DEF FaultingInv
<1> SUFFICES ASSUME pc' = "Failed"
             PROVE  (\E p \in Players : Refused(p))' \/ (Answered' /\ Blamed')
  BY DEF FaultInv
<1>1. CASE PlayerRefuses
  BY <1>1 DEF PlayerRefuses, Refused, wires
<1>2. CASE PassOn
  BY <1>2, PassOnGoesOn
<1>3. CASE TurnedUp
  BY <1>3, TurnedUpDeals
<1>4. CASE EndTurn
  <2>1. pc = "EndTurn"
    BY <1>4 DEF EndTurn
  <2>2. Sound
    BY <2>1, FirstHand DEF Early, Terminal, Going
  <2> QED
    BY <1>4, <2>2, EndTurnHolds
<1>5. CASE CardPlayed \/ HandRevealed
  <2>1. Answered /\ Blamed
    BY <1>5, CardPlayedFaults, HandRevealedFaults DEF Blamed
  <2>2. UNCHANGED <<line, mem, event, turn, held, hand, shuffles, start>>
    <3>1. CASE CardPlayed
      BY <1>5, <3>1, Zenon DEF CardPlayed, told, game, passing
    <3>2. CASE HandRevealed
      BY <1>5, <3>2, Zenon DEF HandRevealed, told, game, passing, table
    <3> QED
      BY <1>5, <3>1, <3>2
  <2> QED
    BY <2>1, <2>2 DEF Answered, Blamed, Behind, PlayedAsNothing, InHand, FixedAgain
<1> QED
  BY <1>1, <1>2, <1>3, <1>4, <1>5, OthersGoOn DEF ProtocolInv

(* A player that has been asked goes on answering; those that have refused *)
(* do not take it back.                                                    *)
LEMMA PlayerFaults ==
  ASSUME ProtocolInv, FaultInv, NEW p \in Players, Player(p)
  PROVE  FaultInv'
<1> SUFFICES ASSUME pc' = "Failed"
             PROVE  \E q \in Players : Refused(q)'
  BY DEF FaultInv
<1>1. pc = "Failed" /\ Alone(p) /\ line[p].type \in Requests
  BY Remembers DEF Player, ProtocolInv
<1>2. PICK q \in Players : Refused(q)
  BY <1>1 DEF FaultInv, Answered
<1>3. q # p
  BY <1>1, <1>2 DEF Refused, Requests
<1> QED
  BY <1>1, <1>2, <1>3 DEF Alone, Refused

LEMMA ArriveFaults ==
  ASSUME LateInv, FaultInv, Arrive \/ UNCHANGED vars
  PROVE  FaultInv'
<1>1. CASE Arrive
  <2>1. pc' = pc /\ line' = line /\ ~Answered
    <3>1. PICK l \in late : line[l[1]].type \in Requests
      BY <1>1 DEF Arrive
    <3> QED
      BY <1>1, <3>1 DEF LateInv, Arrive, Answered
  <2> QED
    BY <2>1 DEF FaultInv, Refused
<1>2. CASE UNCHANGED vars
  BY <1>2 DEF vars, game, passing, table, wires, told, FaultInv, Refused, Answered, Blamed, Behind,
     PlayedAsNothing, InHand, FixedAgain
<1> QED
  BY <1>1, <1>2

LEMMA FaultInvariant == ASSUME Dealable, Mended = Flaws PROVE Spec => []FaultInv
<1>1. Init => FaultInv
  BY DEF Init, FaultInv
<1>2. FaultingInv /\ LateInv /\ FaultInv /\ [Next]_vars => FaultInv'
  BY HostFaults, PlayerFaults, ArriveFaults DEF Next, Finished, FaultingInv
<1>3. ASSUME ProtocolInv, TableInv, CardsInv, OrderInv, SecondInv, WhereInv /\ BeginInv, ShuffleInv,
             PairsInv, RevealInv, HeldInv, LaidInv, SeenInv
      PROVE  FaultingInv
  BY <1>3 DEF FaultingInv
<1> QED
  BY <1>1, <1>2, <1>3, ProtocolInvariant, TableInvariant, CardsInvariant, OrderInvariant,
     SecondInvariant, BeginInvariant, ShuffleInvariant, PairsInvariant, RevealInvariant,
     HeldInvariant, LaidInvariant, SeenInvariant, LateInvariant, PTL DEF Spec

(* A game that nobody refuses to go on with (client_player.go, deck.go)    *)
(* fails only on a card that was played without the last event, on one     *)
(* that was played as no bytes at all or on one that no key changes and    *)
(* that has been shuffled again: the host takes every other card that is   *)
(* laid and every other hand that is revealed, finds the working set as    *)
(* large as it was, and never sees two players without cards.              *)
THEOREM FaultsAreExplained ==
  ASSUME N * HandSize \in 1..Cardinality(StartCards)-1, Mended = Flaws
  PROVE  Spec => []FaultsExplained
<1>1. FaultInv => FaultsExplained
  BY DEF FaultInv, FaultsExplained, Blamed
<1>2. Dealable
  BY DEF Dealable, M
<1>3. Spec => []FaultInv
  BY <1>2, FaultInvariant
<1> QED
  BY <1>1, <1>3, PTL
=============================================================================
